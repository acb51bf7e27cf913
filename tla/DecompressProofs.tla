-------------------------- MODULE DecompressProofs --------------------------
(***************************************************************************)
(* Proofs about the decoders of a compressed extent, for every sector      *)
(* size, cap and extent: the output never passes the cap and no length an  *)
(* extent holds leads outside the input.                                   *)
(***************************************************************************)
EXTENDS Decompress, SequenceTheorems, TLAPS

Byte == (Nat \cup {"junk"}) \X Nat

(* Where the decoders stand: the output within the cap; in the LZO loop a  *)
(* total that lies inside the input; in the zstd loops a frame of the      *)
(* extent and no more read from it than it has.                            *)
DecodeInv ==
  /\ extent \in Extents
  /\ p \in Nat /\ got \in Nat
  /\ dst \in Seq(Byte) /\ Len(dst) <= MaxDecompressed
  /\ result # "panic"
  /\ pc = "lzo" => extent.algorithm = "lzo" /\ HeaderLen <= p /\ extent.total <= SrcLen
  /\ pc \in {"frame", "read"} => extent.algorithm = "zstd" /\ p <= Len(extent.frames)
  /\ pc = "read" => p < Len(extent.frames) /\ got <= Frame.plen

(* Appending to the output.                                                *)
LEMMA AppendToOutput ==
  ASSUME NEW a \in Seq(Byte), NEW b \in Seq(Byte)
  PROVE  a \o b \in Seq(Byte) /\ Len(a \o b) = Len(a) + Len(b) /\ Len(a) \in Nat /\ Len(b) \in Nat
BY ConcatProperties, LenProperties

(* The plaintext of a piece, and what a codec makes of anything else.      *)
LEMMA PlainIsBytes ==
  ASSUME NEW s, s.id \in Nat, s.plen \in Nat
  PROVE  Plain(s) \in Seq(Byte) /\ Len(Plain(s)) = s.plen
BY DEF Plain, Byte

\* What a codec may make of bytes no compressor wrote is a sequence of bytes.
LEMMA JunkIsBytes ==
  ASSUME NEW n \in Nat
  PROVE  Junk(n) \in Seq(Byte) /\ Len(Junk(n)) = n
BY DEF Junk, Byte

(* A slice of the frame's plaintext.                                       *)
LEMMA SliceIsBytes ==
  ASSUME NEW a \in Seq(Byte), NEW g \in Nat, NEW n \in Nat, g + n <= Len(a)
  PROVE  SubSeq(a, g + 1, g + n) \in Seq(Byte) /\ Len(SubSeq(a, g + 1, g + n)) = n
BY SubSeqProperties

(* A step that changes nothing but the control.                            *)
LEMMA ReturnKeeps ==
  ASSUME DecodeInv, NEW r, r # "panic", Return(r)
  PROVE  DecodeInv'
BY DEF DecodeInv, Return, SrcLen, Frame

(* zlib: the inflate is limited to the room in dst.                        *)
LEMMA ZlibKeeps ==
  ASSUME DecodeInv, DecodeZlib
  PROVE  DecodeInv'
<1>1. CASE Bad
  BY <1>1, ReturnKeeps DEF Bad
<1>2. CASE /\ Len(extent.plain) <= MaxDecompressed - Len(dst)
           /\ dst' = dst \o extent.plain
           /\ pc' = "returned" /\ result' = "ok"
           /\ UNCHANGED <<extent, build, p, got>>
  <2>1. extent.plain \in Seq(Nat \X Nat)
    BY InputsAssumption DEF DecodeInv, DecodeZlib, Calling
  <2>2. extent.plain \in Seq(Byte)
    <3>1. Nat \X Nat \subseteq Byte
      BY DEF Byte
    <3> QED
      BY <2>1, <3>1, SeqMonotonic
  <2>3. dst' \in Seq(Byte) /\ Len(dst') <= MaxDecompressed
    BY <1>2, <2>2, AppendToOutput, SizesAssumption DEF DecodeInv
  <2> QED
    BY <1>2, <2>3 DEF DecodeInv
<1> QED
  BY <1>1, <1>2 DEF DecodeZlib

(* lzo::decode enters its loop only with a total inside the input.         *)
LEMMA StartKeeps ==
  ASSUME DecodeInv, StartLzo \/ StartZstd
  PROVE  DecodeInv'
<1>1. CASE StartLzo
  <2>1. CASE Bad
    BY <2>1, ReturnKeeps DEF Bad
  <2>2. CASE ~Bad
    <3>1. /\ Enter("lzo", HeaderLen) /\ extent.algorithm = "lzo"
          /\ ~(SrcLen < HeaderLen \/ extent.total > SrcLen \/ extent.total < HeaderLen)
      BY <1>1, <2>2 DEF StartLzo, Calling
    <3>2. extent.total \in Nat /\ extent.bytes \in Seq(LzoBytes)
      BY <3>1, InputsAssumption DEF DecodeInv
    <3>3. extent.total <= SrcLen
      BY <3>1, <3>2 DEF SrcLen
    <3>4. HeaderLen \in Nat /\ HeaderLen <= HeaderLen
      BY SizesAssumption
    <3> QED
      BY <3>1, <3>3, <3>4 DEF DecodeInv, Enter, SrcLen
  <2> QED
    BY <2>1, <2>2
<1>2. CASE StartZstd
  <2>1. extent.algorithm = "zstd" /\ Enter("frame", 0)
    BY <1>2 DEF StartZstd, Calling
  <2>2. extent.frames \in Seq(Frames)
    BY <2>1, InputsAssumption DEF DecodeInv
  <2>3. 0 <= Len(extent.frames)
    BY <2>2
  <2> QED
    BY <2>1, <2>3 DEF DecodeInv, Enter
<1> QED
  BY <1>1, <1>2

(* A header is never looked for behind the cursor.                         *)
LEMMA HeaderAtMoves ==
  ASSUME NEW a \in Nat
  PROVE  HeaderAt(a) \in Nat /\ a <= HeaderAt(a)
<1>1. Sectorsize \in Nat /\ Sectorsize > 0
  BY SizesAssumption
<1>2. a % Sectorsize \in 0 .. (Sectorsize - 1)
  BY <1>1
<1> QED
  BY <1>1, <1>2 DEF HeaderAt

(* The bytes of an LZO extent.                                             *)
LEMMA LzoByteTypes ==
  ASSUME NEW b \in LzoBytes
  PROVE  /\ b.is = "word" => b.value \in Nat
         /\ b.is = "segment" => b.of.id \in Nat /\ b.of.plen \in Nat
<1>1. CASE b \in [is : {"word"}, value : Nat]
  BY <1>1
<1>2. CASE b \in [is : {"segment"}, of : Pieces, at : Nat]
  BY <1>2 DEF Pieces
<1>3. CASE b = Other
  BY <1>3 DEF Other
<1> QED
  BY <1>1, <1>2, <1>3 DEF LzoBytes

(* lzokay writes at most the one sector its buffer holds.                  *)
LEMMA LzokayIsBounded ==
  ASSUME NEW a, NEW e, extent.bytes[a + 1] \in LzoBytes,
         NEW o \in Lzokay(a, e), o.ok
  PROVE  o.bytes \in Seq(Byte) /\ Len(o.bytes) <= Sectorsize
<1> DEFINE first == extent.bytes[a + 1]
<1>1. CASE first.is = "segment" /\ HoldsSegment(first.of, a, e)
  <2>1. first.of.plen <= Sectorsize /\ o.bytes = Plain(first.of)
    BY <1>1 DEF Lzokay
  <2>2. first.of.id \in Nat /\ first.of.plen \in Nat
    BY <1>1, LzoByteTypes
  <2>3. PICK s : s = first.of
    OBVIOUS
  <2> QED
    BY <2>1, <2>2, <2>3, PlainIsBytes
<1>2. CASE ~(first.is = "segment" /\ HoldsSegment(first.of, a, e))
  <2>1. PICK n \in {0, 1, Sectorsize} : o.bytes = Junk(n)
    BY <1>2 DEF Lzokay
  <2>2. n \in Nat /\ n <= Sectorsize
    BY SizesAssumption
  <2> QED
    BY <2>1, <2>2, JunkIsBytes
<1> QED
  BY <1>1, <1>2

(* One segment: its payload lies inside the total, so inside the input,    *)
(* and a whole sector fits in dst.                                         *)
LEMMA LzoSegmentKeeps ==
  ASSUME DecodeInv, LzoSegment
  PROVE  DecodeInv'
<1>1. /\ pc = "lzo" /\ extent.algorithm = "lzo" /\ extent.total <= SrcLen
      /\ extent \in Extents /\ p \in Nat /\ HeaderLen <= p
  BY DEF DecodeInv, LzoSegment
<1>2. /\ extent.total \in Nat /\ extent.bytes \in Seq(LzoBytes) /\ SrcLen \in Nat
  BY <1>1, InputsAssumption DEF SrcLen
<1>3. PICK h, at : h = HeaderAt(p) /\ at = h + HeaderLen
  OBVIOUS
<1>4. /\ h \in Nat /\ p <= h /\ HeaderLen \in Nat /\ HeaderLen > 0 /\ at \in Nat
      /\ HeaderLen <= at
  BY <1>1, <1>3, HeaderAtMoves, SizesAssumption
<1>5. PICK n \in U32At(h) :
        IF LzoVerdict(at, n) # "decode" THEN Return(LzoVerdict(at, n))
        ELSE \E o \in Lzokay(at, at + n) :
               IF ~o.ok THEN Bad
               ELSE /\ dst' = dst \o o.bytes
                    /\ p' = at + n
                    /\ UNCHANGED <<extent, build, pc, got, result>>
  BY <1>3 DEF LzoSegment
<1>6. at <= SrcLen
  BY <1>3 DEF LzoSegment
<1>7. n \in Nat
  <2>1. h + 1 \in 1 .. Len(extent.bytes)
    BY <1>2, <1>3, <1>4, <1>6 DEF SrcLen
  <2>2. extent.bytes[h + 1] \in LzoBytes
    BY <1>2, <2>1, ElementOfSeq
  <2> QED
    BY <1>5, <2>2, LzoByteTypes, InputsAssumption DEF U32At
<1>8. LzoVerdict(at, n) # "panic"
  BY <1>1, <1>2, <1>4, <1>7 DEF LzoVerdict
<1>9. CASE LzoVerdict(at, n) # "decode"
  BY <1>5, <1>8, <1>9, ReturnKeeps
<1>10. CASE LzoVerdict(at, n) = "decode"
  <2>1. /\ n # 0 /\ ~(at + n > SrcLen) /\ ~(Len(dst) + Sectorsize > MaxDecompressed)
    BY <1>10 DEF LzoVerdict
  <2>2. PICK o \in Lzokay(at, at + n) :
          IF ~o.ok THEN Bad
          ELSE /\ dst' = dst \o o.bytes
               /\ p' = at + n
               /\ UNCHANGED <<extent, build, pc, got, result>>
    BY <1>5, <1>10
  <2>3. CASE ~o.ok
    BY <2>2, <2>3, ReturnKeeps DEF Bad
  <2>4. CASE o.ok
    <3>1. at + 1 \in 1 .. Len(extent.bytes)
      BY <1>2, <1>4, <1>7, <2>1 DEF SrcLen
    <3>2. extent.bytes[at + 1] \in LzoBytes
      BY <1>2, <3>1, ElementOfSeq
    <3>3. o.bytes \in Seq(Byte) /\ Len(o.bytes) <= Sectorsize
      BY <2>4, <3>2, LzokayIsBounded
    <3>4. dst' = dst \o o.bytes /\ p' = at + n /\ UNCHANGED <<extent, build, pc, got, result>>
      BY <2>2, <2>4
    <3>5. dst' \in Seq(Byte) /\ Len(dst') <= MaxDecompressed
      BY <2>1, <3>3, <3>4, AppendToOutput, SizesAssumption DEF DecodeInv
    <3>6. p' \in Nat /\ HeaderLen <= p'
      BY <1>4, <1>7, <3>4
    <3> QED
      BY <1>1, <3>4, <3>5, <3>6 DEF DecodeInv, SrcLen
  <2> QED
    BY <2>3, <2>4
<1> QED
  BY <1>9, <1>10

(* A header past the total is refused; one past the input cannot be.       *)
LEMMA LzoShortHeaderKeeps ==
  ASSUME DecodeInv, LzoShortHeader
  PROVE  DecodeInv'
<1>1. /\ extent.total <= SrcLen /\ extent.algorithm = "lzo" /\ extent \in Extents /\ p \in Nat
  BY DEF DecodeInv, LzoShortHeader
<1>2. /\ extent.total \in Nat /\ SrcLen \in Nat
  BY <1>1, InputsAssumption DEF SrcLen
<1>3. HeaderAt(p) + HeaderLen \in Nat
  BY <1>1, HeaderAtMoves, SizesAssumption
<1>4. HeaderAt(p) + HeaderLen > extent.total
  BY <1>1, <1>2, <1>3 DEF LzoShortHeader
<1>5. Return("bad_compression")
  BY <1>4 DEF LzoShortHeader
<1> QED
  BY <1>5, ReturnKeeps

(* The outer loop of zstd::decode.                                         *)
LEMMA ZstdFrameKeeps ==
  ASSUME DecodeInv, ZstdFrame
  PROVE  DecodeInv'
<1>1. CASE Return("ok") \/ Bad
  BY <1>1, ReturnKeeps DEF Bad
<1>2. CASE /\ p < Len(extent.frames) /\ pc' = "read" /\ got' = 0
           /\ UNCHANGED <<extent, build, p, dst, result>>
  <2>1. extent.algorithm = "zstd" /\ p \in Nat
    BY DEF DecodeInv, ZstdFrame
  <2>2. extent.frames \in Seq(Frames)
    BY <2>1, InputsAssumption DEF DecodeInv
  <2>3. p + 1 \in 1 .. Len(extent.frames)
    BY <1>2, <2>1, <2>2
  <2>4. extent.frames[p + 1] \in Frames
    BY <2>2, <2>3, ElementOfSeq
  <2>5. 0 <= Frame.plen
    BY <2>4 DEF Frame, Frames
  <2>6. p <= Len(extent.frames)
    BY <1>2 DEF DecodeInv, ZstdFrame
  <2> QED
    BY <1>2, <2>1, <2>5, <2>6 DEF DecodeInv, Frame
<1> QED
  BY <1>1, <1>2 DEF ZstdFrame

(* One read of a frame: what it gives is counted before it is kept.        *)
LEMMA ZstdReadKeeps ==
  ASSUME DecodeInv, ZstdRead
  PROVE  DecodeInv'
<1>1. /\ pc = "read" /\ extent.algorithm = "zstd" /\ p \in Nat /\ got \in Nat
      /\ p < Len(extent.frames) /\ got <= Frame.plen
  BY DEF DecodeInv, ZstdRead
<1>2. extent.frames \in Seq(Frames)
  BY <1>1, InputsAssumption DEF DecodeInv
<1>3. p + 1 \in 1 .. Len(extent.frames) /\ Len(extent.frames) \in Nat
  BY <1>1, <1>2
<1>4. Frame \in Frames
  BY <1>2, <1>3, ElementOfSeq DEF Frame
<1>5. PICK f : f = Frame
  OBVIOUS
<1>6. f.id \in Nat /\ f.plen \in Nat
  BY <1>4, <1>5 DEF Frames
<1>7. PICK n \in 0 .. BufLen :
        /\ got + n <= f.plen
        /\ \/ Bad
           \/ /\ pc' = "frame" /\ p' = p + 1
              /\ UNCHANGED <<extent, build, got, dst, result>>
           \/ /\ Len(dst) + n <= MaxDecompressed
              /\ dst' = dst \o SubSeq(Plain(f), got + 1, got + n)
              /\ got' = got + n
              /\ UNCHANGED <<extent, build, pc, p, result>>
  BY <1>5 DEF ZstdRead
<1>8. n \in Nat
  BY SizesAssumption
<1>9. CASE Bad
  BY <1>9, ReturnKeeps DEF Bad
<1>10. CASE pc' = "frame" /\ p' = p + 1 /\ UNCHANGED <<extent, build, got, dst, result>>
  <2>1. p' \in Nat /\ p' <= Len(extent.frames)
    BY <1>3, <1>10, <1>1
  <2> QED
    BY <1>1, <1>10, <2>1 DEF DecodeInv
<1>11. CASE /\ Len(dst) + n <= MaxDecompressed
            /\ dst' = dst \o SubSeq(Plain(f), got + 1, got + n)
            /\ got' = got + n
            /\ UNCHANGED <<extent, build, pc, p, result>>
  <2>1. PICK slice : slice = SubSeq(Plain(f), got + 1, got + n)
    OBVIOUS
  <2>2. Plain(f) \in Seq(Byte) /\ Len(Plain(f)) = f.plen
    BY <1>6, PlainIsBytes
  <2>3. slice \in Seq(Byte) /\ Len(slice) = n
    BY <1>1, <1>7, <1>8, <2>1, <2>2, SliceIsBytes
  <2>4. dst' \in Seq(Byte) /\ Len(dst') <= MaxDecompressed
    BY <1>11, <2>1, <2>3, AppendToOutput DEF DecodeInv
  <2>5. got' \in Nat /\ got' <= f.plen
    BY <1>1, <1>7, <1>8, <1>11
  <2> QED
    BY <1>1, <1>5, <1>11, <2>4, <2>5 DEF DecodeInv, Frame
<1> QED
  BY <1>7, <1>9, <1>10, <1>11

(* The inductive invariant of the decoders, on every extent.               *)
THEOREM DecodeInvariant == Spec => []DecodeInv
<1>1. Init => DecodeInv
  <2> SUFFICES ASSUME Init PROVE DecodeInv
    OBVIOUS
  <2>1. dst \in Seq(Byte) /\ Len(dst) = 0 /\ 0 <= MaxDecompressed
    BY SizesAssumption DEF Init
  <2> QED
    BY <2>1 DEF Init, DecodeInv
<1>2. DecodeInv /\ [Next]_vars => DecodeInv'
  <2> SUFFICES ASSUME DecodeInv, [Next]_vars PROVE DecodeInv'
    OBVIOUS
  <2>1. CASE Refuse \/ LzoDone
    BY <2>1, ReturnKeeps DEF Refuse, LzoDone, Bad
  <2>2. CASE UNCHANGED vars
    BY <2>2 DEF vars, DecodeInv, SrcLen, Frame
  <2> QED
    BY <2>1, <2>2, ZlibKeeps, StartKeeps, LzoShortHeaderKeeps, LzoSegmentKeeps,
       ZstdFrameKeeps, ZstdReadKeeps DEF Next
<1> QED
  BY <1>1, <1>2, PTL DEF Spec

(* No extent expands past MAX_DECOMPRESSED_EXTENT_BYTES at any point of    *)
(* its decoding, by whichever algorithm and however it is forged.          *)
THEOREM OutputStaysBounded == Spec => []OutputIsBounded
<1>1. DecodeInv => OutputIsBounded
  BY DEF DecodeInv, OutputIsBounded
<1> QED
  BY <1>1, DecodeInvariant, PTL

(* No total and no segment length of an LZO extent makes lzo::decode index *)
(* or slice past its input.                                                *)
THEOREM DecodersStayInInput == Spec => []StaysInInput
<1>1. DecodeInv => StaysInInput
  BY DEF DecodeInv, StaysInInput
<1> QED
  BY <1>1, DecodeInvariant, PTL

-----------------------------------------------------------------------------
(* What a compressor wrote is decoded as it was.                           *)

(* d is the first m bytes of s.                                            *)
Begins(d, s, m) == Len(d) = m /\ \A k \in 1 .. m : d[k] = s[k]

(* Where the plaintext of the first i sectors ends.                        *)
SectorEnd(x, i) == IF i < Len(x.pieces) THEN i * Sectorsize ELSE Len(x.plain)

(* The LZO loop stands at the end of a segment.                            *)
AtSegment(x, at, d, i) ==
  i \in 0 .. Len(x.pieces) /\ at = x.ends[i] /\ Begins(d, x.plain, SectorEnd(x, i))

(* How far the decoders are in an extent that was written: as many bytes   *)
(* of its plaintext as the segments, the frames and the reads behind the   *)
(* cursor hold.                                                            *)
WrittenInv ==
  extent.written /\ extent.algorithm \in build =>
    /\ pc = "call" => dst = <<>>
    /\ pc = "lzo" => \E i \in 0 .. Len(extent.pieces) : AtSegment(extent, p, dst, i)
    /\ pc = "frame" => p <= extent.count /\ Begins(dst, extent.plain, extent.ends[p])
    /\ pc = "read" => p < extent.count /\ Begins(dst, extent.plain, extent.ends[p] + got)
    /\ pc = "returned" => result = "ok" /\ dst = extent.plain

(* The loop skips what the writer left out, and nothing else.              *)
LEMMA HeaderAfterPadding ==
  ASSUME NEW a \in Nat
  PROVE  HeaderAt(a) = a + Padding(a) /\ Padding(a) \in Nat
<1>1. Sectorsize \in Nat /\ Sectorsize > 0 /\ HeaderLen \in Nat
  BY SizesAssumption
<1>2. a % Sectorsize \in 0 .. (Sectorsize - 1)
  BY <1>1
<1> QED
  BY <1>1, <1>2 DEF HeaderAt, Padding

(* An output as long as the plaintext it begins is the plaintext.          *)
LEMMA BeginsWhole ==
  ASSUME NEW d \in Seq(Byte), NEW s \in Seq(Nat \X Nat), Begins(d, s, Len(s))
  PROVE  d = s
<1>1. /\ d \in [1 .. Len(d) -> Byte] /\ s \in [1 .. Len(s) -> Nat \X Nat]
  BY LenProperties
<1> QED
  BY <1>1 DEF Begins

(* Appending the plaintext's next bytes.                                   *)
LEMMA BeginsMore ==
  ASSUME NEW d \in Seq(Byte), NEW s, NEW m \in Nat, Begins(d, s, m),
         NEW b \in Seq(Byte), NEW c \in Nat, Len(b) = c, \A k \in 1 .. c : b[k] = s[m + k]
  PROVE  Begins(d \o b, s, m + c)
<1>1. Len(d) = m /\ Len(d \o b) = m + c
  BY ConcatProperties DEF Begins
<1>2. ASSUME NEW k \in 1 .. (m + c)
      PROVE  (d \o b)[k] = s[k]
  <2>1. CASE k <= m
    <3>1. (d \o b)[k] = d[k]
      BY <1>1, <2>1, ConcatProperties
    <3> QED
      BY <2>1, <3>1 DEF Begins
  <2>2. CASE k > m
    <3>1. PICK j \in 1 .. c : k = m + j
      <4>1. k - m \in 1 .. c /\ k = m + (k - m)
        BY <2>2
      <4> QED
        BY <4>1
    <3>2. m + j \in Len(d) + 1 .. Len(d) + Len(b) /\ m + j - m = j
      BY <1>1, <3>1
    <3>3. (d \o b)[m + j] = b[m + j - Len(d)]
      BY <3>2, ConcatProperties, SMTT(30)
    <3> QED
      BY <1>1, <3>1, <3>2, <3>3
  <2> QED
    BY <1>1, <2>1, <2>2
<1> QED
  BY <1>1, <1>2 DEF Begins

(* What the loop of lzo::decode meets at the i-th segment of an extent     *)
(* that was written: its header where it looks for it, its body after it,  *)
(* all inside the total.                                                   *)
LEMMA SegmentIsThere ==
  ASSUME NEW x, LzoWritten(x), NEW i \in 1 .. Len(x.pieces),
         NEW s, s = x.pieces[i], NEW h, h = HeaderAt(x.ends[i - 1]),
         NEW at, at = h + HeaderLen
  PROVE  /\ s \in Pieces /\ s.clen > 0 /\ s.plen \in 1 .. Sectorsize
         /\ x.ends[i - 1] \in Nat /\ x.ends[i] \in Nat /\ h \in Nat /\ at \in Nat
         /\ x.ends[i] = at + s.clen /\ x.ends[i] <= x.total /\ x.total <= Len(x.bytes)
         /\ x.bytes[h + 1] = Word(s.clen)
         /\ \A j \in 1 .. s.clen : x.bytes[at + j] = SegByte(s, j)
<1>1. PICK n : n = Len(x.pieces)
  OBVIOUS
<1>2. /\ x.pieces \in Seq(Pieces) /\ x.ends \in [0 .. n -> Nat] /\ x.total <= Len(x.bytes)
  BY <1>1 DEF LzoWritten
<1>3. /\ s.clen > 0 /\ s.plen \in 1 .. Sectorsize /\ x.ends[i] <= x.total
      /\ SegmentWritten(x, s, x.ends[i - 1], x.ends[i])
  BY <1>1 DEF LzoWritten
<1>4. n \in Nat /\ s \in Pieces /\ s.clen \in Nat
  <2>1. n \in Nat /\ s \in Pieces
    BY <1>1, <1>2, ElementOfSeq, LenProperties
  <2> QED
    BY <2>1 DEF Pieces
<1>5. PICK from, end : from = x.ends[i - 1] /\ end = x.ends[i]
  OBVIOUS
<1>6. from \in Nat /\ end \in Nat
  BY <1>1, <1>2, <1>4, <1>5
<1>7. h = from + Padding(from) /\ h \in Nat /\ at \in Nat
  <2>1. h = from + Padding(from) /\ Padding(from) \in Nat
    BY <1>5, <1>6, HeaderAfterPadding
  <2> QED
    BY <1>6, <2>1, SizesAssumption
<1>8. SegmentWritten(x, s, from, end)
  BY <1>3, <1>5
<1>9. /\ end = at + s.clen /\ x.bytes[h + 1] = Word(s.clen)
      /\ \A j \in 1 .. s.clen : x.bytes[at + j] = SegByte(s, j)
  BY <1>7, <1>8 DEF SegmentWritten
<1> QED
  BY <1>2, <1>3, <1>4, <1>5, <1>6, <1>7, <1>9

(* After the last segment there is nothing but padding.                    *)
LEMMA NothingAfterTheLast ==
  ASSUME NEW x, LzoWritten(x), NEW a, a = x.ends[Len(x.pieces)]
  PROVE  a \in Nat /\ x.total \in Nat /\ (a >= x.total \/ HeaderAt(a) >= x.total)
<1>1. PICK n : n = Len(x.pieces)
  OBVIOUS
<1>2. /\ n \in Nat /\ x.ends \in [0 .. n -> Nat] /\ x.total \in {a, a + Padding(a)}
  BY <1>1, LenProperties DEF LzoWritten
<1>3. a \in Nat
  BY <1>1, <1>2
<1>4. HeaderAt(a) = a + Padding(a) /\ Padding(a) \in Nat
  BY <1>3, HeaderAfterPadding
<1> QED
  BY <1>2, <1>3, <1>4, SMTT(30)

(* Where a sector starts a whole one fits under the cap.                   *)
LEMMA RoomForSector ==
  ASSUME NEW x, LzoWritten(x), NEW i \in 1 .. Len(x.pieces)
  PROVE  /\ SectorEnd(x, i - 1) = (i - 1) * Sectorsize
         /\ (i - 1) * Sectorsize \in Nat
         /\ (i - 1) * Sectorsize + Sectorsize <= MaxDecompressed
         /\ SectorEnd(x, i) = (i - 1) * Sectorsize + x.pieces[i].plen
<1>1. PICK n, l : n = Len(x.pieces) /\ l = Len(x.plain)
  OBVIOUS
<1>2. /\ n \in Nat /\ i \in 1 .. n /\ l \in Nat /\ l <= MaxDecompressed
      /\ l = (n - 1) * Sectorsize + x.pieces[n].plen
      /\ x.pieces[n].plen \in 1 .. Sectorsize
      /\ i < n => x.pieces[i].plen = Sectorsize
  BY <1>1, LenProperties DEF LzoWritten
<1>3. PICK k \in 1 .. MaxDecompressed : MaxDecompressed = k * Sectorsize
  BY SizesAssumption
<1>4. Sectorsize \in Nat /\ MaxDecompressed \in Nat /\ Sectorsize > 0
  BY SizesAssumption
<1>5. PICK q : q = x.pieces[n].plen
  OBVIOUS
<1>6. (n - 1) * Sectorsize < k * Sectorsize
  <2>1. PICK a : a = (n - 1) * Sectorsize
    OBVIOUS
  <2>2. a \in Int
    BY <1>2, <1>4, <2>1
  <2>3. l = a + q /\ q \in 1 .. Sectorsize
    BY <1>2, <1>5, <2>1
  <2>4. a < MaxDecompressed
    BY <1>2, <1>4, <2>2, <2>3
  <2> QED
    BY <1>3, <2>1, <2>4
<1>7. n <= k
  <2>1. CASE k <= n - 1
    <3>1. k * Sectorsize <= (n - 1) * Sectorsize
      BY <1>2, <1>3, <1>4, <2>1
    <3> QED
      BY <1>2, <1>3, <1>4, <1>6, <3>1
  <2> QED
    BY <1>2, <1>3, <1>4, <2>1
<1>8. /\ (i - 1) * Sectorsize + Sectorsize = i * Sectorsize
      /\ (i - 1) * Sectorsize \in Nat
  BY <1>2, <1>4
<1>9. i * Sectorsize <= k * Sectorsize
  BY <1>2, <1>3, <1>4, <1>7
<1>10. SectorEnd(x, i - 1) = (i - 1) * Sectorsize
  BY <1>1, <1>2 DEF SectorEnd
<1>11. SectorEnd(x, i) = (i - 1) * Sectorsize + x.pieces[i].plen
  <2>1. CASE i < n
    BY <1>1, <1>2, <1>8, <2>1 DEF SectorEnd
  <2>2. CASE i = n
    BY <1>1, <1>2, <2>2 DEF SectorEnd
  <2> QED
    BY <1>2, <2>1, <2>2
<1> QED
  BY <1>3, <1>8, <1>9, <1>10, <1>11

Written == extent.written /\ extent.algorithm \in build

(* No step changes the extent or the build.                                *)
LEMMA ExtentStays ==
  ASSUME [Next]_vars
  PROVE  UNCHANGED <<extent, build>>
BY DEF Next, vars, Refuse, Bad, Return, Enter, DecodeZlib, StartLzo, LzoDone, LzoShortHeader,
       LzoSegment, StartZstd, ZstdFrame, ZstdRead

(* A decoder that returns Ok with the plaintext in dst has decoded it.     *)
LEMMA ReturnsPlain ==
  ASSUME Return("ok"), dst = extent.plain
  PROVE  WrittenInv'
BY DEF Return, WrittenInv

(* What WrittenAssumption says of the extent at hand.                      *)
LEMMA WrittenExtent ==
  ASSUME DecodeInv, extent.written
  PROVE  /\ extent.algorithm = "zlib" => /\ extent.sound /\ Len(extent.plain) <= MaxDecompressed
                                         /\ extent.plain \in Seq(Nat \X Nat)
         /\ extent.algorithm = "lzo" => LzoWritten(extent)
         /\ extent.algorithm = "zstd" => ZstdWritten(extent) /\ extent.frames \in Seq(Frames)
         /\ extent.algorithm \in {"zlib", "lzo", "zstd"}
<1>1. PICK x \in Extents : x = extent
  BY DEF DecodeInv
<1>2. \/ x.algorithm = "zlib" /\ x.sound /\ Len(x.plain) <= MaxDecompressed
      \/ x.algorithm = "lzo" /\ LzoWritten(x)
      \/ x.algorithm = "zstd" /\ ZstdWritten(x)
  BY <1>1, WrittenAssumption
<1>3. \/ x.algorithm = "zlib" /\ x.plain \in Seq(Nat \X Nat)
      \/ x.algorithm = "lzo"
      \/ x.algorithm = "zstd" /\ x.frames \in Seq(Frames)
      \/ x.algorithm = "unknown"
  BY InputsAssumption
<1>4. /\ x.algorithm = "zlib" => /\ x.sound /\ Len(x.plain) <= MaxDecompressed
                                 /\ x.plain \in Seq(Nat \X Nat)
      /\ x.algorithm = "lzo" => LzoWritten(x)
      /\ x.algorithm = "zstd" => ZstdWritten(x) /\ x.frames \in Seq(Frames)
      /\ x.algorithm \in {"zlib", "lzo", "zstd"}
  BY <1>2, <1>3
<1> QED
  BY <1>1, <1>4

(* zlib: the limit does not cut a written extent short.                    *)
LEMMA ZlibDecodes ==
  ASSUME DecodeInv, WrittenInv, Written, DecodeZlib
  PROVE  WrittenInv'
<1>1. /\ extent.sound /\ Len(extent.plain) <= MaxDecompressed
      /\ extent.plain \in Seq(Nat \X Nat) /\ dst = <<>>
  BY WrittenExtent DEF Written, WrittenInv, DecodeZlib, Calling
<1>2. Len(dst) = 0 /\ MaxDecompressed > 0 /\ MaxDecompressed \in Nat /\ Len(extent.plain) \in Nat
  BY <1>1, SizesAssumption
<1>3. /\ dst' = dst \o extent.plain /\ pc' = "returned" /\ result' = "ok"
      /\ UNCHANGED <<extent, build, p, got>>
  BY <1>1, <1>2 DEF DecodeZlib
<1>4. dst' = extent.plain
  BY <1>1, <1>3
<1> QED
  BY <1>3, <1>4 DEF WrittenInv

(* lzo::decode accepts the outer length and starts before the first        *)
(* segment.                                                                *)
LEMMA StartLzoDecodes ==
  ASSUME DecodeInv, WrittenInv, Written, StartLzo
  PROVE  WrittenInv'
<1>1. extent.algorithm = "lzo" /\ LzoWritten(extent) /\ dst = <<>>
  BY WrittenExtent DEF Written, WrittenInv, StartLzo, Calling
<1>2. PICK x : x = extent
  OBVIOUS
<1>3. LzoWritten(x)
  BY <1>1, <1>2
<1>4. PICK n : n = Len(x.pieces)
  OBVIOUS
<1>5. n \in Nat /\ n > 0 /\ x.ends[0] = HeaderLen
  BY <1>3, <1>4, LenProperties DEF LzoWritten
<1>6. 1 \in 1 .. Len(x.pieces) /\ 1 - 1 = 0
  BY <1>4, <1>5
<1>7. x.ends[0] \in Nat /\ x.ends[1] <= x.total /\ x.total <= Len(x.bytes) /\ x.ends[1] \in Nat
  BY <1>3, <1>6, SegmentIsThere
<1>8. HeaderLen <= x.ends[1]
  <2>1. PICK h, at, s : h = HeaderAt(x.ends[0]) /\ at = h + HeaderLen /\ s = x.pieces[1]
    OBVIOUS
  <2>2. h \in Nat /\ x.ends[1] = at + s.clen /\ s.clen > 0 /\ s \in Pieces
    BY <1>3, <1>6, <2>1, SegmentIsThere
  <2> QED
    BY <2>1, <2>2, SizesAssumption DEF Pieces
<1>9. x.total \in Nat /\ Len(x.bytes) \in Nat
  BY <1>1, <1>2, InputsAssumption DEF DecodeInv
<1>10. Enter("lzo", HeaderLen)
  BY <1>2, <1>7, <1>8, <1>9, SizesAssumption DEF StartLzo, SrcLen
<1>11. AtSegment(x, HeaderLen, <<>>, 0)
  <2>1. SectorEnd(x, 0) = 0
    BY <1>4, <1>5, SizesAssumption DEF SectorEnd
  <2> QED
    BY <1>4, <1>5, <2>1 DEF AtSegment, Begins
<1>12. pc' = "lzo" /\ p' = HeaderLen /\ dst' = <<>> /\ extent' = x
  BY <1>1, <1>2, <1>10 DEF Enter
<1>13. \E i \in 0 .. Len(x.pieces) : AtSegment(x, HeaderLen, <<>>, i)
  BY <1>4, <1>5, <1>11
<1> QED
  BY <1>12, <1>13 DEF WrittenInv

(* Where the loop of lzo::decode stands in a written extent.               *)
LEMMA LzoStands ==
  ASSUME DecodeInv, WrittenInv, Written, pc = "lzo"
  PROVE  /\ LzoWritten(extent) /\ p \in Nat /\ dst \in Seq(Byte)
         /\ \E i \in 0 .. Len(extent.pieces) : AtSegment(extent, p, dst, i)
BY WrittenExtent DEF DecodeInv, WrittenInv, Written

(* The loop of lzo::decode ends after the last segment only.               *)
LEMMA LzoDoneDecodes ==
  ASSUME DecodeInv, WrittenInv, Written, LzoDone
  PROVE  WrittenInv'
<1>1. pc = "lzo" /\ Return("ok") /\ (p >= extent.total \/ HeaderAt(p) >= extent.total)
  BY DEF LzoDone
<1>2. PICK x, a, d : x = extent /\ a = p /\ d = dst
  OBVIOUS
<1>3. LzoWritten(x) /\ a \in Nat /\ d \in Seq(Byte)
  BY <1>1, <1>2, LzoStands
<1>4. PICK i \in 0 .. Len(x.pieces) : AtSegment(x, a, d, i)
  BY <1>1, <1>2, LzoStands
<1>5. PICK n : n = Len(x.pieces)
  OBVIOUS
<1>6. n \in Nat
  BY <1>3, <1>5, LenProperties DEF LzoWritten
<1>7. CASE i = n
  <2>1. Begins(d, x.plain, Len(x.plain)) /\ x.plain \in Seq(Nat \X Nat)
    BY <1>3, <1>4, <1>5, <1>6, <1>7 DEF AtSegment, SectorEnd, LzoWritten
  <2>2. d = x.plain
    BY <1>3, <2>1, BeginsWhole
  <2> QED
    BY <1>1, <1>2, <2>2, ReturnsPlain
<1>8. CASE i < n
  <2>1. PICK j : j = i + 1
    OBVIOUS
  <2>2. j \in 1 .. Len(x.pieces) /\ j - 1 = i
    BY <1>5, <1>6, <1>8, <2>1
  <2>3. a = x.ends[j - 1]
    BY <1>4, <2>2 DEF AtSegment
  <2>4. PICK h, at, s : h = HeaderAt(x.ends[j - 1]) /\ at = h + HeaderLen /\ s = x.pieces[j]
    OBVIOUS
  <2>5. /\ h \in Nat /\ at \in Nat /\ s \in Pieces /\ s.clen > 0
        /\ x.ends[j] = at + s.clen /\ x.ends[j] <= x.total
    BY <1>3, <2>2, <2>4, SegmentIsThere, SMTT(30)
  <2>6. a <= h
    BY <1>3, <2>3, <2>4, HeaderAtMoves
  <2>7. x.total \in Nat
    BY <1>3, NothingAfterTheLast
  <2>8. a < x.total /\ h < x.total
    <3>1. s.clen \in Nat /\ HeaderLen \in Nat /\ HeaderLen > 0
      BY <2>5, SizesAssumption DEF Pieces
    <3>2. h + HeaderLen + s.clen <= x.total
      BY <2>4, <2>5
    <3> QED
      BY <1>3, <2>5, <2>6, <2>7, <3>1, <3>2
  <2> QED
    BY <1>1, <1>2, <1>3, <2>3, <2>4, <2>5, <2>7, <2>8
<1> QED
  BY <1>4, <1>5, <1>6, <1>7, <1>8

(* A written extent has no header its total cuts.                          *)
LEMMA NoShortHeader ==
  ASSUME DecodeInv, WrittenInv, Written, LzoShortHeader
  PROVE  FALSE
<1>1. /\ pc = "lzo" /\ p < extent.total /\ HeaderAt(p) < extent.total
      /\ \/ HeaderAt(p) + HeaderLen > extent.total
         \/ HeaderAt(p) + HeaderLen > Len(extent.bytes)
  BY DEF LzoShortHeader, SrcLen
<1>2. PICK x, a, d : x = extent /\ a = p /\ d = dst
  OBVIOUS
<1>3. LzoWritten(x) /\ a \in Nat
  BY <1>1, <1>2, LzoStands
<1>4. PICK i \in 0 .. Len(x.pieces) : AtSegment(x, a, d, i)
  BY <1>1, <1>2, LzoStands
<1>5. PICK n : n = Len(x.pieces)
  OBVIOUS
<1>6. n \in Nat
  BY <1>3, <1>5, LenProperties DEF LzoWritten
<1>7. HeaderAt(a) \in Nat
  BY <1>3, HeaderAtMoves
<1>8. CASE i = n
  <2>1. a = x.ends[Len(x.pieces)]
    BY <1>4, <1>5, <1>8 DEF AtSegment
  <2>2. x.total \in Nat /\ (a >= x.total \/ HeaderAt(a) >= x.total)
    BY <1>3, <2>1, NothingAfterTheLast
  <2> QED
    BY <1>1, <1>2, <1>3, <1>7, <2>2
<1>9. CASE i < n
  <2>1. PICK j : j = i + 1
    OBVIOUS
  <2>2. j \in 1 .. Len(x.pieces) /\ j - 1 = i
    BY <1>5, <1>6, <1>9, <2>1
  <2>3. a = x.ends[j - 1]
    BY <1>4, <2>2 DEF AtSegment
  <2>4. PICK h, at, s : h = HeaderAt(x.ends[j - 1]) /\ at = h + HeaderLen /\ s = x.pieces[j]
    OBVIOUS
  <2>5. /\ h \in Nat /\ at \in Nat /\ s \in Pieces /\ s.clen > 0
        /\ x.ends[j] = at + s.clen /\ x.ends[j] <= x.total /\ x.total <= Len(x.bytes)
    BY <1>3, <2>2, <2>4, SegmentIsThere, SMTT(30)
  <2>6. x.total \in Nat /\ Len(x.bytes) \in Nat
    BY <1>1, <1>2, InputsAssumption DEF DecodeInv
  <2>7. at <= x.total /\ at <= Len(x.bytes)
    BY <2>5, <2>6 DEF Pieces
  <2> QED
    BY <1>1, <1>2, <2>3, <2>4, <2>5, <2>6, <2>7
<1> QED
  BY <1>4, <1>5, <1>6, <1>8, <1>9

(* lzokay gives a written sector back.                                     *)
LEMMA SectorDecodes ==
  ASSUME NEW s \in Pieces, s.clen > 0, s.plen <= Sectorsize, NEW at \in Nat,
         \A j \in 1 .. s.clen : extent.bytes[at + j] = SegByte(s, j),
         NEW o \in Lzokay(at, at + s.clen)
  PROVE  o.ok /\ o.bytes = Plain(s)
<1>1. s.clen \in Nat /\ 1 \in 1 .. s.clen
  BY DEF Pieces
<1>2. extent.bytes[at + 1] = SegByte(s, 1)
  BY <1>1
<1>3. extent.bytes[at + 1].is = "segment" /\ extent.bytes[at + 1].of = s
  BY <1>2 DEF SegByte
<1>4. at + s.clen - at = s.clen
  BY <1>1
<1>5. HoldsSegment(s, at, at + s.clen)
  BY <1>1, <1>4 DEF HoldsSegment
<1>6. Lzokay(at, at + s.clen) = {[ok |-> TRUE, bytes |-> Plain(s)]}
  BY <1>3, <1>5 DEF Lzokay
<1> QED
  BY <1>6

(* One turn of the loop of lzo::decode decodes one written segment.        *)
LEMMA LzoSegmentDecodes ==
  ASSUME DecodeInv, WrittenInv, Written, LzoSegment
  PROVE  WrittenInv'
<1>1. /\ pc = "lzo" /\ p < extent.total
      /\ HeaderAt(p) + HeaderLen <= extent.total
  BY DEF LzoSegment
<1>2. PICK x, a, d : x = extent /\ a = p /\ d = dst
  OBVIOUS
<1>3. LzoWritten(x) /\ a \in Nat /\ d \in Seq(Byte)
  BY <1>1, <1>2, LzoStands
<1>4. PICK i \in 0 .. Len(x.pieces) : AtSegment(x, a, d, i)
  BY <1>1, <1>2, LzoStands
<1>5. PICK n : n = Len(x.pieces)
  OBVIOUS
<1>6. n \in Nat
  BY <1>3, <1>5, LenProperties DEF LzoWritten
<1>7. HeaderAt(a) \in Nat /\ HeaderLen \in Nat /\ HeaderLen > 0
  BY <1>3, HeaderAtMoves, SizesAssumption, SMTT(30)
<1>8. i < n
  <2>1. ASSUME i = n
        PROVE  FALSE
    <3>1. a = x.ends[Len(x.pieces)]
      BY <1>4, <1>5, <2>1 DEF AtSegment
    <3>2. x.total \in Nat /\ (a >= x.total \/ HeaderAt(a) >= x.total)
      BY <1>3, <3>1, NothingAfterTheLast
    <3> QED
      BY <1>1, <1>2, <1>3, <1>7, <3>2
  <2> QED
    BY <1>4, <1>5, <1>6, <2>1
<1>9. PICK j : j = i + 1
  OBVIOUS
<1>10. j \in 1 .. Len(x.pieces) /\ j - 1 = i
  BY <1>5, <1>6, <1>8, <1>9
<1>11. a = x.ends[j - 1] /\ Begins(d, x.plain, SectorEnd(x, j - 1))
  BY <1>4, <1>10 DEF AtSegment
<1>12. PICK h, at, s : h = HeaderAt(x.ends[j - 1]) /\ at = h + HeaderLen /\ s = x.pieces[j]
  OBVIOUS
<1>13. /\ s \in Pieces /\ s.clen > 0 /\ s.plen \in 1 .. Sectorsize /\ h \in Nat /\ at \in Nat
       /\ x.ends[j] = at + s.clen /\ x.ends[j] <= x.total /\ x.total <= Len(x.bytes)
       /\ x.bytes[h + 1] = Word(s.clen)
       /\ \A q \in 1 .. s.clen : x.bytes[at + q] = SegByte(s, q)
  BY <1>3, <1>10, <1>12, SegmentIsThere, SMTT(30)
<1>14. s.clen \in Nat /\ s.id \in Nat /\ s.plen \in Nat
  BY <1>13 DEF Pieces
<1>15. h = HeaderAt(p)
  BY <1>2, <1>11, <1>12
<1>16. U32At(h) = {s.clen}
  BY <1>2, <1>13 DEF U32At, Word
<1>17. PICK m : m = (j - 1) * Sectorsize
  OBVIOUS
<1>18. /\ SectorEnd(x, j - 1) = m /\ m \in Nat /\ m + Sectorsize <= MaxDecompressed
       /\ SectorEnd(x, j) = m + s.plen
  BY <1>3, <1>10, <1>12, <1>17, RoomForSector
<1>19. Len(dst) = m
  BY <1>2, <1>11, <1>18 DEF Begins
<1>20. LzoVerdict(at, s.clen) = "decode"
  <2>1. x.total \in Nat /\ Len(x.bytes) \in Nat
    BY <1>1, <1>2, InputsAssumption DEF DecodeInv
  <2>2. /\ s.clen # 0 /\ ~(at + s.clen > extent.total) /\ ~(at + s.clen > SrcLen)
        /\ ~(Len(dst) + Sectorsize > MaxDecompressed)
    BY <1>2, <1>13, <1>14, <1>18, <1>19, <2>1, SizesAssumption, SMTT(30) DEF SrcLen
  <2> QED
    BY <2>2 DEF LzoVerdict
<1>21. PICK o \in Lzokay(at, at + s.clen) :
         IF ~o.ok THEN Bad
         ELSE /\ dst' = dst \o o.bytes
              /\ p' = at + s.clen
              /\ UNCHANGED <<extent, build, pc, got, result>>
  <2>1. PICK c \in U32At(h) :
          IF LzoVerdict(at, c) # "decode" THEN Return(LzoVerdict(at, c))
          ELSE \E o \in Lzokay(at, at + c) :
                 IF ~o.ok THEN Bad
                 ELSE /\ dst' = dst \o o.bytes
                      /\ p' = at + c
                      /\ UNCHANGED <<extent, build, pc, got, result>>
    BY <1>12, <1>15 DEF LzoSegment
  <2>2. c = s.clen
    BY <1>16, <2>1
  <2> QED
    BY <1>20, <2>1, <2>2
<1>22. \A q \in 1 .. s.clen : extent.bytes[at + q] = SegByte(s, q)
  BY <1>2, <1>13
<1>23. s.plen <= Sectorsize
  BY <1>13, SizesAssumption
<1>24. o.ok /\ o.bytes = Plain(s)
  BY <1>13, <1>21, <1>22, <1>23, SectorDecodes
<1>25. /\ dst' = d \o Plain(s) /\ p' = x.ends[j]
       /\ UNCHANGED <<extent, build, pc, got, result>>
  BY <1>2, <1>13, <1>21, <1>24
<1>26. Begins(d \o Plain(s), x.plain, m + s.plen)
  <2>1. PICK b : b = Plain(s)
    OBVIOUS
  <2>2. b \in Seq(Byte) /\ Len(b) = s.plen
    BY <1>14, <2>1, PlainIsBytes
  <2>3. \A k \in 1 .. s.plen : b[k] = x.plain[m + k]
    <3>1. PlainWritten(x.plain, s, m)
      BY <1>3, <1>10, <1>12, <1>17 DEF LzoWritten
    <3> QED
      BY <2>1, <3>1 DEF PlainWritten, Plain
  <2>4. Begins(d, x.plain, m)
    BY <1>11, <1>18
  <2> QED
    BY <1>3, <1>14, <1>18, <2>1, <2>2, <2>3, <2>4, BeginsMore
<1>27. j \in 0 .. Len(x.pieces)
  BY <1>10
<1>28. AtSegment(x, p', dst', j)
  BY <1>18, <1>25, <1>26, <1>27 DEF AtSegment
<1>29. \E q \in 0 .. Len(extent'.pieces) : AtSegment(extent', p', dst', q)
  BY <1>2, <1>25, <1>27, <1>28
<1> QED
  BY <1>1, <1>25, <1>29 DEF WrittenInv

(* zstd::decode starts before the first frame.                             *)
LEMMA StartZstdDecodes ==
  ASSUME DecodeInv, WrittenInv, Written, StartZstd
  PROVE  WrittenInv'
<1>1. ZstdWritten(extent) /\ dst = <<>> /\ Enter("frame", 0)
  BY WrittenExtent DEF Written, WrittenInv, StartZstd, Calling
<1>2. 0 <= extent.count /\ extent.ends[0] = 0
  BY <1>1 DEF ZstdWritten
<1>3. Begins(dst, extent.plain, extent.ends[0])
  BY <1>1, <1>2 DEF Begins
<1>4. /\ extent' = extent /\ pc' = "frame" /\ p' = 0 /\ dst' = dst
  BY <1>1 DEF Enter
<1> QED
  BY <1>2, <1>3, <1>4 DEF WrittenInv

(* The frames of a written extent are good ones, and end where its         *)
(* plaintext does.                                                         *)
LEMMA ZstdStands ==
  ASSUME DecodeInv, WrittenInv, Written, pc \in {"frame", "read"}
  PROVE  /\ ZstdWritten(extent) /\ extent.frames \in Seq(Frames)
         /\ p \in Nat /\ got \in Nat /\ dst \in Seq(Byte)
         /\ pc = "frame" => p <= extent.count /\ Begins(dst, extent.plain, extent.ends[p])
         /\ pc = "read" => p < extent.count /\ Begins(dst, extent.plain, extent.ends[p] + got)
BY WrittenExtent DEF DecodeInv, WrittenInv, Written

(* What a frame of a written extent is.                                    *)
LEMMA FrameIsThere ==
  ASSUME NEW x, ZstdWritten(x), x.frames \in Seq(Frames), NEW q \in Nat, q < x.count
  PROVE  /\ q < Len(x.frames) /\ x.frames[q + 1] \in Frames /\ x.frames[q + 1].kind = "frame"
         /\ x.ends[q] \in Nat /\ x.ends[q + 1] \in Nat /\ x.ends[q + 1] <= MaxDecompressed
         /\ x.ends[q + 1] = x.ends[q] + x.frames[q + 1].plen
         /\ PlainWritten(x.plain, x.frames[q + 1], x.ends[q])
<1>1. PICK n, i : n = x.count /\ i = q + 1
  OBVIOUS
<1>2. /\ n \in 0 .. Len(x.frames) /\ x.ends \in [0 .. n -> Nat]
      /\ \A k \in 1 .. n :
           /\ x.frames[k].kind = "frame"
           /\ x.ends[k] = x.ends[k - 1] + x.frames[k].plen /\ x.ends[k] <= MaxDecompressed
           /\ PlainWritten(x.plain, x.frames[k], x.ends[k - 1])
  BY <1>1 DEF ZstdWritten
<1>3. Len(x.frames) \in Nat
  BY LenProperties
<1>4. i \in 1 .. n /\ i - 1 = q /\ q \in 0 .. n /\ i \in 0 .. n /\ q < Len(x.frames)
      /\ i \in 1 .. Len(x.frames)
  BY <1>1, <1>2, <1>3
<1>5. x.frames[i] \in Frames
  BY <1>4, ElementOfSeq
<1> QED
  BY <1>1, <1>2, <1>4, <1>5

(* The outer loop ends after the last frame, padding or no padding.        *)
LEMMA ZstdFrameDecodes ==
  ASSUME DecodeInv, WrittenInv, Written, ZstdFrame
  PROVE  WrittenInv'
<1>1. pc = "frame"
  BY DEF ZstdFrame
<1>2. PICK x, q, d : x = extent /\ q = p /\ d = dst
  OBVIOUS
<1>3. /\ ZstdWritten(x) /\ x.frames \in Seq(Frames) /\ q \in Nat /\ d \in Seq(Byte)
      /\ q <= x.count /\ Begins(d, x.plain, x.ends[q])
  BY <1>1, <1>2, ZstdStands
<1>4. x.count \in Nat /\ x.count <= Len(x.frames) /\ Len(x.frames) \in Nat
  BY <1>3, LenProperties DEF ZstdWritten
<1>5. CASE q = x.count
  <2>1. Begins(d, x.plain, Len(x.plain)) /\ x.plain \in Seq(Nat \X Nat)
    BY <1>3, <1>5 DEF ZstdWritten
  <2>2. d = x.plain
    BY <1>3, <2>1, BeginsWhole
  <2>3. q < Len(x.frames) => x.frames[q + 1].kind = "padding"
    BY <1>3, <1>5 DEF ZstdWritten
  <2>4. Return("ok")
    BY <1>2, <1>3, <1>4, <2>3 DEF ZstdFrame, Frame
  <2> QED
    BY <1>2, <2>2, <2>4, ReturnsPlain
<1>6. CASE q < x.count
  <2>1. q < Len(x.frames) /\ x.frames[q + 1].kind = "frame" /\ x.ends[q] \in Nat
    BY <1>3, <1>6, FrameIsThere
  <2>2. pc' = "read" /\ got' = 0 /\ UNCHANGED <<extent, build, p, dst, result>>
    BY <1>2, <1>3, <1>4, <2>1 DEF ZstdFrame, Frame
  <2>3. x.ends[q] + 0 = x.ends[q]
    BY <2>1
  <2>4. extent' = x /\ p' = q /\ dst' = d /\ got' = 0
    BY <1>2, <2>2
  <2>5. p' < extent'.count /\ Begins(dst', extent'.plain, extent'.ends[p'] + got')
    BY <1>3, <1>6, <2>3, <2>4
  <2> QED
    BY <2>2, <2>5 DEF WrittenInv
<1> QED
  BY <1>3, <1>4, <1>5, <1>6

(* A read of the inner loop takes the frame's next bytes, and the cap      *)
(* leaves room for them.                                                   *)
LEMMA ZstdReadDecodes ==
  ASSUME DecodeInv, WrittenInv, Written, ZstdRead
  PROVE  WrittenInv'
<1>1. pc = "read"
  BY DEF ZstdRead
<1>2. PICK x, q, d, g : x = extent /\ q = p /\ d = dst /\ g = got
  OBVIOUS
<1>3. /\ ZstdWritten(x) /\ x.frames \in Seq(Frames) /\ q \in Nat /\ d \in Seq(Byte) /\ g \in Nat
      /\ q < x.count /\ Begins(d, x.plain, x.ends[q] + g)
  BY <1>1, <1>2, ZstdStands
<1>4. PICK f, e : f = x.frames[q + 1] /\ e = x.ends[q]
  OBVIOUS
<1>5. /\ f \in Frames /\ f.kind = "frame" /\ e \in Nat /\ x.ends[q + 1] \in Nat
      /\ x.ends[q + 1] <= MaxDecompressed /\ x.ends[q + 1] = e + f.plen
      /\ PlainWritten(x.plain, f, e)
  BY <1>3, <1>4, FrameIsThere
<1>6. f.id \in Nat /\ f.plen \in Nat
  BY <1>5 DEF Frames
<1>7. f = Frame
  BY <1>2, <1>4 DEF Frame
<1>8. PICK n \in 0 .. BufLen :
        /\ g + n <= f.plen /\ (n = 0 => g = f.plen)
        /\ \/ n = 0 /\ f.kind = "bad_body" /\ Bad
           \/ /\ n = 0
              /\ pc' = "frame" /\ p' = p + 1
              /\ UNCHANGED <<extent, build, got, dst, result>>
           \/ n > 0 /\ Len(dst) + n > MaxDecompressed /\ Bad
           \/ /\ dst' = dst \o SubSeq(Plain(f), g + 1, g + n)
              /\ got' = g + n
              /\ UNCHANGED <<extent, build, pc, p, result>>
  BY <1>2, <1>7 DEF ZstdRead
<1>9. n \in Nat
  BY SizesAssumption
<1>10. Len(dst) = e + g
  BY <1>2, <1>3, <1>4 DEF Begins
<1>11. ~(Len(dst) + n > MaxDecompressed)
  BY <1>3, <1>5, <1>6, <1>8, <1>9, <1>10, SizesAssumption
<1>12. CASE /\ n = 0
            /\ pc' = "frame" /\ p' = p + 1
            /\ UNCHANGED <<extent, build, got, dst, result>>
  <2>1. extent' = x /\ p' = q + 1 /\ dst' = d
    BY <1>2, <1>12
  <2>2. x.count \in Nat
    BY <1>3, LenProperties DEF ZstdWritten
  <2>3. q + 1 <= x.count
    BY <1>3, <2>2
  <2>4. e + g = x.ends[q + 1]
    BY <1>5, <1>8, <1>12
  <2>5. Begins(d, x.plain, x.ends[q + 1])
    BY <1>3, <1>4, <2>4
  <2>6. p' <= extent'.count /\ Begins(dst', extent'.plain, extent'.ends[p'])
    BY <2>1, <2>3, <2>5
  <2> QED
    BY <1>12, <2>6 DEF WrittenInv
<1>13. CASE /\ dst' = dst \o SubSeq(Plain(f), g + 1, g + n)
            /\ got' = g + n
            /\ UNCHANGED <<extent, build, pc, p, result>>
  <2>1. PICK a, b : a = Plain(f) /\ b = SubSeq(Plain(f), g + 1, g + n)
    OBVIOUS
  <2>2. a \in Seq(Byte) /\ Len(a) = f.plen
    BY <1>6, <2>1, PlainIsBytes
  <2>3. b \in Seq(Byte) /\ Len(b) = n
    BY <1>3, <1>8, <1>9, <2>1, <2>2, SliceIsBytes
  <2>4. ASSUME NEW k \in 1 .. n
        PROVE  b[k] = x.plain[e + g + k]
    <3>1. g + k \in 1 .. f.plen /\ g + 1 + k - 1 = g + k /\ e + (g + k) = e + g + k
      BY <1>3, <1>5, <1>6, <1>8, <1>9
    <3>2. b[k] = a[g + k]
      <4>1. PICK lo, hi : lo = g + 1 /\ hi = g + n
        OBVIOUS
      <4>2. lo \in Int /\ hi \in Int /\ k \in 1 .. (hi - lo + 1) /\ lo + k - 1 = g + k
        BY <1>3, <1>9, <4>1
      <4>3. \A i \in lo .. hi : a[i] \in Byte
        <5>1. \A i \in lo .. hi : i \in 1 .. Len(a)
          BY <1>3, <1>6, <1>8, <1>9, <2>2, <4>1
        <5> QED
          BY <2>2, <5>1, ElementOfSeq
      <4>4. SubSeq(a, lo, hi)[k] = a[lo + k - 1]
        BY <4>2, <4>3, SubSeqProperties
      <4> QED
        BY <2>1, <4>1, <4>2, <4>4
    <3>3. a[g + k] = <<f.id, g + k>>
      BY <2>1, <3>1 DEF Plain
    <3>4. x.plain[e + (g + k)] = <<f.id, g + k>>
      BY <1>5, <3>1 DEF PlainWritten
    <3> QED
      BY <3>1, <3>2, <3>3, <3>4
  <2>5. Begins(d \o b, x.plain, (e + g) + n)
    <3>1. PICK m : m = e + g
      OBVIOUS
    <3>2. m \in Nat /\ Begins(d, x.plain, m) /\ \A k \in 1 .. n : b[k] = x.plain[m + k]
      BY <1>3, <1>4, <1>5, <2>4, <3>1, SMTT(30)
    <3>3. Begins(d \o b, x.plain, m + n)
      BY <1>3, <1>9, <2>3, <3>2, BeginsMore
    <3> QED
      BY <3>1, <3>3
  <2>6. (e + g) + n = e + (g + n)
    BY <1>3, <1>5, <1>9
  <2>7. /\ extent' = x /\ p' = q /\ dst' = d \o b /\ got' = g + n /\ pc' = "read"
    BY <1>1, <1>2, <1>13, <2>1
  <2>8. p' < extent'.count /\ Begins(dst', extent'.plain, extent'.ends[p'] + got')
    BY <1>3, <1>4, <2>5, <2>6, <2>7
  <2> QED
    BY <2>7, <2>8 DEF WrittenInv
<1> QED
  BY <1>5, <1>8, <1>11, <1>12, <1>13

(* An extent as a compressor leaves it, of any length up to the cap, with  *)
(* any sector size and any lengths of its segments and frames, decodes to  *)
(* exactly what was compressed.                                            *)
THEOREM WrittenExtentsDecode == Spec => []WrittenExtentDecodes
<1>1. Init => WrittenInv
  BY DEF Init, WrittenInv
<1>2. DecodeInv /\ WrittenInv /\ [Next]_vars => WrittenInv'
  <2> SUFFICES ASSUME DecodeInv, WrittenInv, [Next]_vars PROVE WrittenInv'
    OBVIOUS
  <2>1. CASE ~Written
    BY <2>1, ExtentStays DEF Written, WrittenInv
  <2>2. CASE Written /\ UNCHANGED vars
    BY <2>2 DEF vars, WrittenInv
  <2>3. CASE Written /\ Refuse
    BY <2>3 DEF Written, Refuse
  <2> QED
    BY <2>1, <2>2, <2>3, ZlibDecodes, StartLzoDecodes, LzoDoneDecodes, NoShortHeader,
       LzoSegmentDecodes, StartZstdDecodes, ZstdFrameDecodes, ZstdReadDecodes DEF Next
<1>3. WrittenInv => WrittenExtentDecodes
  BY DEF WrittenInv, WrittenExtentDecodes
<1> QED
  BY <1>1, <1>2, <1>3, DecodeInvariant, PTL DEF Spec

-----------------------------------------------------------------------------
(* Why decoding returns on every extent, however forged.                   *)

(* What a decoder has left: its loop to enter, input (bytes or frames), and*)
(* bytes of the frame at hand.                                             *)
LoopsLeft == IF pc = "call" THEN 1 ELSE 0
InputLeft == IF pc = "lzo" THEN extent.total - p
             ELSE IF pc \in {"frame", "read"} THEN Len(extent.frames) - p ELSE 0
FrameLeft == IF pc = "read" THEN Frame.plen - got
             ELSE IF pc = "frame" /\ p < Len(extent.frames) THEN Frame.plen + 1 ELSE 0

(* The lexicographic order of three numbers.                               *)
Before(a, b, c, x, y, z) == a < x \/ (a = x /\ b < y) \/ (a = x /\ b = y /\ c < z)

(* A step of a decoder returns or leaves it less to do.                    *)
DecodeCloser ==
  \/ pc' = "returned"
  \/ Before(LoopsLeft', InputLeft', FrameLeft', LoopsLeft, InputLeft, FrameLeft)

(* What is left is counted by naturals, so that it cannot shrink for ever. *)
WithinInput ==
  /\ pc \in {"call", "lzo", "frame", "read", "returned"}
  /\ LoopsLeft \in Nat /\ InputLeft \in Nat /\ FrameLeft \in Nat

(* A call that returns has nothing left.                                   *)
LEMMA ReturnCloser ==
  ASSUME pc' = "returned"
  PROVE  WithinInput' /\ DecodeCloser
BY DEF WithinInput, DecodeCloser, LoopsLeft, InputLeft, FrameLeft

(* The frame at the cursor.                                                *)
LEMMA FrameLength ==
  ASSUME DecodeInv, pc \in {"frame", "read"}
  PROVE  /\ extent.frames \in Seq(Frames) /\ Len(extent.frames) \in Nat
         /\ p \in Nat /\ p <= Len(extent.frames)
         /\ p < Len(extent.frames) => Frame.plen \in Nat
<1>1. extent.algorithm = "zstd" /\ p \in Nat /\ p <= Len(extent.frames) /\ extent \in Extents
  BY DEF DecodeInv
<1>2. extent.frames \in Seq(Frames) /\ Len(extent.frames) \in Nat
  BY <1>1, InputsAssumption, LenProperties
<1>3. ASSUME p < Len(extent.frames)
      PROVE  Frame.plen \in Nat
  <2>1. p + 1 \in 1 .. Len(extent.frames)
    BY <1>1, <1>2, <1>3
  <2>2. extent.frames[p + 1] \in Frames
    BY <1>2, <2>1, ElementOfSeq
  <2> QED
    BY <2>2 DEF Frame, Frames
<1> QED
  BY <1>1, <1>2, <1>3

(* Entering a loop uses up the call.                                       *)
LEMMA StartCloser ==
  ASSUME DecodeInv, DecodeInv', StartLzo \/ StartZstd
  PROVE  WithinInput' /\ DecodeCloser
<1>1. CASE pc' = "returned"
  BY <1>1, ReturnCloser
<1>2. CASE pc' # "returned"
  <2>1. pc = "call" /\ (pc' = "lzo" \/ pc' = "frame") /\ extent' = extent
    BY <1>2 DEF StartLzo, StartZstd, Calling, Enter, Bad, Return
  <2>2. LoopsLeft = 1 /\ LoopsLeft' = 0
    BY <2>1 DEF LoopsLeft
  <2>3. DecodeCloser
    BY <2>2 DEF DecodeCloser, Before
  <2>4. CASE pc' = "lzo"
    <3>1. /\ Calling("lzo") /\ Enter("lzo", HeaderLen) /\ ~(extent.total < HeaderLen)
      BY <1>2, <2>4 DEF StartLzo, StartZstd, Enter, Bad, Return
    <3>2. extent.total \in Nat /\ HeaderLen \in Nat
      BY <3>1, InputsAssumption, SizesAssumption DEF DecodeInv, Calling
    <3>3. p' = HeaderLen /\ extent'.total = extent.total
      BY <3>1 DEF Enter
    <3>4. extent'.total - p' \in Nat
      BY <3>1, <3>2, <3>3
    <3>5. InputLeft' \in Nat /\ FrameLeft' = 0
      BY <2>4, <3>4 DEF InputLeft, FrameLeft
    <3> QED
      BY <2>2, <2>3, <2>4, <3>5 DEF WithinInput
  <2>5. CASE pc' = "frame"
    <3>1. /\ Len(extent.frames)' \in Nat /\ p' \in Nat /\ p' <= Len(extent.frames)'
          /\ p' < Len(extent.frames)' => Frame.plen' \in Nat
      <4>1. p' = 0
        BY <2>5 DEF StartLzo, StartZstd, Enter, Bad, Return
      <4>2. extent.algorithm = "zstd" /\ extent \in Extents /\ extent' = extent
        BY <2>1, <2>5 DEF StartLzo, StartZstd, Calling, Enter, Bad, Return, DecodeInv
      <4>3. extent.frames \in Seq(Frames) /\ Len(extent.frames) \in Nat
        BY <4>2, InputsAssumption, LenProperties
      <4>4. ASSUME 0 < Len(extent.frames)
            PROVE  extent.frames[1].plen \in Nat
        <5>1. 1 \in 1 .. Len(extent.frames)
          BY <4>3, <4>4
        <5>2. extent.frames[1] \in Frames
          BY <4>3, <5>1, ElementOfSeq
        <5> QED
          BY <5>2 DEF Frames
      <4>5. Frame' = extent.frames[1]
        <5>1. Frame' = extent.frames[0 + 1] /\ 0 + 1 = 1
          BY <4>1, <4>2 DEF Frame
        <5> QED
          BY <5>1
      <4> QED
        BY <4>1, <4>2, <4>3, <4>4, <4>5
    <3>2. InputLeft' \in Nat /\ FrameLeft' \in Nat
      BY <2>5, <3>1 DEF InputLeft, FrameLeft
    <3> QED
      BY <2>2, <2>3, <2>5, <3>2 DEF WithinInput
  <2> QED
    BY <2>1, <2>4, <2>5
<1> QED
  BY <1>1, <1>2

(* A segment takes at least its header, and never more than the total.     *)
LEMMA SegmentCloser ==
  ASSUME DecodeInv, WithinInput, LzoSegment
  PROVE  WithinInput' /\ DecodeCloser
<1>1. CASE pc' = "returned"
  BY <1>1, ReturnCloser
<1>2. CASE pc' # "returned"
  <2>1. /\ pc = "lzo" /\ extent.algorithm = "lzo" /\ extent \in Extents /\ p \in Nat
    BY DEF DecodeInv, LzoSegment
  <2>2. extent.total \in Nat /\ extent.bytes \in Seq(LzoBytes) /\ SrcLen \in Nat
    BY <2>1, InputsAssumption DEF SrcLen
  <2>3. PICK h, at : h = HeaderAt(p) /\ at = h + HeaderLen
    OBVIOUS
  <2>4. h \in Nat /\ p <= h /\ at \in Nat /\ p < at
    BY <2>1, <2>3, HeaderAtMoves, SizesAssumption
  <2>5. PICK n \in U32At(h) :
          /\ LzoVerdict(at, n) = "decode" /\ p' = at + n
          /\ UNCHANGED <<extent, build, pc, got, result>>
    BY <1>2, <2>3 DEF LzoSegment, Return, Bad
  <2>6. n \in Nat
    <3>1. h + 1 \in 1 .. Len(extent.bytes)
      BY <2>2, <2>3, <2>4, SizesAssumption DEF SrcLen, LzoSegment
    <3>2. extent.bytes[h + 1] \in LzoBytes
      BY <2>2, <3>1, ElementOfSeq
    <3> QED
      BY <2>5, <3>2, LzoByteTypes, InputsAssumption DEF U32At
  <2>7. ~(at + n > extent.total)
    BY <2>5 DEF LzoVerdict
  <2>8. extent.total - p' \in Nat /\ extent.total - p' < extent.total - p
    BY <2>1, <2>2, <2>4, <2>5, <2>6, <2>7
  <2>9. /\ InputLeft' = extent.total - p' /\ InputLeft = extent.total - p
        /\ LoopsLeft' = 0 /\ LoopsLeft = 0 /\ FrameLeft' = 0
    BY <2>1, <2>5 DEF InputLeft, LoopsLeft, FrameLeft
  <2> QED
    BY <2>1, <2>5, <2>8, <2>9 DEF WithinInput, DecodeCloser, Before
<1> QED
  BY <1>1, <1>2

(* A frame begun is one byte of the measure less, a read some bytes, and a *)
(* frame done one frame.                                                   *)
LEMMA ZstdCloser ==
  ASSUME DecodeInv, DecodeInv', ZstdFrame \/ ZstdRead
  PROVE  WithinInput' /\ DecodeCloser
<1>1. CASE pc' = "returned"
  BY <1>1, ReturnCloser
<1>2. CASE ZstdFrame /\ pc' # "returned"
  <2>1. /\ pc = "frame" /\ p < Len(extent.frames) /\ pc' = "read" /\ got' = 0
        /\ UNCHANGED <<extent, build, p, dst, result>>
    BY <1>2 DEF ZstdFrame, Return, Bad
  <2>2. Frame.plen \in Nat /\ Len(extent.frames) \in Nat /\ p \in Nat
    BY <2>1, FrameLength
  <2>3. Frame' = Frame
    BY <2>1 DEF Frame
  <2>4. /\ FrameLeft' = Frame.plen - 0 /\ FrameLeft = Frame.plen + 1
        /\ InputLeft' = InputLeft /\ InputLeft = Len(extent.frames) - p
        /\ LoopsLeft' = 0 /\ LoopsLeft = 0
    BY <2>1, <2>3 DEF FrameLeft, InputLeft, LoopsLeft
  <2>5. FrameLeft' \in Nat /\ FrameLeft' < FrameLeft /\ InputLeft \in Nat
    BY <2>1, <2>2, <2>4
  <2> QED
    BY <2>1, <2>4, <2>5 DEF WithinInput, DecodeCloser, Before
<1>3. CASE ZstdRead /\ pc' # "returned"
  <2>1. pc = "read" /\ got \in Nat /\ p < Len(extent.frames) /\ got <= Frame.plen
    BY <1>3 DEF ZstdRead, DecodeInv
  <2>2. Frame.plen \in Nat /\ Len(extent.frames) \in Nat /\ p \in Nat
    BY <2>1, FrameLength
  <2>3. PICK n \in 0 .. BufLen :
          /\ got + n <= Frame.plen
          /\ \/ /\ pc' = "frame" /\ p' = p + 1
                /\ UNCHANGED <<extent, build, got, dst, result>>
             \/ /\ n > 0 /\ got' = got + n
                /\ UNCHANGED <<extent, build, pc, p, result>>
    BY <1>3 DEF ZstdRead, Return, Bad
  <2>4. n \in Nat
    BY SizesAssumption
  <2>5. CASE pc' = "frame" /\ p' = p + 1 /\ UNCHANGED <<extent, build, got, dst, result>>
    <3>1. /\ Len(extent.frames)' = Len(extent.frames)
          /\ Len(extent.frames) - (p + 1) \in Nat
          /\ Len(extent.frames) - (p + 1) < Len(extent.frames) - p
      BY <2>1, <2>2, <2>5
    <3>2. p' < Len(extent.frames)' => Frame.plen' \in Nat
      <4>1. ASSUME p + 1 < Len(extent.frames)
            PROVE  extent.frames[p + 1 + 1].plen \in Nat
        <5>1. extent.frames \in Seq(Frames)
          BY <2>1, FrameLength
        <5>2. p + 1 + 1 \in 1 .. Len(extent.frames)
          BY <2>2, <4>1
        <5>3. extent.frames[p + 1 + 1] \in Frames
          BY <5>1, <5>2, ElementOfSeq
        <5> QED
          BY <5>3 DEF Frames
      <4>2. Frame' = extent.frames[p + 1 + 1]
        BY <2>5 DEF Frame
      <4> QED
        BY <2>5, <3>1, <4>1, <4>2
    <3>3. /\ InputLeft' = Len(extent.frames) - (p + 1) /\ InputLeft = Len(extent.frames) - p
          /\ LoopsLeft' = 0 /\ LoopsLeft = 0
      BY <2>1, <2>5, <3>1 DEF InputLeft, LoopsLeft
    <3>4. FrameLeft' \in Nat
      BY <2>5, <3>2 DEF FrameLeft
    <3> QED
      BY <2>5, <3>1, <3>3, <3>4 DEF WithinInput, DecodeCloser, Before
  <2>6. CASE n > 0 /\ got' = got + n /\ UNCHANGED <<extent, build, pc, p, result>>
    <3>1. Frame' = Frame /\ pc' = "read"
      BY <2>1, <2>6 DEF Frame
    <3>2. /\ FrameLeft' = Frame.plen - (got + n) /\ FrameLeft = Frame.plen - got
          /\ InputLeft' = InputLeft /\ InputLeft = Len(extent.frames) - p
          /\ LoopsLeft' = 0 /\ LoopsLeft = 0
      BY <2>1, <2>6, <3>1 DEF FrameLeft, InputLeft, LoopsLeft
    <3>3. FrameLeft' \in Nat /\ FrameLeft' < FrameLeft /\ InputLeft \in Nat
      BY <2>1, <2>2, <2>3, <2>4, <2>6, <3>2, SMTT(30)
    <3> QED
      BY <3>1, <3>2, <3>3 DEF WithinInput, DecodeCloser, Before
  <2> QED
    BY <2>3, <2>5, <2>6
<1> QED
  BY <1>1, <1>2, <1>3

(* On every extent, however forged its lengths, each step of the decoders  *)
(* returns or leaves less to do, in an order without infinite descent: no  *)
(* turn of the LZO loop stays where it is, and no frame is read for ever.  *)
THEOREM DecodersAreBounded == Spec => []WithinInput /\ [][DecodeCloser]_vars
<1>1. Init => WithinInput
  BY DEF Init, WithinInput, LoopsLeft, InputLeft, FrameLeft
<1>2. DecodeInv /\ DecodeInv' /\ WithinInput /\ [Next]_vars => WithinInput' /\ [DecodeCloser]_vars
  <2> SUFFICES ASSUME DecodeInv, DecodeInv', WithinInput, [Next]_vars
               PROVE  WithinInput' /\ [DecodeCloser]_vars
    OBVIOUS
  <2>1. CASE UNCHANGED vars
    BY <2>1 DEF vars, WithinInput, LoopsLeft, InputLeft, FrameLeft, Frame
  <2>2. CASE Refuse \/ DecodeZlib \/ LzoDone \/ LzoShortHeader
    <3>1. pc' = "returned"
      BY <2>2 DEF Refuse, DecodeZlib, LzoDone, LzoShortHeader, Bad, Return
    <3> QED
      BY <3>1, ReturnCloser
  <2> QED
    BY <2>1, <2>2, StartCloser, SegmentCloser, ZstdCloser DEF Next
<1> QED
  BY <1>1, <1>2, DecodeInvariant, PTL DEF Spec
=============================================================================
