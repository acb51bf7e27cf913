----------------------------- MODULE Decompress -----------------------------
(***************************************************************************)
(* Decoding one compressed extent: the dispatch of                         *)
(* src/src/compression/mod.rs, the LZO segment framing of lzo.rs, the      *)
(* frame loop of zstd.rs and the limited inflate of zlib.rs.               *)
(*                                                                         *)
(* The codecs themselves (lzokay, ruzstd, miniz_oxide) are external: given *)
(* exactly what a compressor wrote they give its plaintext back, given     *)
(* anything else they fail or give some bytes, as many as their buffer     *)
(* allows.  A plaintext byte is <<piece, position>>.                       *)
(***************************************************************************)
EXTENDS Integers, SequencesExt

CONSTANTS
  Sectorsize,        \* the filesystem's sector size
  HeaderLen,         \* SEGMENT_HEADER
  BufLen,            \* length of zstd.rs's read buffer
  MaxDecompressed,   \* MAX_DECOMPRESSED_EXTENT_BYTES
  Words,             \* what a u32 read where the writer put none may be
  Builds,            \* sets of enabled codec features
  Extents            \* the compressed extents a disk may hold

(* A piece is one LZO sector or one zstd frame: its plaintext is `plen`    *)
(* bytes, its compressed form `clen`.                                      *)
Plain(piece) == [k \in 1 .. piece.plen |-> <<piece.id, k>>]

(* What the bytes of an LZO extent are: the first byte of a u32 length, a  *)
(* byte of a compressed sector, or anything else.                          *)
Word(n)       == [is |-> "word", value |-> n]
SegByte(s, i) == [is |-> "segment", of |-> s, at |-> i]
Other         == [is |-> "other"]

(* The cap, 16 MiB, is a whole number of sectors: a sector size is a power *)
(* of two of at most 64 KiB.                                               *)
ASSUME SizesAssumption ==
  /\ Sectorsize \in Nat /\ HeaderLen \in 1 .. Sectorsize
  /\ BufLen \in Nat \ {0} /\ MaxDecompressed \in Nat
  /\ \E k \in 1 .. MaxDecompressed : MaxDecompressed = k * Sectorsize

(* What an extent may hold, sound or not: any bytes, any lengths.          *)
Pieces   == [id : Nat, clen : Nat, plen : Nat]
LzoBytes == [is : {"word"}, value : Nat] \cup [is : {"segment"}, of : Pieces, at : Nat]
            \cup {Other}
Frames   == [kind : {"frame", "bad_header", "bad_body", "padding"}, id : Nat, plen : Nat]

ASSUME InputsAssumption ==
  /\ Words \subseteq Nat
  /\ Builds \subseteq SUBSET {"zlib", "lzo", "zstd"}
  /\ \A x \in Extents :
       \/ x.algorithm = "zlib" /\ x.sound \in BOOLEAN /\ x.plain \in Seq(Nat \X Nat)
       \/ x.algorithm = "lzo" /\ x.total \in Nat /\ x.bytes \in Seq(LzoBytes)
       \/ x.algorithm = "zstd" /\ x.frames \in Seq(Frames)
       \/ x.algorithm = "unknown"

-----------------------------------------------------------------------------
(* Reference: an extent a compressor wrote, `written`, holding what `plain`*)
(* records.                                                                *)

(* The writer leaves out the rest of a sector too short for a header.      *)
Padding(at) ==
  LET within == at % Sectorsize IN
  IF within + HeaderLen > Sectorsize THEN Sectorsize - within ELSE 0

(* The bytes of x hold the header and the body of s, the padding that      *)
(* `from` calls for being left out first, up to `end`.                     *)
SegmentWritten(x, s, from, end) ==
  LET at == from + Padding(from) IN
  /\ end = at + HeaderLen + s.clen
  /\ x.bytes[at + 1] = Word(s.clen)
  /\ \A j \in 1 .. s.clen : x.bytes[at + HeaderLen + j] = SegByte(s, j)

(* The bytes of plain after `from` are the plaintext of s.                 *)
PlainWritten(plain, s, from) == \A k \in 1 .. s.plen : plain[from + k] = <<s.id, k>>

(* LZO: one segment for each sector of the plaintext, whole ones but the   *)
(* last; ends[i] is where the i-th segment ends.  The total counts the     *)
(* padding after the last segment (the kernel) or not.                     *)
LzoWritten(x) ==
  LET n == Len(x.pieces) IN
  /\ x.pieces \in Seq(Pieces) /\ n > 0
  /\ x.ends \in [0 .. n -> Nat] /\ x.ends[0] = HeaderLen
  /\ x.total \in {x.ends[n], x.ends[n] + Padding(x.ends[n])} /\ x.total <= Len(x.bytes)
  /\ x.plain \in Seq(Nat \X Nat) /\ Len(x.plain) <= MaxDecompressed
  /\ Len(x.plain) = (n - 1) * Sectorsize + x.pieces[n].plen
  /\ \A i \in 1 .. n :
       /\ x.pieces[i].clen > 0 /\ x.pieces[i].plen \in 1 .. Sectorsize
       /\ i < n => x.pieces[i].plen = Sectorsize
       /\ SegmentWritten(x, x.pieces[i], x.ends[i - 1], x.ends[i]) /\ x.ends[i] <= x.total
       /\ PlainWritten(x.plain, x.pieces[i], (i - 1) * Sectorsize)

(* Zstd: `count` frames and then nothing or padding; ends[i] is where the  *)
(* plaintext of the i-th frame ends.                                       *)
ZstdWritten(x) ==
  LET n == x.count IN
  /\ n \in 0 .. Len(x.frames)
  /\ n < Len(x.frames) => x.frames[n + 1].kind = "padding"
  /\ x.ends \in [0 .. n -> Nat] /\ x.ends[0] = 0
  /\ x.plain \in Seq(Nat \X Nat) /\ Len(x.plain) = x.ends[n]
  /\ \A i \in 1 .. n :
       /\ x.frames[i].kind = "frame"
       /\ x.ends[i] = x.ends[i - 1] + x.frames[i].plen /\ x.ends[i] <= MaxDecompressed
       /\ PlainWritten(x.plain, x.frames[i], x.ends[i - 1])

ASSUME WrittenAssumption ==
  \A x \in Extents : x.written =>
    \/ x.algorithm = "zlib" /\ x.sound /\ Len(x.plain) <= MaxDecompressed
    \/ x.algorithm = "lzo" /\ LzoWritten(x)
    \/ x.algorithm = "zstd" /\ ZstdWritten(x)

-----------------------------------------------------------------------------
VARIABLES
  extent,   \* what the disk holds, with what was compressed into it
  build,    \* the enabled features
  pc,       \* "call", "lzo", "frame", "read" or "returned"
  p,        \* bytes (lzo) or frames (zstd) consumed
  got,      \* bytes read from the current zstd frame
  dst,      \* the output
  result    \* "pending", "ok", "bad_compression" or "panic"

vars == <<extent, build, pc, p, got, dst, result>>

Return(r) ==
  /\ pc' = "returned"
  /\ result' = r
  /\ UNCHANGED <<extent, build, p, got, dst>>

Bad == Return("bad_compression")

-----------------------------------------------------------------------------
(* Every caller passes an empty dst, and handles COMPRESS_NONE itself.     *)
Init ==
  /\ extent \in Extents
  /\ build \in Builds
  /\ pc = "call"
  /\ p = 0
  /\ got = 0
  /\ dst = <<>>
  /\ result = "pending"

Enter(loop, at) ==
  /\ pc' = loop
  /\ p' = at
  /\ UNCHANGED <<extent, build, got, dst, result>>

Calling(algorithm) == pc = "call" /\ extent.algorithm = algorithm /\ algorithm \in build

(* decode: an algorithm that is unknown or not compiled in.                *)
Refuse ==
  /\ pc = "call"
  /\ extent.algorithm \notin build
  /\ Bad

(* zlib::decode: miniz_oxide stops at the room left in dst.                *)
DecodeZlib ==
  /\ Calling("zlib")
  /\ \/ /\ extent.sound
        /\ Len(dst) < MaxDecompressed
        /\ Len(extent.plain) <= MaxDecompressed - Len(dst)
        /\ dst' = dst \o extent.plain
        /\ pc' = "returned"
        /\ result' = "ok"
        /\ UNCHANGED <<extent, build, p, got>>
     \/ /\ \/ ~extent.sound
           \/ MaxDecompressed - Len(dst) <= 0
           \/ Len(extent.plain) > MaxDecompressed - Len(dst)
        /\ Bad

-----------------------------------------------------------------------------
(* LZO.                                                                    *)

SrcLen == Len(extent.bytes)

(* Mutant of StartLzo: the total length is not compared with the input.    *)
StartLzoTrusting ==
  /\ Calling("lzo")
  /\ IF SrcLen < HeaderLen \/ extent.total < HeaderLen THEN Bad ELSE Enter("lzo", HeaderLen)

(* lzo::decode: the outer length.                                          *)
StartLzo ==
  /\ Calling("lzo")
  /\ IF SrcLen < HeaderLen \/ extent.total > SrcLen \/ extent.total < HeaderLen
     THEN Bad ELSE Enter("lzo", HeaderLen)

(* Mutant of HeaderAt: no padding is skipped before the boundary.          *)
HeaderAtNoSkip(at) == at

(* Where the header of the segment at `at` is: at the next sector when it  *)
(* would cross the boundary.                                               *)
HeaderAt(at) ==
  LET left == Sectorsize - (at % Sectorsize) IN
  IF left < HeaderLen THEN at + left ELSE at

(* The little-endian u32 at offset `at`.                                   *)
U32At(at) ==
  IF extent.bytes[at + 1].is = "word" THEN {extent.bytes[at + 1].value} ELSE Words

(* The bytes [at, end) are the compressed form of piece s.                 *)
HoldsSegment(s, at, end) ==
  /\ end - at = s.clen
  /\ \A i \in 1 .. s.clen : extent.bytes[at + i] = SegByte(s, i)

Junk(n) == [k \in 1 .. n |-> <<"junk", k>>]

(* lzokay::decompress of [at, end) into a buffer of one sector: its        *)
(* possible outcomes.                                                      *)
Lzokay(at, end) ==
  LET first == extent.bytes[at + 1]
      failed == [ok |-> FALSE, bytes |-> <<>>] IN
  IF first.is = "segment" /\ HoldsSegment(first.of, at, end)
  THEN {IF first.of.plen <= Sectorsize THEN [ok |-> TRUE, bytes |-> Plain(first.of)] ELSE failed}
  ELSE {failed} \cup {[ok |-> TRUE, bytes |-> Junk(n)] : n \in {0, 1, Sectorsize}}

(* Mutant of LzoVerdict: the room left is judged by what dst holds, not by *)
(* what a segment may add to it.                                           *)
LzoVerdictNoRoom(at, n) ==
  IF n = 0 THEN "ok"
  ELSE IF at + n > extent.total THEN "bad_compression"
  ELSE IF at + n > SrcLen THEN "panic"
  ELSE IF Len(dst) > MaxDecompressed THEN "bad_compression"
  ELSE "decode"

(* What follows the header of a segment of length n whose payload is at    *)
(* `at`: a zero length ends the stream, the payload must lie inside the    *)
(* total (a slice past the input would panic), and a whole sector must fit *)
(* in dst.                                                                 *)
LzoVerdict(at, n) ==
  IF n = 0 THEN "ok"
  ELSE IF at + n > extent.total THEN "bad_compression"
  ELSE IF at + n > SrcLen THEN "panic"
  ELSE IF Len(dst) + Sectorsize > MaxDecompressed THEN "bad_compression"
  ELSE "decode"

(* The loop's end: all consumed, or nothing but padding left.              *)
LzoDone ==
  /\ pc = "lzo"
  /\ p >= extent.total \/ HeaderAt(p) >= extent.total
  /\ Return("ok")

(* A header that does not fit in the total is refused; one that does not   *)
(* fit in the input would be an out-of-bounds index.                       *)
LzoShortHeader ==
  LET at == HeaderAt(p) + HeaderLen IN
  /\ pc = "lzo"
  /\ p < extent.total /\ HeaderAt(p) < extent.total
  /\ at > extent.total \/ at > SrcLen
  /\ Return(IF at > extent.total THEN "bad_compression" ELSE "panic")

(* One segment.                                                            *)
LzoSegment ==
  LET at == HeaderAt(p) + HeaderLen IN
  /\ pc = "lzo"
  /\ p < extent.total
  /\ at <= extent.total /\ at <= SrcLen
  /\ \E n \in U32At(HeaderAt(p)) :
       IF LzoVerdict(at, n) # "decode" THEN Return(LzoVerdict(at, n))
       ELSE \E o \in Lzokay(at, at + n) :
              IF ~o.ok THEN Bad
              ELSE /\ dst' = dst \o o.bytes
                   /\ p' = at + n
                   /\ UNCHANGED <<extent, build, pc, got, result>>

-----------------------------------------------------------------------------
(* Zstd.                                                                   *)

StartZstd == Calling("zstd") /\ Enter("frame", 0)

Frame == extent.frames[p + 1]

(* The outer loop: anything that does not begin with the frame magic, or   *)
(* fewer than four bytes of it, is padding; a bad frame header is refused. *)
ZstdFrame ==
  /\ pc = "frame"
  /\ \/ p = Len(extent.frames) /\ Return("ok")
     \/ p < Len(extent.frames) /\ Frame.kind = "padding" /\ Return("ok")
     \/ p < Len(extent.frames) /\ Frame.kind = "bad_header" /\ Bad
     \/ /\ p < Len(extent.frames) /\ Frame.kind \in {"frame", "bad_body"}
        /\ pc' = "read"
        /\ got' = 0
        /\ UNCHANGED <<extent, build, p, dst, result>>

(* Mutant of ZstdRead: a decoder at the end of its frame is asked again.   *)
ZstdReadNoEnd ==
  /\ pc = "read"
  /\ \E n \in 0 .. BufLen :
       /\ got + n <= Frame.plen /\ (n = 0 => got = Frame.plen)
       /\ \/ n = 0 /\ Frame.kind = "bad_body" /\ Bad
          \/ n > 0 /\ Len(dst) + n > MaxDecompressed /\ Bad
          \/ /\ n > 0 /\ Len(dst) + n <= MaxDecompressed
             /\ dst' = dst \o SubSeq(Plain(Frame), got + 1, got + n)
             /\ got' = got + n
             /\ UNCHANGED <<extent, build, pc, p, result>>

(* One read of the inner loop: StreamingDecoder gives up to BufLen bytes,  *)
(* and 0 at the end of the frame, where a damaged one fails.               *)
ZstdRead ==
  /\ pc = "read"
  /\ \E n \in 0 .. BufLen :
       /\ got + n <= Frame.plen /\ (n = 0 => got = Frame.plen)
       /\ \/ n = 0 /\ Frame.kind = "bad_body" /\ Bad
          \/ /\ n = 0 /\ Frame.kind = "frame"
             /\ pc' = "frame"
             /\ p' = p + 1
             /\ UNCHANGED <<extent, build, got, dst, result>>
          \/ n > 0 /\ Len(dst) + n > MaxDecompressed /\ Bad
          \/ /\ n > 0 /\ Len(dst) + n <= MaxDecompressed
             /\ dst' = dst \o SubSeq(Plain(Frame), got + 1, got + n)
             /\ got' = got + n
             /\ UNCHANGED <<extent, build, pc, p, result>>

-----------------------------------------------------------------------------
Next ==
  \/ Refuse \/ DecodeZlib
  \/ StartLzo \/ LzoDone \/ LzoShortHeader \/ LzoSegment
  \/ StartZstd \/ ZstdFrame \/ ZstdRead

(* The decoders wait for nothing.                                          *)
Spec == Init /\ [][Next]_vars /\ WF_vars(Next)

-----------------------------------------------------------------------------
(* An extent as a writer leaves it, padded to whole sectors on disk,       *)
(* decodes to exactly what was compressed, up to a plaintext of            *)
(* MAX_DECOMPRESSED_EXTENT_BYTES: no header is looked for in the padding,  *)
(* no padding is taken for data, and no limit cuts it short.               *)
WrittenExtentDecodes ==
  (pc = "returned" /\ extent.written /\ extent.algorithm \in build) =>
     result = "ok" /\ dst = extent.plain

(* No extent, however forged, expands past the cap, at any point of the    *)
(* decoding: the buffer of a hostile extent stays bounded.                 *)
OutputIsBounded == Len(dst) <= MaxDecompressed

(* No total and no segment length makes the decoder index or slice past    *)
(* the input.                                                              *)
StaysInInput == result # "panic"

(* Decoding ends on every input.                                           *)
DecodeReturns == <>(pc = "returned")
=============================================================================
