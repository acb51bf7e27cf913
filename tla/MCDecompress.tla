---------------------------- MODULE MCDecompress ----------------------------
(* LZO extents of up to three sectors whose compressed lengths put the     *)
(* next header at every distance from a sector boundary, laid out both     *)
(* ways, with and without disk padding; forged totals and lengths; zstd    *)
(* extents of up to three frames, good, damaged or padding.                *)
EXTENDS Decompress

Sec(i, c, n) == [id |-> i, clen |-> c, plen |-> n]

(* The writers.  `eager` is the kernel, which pads after a sector and      *)
(* counts that in the total; the alternative pads before the next one.     *)
Fill(n) == [k \in 1 .. n |-> Other]

Pad(bytes) == bytes \o Fill(Padding(Len(bytes)))

AddSegment(bytes, s, eager) ==
  LET whole == Pad(bytes) \o <<Word(s.clen)>> \o Fill(HeaderLen - 1)
               \o [i \in 1 .. s.clen |-> SegByte(s, i)] IN
  IF eager THEN Pad(whole) ELSE whole

LayOut(sectors, eager) ==
  FoldLeft(LAMBDA bytes, s : AddSegment(bytes, s, eager), Fill(HeaderLen), sectors)

PlainOf(pieces) == FlattenSeq([i \in DOMAIN pieces |-> Plain(pieces[i])])

(* Full sectors but the last.                                              *)
SectorLists ==
  {<<Sec(1, c, n)>> : c \in 1 .. 9, n \in {1, Sectorsize}}
  \cup {<<Sec(1, c, Sectorsize), Sec(2, d, n)>> : c \in 1 .. 9, d \in 1 .. 9, n \in {1, Sectorsize}}
  \cup {<<Sec(1, c, Sectorsize), Sec(2, d, Sectorsize), Sec(3, e, 3)>> :
          c \in 1 .. 9, d \in 1 .. 9, e \in {1, 5}}

Lzo(bytes, total) ==
  [algorithm |-> "lzo", bytes |-> bytes, total |-> total, written |-> FALSE]

WrittenLzo ==
  {LET b == LayOut(s, eager) IN
   [algorithm |-> "lzo", bytes |-> b \o Fill(tail), total |-> Len(b), written |-> TRUE,
    pieces |-> s, plain |-> PlainOf(s),
    ends |-> [i \in 0 .. Len(s) |-> Len(LayOut(SubSeq(s, 1, i), FALSE))]] :
     s \in SectorLists, eager \in BOOLEAN, tail \in {0, 5}}

(* Totals that do not match; lengths where the writer put something else.  *)
ForgedLzo ==
  {Lzo(Fill(n), t) : n \in {0, 3, 4, 7, 8, 13, 21}, t \in {0, 3, 4, 6, 8, 12, 21, 22}}
  \cup {Lzo(LayOut(<<Sec(1, c, n), Sec(2, 3, n), Sec(3, 2, n)>>, TRUE), t) :
          c \in {2, 6}, n \in {2, Sectorsize + 1}, t \in {9, 12, 14, 24, 26, 40}}
  \cup {Lzo(LayOut([i \in 1 .. 4 |-> Sec(i, 1, Sectorsize)], TRUE), 32)}

Fr(k, i, n) == [kind |-> k, id |-> i, plen |-> n]
Tail3 == {<<>>, <<Fr("padding", 9, 0)>>}

WrittenZstd ==
  {[algorithm |-> "zstd", frames |-> f \o t, written |-> TRUE,
    count |-> Len(f), plain |-> PlainOf(f),
    ends |-> [i \in 0 .. Len(f) |-> Len(PlainOf(SubSeq(f, 1, i)))]] :
     f \in {<<Fr("frame", 1, n)>> : n \in {0, 1, 5, MaxDecompressed}}
           \cup {<<Fr("frame", 1, n), Fr("frame", 2, m)>> : n \in {3, 8}, m \in {0, 2, 16}},
     t \in Tail3}

ForgedZstd ==
  {[algorithm |-> "zstd", frames |-> <<Fr("frame", 1, 4), f, Fr("frame", 3, n)>>,
    written |-> FALSE] :
     f \in {Fr("bad_header", 2, 0), Fr("bad_body", 2, 3), Fr("padding", 2, 0), Fr("frame", 2, 15)},
     n \in {4, 6, 40}}

Zlib ==
  {[algorithm |-> "zlib", sound |-> s, plain |-> Plain(Sec(1, 1, n)),
    written |-> s /\ n <= MaxDecompressed] :
     s \in BOOLEAN, n \in {0, 3, MaxDecompressed, MaxDecompressed + 1}}

MCExtents ==
  WrittenLzo \cup ForgedLzo \cup WrittenZstd \cup ForgedZstd \cup Zlib
  \cup {[algorithm |-> "unknown", written |-> FALSE]}
=============================================================================
