--------------------------- MODULE MCChunkedRead ----------------------------
(* A small instance: an eight-address space, chunks of every start with    *)
(* lengths that leave gaps, touch, overlap, overflow and are empty, and    *)
(* one representative of each profile and stripe layout; reads that start  *)
(* anywhere and cross up to three of them.                                 *)
EXTENDS ChunkedRead

St(d, o) == [devid |-> d, offset |-> o]
C(l, n, p, ss) == [logical |-> l, length |-> n, profile |-> p, stripes |-> ss]

MCChunks ==
  {C(l, n, "single", <<St(1, 1)>>) : l \in {0, 2, 3, 4, 6}, n \in {0, 2}}
  \cup {C(l, 3, "single", <<St(1, 1)>>) : l \in {1, 5}}
  \cup {C(l, 2, "RAID1", <<St(2, 0), St(1, 4)>>) : l \in {0, 4}}
  \cup {C(6, 1, "DUP", <<St(1, 7), St(1, 2)>>),
        C(2, 2, "single", <<St(1, 6)>>),
        C(4, 3, "single", <<St(1, 6)>>),
        C(3, 2, "single", <<St(2, 0)>>),
        C(4, 2, "RAID0", <<St(1, 0)>>),
        C(2, 2, "RAID1", <<>>)}

LongChunks == {C(0, 7, "single", <<St(1, 0)>>), C(0, 4, "DUP", <<St(1, 1), St(1, 3)>>),
               C(4, 3, "RAID1", <<St(1, 2)>>)}
=============================================================================
