---------------------------- MODULE MCChunkTree -----------------------------
(* Trees of one or two levels whose blocks lie in two chunks, the second   *)
(* of which the system array may or may not describe; CHUNK_ITEMs that are *)
(* sound, overlapping, overflowing, empty and malformed; arrays that are   *)
(* right, wrong, short and longer than their space.                        *)
EXTENDS ChunkTree, SequencesExt

St(d, o) == [devid |-> d, offset |-> o]
C(l, n, pr, ss) == [logical |-> l, length |-> n, profile |-> pr, stripes |-> ss]

A  == C(0, 3, "single", <<St(1, 1)>>)
B  == C(4, 2, "RAID1", <<St(2, 0), St(1, 5)>>)
A2 == C(0, 3, "single", <<St(1, 0)>>)
E  == C(2, 2, "DUP", <<St(1, 0)>>)
D  == C(6, 2, "single", <<St(1, 0)>>)
Z  == C(7, 0, "RAID0", <<St(1, 0)>>)
F  == C(5, 1, "single", <<St(1, 0)>>)
Wide == C(0, 1, "single", <<St(1, 1), St(1, 2), St(1, 3), St(1, 4)>>)

MCChunks == {A, B, A2, E, D, Z, F, Wide}

(* Keys: 0..7 DEV_ITEMs, 8..15 none, 16..23 CHUNK_ITEMs by logical start,  *)
(* 24..31 items of a later type.                                           *)
MCPayload == [k \in {16, 18, 20, 21, 22, 23} |->
  CASE k = 16 -> A [] k = 18 -> E [] k = 20 -> B [] k = 21 -> F [] k = 22 -> D [] k = 23 -> Z]

MCHome == [b \in {0, 1, 2, 4} |-> b + 1]

LeafOf(ks) == [level |-> 0, nritems |-> Len(ks), keys |-> ks, ptrs |-> <<>>, damage |-> "none"]

SortedSeq(S) == SetToSortSeq(S, <)

(* The keys of S in one leaf, or split before its i-th key over blocks x y. *)
OneLeaf(S) == [b \in Blocks |-> IF b = 0 THEN LeafOf(SortedSeq(S)) ELSE LeafOf(<<>>)]
TwoLeaves(S, i, x, y) ==
  LET s == SortedSeq(S) IN
  [b \in Blocks |->
     CASE b = 0 -> [level |-> 1, nritems |-> 2, keys |-> <<s[1], s[i]>>,
                    ptrs |-> <<x, y>>, damage |-> "none"]
       [] b = x -> LeafOf(SubSeq(s, 1, i - 1))
       [] b = y -> LeafOf(SubSeq(s, i, Len(s)))
       [] OTHER -> LeafOf(<<>>)]

KeySets == {S \in SUBSET {3, 16, 18, 20, 21, 22, 23, 25} : Cardinality(S) \in 2 .. 4 /\ {16, 20} \cap S # {}}

MCDisks ==
  {OneLeaf(S) : S \in {T \in KeySets : Cardinality(T) = 2}}
  \cup UNION {{TwoLeaves(S, i, 1, 4), TwoLeaves(S, i, 4, 2)} :
                S \in KeySets, i \in 2 .. 2}
  \cup {TwoLeaves(S, 3, 1, 2) : S \in {T \in KeySets : Cardinality(T) > 2}}

Ent(c) == [is_chunk_key |-> TRUE, chunk |-> c]

MCSysArrays == {<<Ent(A)>>, <<Ent(A), Ent(B)>>, <<Ent(A2)>>, <<Ent(A), Ent(E)>>,
                <<[Ent(A) EXCEPT !.is_chunk_key = FALSE]>>, <<Ent(Wide)>>, <<Ent(A), Ent(Wide)>>}
=============================================================================
