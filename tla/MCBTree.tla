------------------------------ MODULE MCBTree -------------------------------
(* Two families of disks over seven blocks.  CorruptDisks: three blocks,   *)
(* each any of a range of leaves, interior nodes (cycles and level skips   *)
(* included) and damaged blocks.  TreeDisks: well-formed trees of up to    *)
(* three levels, four leaves and five keys in a leaf, separators exact or  *)
(* loose.                                                                  *)
EXTENDS BTree, SequencesExt

Leaf(ks) == [level |-> 0, nritems |-> Len(ks), keys |-> ks, ptrs |-> <<>>, damage |-> "none"]
Inner(l, ks, ps) ==
  [level |-> l, nritems |-> Len(ks), keys |-> ks, ptrs |-> ps, damage |-> "none"]

Blank == Leaf(<<>>)

Padded(t) == [b \in 1 .. 7 |-> IF b <= Len(t) THEN t[b] ELSE Blank]

CorruptLeaves ==
  {Leaf(ks) : ks \in {<<>>, <<1>>, <<3>>, <<1, 3>>, <<3, 1>>}}
  \cup {[Leaf(<<1, 2>>) EXCEPT !.nritems = 3], [Leaf(<<2>>) EXCEPT !.damage = "csum_mismatch"],
        [Leaf(<<3>>) EXCEPT !.damage = "bytenr_mismatch"]}

CorruptInners(bs) ==
  {Inner(1, <<>>, <<>>)}
  \cup {Inner(1, <<2>>, <<b>>) : b \in bs}
  \cup {Inner(1, ks, <<b, c>>) : ks \in {<<1, 2>>, <<2, 3>>}, b \in bs, c \in bs}

CorruptDisks ==
  {Padded(<<r, x, y>>) :
     r \in CorruptInners({2, 3}) \cup {Inner(1, <<1, 2, 3>>, <<2, 3, 2>>), Leaf(<<1, 3>>), Blank},
     x \in CorruptLeaves \cup CorruptInners({1, 3}),
     y \in CorruptLeaves \cup CorruptInners({2})}

-----------------------------------------------------------------------------
LeafOf(S) == Leaf(SetToSortSeq(S, <))

(* The leaves within [l, h) of one or two keys.                            *)
LeavesIn(l, h) == {LeafOf(S) : S \in {T \in SUBSET (l .. (h - 1)) : Cardinality(T) \in {1, 2}}}

OneLevel == {<<LeafOf(S)>> : S \in SUBSET (1 .. 5)}

TwoLevels ==
  UNION {{<<Inner(1, <<s, b1, b2>>, <<2, 3, 4>>), x, y, z>> :
            s \in {1, b1 - 1}, x \in LeavesIn(1, b1), y \in LeavesIn(b1, b2),
            z \in LeavesIn(b2, 6)} : b1 \in {2, 3}, b2 \in {4, 5}}
  \cup {<<Inner(1, <<1, 2, 3, 4, 5>>, <<2, 3, 4, 5, 6>>),
          LeafOf({1}), LeafOf({2}), LeafOf({3}), LeafOf({4}), LeafOf({5})>>}

ThreeLevels ==
  UNION {{<<Inner(2, <<1, b2>>, <<2, 3>>),
            Inner(1, <<1, b1>>, <<4, 5>>), Inner(1, <<s, b3>>, <<6, 7>>),
            w, x, y, z>> :
            s \in {b2, y.keys[1]},
            w \in LeavesIn(1, b1), x \in LeavesIn(b1, b2), z \in LeavesIn(b3, 6)} :
         b1 \in {2, 3}, b2 \in {3, 4}, b3 \in {4, 5}, y \in LeavesIn(3, 5)}

TreeDisks == {d \in {Padded(t) : t \in OneLevel \cup TwoLevels \cup ThreeLevels} : WellFormed(d)}

MCDisks == CorruptDisks \cup TreeDisks
=============================================================================
