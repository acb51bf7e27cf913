---------------------------- MODULE MCNamespace ----------------------------
(* Volumes for Namespace: the top level (5), a subvolume (300) and one      *)
(* nested deeper (301), whose entries are copied the way snapshots copy     *)
(* them, with the links of the root tree right, missing, or elsewhere.      *)
EXTENDS Namespace, TLC

Entry(name, to) == [name |-> name, to |-> to, encrypted |-> FALSE, short |-> FALSE]
ToInode(id) == [objectid |-> id, item_type |-> "INODE_ITEM"]
ToSubvol(id) == [objectid |-> id, item_type |-> "ROOT_ITEM"]

\* "a" and "s" share a hash; "z" has its own.
MCNameHash == "a" :> 1 @@ "s" :> 1 @@ "z" :> 2

A(dir, to) == <<dir, 1>> :> <<Entry("a", to)>>
AS(dir, a, s) == <<dir, 1>> :> <<Entry("a", a), Entry("s", s)>>

\* /a is a directory, /s subvolume 300, /a/s subvolume 301.
TopTree == AS(256, ToInode(257), ToSubvol(300)) @@ AS(257, ToInode(258), ToSubvol(301))
\* 300 as a snapshot of the top level, or with 301 linked from its own root.
SnapshotTree == TopTree
\* A file with two names, one of them beside a subvolume.
HardLinkTree == AS(256, ToInode(257), ToSubvol(301)) @@ (<<256, 2>> :> <<Entry("z", ToInode(257))>>)
OwnTree == AS(256, ToInode(257), ToSubvol(301)) @@ (<<256, 2>> :> <<Entry("z", ToInode(258))>>)
InnerTree == A(256, ToInode(257))
DamagedTrees ==
    {<<256, 1>> :> <<Entry("a", [objectid |-> 257, item_type |-> "other"])>>,
     <<256, 1>> :> <<[Entry("a", ToInode(257)) EXCEPT !.encrypted = TRUE], Entry("s", ToSubvol(301))>>,
     <<256, 1>> :> <<Entry("a", ToInode(257)), [Entry("s", ToSubvol(301)) EXCEPT !.short = TRUE]>>,
     <<256, 1>> :> <<Entry("a", ToInode(256)), Entry("a", ToSubvol(301))>>}

Ref(dirid, name) == [dirid |-> dirid, name |-> name, short |-> FALSE]
ShortRef == [dirid |-> 256, name |-> "s", short |-> TRUE]
NoRefs == [x \in {} |-> x]

\* Links of 300 under 5, and of 301 under 5 or 300.
TopLink == <<5, 300>> :> Ref(256, "s")
Renamed == <<5, 300>> :> Ref(256, "a")
InnerLinks == {NoRefs, <<5, 301>> :> Ref(257, "s"), <<300, 301>> :> Ref(256, "s"),
               <<5, 301>> :> Ref(257, "s") @@ <<300, 301>> :> Ref(257, "s")}

Root(bytenr, refs) == [bytenr |-> bytenr, refs |-> refs, short |-> FALSE]
AllRoots == 5 :> Root(50, 1) @@ 300 :> Root(60, 1) @@ 301 :> Root(70, 1)

\* The DIR_INDEX items btrfs keeps beside the DIR_ITEMs of a tree.
IndexOf(tree) ==
    [dir \in {at[1] : at \in DOMAIN tree} |->
        UNION {ToSet(tree[at]) : at \in {a \in DOMAIN tree : a[1] = dir}}]

VolWith(roots, refs, default, hint, tree300, index300) ==
    [roots |-> roots, refs |-> refs, default |-> default, hint |-> hint,
     trees |-> 50 :> TopTree @@ 60 :> tree300 @@ 70 :> InnerTree,
     index |-> 50 :> IndexOf(TopTree) @@ 60 :> index300 @@ 70 :> IndexOf(InnerTree),
     dirs |-> 50 :> {257} @@ 60 :> (IF tree300 = SnapshotTree THEN {257} ELSE {258}) @@ 70 :> {257}]
Vol(roots, refs, default, hint, tree300) ==
    VolWith(roots, refs, default, hint, tree300, IndexOf(tree300))

Default(id) == [Entry("a", ToSubvol(id)) EXCEPT !.name = "default"]

Good == {Vol(AllRoots, TopLink @@ i, <<>>, 0, tree) :
           i \in InnerLinks, tree \in {SnapshotTree, OwnTree, HardLinkTree}}
        \cup {Vol(AllRoots, Renamed, <<>>, 0, OwnTree)}
Right == <<5, 300>> :> Ref(256, "s") @@ <<300, 301>> :> Ref(256, "s")
Damaged ==
    {Vol(AllRoots, Right, <<>>, 6, tree) : tree \in DamagedTrees}
    \cup {Vol(roots, Right, <<>>, 300, OwnTree) :
            roots \in {5 :> Root(50, 1) @@ 300 :> Root(60, 0),
                       5 :> Root(50, 1),
                       300 :> Root(60, 1) @@ 301 :> Root(70, 1),
                       [AllRoots EXCEPT ![301].short = TRUE],
                       [AllRoots EXCEPT ![5].refs = 0]}}
    \cup {Vol(AllRoots, <<5, 300>> :> ShortRef, d, 0, OwnTree) :
            d \in {<<Default(301)>>, <<Entry("a", ToSubvol(300)), Default(300)>>,
                   <<[Default(5) EXCEPT !.short = TRUE]>>, <<Default(999)>>}}
\* An index that lost entries, and one that disagrees with the DIR_ITEMs.
    \cup {VolWith(AllRoots, Right, <<>>, 0, OwnTree, index) :
            index \in {256 :> {Entry("z", ToInode(258))},
                       256 :> {Entry("a", ToSubvol(301)), [Entry("s", ToSubvol(301)) EXCEPT !.short = TRUE]},
                       257 :> {Entry("a", ToInode(256))}}}
MCVolumes == Good \cup Damaged

S == Slash
MCPaths == {<<S>>, <<S, "a">>, <<S, "s">>, <<S, "a", S, "s">>, <<S, S, "s", S, Dot, S, "s">>,
            <<S, "s", S, "a", S, "s">>, <<Dot, S, "a", S>>, <<"z">>}
=============================================================================
