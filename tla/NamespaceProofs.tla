-------------------------- MODULE NamespaceProofs ---------------------------
(***************************************************************************)
(* Proofs about Namespace: on any volume, damaged or not, a walk stays in  *)
(* a live subvolume and an instance is open at a subvolume's root; and on  *)
(* any volume as btrfs writes one, with any number of subvolumes, hard     *)
(* links and snapshots, a name leads to one inode however it is spelled,   *)
(* and a directory has one name.                                           *)
(*                                                                         *)
(* The argument turns what the calls see into paths of the volume itself:  *)
(* Leads(v, f, path, x) says that the volume has a trace of inodes from    *)
(* the root of subvolume f to x, one entry of a directory for each name.   *)
(* That every name seen is such a path is the invariant; the properties    *)
(* are then facts about traces of a legal volume.                          *)
(***************************************************************************)
EXTENDS Namespace, SequenceTheorems, FiniteSetTheorems, WellFoundedInduction, TLAPS

(* The least-number principle, for sets: what stands in for induction over *)
(* the inodes of a trace.                                                  *)
LEMMA LeastNumber ==
  ASSUME NEW T \in SUBSET Nat, T # {}
  PROVE  \E x \in T : \A y \in T : x <= y
<1> DEFINE R == OpToRel(<, Nat)
<1>1. R = {ss \in Nat \X Nat : ss[1] < ss[2]}
  BY Zenon DEF OpToRel
<1>2. IsWellFoundedOn(R, Nat)
  BY NatLessThanWellFounded, Zenon
<1> HIDE DEF R
<1>3. PICK x \in T : \A y \in T : ~(<<y, x>> \in R)
  BY <1>2, WFMin
<1>4. ASSUME NEW y \in T PROVE x <= y
  <2>1. ~(<<y, x>> \in R)
    BY <1>3
  <2>2. x \in Nat /\ y \in Nat
    OBVIOUS
  <2> QED
    BY <2>1, <2>2, <1>1
<1> QED
  BY <1>4

-----------------------------------------------------------------------------
(* What a volume says, apart from any call.                                *)

AllNames == Names \cup {"default"}

\* Subvolume id of v has a live root item.
LiveRoot(v, id) == id \in DOMAIN v.roots /\ v.roots[id].refs # 0 /\ ~v.roots[id].short

\* x is the root directory of subvolume id.
RootOf(v, id, x) ==
  /\ LiveRoot(v, id)
  /\ x = [subvol |-> id, tree_root |-> v.roots[id].bytenr, objectid |-> FIRST_FREE_OBJECTID]

\* x is an inode number of the tree of a live subvolume.
InTree(v, x) ==
  /\ x \in Inode
  /\ LiveRoot(v, x.subvol)
  /\ x.tree_root = v.roots[x.subvol].bytenr

\* Directory d has a DIR_ITEM `name` that points to `to`.
ItemOf(v, d, name, to) ==
  \E p \in Entries(v, d.tree_root) :
    /\ p[1][1] = d.objectid
    /\ EntryAt(v, d.tree_root, p).name = name
    /\ EntryAt(v, d.tree_root, p).to = to

\* It has such an entry, in its DIR_ITEMs or among its DIR_INDEX items.
EntryOf(v, d, name, to) ==
  \/ ItemOf(v, d, name, to)
  \/ \E e \in DirIndex(v, d.tree_root, d.objectid) : e.name = name /\ e.to = to

\* The root tree links subvolume `child` at entry `name` of directory d.
Linked(v, d, name, child) ==
  /\ <<d.subvol, child>> \in DOMAIN v.refs
  /\ v.refs[<<d.subvol, child>>].dirid = d.objectid
  /\ v.refs[<<d.subvol, child>>].name = name

In(d, objectid) == [subvol |-> d.subvol, tree_root |-> d.tree_root, objectid |-> objectid]

\* Such an entry of d leads to inode t.
Target(v, d, name, to, t) ==
  \/ to.item_type = "INODE_ITEM" /\ t = In(d, to.objectid)
  \/ /\ to.item_type = "ROOT_ITEM"
     /\ Linked(v, d, name, to.objectid)
     /\ RootOf(v, to.objectid, t)
  \/ /\ to.item_type = "ROOT_ITEM"
     /\ ~Linked(v, d, name, to.objectid)
     /\ t = In(d, EMPTY_SUBVOL_DIR_OBJECTID)

Step(v, d, name, t) ==
  \E to \in Location : EntryOf(v, d, name, to) /\ Target(v, d, name, to, t)

\* tr is the trace of `path` from the root of subvolume f to x.
Trace(v, f, path, x, tr) ==
  /\ path \in Seq(AllNames)
  /\ tr \in Seq(Inode)
  /\ Len(tr) = Len(path) + 1
  /\ RootOf(v, f, tr[1])
  /\ tr[Len(tr)] = x
  /\ \A i \in 1 .. Len(tr) : InTree(v, tr[i])
  /\ \A i \in 1 .. Len(path) : Step(v, tr[i], path[i], tr[i + 1])

Leads(v, f, path, x) == \E tr : Trace(v, f, path, x, tr)

-----------------------------------------------------------------------------
(* What the calls find is what the volume says.                            *)

\* What the volumes may hold, for the provers.
LEMMA VolumeTypes ==
  ASSUME NEW v \in Volumes
  PROVE  /\ DOMAIN v.roots \subseteq Nat
         /\ \A id \in DOMAIN v.roots : v.roots[id] \in RootItem /\ v.roots[id].bytenr \in DOMAIN v.trees
         /\ DOMAIN v.refs \subseteq Nat \X Nat
         /\ \A at \in DOMAIN v.refs : v.refs[at] \in SubvolLink
         /\ \A t \in DOMAIN v.trees : \A at \in DOMAIN v.trees[t] : v.trees[t][at] \in Seq(DirEntry)
         /\ DOMAIN v.index = DOMAIN v.trees /\ DOMAIN v.dirs = DOMAIN v.trees
         /\ \A t \in DOMAIN v.index : \A dir \in DOMAIN v.index[t] : v.index[t][dir] \subseteq DirEntry
BY VolumesAssumption, Zenon

\* A root directory is an inode of its tree, with the number roots have.
LEMMA RootTypes ==
  ASSUME NEW v \in Volumes, NEW id, NEW x, RootOf(v, id, x)
  PROVE  InTree(v, x) /\ x.subvol = id /\ x.objectid = FIRST_FREE_OBJECTID
BY VolumeTypes DEF RootOf, InTree, LiveRoot, Inode, RootItem, FIRST_FREE_OBJECTID

\* At the root's object id, an inode of a tree is the root.
LEMMA RootByNumber ==
  ASSUME NEW v \in Volumes, NEW x, InTree(v, x), x.objectid = FIRST_FREE_OBJECTID
  PROVE  RootOf(v, x.subvol, x)
BY DEF RootOf, InTree, Inode

\* subvol_root answers with the root directory of a live subvolume.
LEMMA SubvolRoot ==
  ASSUME NEW id, subvol_root(id).tag = "ok"
  PROVE  RootOf(vol, id, subvol_root(id).value)
<1>1. lookup_root_item(id).tag # "err" /\ lookup_root_item(id) # NoAnswer
  BY DEF subvol_root, Err
<1>2. /\ id \in DOMAIN vol.roots /\ ~vol.roots[id].short
      /\ lookup_root_item(id) = Ok(vol.roots[id])
  BY <1>1 DEF lookup_root_item, Err, NoAnswer
<1>3. lookup_root_item(id).value = vol.roots[id]
  BY <1>2 DEF Ok
<1> QED
  BY <1>1, <1>2, <1>3 DEF subvol_root, Err, Ok, RootOf, LiveRoot

\* And with that of every live subvolume.
LEMMA SubvolRootOfRoot ==
  ASSUME NEW id, NEW x, RootOf(vol, id, x)
  PROVE  subvol_root(id) = Ok(x)
<1>1. lookup_root_item(id) = Ok(vol.roots[id])
  BY DEF lookup_root_item, RootOf, LiveRoot
<1>2. /\ lookup_root_item(id).value = vol.roots[id] /\ lookup_root_item(id).tag # "err"
      /\ lookup_root_item(id) # NoAnswer
  BY <1>1 DEF Ok, NoAnswer
<1> QED
  BY <1>2 DEF subvol_root, RootOf, LiveRoot

\* entry_target answers with what the entry and the links of the root tree
\* say.
LEMMA EntryTarget ==
  ASSUME NEW d \in Inode, NEW name, NEW to \in Location, entry_target(d, name, to).tag = "ok"
  PROVE  Target(vol, d, name, to, entry_target(d, name, to).value)
<1> DEFINE e == entry_target(d, name, to)
           link == root_ref_links([parent |-> d.subvol, dirid |-> d.objectid,
                                   name |-> name, child |-> to.objectid])
<1>1. \A n : [d EXCEPT !.objectid = n] = In(d, n)
  BY DEF Inode, In
<1>2. CASE to.item_type = "INODE_ITEM"
  BY <1>1, <1>2 DEF entry_target, Target, Ok
<1>3. CASE to.item_type = "ROOT_ITEM"
  <2>1. link.tag # "err" /\ e = IF link.value THEN subvol_root(to.objectid)
                                ELSE Ok([d EXCEPT !.objectid = EMPTY_SUBVOL_DIR_OBJECTID])
    BY <1>3 DEF entry_target, Err
  <2>2. link.value <=> Linked(vol, d, name, to.objectid)
    BY <2>1 DEF root_ref_links, Linked, Ok, Err
  <2>3. CASE link.value
    BY <1>3, <2>1, <2>2, <2>3, SubvolRoot DEF Target
  <2>4. CASE ~link.value
    BY <1>1, <1>3, <2>1, <2>2, <2>4 DEF Target, Ok
  <2> QED
    BY <2>3, <2>4
<1>4. CASE to.item_type = "other"
  BY <1>4 DEF entry_target, Err
<1> QED
  BY <1>2, <1>3, <1>4 DEF Location

\* An entry of a bucket of a directory is an entry of that directory.
LEMMA BucketEntries ==
  ASSUME vol \in Volumes, NEW d, InTree(vol, d), NEW h, NEW i \in DOMAIN Bucket(d, h)
  PROVE  /\ Bucket(d, h)[i] \in DirEntry
         /\ EntryOf(vol, d, Bucket(d, h)[i].name, Bucket(d, h)[i].to)
<1> DEFINE at == <<d.objectid, h>>
           tree == vol.trees[d.tree_root]
<1>1. at \in DOMAIN tree /\ Bucket(d, h) = tree[at]
  BY DEF Bucket
<1>2. d.tree_root \in DOMAIN vol.trees
  BY VolumeTypes DEF InTree, LiveRoot
<1>3. tree[at] \in Seq(DirEntry)
  BY <1>1, <1>2, VolumeTypes
<1>4. i \in DOMAIN tree[at] /\ tree[at][i] \in DirEntry
  BY <1>1, <1>3
<1>5. <<at, i>> \in Entries(vol, d.tree_root)
  <2> DEFINE t == d.tree_root
             of(a) == {<<a, k>> : k \in DOMAIN vol.trees[t][a]}
  <2>1. <<at, i>> \in of(at)
    BY <1>4
  <2>2. of(at) \in {of(a) : a \in DOMAIN vol.trees[t]}
    BY <1>1
  <2> QED
    BY <2>1, <2>2, Zenon DEF Entries
<1>6. EntryAt(vol, d.tree_root, <<at, i>>) = tree[at][i]
  BY DEF EntryAt
<1>7. EntryOf(vol, d, tree[at][i].name, tree[at][i].to)
  <2>1. <<at, i>>[1][1] = d.objectid
    OBVIOUS
  <2> QED
    BY <1>5, <1>6, <2>1, Zenon DEF EntryOf, ItemOf
<1> QED
  BY <1>1, <1>4, <1>7

\* lookup_in_dir takes a step of the volume: the entry it stops at, whatever
\* its bucket holds, has the name asked for.
LEMMA LookupStep ==
  ASSUME vol \in Volumes, NEW d, InTree(vol, d), NEW name, lookup_in_dir(d, name).tag = "ok"
  PROVE  Step(vol, d, name, lookup_in_dir(d, name).value)
<1> DEFINE bucket == Bucket(d, NameHash[name])
           stops == {j \in DOMAIN bucket : bucket[j].short \/ bucket[j].encrypted \/ bucket[j].name = name}
           i == FirstStop(bucket, LAMBDA e : e.short \/ e.encrypted \/ e.name = name)
<1>1. /\ i # 0 /\ ~bucket[i].short /\ ~bucket[i].encrypted
      /\ lookup_in_dir(d, name) = entry_target(d, name, bucket[i].to)
  BY DEF lookup_in_dir, Err
<1>2. i = IF stops = {} THEN 0 ELSE CHOOSE k \in stops : \A j \in stops : k <= j
  BY DEF FirstStop
<1>3. stops # {}
  BY <1>1, <1>2
<1>4. stops \subseteq Nat
  <2>1. ASSUME NEW j \in DOMAIN bucket PROVE j \in Nat
    <3>1. d.tree_root \in DOMAIN vol.trees
      BY VolumeTypes DEF InTree, LiveRoot
    <3>2. bucket \in Seq(DirEntry)
      BY <2>1, <3>1, VolumeTypes DEF Bucket
    <3> QED
      BY <2>1, <3>2
  <2> QED
    BY <2>1
<1>5. i \in stops
  <2> HIDE DEF stops, i
  <2>1. \E k \in stops : \A j \in stops : k <= j
    BY <1>3, <1>4, LeastNumber
  <2> QED
    BY <1>2, <1>3, <2>1
<1>6. i \in DOMAIN bucket /\ bucket[i].name = name
  BY <1>1, <1>5
<1>7. bucket[i] \in DirEntry /\ EntryOf(vol, d, name, bucket[i].to)
  BY <1>6, BucketEntries
<1>8. bucket[i].to \in Location /\ d \in Inode
  BY <1>7 DEF DirEntry, InTree
<1> QED
  BY <1>1, <1>7, <1>8, EntryTarget DEF Step

\* So does an entry that read_dir lists.
LEMMA ListedStep ==
  ASSUME vol \in Volumes, NEW d, InTree(vol, d), NEW name, NEW to \in Location,
         EntryOf(vol, d, name, to), entry_target(d, name, to).tag = "ok"
  PROVE  Step(vol, d, name, entry_target(d, name, to).value)
BY EntryTarget DEF Step, InTree

\* What read_dir lists of a directory are its entries.
LEMMA IndexEntries ==
  ASSUME vol \in Volumes, NEW d, InTree(vol, d), NEW e \in DirIndex(vol, d.tree_root, d.objectid)
  PROVE  e \in DirEntry /\ EntryOf(vol, d, e.name, e.to)
<1>1. d.tree_root \in DOMAIN vol.index
  BY VolumeTypes DEF InTree, LiveRoot
<1>2. d.objectid \in DOMAIN vol.index[d.tree_root] /\ e \in vol.index[d.tree_root][d.objectid]
  BY DEF DirIndex
<1>3. e \in DirEntry
  BY <1>1, <1>2, VolumeTypes
<1> QED
  BY <1>3, Zenon DEF EntryOf

\* A step leads to an inode of a live subvolume.
LEMMA StepInTree ==
  ASSUME NEW v \in Volumes, NEW d, InTree(v, d), NEW name, NEW t, Step(v, d, name, t)
  PROVE  InTree(v, t)
<1>1. PICK to \in Location : Target(v, d, name, to, t)
  BY DEF Step
<1>2. to.objectid \in Nat
  BY DEF Location
<1>3. \A n \in Nat : InTree(v, In(d, n))
  BY DEF InTree, In, Inode
<1> QED
  BY <1>1, <1>2, <1>3, RootTypes DEF Target, EMPTY_SUBVOL_DIR_OBJECTID

-----------------------------------------------------------------------------
(* Paths of a volume.                                                      *)

\* The empty path leads to the root.
LEMMA LeadsNil ==
  ASSUME NEW v \in Volumes, NEW f, NEW x, RootOf(v, f, x)
  PROVE  Leads(v, f, <<>>, x)
<1>1. InTree(v, x) /\ x \in Inode
  BY RootTypes DEF InTree
<1>2. <<x>> \in Seq(Inode) /\ Len(<<x>>) = 1 /\ <<x>>[1] = x
  BY <1>1
<1>3. <<>> \in Seq(AllNames) /\ Len(<<>>) = 0
  BY EmptySeq
<1>4. Trace(v, f, <<>>, x, <<x>>)
  BY <1>1, <1>2, <1>3 DEF Trace
<1> QED
  BY <1>4 DEF Leads

\* A path and one step more are a path.
LEMMA LeadsStep ==
  ASSUME NEW v \in Volumes, NEW f, NEW path, NEW d, Leads(v, f, path, d),
         NEW name \in AllNames, NEW t, Step(v, d, name, t)
  PROVE  Leads(v, f, Append(path, name), t) /\ InTree(v, t)
<1>1. PICK tr : Trace(v, f, path, d, tr)
  BY DEF Leads
<1> DEFINE n == Len(path)
           path2 == Append(path, name)
           tr2 == Append(tr, t)
<1>2. /\ path \in Seq(AllNames) /\ tr \in Seq(Inode) /\ Len(tr) = n + 1 /\ n \in Nat
      /\ tr[n + 1] = d
  BY <1>1 DEF Trace
<1>3. InTree(v, d)
  BY <1>1, <1>2 DEF Trace
<1>4. InTree(v, t) /\ t \in Inode
  BY <1>3, StepInTree DEF InTree
<1>5. /\ path2 \in Seq(AllNames) /\ Len(path2) = n + 1 /\ path2[n + 1] = name
      /\ \A i \in 1 .. n : path2[i] = path[i]
  BY <1>2
<1>6. /\ tr2 \in Seq(Inode) /\ Len(tr2) = n + 2 /\ tr2[n + 2] = t
      /\ \A i \in 1 .. n + 1 : tr2[i] = tr[i]
  BY <1>2, <1>4
<1>7. tr2[1] = tr[1]
  BY <1>2, <1>6
<1>8. RootOf(v, f, tr[1]) /\ \A i \in 1 .. n + 1 : InTree(v, tr[i])
  BY <1>1, <1>2 DEF Trace
<1>9. \A i \in 1 .. n : Step(v, tr[i], path[i], tr[i + 1])
  BY <1>1 DEF Trace
<1> HIDE DEF n, path2, tr2
<1>10. ASSUME NEW i \in 1 .. n + 2 PROVE InTree(v, tr2[i])
  <2>1. i = n + 2 \/ i \in 1 .. n + 1
    BY <1>2
  <2> QED
    BY <1>4, <1>6, <1>8, <2>1
<1>11. ASSUME NEW i \in 1 .. n + 1 PROVE Step(v, tr2[i], path2[i], tr2[i + 1])
  <2>1. i = n + 1 \/ (i \in 1 .. n /\ i + 1 \in 1 .. n + 1)
    BY <1>2
  <2>2. CASE i = n + 1
    <3>1. tr2[i] = d /\ path2[i] = name /\ tr2[i + 1] = t
      BY <1>2, <1>5, <1>6, <2>2
    <3> QED
      BY <3>1
  <2>3. CASE i \in 1 .. n /\ i + 1 \in 1 .. n + 1
    <3>1. tr2[i] = tr[i] /\ path2[i] = path[i] /\ tr2[i + 1] = tr[i + 1]
      BY <1>5, <1>6, <2>3
    <3> QED
      BY <1>9, <2>3, <3>1
  <2> QED
    BY <2>1, <2>2, <2>3
<1>12. n + 2 = (n + 1) + 1
  BY <1>2
<1>13. Trace(v, f, path2, t, tr2)
  BY <1>5, <1>6, <1>7, <1>8, <1>10, <1>11, <1>12 DEF Trace
<1> QED
  BY <1>4, <1>13 DEF Leads, path2

\* The trees of two inodes of the same subvolume are the same, and a tree is
\* one of the volume's.
LEMMA TreeOf ==
  ASSUME NEW v \in Volumes, NEW d, InTree(v, d)
  PROVE  d.tree_root \in DOMAIN v.trees /\ d \in Inode
BY VolumeTypes DEF InTree, LiveRoot

\* What Legal says of the entries of one tree.
LegalEntries(v, t, p, q) ==
  LET d == EntryAt(v, t, p)
      e == EntryAt(v, t, q)
  IN  /\ p[1][1] = q[1][1] /\ d.name = e.name => p = q
      /\ d.to = e.to /\ d.to.item_type = "INODE_ITEM" /\ IsDirectory(v, t, d.to.objectid) => p = q
      /\ d.to.item_type = "INODE_ITEM" => d.to.objectid > FIRST_FREE_OBJECTID
      /\ IsDirectory(v, t, p[1][1]) /\ p[1][1] # EMPTY_SUBVOL_DIR_OBJECTID

\* The clause of Legal about entries, for one pair of them.
LEMMA LegalTree ==
  ASSUME NEW v, Legal(v), NEW t \in DOMAIN v.trees,
         NEW p \in Entries(v, t), NEW q \in Entries(v, t)
  PROVE  LegalEntries(v, t, p, q)
BY Zenon DEF Legal, LegalEntries

\* Of a legal volume, what read_dir lists is what lookup_in_dir finds.
LEMMA LegalItem ==
  ASSUME NEW v \in Volumes, Legal(v), NEW d, InTree(v, d), NEW name, NEW to,
         EntryOf(v, d, name, to)
  PROVE  ItemOf(v, d, name, to)
<1>1. CASE ItemOf(v, d, name, to)
  BY <1>1
<1>2. CASE \E e \in DirIndex(v, d.tree_root, d.objectid) : e.name = name /\ e.to = to
  <2>1. PICK e \in DirIndex(v, d.tree_root, d.objectid) : e.name = name /\ e.to = to
    BY <1>2
  <2>2. d.tree_root \in DOMAIN v.trees
    BY TreeOf
  <2>3. d.objectid \in DOMAIN v.index[d.tree_root]
    BY <2>1 DEF DirIndex
  <2>4. DirIndex(v, d.tree_root, d.objectid) = DirItems(v, d.tree_root, d.objectid)
    BY <2>2, <2>3, Zenon DEF Legal
  <2>5. PICK p \in Entries(v, d.tree_root) :
          p[1][1] = d.objectid /\ e = EntryAt(v, d.tree_root, p)
    BY <2>1, <2>4, Zenon DEF DirItems
  <2> QED
    BY <2>1, <2>5, Zenon DEF ItemOf
<1> QED
  BY <1>1, <1>2 DEF EntryOf

\* Of a legal volume, a name of a directory leads to one inode.
LEMMA StepUnique ==
  ASSUME NEW v \in Volumes, Legal(v), NEW d, InTree(v, d), NEW name,
         NEW t1, NEW t2, Step(v, d, name, t1), Step(v, d, name, t2)
  PROVE  t1 = t2
<1>1. PICK to1 \in Location : ItemOf(v, d, name, to1) /\ Target(v, d, name, to1, t1)
  BY LegalItem DEF Step
<1>2. PICK to2 \in Location : ItemOf(v, d, name, to2) /\ Target(v, d, name, to2, t2)
  BY LegalItem DEF Step
<1> DEFINE b == d.tree_root
<1>3. PICK p \in Entries(v, b) :
        p[1][1] = d.objectid /\ EntryAt(v, b, p).name = name /\ EntryAt(v, b, p).to = to1
  BY <1>1, Zenon DEF ItemOf
<1>4. PICK q \in Entries(v, b) :
        q[1][1] = d.objectid /\ EntryAt(v, b, q).name = name /\ EntryAt(v, b, q).to = to2
  BY <1>2, Zenon DEF ItemOf
<1>5. LegalEntries(v, b, p, q)
  BY LegalTree, TreeOf
<1>6. p = q
  BY <1>3, <1>4, <1>5, Zenon DEF LegalEntries
<1>7. to1 = to2
  BY <1>3, <1>4, <1>6, Zenon
<1> QED
  BY <1>1, <1>2, <1>7 DEF Target, RootOf

\* An inode that has one name: a directory, and not a placeholder.
Single(v, x) ==
  IsDirectory(v, x.tree_root, x.objectid) /\ x.objectid # EMPTY_SUBVOL_DIR_OBJECTID

\* Of a legal volume a step that leads to a directory other than a placeholder
\* is the only one that does, and starts at another such directory.
LEMMA StepBack ==
  ASSUME NEW v \in Volumes, Legal(v), NEW d1, InTree(v, d1), NEW d2, InTree(v, d2),
         NEW n1, NEW n2, NEW t, Step(v, d1, n1, t), Step(v, d2, n2, t),
         Single(v, t)
  PROVE  d1 = d2 /\ n1 = n2 /\ Single(v, d1)
<1>1. PICK to1 \in Location : ItemOf(v, d1, n1, to1) /\ Target(v, d1, n1, to1, t)
  BY LegalItem DEF Step
<1>2. PICK to2 \in Location : ItemOf(v, d2, n2, to2) /\ Target(v, d2, n2, to2, t)
  BY LegalItem DEF Step
<1>3. PICK p \in Entries(v, d1.tree_root) :
        /\ p[1][1] = d1.objectid
        /\ EntryAt(v, d1.tree_root, p).name = n1 /\ EntryAt(v, d1.tree_root, p).to = to1
  BY <1>1, Zenon DEF ItemOf
<1>4. PICK q \in Entries(v, d2.tree_root) :
        /\ q[1][1] = d2.objectid
        /\ EntryAt(v, d2.tree_root, q).name = n2 /\ EntryAt(v, d2.tree_root, q).to = to2
  BY <1>2, Zenon DEF ItemOf
<1>5. LegalEntries(v, d1.tree_root, p, p) /\ LegalEntries(v, d2.tree_root, q, q)
  BY LegalTree, TreeOf
<1>6. Single(v, d1) /\ t.objectid # EMPTY_SUBVOL_DIR_OBJECTID
  BY <1>3, <1>5, Zenon DEF LegalEntries, Single
<1>7. \/ to1.item_type = "INODE_ITEM" /\ t = In(d1, to1.objectid) /\ to1.objectid > FIRST_FREE_OBJECTID
      \/ Linked(v, d1, n1, to1.objectid) /\ RootOf(v, to1.objectid, t)
  <2>1. In(d1, EMPTY_SUBVOL_DIR_OBJECTID).objectid = EMPTY_SUBVOL_DIR_OBJECTID
    BY DEF In
  <2> QED
    BY <1>1, <1>3, <1>5, <1>6, <2>1 DEF Target, LegalEntries
<1>8. \/ to2.item_type = "INODE_ITEM" /\ t = In(d2, to2.objectid) /\ to2.objectid > FIRST_FREE_OBJECTID
      \/ Linked(v, d2, n2, to2.objectid) /\ RootOf(v, to2.objectid, t)
  <2>1. In(d2, EMPTY_SUBVOL_DIR_OBJECTID).objectid = EMPTY_SUBVOL_DIR_OBJECTID
    BY DEF In
  <2> QED
    BY <1>2, <1>4, <1>5, <1>6, <2>1 DEF Target, LegalEntries
<1>9. to1.objectid \in Nat /\ to2.objectid \in Nat /\ d1 \in Inode /\ d2 \in Inode
  BY TreeOf DEF Location
<1>10. CASE t.objectid = FIRST_FREE_OBJECTID
  <2>1. /\ Linked(v, d1, n1, to1.objectid) /\ RootOf(v, to1.objectid, t)
        /\ Linked(v, d2, n2, to2.objectid) /\ RootOf(v, to2.objectid, t)
    BY <1>7, <1>8, <1>9, <1>10 DEF In, FIRST_FREE_OBJECTID
  <2>2. to1.objectid = t.subvol /\ to2.objectid = t.subvol
    BY <2>1, RootTypes
  <2> DEFINE a == <<d1.subvol, t.subvol>>
             c == <<d2.subvol, t.subvol>>
  <2>3. a \in DOMAIN v.refs /\ c \in DOMAIN v.refs
    BY <2>1, <2>2 DEF Linked
  <2>4. a = c
    <3>1. a[2] = c[2]
      OBVIOUS
    <3> QED
      BY <2>3, <3>1, Zenon DEF Legal
  <2>5. d1.subvol = d2.subvol
    BY <2>4
  <2>6. d1.objectid = d2.objectid /\ n1 = n2
    BY <2>1, <2>2, <2>5 DEF Linked
  <2>7. d1.tree_root = d2.tree_root
    BY <2>5 DEF InTree
  <2>8. d1 = d2
    BY <1>9, <2>5, <2>6, <2>7 DEF Inode
  <2> QED
    BY <1>6, <2>6, <2>8
<1>11. CASE t.objectid # FIRST_FREE_OBJECTID
  <2>1. /\ to1.item_type = "INODE_ITEM" /\ t = In(d1, to1.objectid)
        /\ to2.item_type = "INODE_ITEM" /\ t = In(d2, to2.objectid)
    BY <1>7, <1>8, <1>11, RootTypes
  <2>2. to1 = to2 /\ d1.tree_root = d2.tree_root /\ d1.subvol = d2.subvol
    BY <2>1 DEF In, Location
  <2>3. LegalEntries(v, d1.tree_root, p, q)
    BY <2>2, LegalTree, TreeOf
  <2>a. IsDirectory(v, d1.tree_root, to1.objectid)
    BY <2>1 DEF Single, In
  <2>4. p = q
    BY <1>3, <1>4, <2>1, <2>2, <2>3, <2>a, Zenon DEF LegalEntries
  <2>5. d1.objectid = d2.objectid /\ n1 = n2
    BY <1>3, <1>4, <2>2, <2>4
  <2>6. d1 = d2
    BY <1>9, <2>2, <2>5 DEF Inode
  <2> QED
    BY <1>6, <2>5, <2>6
<1> QED
  BY <1>10, <1>11

-----------------------------------------------------------------------------
(* The paths of a legal volume.                                            *)

\* A path leads to one inode: the first index at which two of its traces
\* part would have two steps of one name.
LEMMA LeadsUnique ==
  ASSUME NEW v \in Volumes, Legal(v), NEW f, NEW path, NEW x, NEW y,
         Leads(v, f, path, x), Leads(v, f, path, y)
  PROVE  x = y
<1>1. PICK tr : Trace(v, f, path, x, tr)
  BY DEF Leads
<1>2. PICK tr2 : Trace(v, f, path, y, tr2)
  BY DEF Leads
<1>3. PICK n \in Nat : n = Len(path)
  BY <1>1 DEF Trace
<1>4. /\ Len(tr) = n + 1 /\ Len(tr2) = n + 1 /\ tr[n + 1] = x /\ tr2[n + 1] = y
      /\ \A i \in 1 .. n + 1 : InTree(v, tr[i]) /\ InTree(v, tr2[i])
      /\ \A i \in 1 .. n : Step(v, tr[i], path[i], tr[i + 1]) /\ Step(v, tr2[i], path[i], tr2[i + 1])
  BY <1>1, <1>2, <1>3 DEF Trace
<1>5. tr[1] = tr2[1]
  BY <1>1, <1>2 DEF Trace, RootOf
<1> DEFINE T == {i \in 1 .. n + 1 : tr[i] # tr2[i]}
<1>6. T = {}
  <2> SUFFICES ASSUME T # {} PROVE FALSE
    OBVIOUS
  <2>1. T \in SUBSET Nat
    OBVIOUS
  <2>2. PICK i \in T : \A j \in T : i <= j
    BY <2>1, LeastNumber
  <2>3. i \in 1 .. n + 1 /\ tr[i] # tr2[i] /\ i # 1
    BY <1>5
  <2>4. PICK k \in 1 .. n : i = k + 1
    <3>1. i - 1 \in 1 .. n /\ i = (i - 1) + 1
      BY <2>3
    <3> QED
      BY <3>1
  <2>5. k \in 1 .. n + 1 /\ ~(i <= k)
    BY <2>4
  <2>6. tr[k] = tr2[k]
    BY <2>2, <2>5
  <2>7. InTree(v, tr[k]) /\ Step(v, tr[k], path[k], tr[k + 1]) /\ Step(v, tr[k], path[k], tr2[k + 1])
    BY <1>4, <2>4, <2>5, <2>6
  <2>8. tr[k + 1] = tr2[k + 1]
    BY <2>7, StepUnique
  <2> QED
    BY <2>3, <2>4, <2>8
<1>7. n + 1 \in 1 .. n + 1
  OBVIOUS
<1> QED
  BY <1>4, <1>6, <1>7

\* A step into another subvolume crosses a link of the root tree, and so does
\* every step to a root directory.
LEMMA StepCrosses ==
  ASSUME NEW v \in Volumes, Legal(v), NEW d, InTree(v, d), NEW name, NEW t, Step(v, d, name, t),
         t.subvol # d.subvol \/ t.objectid = FIRST_FREE_OBJECTID
  PROVE  <<d.subvol, t.subvol>> \in DOMAIN v.refs
<1>1. PICK to \in Location : ItemOf(v, d, name, to) /\ Target(v, d, name, to, t)
  BY LegalItem DEF Step
<1>2. PICK p \in Entries(v, d.tree_root) : EntryAt(v, d.tree_root, p).to = to
  BY <1>1, Zenon DEF ItemOf
<1>3. LegalEntries(v, d.tree_root, p, p)
  BY LegalTree, TreeOf
<1>4. to.item_type = "INODE_ITEM" => to.objectid > FIRST_FREE_OBJECTID
  BY <1>2, <1>3, Zenon DEF LegalEntries
<1>5. to.objectid \in Nat
  BY DEF Location
<1>6. Linked(v, d, name, to.objectid) /\ RootOf(v, to.objectid, t)
  BY <1>1, <1>4, <1>5 DEF Target, In, FIRST_FREE_OBJECTID, EMPTY_SUBVOL_DIR_OBJECTID
<1> QED
  BY <1>6, RootTypes DEF Linked

\* No path of at least one name leads from a root back to it: the subvolumes
\* it visits would each have the parent of their link among them.
LEMMA NoLoop ==
  ASSUME NEW v \in Volumes, Legal(v), NEW f, NEW path, NEW x, NEW tr, Trace(v, f, path, x, tr),
         NEW m \in Nat, m > 1, m <= Len(tr), tr[m] = tr[1]
  PROVE  FALSE
<1>1. PICK n \in Nat : n = Len(path)
  BY DEF Trace
<1>2. /\ Len(tr) = n + 1 /\ RootOf(v, f, tr[1])
      /\ \A i \in 1 .. n + 1 : InTree(v, tr[i])
      /\ \A i \in 1 .. n : Step(v, tr[i], path[i], tr[i + 1])
  BY <1>1 DEF Trace
<1>3. m \in 2 .. n + 1 /\ 1 \in 1 .. m
  BY <1>1, <1>2
<1> DEFINE S == {tr[i].subvol : i \in 1 .. m}
<1>4. S \in SUBSET DOMAIN v.roots /\ S # {}
  <2>1. ASSUME NEW i \in 1 .. m PROVE tr[i].subvol \in DOMAIN v.roots
    <3>1. i \in 1 .. n + 1
      BY <1>3
    <3> QED
      BY <1>2, <3>1 DEF InTree, LiveRoot
  <2>2. tr[1].subvol \in S
    BY <1>3
  <2> QED
    BY <2>1, <2>2
<1>5. PICK c \in S : \A a \in DOMAIN v.refs : a[2] = c => a[1] \notin S
  <2> HIDE DEF S
  <2> QED
    BY <1>4, Zenon DEF Legal
<1>6. ASSUME NEW k \in 1 .. n, k + 1 <= m, tr[k + 1].subvol = c,
             tr[k].subvol # c \/ tr[k + 1].objectid = FIRST_FREE_OBJECTID
      PROVE  FALSE
  <2>1. k \in 1 .. n + 1 /\ k \in 1 .. m
    BY <1>6, <1>3
  <2>2. InTree(v, tr[k]) /\ Step(v, tr[k], path[k], tr[k + 1])
    BY <1>2, <2>1
  <2>3. <<tr[k].subvol, c>> \in DOMAIN v.refs
    BY <1>6, <2>2, StepCrosses
  <2>4. tr[k].subvol \in S
    BY <2>1
  <2>5. <<tr[k].subvol, c>>[1] = tr[k].subvol /\ <<tr[k].subvol, c>>[2] = c
    OBVIOUS
  <2> QED
    BY <1>5, <2>3, <2>4, <2>5, Zenon
<1> DEFINE T == {i \in 1 .. m : tr[i].subvol = c}
<1>7. T \in SUBSET Nat /\ T # {}
  OBVIOUS
<1>8. PICK i \in T : \A j \in T : i <= j
  <2> HIDE DEF T
  <2> QED
    BY <1>7, LeastNumber
<1>9. CASE i = 1
  <2>1. PICK k \in 1 .. n : m = k + 1
    <3>1. m - 1 \in 1 .. n /\ m = (m - 1) + 1
      BY <1>3
    <3> QED
      BY <3>1
  <2>2. tr[1].objectid = FIRST_FREE_OBJECTID /\ tr[1].subvol = c
    BY <1>2, <1>9, RootTypes
  <2>3. tr[k + 1].subvol = c /\ tr[k + 1].objectid = FIRST_FREE_OBJECTID /\ k + 1 <= m
    BY <2>1, <2>2
  <2> QED
    BY <1>6, <2>3
<1>10. CASE i # 1
  <2>1. PICK k \in 1 .. n : i = k + 1
    <3>1. i - 1 \in 1 .. n /\ i = (i - 1) + 1
      BY <1>3, <1>10
    <3> QED
      BY <3>1
  <2>2. k \in 1 .. m /\ ~(i <= k) /\ k + 1 <= m
    BY <2>1, <1>3
  <2>3. tr[k].subvol # c
    BY <1>8, <2>2
  <2> QED
    BY <1>6, <2>1, <2>2, <2>3
<1> QED
  BY <1>9, <1>10

SameBackwards(v, tr, tr2, n, m) ==
  \A i \in 0 .. n :
    /\ tr[n + 1 - i] = tr2[m + 1 - i]
    /\ Single(v, tr[n + 1 - i])

\* Two traces to a directory that is not a placeholder agree from their ends
\* backwards, as far as the shorter goes.
LEMMA BackwardsEqual ==
  ASSUME NEW v \in Volumes, Legal(v), NEW f, NEW p, NEW q, NEW x, NEW tr, NEW tr2,
         Trace(v, f, p, x, tr), Trace(v, f, q, x, tr2),
         Single(v, x),
         NEW n \in Nat, n = Len(p), NEW m \in Nat, m = Len(q), n <= m
  PROVE  SameBackwards(v, tr, tr2, n, m)
<1>1. /\ tr[n + 1] = x
      /\ \A i \in 1 .. n + 1 : InTree(v, tr[i])
      /\ \A i \in 1 .. n : Step(v, tr[i], p[i], tr[i + 1])
  BY DEF Trace
<1>2. /\ tr2[m + 1] = x
      /\ \A i \in 1 .. m + 1 : InTree(v, tr2[i])
      /\ \A i \in 1 .. m : Step(v, tr2[i], q[i], tr2[i + 1])
  BY DEF Trace
<1> DEFINE Same(i) == /\ tr[n + 1 - i] = tr2[m + 1 - i]
                      /\ Single(v, tr[n + 1 - i])
           T == {i \in 0 .. n : ~Same(i)}
<1>3. Same(0)
  BY <1>1, <1>2
<1>4. ASSUME NEW i \in 0 .. n, i # 0, Same(i - 1) PROVE Same(i)
  <2>1. PICK a \in 1 .. n : a = n + 1 - i
    <3>1. i \in 0 .. n /\ i # 0
      BY <1>4
    <3>2. n + 1 - i \in 1 .. n
      BY <3>1
    <3> QED
      BY <3>2
  <2>2. PICK b \in 1 .. m : b = m + 1 - i
    <3>1. i \in 0 .. n /\ i # 0
      BY <1>4
    <3>2. m + 1 - i \in 1 .. m
      BY <3>1
    <3> QED
      BY <3>2
  <2>3. a + 1 = n + 1 - (i - 1) /\ b + 1 = m + 1 - (i - 1) /\ a \in 1 .. n + 1 /\ b \in 1 .. m + 1
    BY <2>1, <2>2
  <2>4. tr[a + 1] = tr2[b + 1] /\ Single(v, tr[a + 1])
    BY <1>4, <2>3
  <2>5. /\ InTree(v, tr[a]) /\ InTree(v, tr2[b])
        /\ Step(v, tr[a], p[a], tr[a + 1]) /\ Step(v, tr2[b], q[b], tr[a + 1])
    BY <1>1, <1>2, <2>3, <2>4
  <2>6. tr[a] = tr2[b] /\ Single(v, tr[a])
    BY <2>4, <2>5, StepBack
  <2> QED
    BY <2>1, <2>2, <2>6
<1>5. T = {}
  <2> SUFFICES ASSUME T # {} PROVE FALSE
    OBVIOUS
  <2> HIDE DEF Same
  <2>1. T \in SUBSET Nat
    OBVIOUS
  <2>2. PICK i \in T : \A j \in T : i <= j
    <3> HIDE DEF T
    <3> QED
      BY <2>1, LeastNumber
  <2>3. i \in 0 .. n /\ ~Same(i) /\ i # 0
    BY <1>3
  <2>4. i - 1 \in 0 .. n /\ ~(i <= i - 1)
    BY <2>3
  <2>5. i - 1 \notin T
    BY <2>2, <2>4
  <2>6. Same(i - 1)
    BY <2>4, <2>5
  <2> QED
    BY <1>4, <2>3, <2>6
<1> QED
  BY <1>5 DEF SameBackwards

\* Half of the next lemma: the second path is at least as long as the first.
LEMMA OneNameOrdered ==
  ASSUME NEW v \in Volumes, Legal(v), NEW f, NEW p, NEW q, NEW x,
         Leads(v, f, p, x), Leads(v, f, q, x),
         Single(v, x), Len(p) <= Len(q)
  PROVE  p = q
<1>1. PICK tr : Trace(v, f, p, x, tr)
  BY DEF Leads
<1>2. PICK tr2 : Trace(v, f, q, x, tr2)
  BY DEF Leads
<1>3. PICK n \in Nat : n = Len(p)
  BY <1>1 DEF Trace
<1>4. PICK m \in Nat : m = Len(q)
  BY <1>2 DEF Trace
<1>5. n <= m
  BY <1>3, <1>4
<1>6. \A i \in 0 .. n :
        /\ tr[n + 1 - i] = tr2[m + 1 - i]
        /\ Single(v, tr[n + 1 - i])
  <2>1. SameBackwards(v, tr, tr2, n, m)
    BY <1>1, <1>2, <1>3, <1>4, <1>5, BackwardsEqual
  <2> QED
    BY <2>1 DEF SameBackwards
<1>7. n = m
  <2> SUFFICES ASSUME n < m PROVE FALSE
    BY <1>5
  <2>1. PICK k \in Nat : k = m + 1 - n
    BY <1>5
  <2>2. tr[n + 1 - n] = tr2[m + 1 - n]
    BY <1>6
  <2>3. tr[1] = tr2[k]
    BY <2>1, <2>2
  <2>4. tr[1] = tr2[1]
    BY <1>1, <1>2 DEF Trace, RootOf
  <2>5. k > 1 /\ k <= Len(tr2)
    BY <1>2, <1>4, <2>1 DEF Trace
  <2> QED
    BY <1>2, <2>3, <2>4, <2>5, NoLoop
<1>8. /\ \A i \in 1 .. n + 1 : InTree(v, tr[i]) /\ InTree(v, tr2[i])
      /\ \A i \in 1 .. n : Step(v, tr[i], p[i], tr[i + 1]) /\ Step(v, tr2[i], q[i], tr2[i + 1])
  BY <1>1, <1>2, <1>3, <1>4, <1>7 DEF Trace
<1>9. ASSUME NEW a \in 1 .. n + 1
      PROVE  tr[a] = tr2[a] /\ Single(v, tr[a])
  <2>1. PICK i \in 0 .. n : a = n + 1 - i
    <3>1. n + 1 - a \in 0 .. n /\ a = n + 1 - (n + 1 - a)
      OBVIOUS
    <3> QED
      BY <3>1
  <2> QED
    BY <1>6, <1>7, <2>1
<1>10. ASSUME NEW a \in 1 .. n PROVE p[a] = q[a]
  <2>1. a \in 1 .. n + 1 /\ a + 1 \in 1 .. n + 1
    OBVIOUS
  <2>2. tr[a + 1] = tr2[a + 1] /\ Single(v, tr[a + 1])
    BY <1>9, <2>1
  <2>3. /\ InTree(v, tr[a]) /\ InTree(v, tr2[a])
        /\ Step(v, tr[a], p[a], tr[a + 1]) /\ Step(v, tr2[a], q[a], tr[a + 1])
    BY <1>8, <2>1, <2>2
  <2> QED
    BY <2>2, <2>3, StepBack
<1>11. p \in Seq(AllNames) /\ q \in Seq(AllNames)
  BY <1>1, <1>2 DEF Trace
<1> QED
  BY <1>3, <1>4, <1>7, <1>10, <1>11, SeqEqual

\* A directory other than a placeholder is reached by one path.
LEMMA OneName ==
  ASSUME NEW v \in Volumes, Legal(v), NEW f, NEW p, NEW q, NEW x,
         Leads(v, f, p, x), Leads(v, f, q, x), Single(v, x)
  PROVE  p = q
<1>1. p \in Seq(AllNames) /\ q \in Seq(AllNames)
  BY DEF Leads, Trace
<1>2. Len(p) <= Len(q) \/ Len(q) <= Len(p)
  BY <1>1
<1> QED
  BY <1>2, OneNameOrdered

-----------------------------------------------------------------------------
(* What the iterator of a path yields is what the path names.              *)

\* The names among the first k tokens of a path.
NamedUpTo(path, k) == {i \in NamedIn(path) : i <= k}

\* There are finitely many, none at first, and one more after a name.
LEMMA RankSteps ==
  ASSUME NEW path \in Seq(Tokens), NEW k \in 0 .. Len(path)
  PROVE  /\ Rank(path, k) \in Nat
         /\ k = 0 => Rank(path, k) = 0
         /\ k + 1 \in NamedIn(path) => Rank(path, k + 1) = Rank(path, k) + 1
         /\ k + 1 \notin NamedIn(path) => Rank(path, k + 1) = Rank(path, k)
<1>1. NamedIn(path) \subseteq 1 .. Len(path) /\ Len(path) \in Nat
  BY DEF NamedIn
<1>2. NamedUpTo(path, k) \subseteq 1 .. k /\ k \in Nat
  BY <1>1 DEF NamedUpTo
<1>3. IsFiniteSet(NamedUpTo(path, k))
  <2>1. IsFiniteSet(1 .. k)
    BY <1>2, FS_Interval
  <2>2. NamedUpTo(path, k) \in SUBSET (1 .. k)
    BY <1>2
  <2> QED
    BY <2>1, <2>2, FS_Subset
<1>4. Rank(path, k) = Cardinality(NamedUpTo(path, k))
  BY DEF Rank, NamedUpTo
<1>5. Rank(path, k + 1) = Cardinality(NamedUpTo(path, k + 1))
  BY DEF Rank, NamedUpTo
<1>6. Rank(path, k) \in Nat
  BY <1>3, <1>4, FS_CardinalityType
<1>7. ASSUME k = 0 PROVE Rank(path, k) = 0
  <2>1. NamedUpTo(path, k) = {}
    BY <1>2, <1>7
  <2> QED
    BY <1>4, <2>1, FS_EmptySet
<1>8. ASSUME k + 1 \in NamedIn(path) PROVE Rank(path, k + 1) = Rank(path, k) + 1
  <2>1. k + 1 \notin NamedUpTo(path, k)
    BY <1>2
  <2>2. NamedUpTo(path, k + 1) = NamedUpTo(path, k) \cup {k + 1}
    BY <1>1, <1>2, <1>8 DEF NamedUpTo
  <2> QED
    BY <1>3, <1>4, <1>5, <2>1, <2>2, FS_AddElement
<1>9. ASSUME k + 1 \notin NamedIn(path) PROVE Rank(path, k + 1) = Rank(path, k)
  <2>1. NamedUpTo(path, k + 1) = NamedUpTo(path, k)
    BY <1>1, <1>2, <1>9 DEF NamedUpTo
  <2> QED
    BY <1>4, <1>5, <2>1
<1> QED
  BY <1>6, <1>7, <1>8, <1>9

\* w holds the names among the first k tokens of a path, each at its rank.
Consumed(path, k, w) ==
  /\ Len(w) = Rank(path, k)
  /\ \A i \in NamedIn(path) : i <= k => Rank(path, i) \in 1 .. Len(w) /\ w[Rank(path, i)] = path[i]
  /\ \A n \in 1 .. Len(w) : \E i \in NamedIn(path) : i <= k /\ Rank(path, i) = n

\* Nothing is consumed at first.
LEMMA ConsumedNone ==
  ASSUME NEW path \in Seq(Tokens)
  PROVE  Consumed(path, 0, <<>>)
<1>1. Rank(path, 0) = 0
  <2>1. 0 \in 0 .. Len(path)
    OBVIOUS
  <2> QED
    BY <2>1, RankSteps
<1>2. NamedIn(path) \subseteq 1 .. Len(path) /\ Len(path) \in Nat
  BY DEF NamedIn
<1>3. \A i \in NamedIn(path) : ~(i <= 0)
  BY <1>2
<1> QED
  BY <1>1, <1>3 DEF Consumed

\* A slash or a dot leaves the names as they are.
LEMMA ConsumedSkip ==
  ASSUME NEW path \in Seq(Tokens), NEW k \in 0 .. Len(path), k + 1 \notin NamedIn(path),
         NEW w, Consumed(path, k, w)
  PROVE  Consumed(path, k + 1, w)
<1>1. Rank(path, k + 1) = Rank(path, k)
  BY RankSteps
<1>2. NamedIn(path) \subseteq Nat
  BY DEF NamedIn
<1>3. \A i \in NamedIn(path) : i <= k + 1 <=> i <= k
  BY <1>2
<1> QED
  BY <1>1, <1>3 DEF Consumed

\* A name is appended to them.
LEMMA ConsumedName ==
  ASSUME NEW path \in Seq(Tokens), NEW k \in 0 .. Len(path), k + 1 \in NamedIn(path),
         NEW w \in Seq(AllNames), Consumed(path, k, w), NEW name \in AllNames, name = path[k + 1]
  PROVE  Consumed(path, k + 1, Append(w, name))
<1>1. PICK w2 \in Seq(AllNames) : w2 = Append(w, name)
  <2>1. Append(w, name) \in Seq(AllNames)
    BY AppendProperties
  <2> QED
    BY <2>1
<1>2. PICK r \in Nat : r = Len(w)
  OBVIOUS
<1>3. /\ Len(w2) = r + 1 /\ w2[r + 1] = name /\ \A n \in 1 .. r : w2[n] = w[n]
  BY <1>1, <1>2, AppendProperties
<1>4. Rank(path, k) = r /\ Rank(path, k + 1) = r + 1
  BY <1>2, RankSteps DEF Consumed
<1>5. NamedIn(path) \subseteq Nat
  BY DEF NamedIn
<1>6. \A i \in NamedIn(path) : i <= k + 1 => i <= k \/ i = k + 1
  BY <1>5
<1>7. ASSUME NEW i \in NamedIn(path), i <= k + 1
      PROVE  Rank(path, i) \in 1 .. Len(w2) /\ w2[Rank(path, i)] = path[i]
  <2>1. CASE i <= k
    <3>1. Rank(path, i) \in 1 .. r /\ w[Rank(path, i)] = path[i]
      BY <1>2, <2>1 DEF Consumed
    <3> QED
      BY <1>3, <3>1
  <2>2. CASE i = k + 1
    BY <1>3, <1>4, <2>2
  <2> QED
    BY <1>6, <1>7, <2>1, <2>2
<1>8. ASSUME NEW n \in 1 .. Len(w2)
      PROVE  \E i \in NamedIn(path) : i <= k + 1 /\ Rank(path, i) = n
  <2>1. CASE n = r + 1
    BY <1>4, <2>1
  <2>2. CASE n # r + 1
    <3>1. n \in 1 .. Len(w)
      BY <1>2, <1>3, <2>2
    <3>2. PICK i \in NamedIn(path) : i <= k /\ Rank(path, i) = n
      BY <3>1 DEF Consumed
    <3>3. i <= k + 1
      BY <1>5, <3>2
    <3> QED
      BY <3>2, <3>3
  <2> QED
    BY <2>1, <2>2
<1> QED
  BY <1>1, <1>3, <1>4, <1>7, <1>8 DEF Consumed

\* All of them are the components of the path.
LEMMA ConsumedAll ==
  ASSUME NEW path \in Seq(Tokens), NEW w \in Seq(AllNames), Consumed(path, Len(path), w)
  PROVE  w = ComponentsOf(path)
<1>1. PICK r \in Nat : r = Len(w)
  OBVIOUS
<1>2. Rank(path, Len(path)) = r
  BY <1>1 DEF Consumed
<1>3. \A i \in NamedIn(path) : i <= Len(path)
  BY DEF NamedIn
<1>4. ASSUME NEW n \in 1 .. r
      PROVE  path[CHOOSE i \in NamedIn(path) : Rank(path, i) = n] = w[n]
  <2>1. \E i \in NamedIn(path) : Rank(path, i) = n
    BY <1>1 DEF Consumed
  <2>2. PICK i : i = CHOOSE j \in NamedIn(path) : Rank(path, j) = n
    OBVIOUS
  <2>3. i \in NamedIn(path) /\ Rank(path, i) = n
    BY <2>1, <2>2, Zenon
  <2>4. w[Rank(path, i)] = path[i]
    BY <1>3, <2>3 DEF Consumed
  <2> QED
    BY <2>2, <2>3, <2>4
<1>5. ComponentsOf(path) = [n \in 1 .. r |-> w[n]]
  BY <1>2, <1>4 DEF ComponentsOf
<1>6. w = [n \in 1 .. r |-> w[n]]
  BY <1>1
<1> QED
  BY <1>5, <1>6

\* A walk has consumed the part of its path that is not left, and no more.
AskedOk(o, path, left, w) ==
  o # "none" =>
    /\ path \in Seq(Tokens)
    /\ \E k \in 0 .. Len(path) : left = SubSeq(path, k + 1, Len(path)) /\ Consumed(path, k, w)

\* The head and the tail of what is left of a path.
LEMMA LeftOver ==
  ASSUME NEW path \in Seq(Tokens), NEW k \in 0 .. Len(path),
         SubSeq(path, k + 1, Len(path)) # <<>>
  PROVE  /\ k + 1 \in 0 .. Len(path) /\ k + 1 \in DOMAIN path
         /\ Head(SubSeq(path, k + 1, Len(path))) = path[k + 1]
         /\ Tail(SubSeq(path, k + 1, Len(path))) = SubSeq(path, (k + 1) + 1, Len(path))
<1>1. PICK n \in Nat : n = Len(path)
  OBVIOUS
<1>2. PICK l \in Seq(Tokens) : l = SubSeq(path, k + 1, n)
  <2>1. \A i \in k + 1 .. n : path[i] \in Tokens
    BY <1>1
  <2>2. SubSeq(path, k + 1, n) \in Seq(Tokens)
    BY <1>1, <2>1, SubSeqProperties
  <2> QED
    BY <2>2
<1>3. Len(l) = n - k /\ \A i \in 1 .. n - k : l[i] = path[k + i]
  <2>1. k + 1 \in 1 .. n + 1 /\ n \in k .. n
    BY <1>1
  <2> QED
    BY <1>1, <1>2, <2>1
<1>4. k # n
  BY <1>1, <1>2, <1>3
<1>5. k + 1 \in 1 .. n /\ k + 1 \in 0 .. n
  BY <1>1, <1>4
<1>6. Head(l) = path[k + 1]
  BY <1>2, <1>3, <1>5
<1>7. PICK l2 \in Seq(Tokens) : l2 = SubSeq(path, (k + 1) + 1, n)
  <2>1. \A i \in (k + 1) + 1 .. n : path[i] \in Tokens
    BY <1>1
  <2>2. SubSeq(path, (k + 1) + 1, n) \in Seq(Tokens)
    BY <1>1, <2>1, SubSeqProperties
  <2> QED
    BY <2>2
<1>8. Len(l2) = n - (k + 1) /\ \A i \in 1 .. n - (k + 1) : l2[i] = path[(k + 1) + i]
  BY <1>1, <1>5, <1>7
<1>9. /\ Tail(l) \in Seq(Tokens) /\ Len(Tail(l)) = n - (k + 1)
      /\ \A i \in 1 .. n - (k + 1) : Tail(l)[i] = l[i + 1]
  BY <1>1, <1>2, <1>3, <1>5
<1>10. ASSUME NEW i \in 1 .. n - (k + 1) PROVE Tail(l)[i] = l2[i]
  <2>1. i + 1 \in 1 .. n - k /\ k + (i + 1) = (k + 1) + i
    BY <1>1, <1>5
  <2> QED
    BY <1>3, <1>8, <1>9, <2>1
<1>11. Tail(l) = l2
  BY <1>7, <1>8, <1>9, <1>10, SeqEqual
<1> QED
  BY <1>1, <1>2, <1>5, <1>6, <1>7, <1>11

\* Skipping a token that is no name keeps this.
LEMMA AskedSkip ==
  ASSUME NEW o, NEW path, NEW left, NEW w, AskedOk(o, path, left, w), left # <<>>,
         Head(left) \in {Slash, Dot}
  PROVE  AskedOk(o, path, Tail(left), w)
<1> SUFFICES ASSUME o # "none" PROVE AskedOk(o, path, Tail(left), w)
  BY DEF AskedOk
<1>1. path \in Seq(Tokens)
  BY DEF AskedOk
<1>2. PICK k \in 0 .. Len(path) : left = SubSeq(path, k + 1, Len(path)) /\ Consumed(path, k, w)
  BY DEF AskedOk
<1>3. /\ k + 1 \in 0 .. Len(path) /\ Head(left) = path[k + 1]
      /\ Tail(left) = SubSeq(path, (k + 1) + 1, Len(path))
  BY <1>1, <1>2, LeftOver
<1>4. k + 1 \notin NamedIn(path)
  BY <1>3 DEF NamedIn
<1>5. Consumed(path, k + 1, w)
  BY <1>1, <1>2, <1>4, ConsumedSkip
<1> QED
  BY <1>1, <1>3, <1>5 DEF AskedOk

\* And so does consuming a name.
LEMMA AskedName ==
  ASSUME NEW o, NEW path, NEW left, NEW w \in Seq(AllNames), AskedOk(o, path, left, w),
         left # <<>>, NEW name \in AllNames, Head(left) = name, name \notin {Slash, Dot}
  PROVE  AskedOk(o, path, Tail(left), Append(w, name))
<1> SUFFICES ASSUME o # "none" PROVE AskedOk(o, path, Tail(left), Append(w, name))
  BY DEF AskedOk
<1>1. path \in Seq(Tokens)
  BY DEF AskedOk
<1>2. PICK k \in 0 .. Len(path) : left = SubSeq(path, k + 1, Len(path)) /\ Consumed(path, k, w)
  BY DEF AskedOk
<1>3. /\ k + 1 \in 0 .. Len(path) /\ k + 1 \in DOMAIN path /\ Head(left) = path[k + 1]
      /\ Tail(left) = SubSeq(path, (k + 1) + 1, Len(path))
  BY <1>1, <1>2, LeftOver
<1>4. k + 1 \in NamedIn(path)
  BY <1>3 DEF NamedIn
<1>5. Consumed(path, k + 1, Append(w, name))
  BY <1>1, <1>2, <1>3, <1>4, ConsumedName
<1> QED
  BY <1>1, <1>3, <1>5 DEF AskedOk

\* A walk that has consumed its path holds the components of it.
LEMMA WalkedAll ==
  ASSUME NEW o, o # "none", NEW path, NEW w \in Seq(AllNames), AskedOk(o, path, <<>>, w)
  PROVE  w = ComponentsOf(path)
<1>1. path \in Seq(Tokens)
  BY DEF AskedOk
<1>2. PICK k \in 0 .. Len(path) : <<>> = SubSeq(path, k + 1, Len(path)) /\ Consumed(path, k, w)
  BY DEF AskedOk
<1>3. PICK n \in Nat : n = Len(path)
  BY <1>1
<1>4. Len(SubSeq(path, k + 1, n)) = n - k
  <2>1. k + 1 \in 1 .. n + 1 /\ n \in k .. n
    BY <1>3
  <2> QED
    BY <1>1, <1>3, <2>1
<1>5. k = n
  BY <1>2, <1>3, <1>4
<1> QED
  BY <1>1, <1>2, <1>3, <1>5, ConsumedAll

-----------------------------------------------------------------------------
(* The invariant: whatever a call holds, and whatever was seen resolved,   *)
(* lies at the end of a path of the volume.                                *)

RootOk(v, r, fr) == r # NoInode => RootOf(v, r.subvol, r) /\ Leads(v, fr[1], fr[2], r)

WalkOk(v, o, fr, w, c) ==
  o # "none" => InTree(v, c) /\ w \in Seq(AllNames) /\ fr[2] \in Seq(AllNames)
                /\ Leads(v, fr[1], fr[2] \o w, c)

ListOk(v, o, c, entries) ==
  o = "listing" => \A e \in entries : e \in DirEntry /\ EntryOf(v, c, e.name, e.to)

KnownOk(v, names) == \A k \in names : InTree(v, k.inode) /\ Leads(v, k.from, k.path, k.inode)

NameInv ==
  /\ vol \in Volumes
  /\ rest \in Seq(Tokens)
  /\ RootOk(vol, root, from)
  /\ WalkOk(vol, op, from, walked, current)
  /\ op = "open_subvol_path" => from = <<FS_TREE_OBJECTID, <<>> >>
  /\ AskedOk(op, asked, rest, walked)
  /\ op = "listing" => rest = <<>>
  /\ ListOk(vol, op, current, listing)
  /\ KnownOk(vol, known)

\* A call that returns leaves nothing of its walk behind.
LEMMA ReturnKeeps ==
  ASSUME NEW value, Return(value)
  PROVE  /\ rest' \in Seq(Tokens) /\ op' = "none"
         /\ WalkOk(vol', op', from', walked', current')
         /\ AskedOk(op', asked', rest', walked')
         /\ ListOk(vol', op', current', listing')
BY DEF Return, WalkOk, AskedOk, ListOk

\* A call that fails changes nothing but its locals.
LEMMA FailKeeps ==
  ASSUME NameInv, NEW token, Fail(token)
  PROVE  NameInv'
<1>1. Return(Err(token)) /\ UNCHANGED <<vol, root, from, known, calls>>
  BY DEF Fail
<1>2. /\ rest' \in Seq(Tokens) /\ op' = "none"
      /\ WalkOk(vol', op', from', walked', current')
      /\ AskedOk(op', asked', rest', walked')
      /\ ListOk(vol', op', current', listing')
  BY <1>1, ReturnKeeps
<1> QED
  BY <1>1, <1>2 DEF NameInv

\* An open that succeeds is at the root of a subvolume.
LEMMA OpenedKeeps ==
  ASSUME NameInv, NEW value, Opened(value),
         value.tag = "ok" => \E id : RootOf(vol, id, value.value)
  PROVE  NameInv'
<1>1. /\ Return(value) /\ UNCHANGED <<vol, known>>
      /\ root' = IF value.tag = "ok" THEN value.value ELSE NoInode
      /\ from' = <<root'.subvol, <<>> >>
  BY DEF Opened
<1>2. /\ rest' \in Seq(Tokens) /\ op' = "none"
      /\ WalkOk(vol', op', from', walked', current')
      /\ AskedOk(op', asked', rest', walked')
      /\ ListOk(vol', op', current', listing')
  BY <1>1, ReturnKeeps
<1>3. RootOk(vol, root', from')
  <2>1. CASE value.tag = "ok"
    <3>1. PICK id : RootOf(vol, id, root')
      BY <1>1, <2>1
    <3>2. PICK x : x = root'
      OBVIOUS
    <3>3. x.subvol = id /\ Leads(vol, id, <<>>, x)
      BY <3>1, <3>2, RootTypes, LeadsNil DEF NameInv
    <3>4. from'[1] = id /\ from'[2] = <<>>
      BY <1>1, <3>2, <3>3
    <3> QED
      BY <3>1, <3>2, <3>3, <3>4 DEF RootOk
  <2>2. CASE value.tag # "ok"
    BY <1>1, <2>2 DEF RootOk
  <2> QED
    BY <2>1, <2>2
<1> QED
  BY <1>1, <1>2, <1>3 DEF NameInv

\* Whatever names the default subvolume, the open is at the root of a live
\* one.
LEMMA DefaultRoot ==
  ASSUME resolve_default_subvol.tag = "ok"
  PROVE  \E id : RootOf(vol, id, resolve_default_subvol.value)
<1> DEFINE item == lookup_default_dir_item
           id == IF item # NoAnswer THEN item.value
                 ELSE IF vol.hint \in {0, ROOT_TREE_DIR_OBJECTID} THEN FS_TREE_OBJECTID
                 ELSE vol.hint
<1>1. resolve_default_subvol = IF item.tag = "err" THEN item
        ELSE IF subvol_root(id) = Err("NotFound") THEN Err("subvol_root_missing")
        ELSE subvol_root(id)
  BY DEF resolve_default_subvol
<1> HIDE DEF item, id
<1>2. resolve_default_subvol = subvol_root(id)
  BY <1>1 DEF Err
<1> QED
  BY <1>2, SubvolRoot

\* A walk that begins at a root it may begin at.
LEMMA StartKeeps ==
  ASSUME NameInv, NEW name, NEW start, NEW path \in Paths, StartWalk(name, start, path),
         name # "listing", UNCHANGED <<vol, root, listing, known>>,
         RootOk(vol, root, from'), name = "open_subvol_path" => from' = <<FS_TREE_OBJECTID, <<>> >>,
         InTree(vol, start), Leads(vol, from'[1], from'[2], start)
  PROVE  NameInv'
<1>1. op' = name /\ asked' = path /\ rest' = path /\ walked' = <<>> /\ current' = start
  BY DEF StartWalk
<1>2. PICK fr : fr = from'
  OBVIOUS
<1>3. fr[2] \in Seq(AllNames)
  BY <1>2 DEF Leads, Trace
<1>4. fr[2] \o <<>> = fr[2]
  BY <1>3
<1>5. Leads(vol, fr[1], fr[2] \o <<>>, start)
  BY <1>2, <1>4
<1>6. WalkOk(vol, op', from', walked', current')
  BY <1>1, <1>2, <1>3, <1>5 DEF WalkOk
<1>7. ListOk(vol, op', current', listing')
  BY <1>1 DEF ListOk
<1>8. rest' \in Seq(Tokens)
  BY <1>1, PathsAssumption
<1>9. AskedOk(op', asked', rest', walked')
  <2>1. path \in Seq(Tokens)
    BY PathsAssumption
  <2>2. path = SubSeq(path, 0 + 1, Len(path)) /\ 0 \in 0 .. Len(path)
    BY <2>1
  <2>3. Consumed(path, 0, <<>>)
    BY <2>1, ConsumedNone
  <2> QED
    BY <1>1, <2>1, <2>2, <2>3 DEF AskedOk
<1> QED
  BY <1>1, <1>6, <1>7, <1>8, <1>9 DEF NameInv

\* open_subvol_path starts at the top level.
LEMMA OpenSubvolPathKeeps ==
  ASSUME NameInv, NEW path \in Paths, OpenSubvolPath(path)
  PROVE  NameInv'
<1> DEFINE top == subvol_root(FS_TREE_OBJECTID)
<1>1. CASE top.tag = "err" /\ Opened(top)
  <2>1. top.tag # "ok"
    BY <1>1
  <2> HIDE DEF top
  <2> QED
    BY <1>1, <2>1, OpenedKeeps
<1>2. CASE /\ Idle /\ root = NoInode
           /\ top.tag = "ok"
           /\ StartWalk("open_subvol_path", top.value, path)
           /\ from' = <<FS_TREE_OBJECTID, <<>> >>
           /\ UNCHANGED <<vol, root, listing, known>>
  <2>1. vol \in Volumes /\ RootOf(vol, FS_TREE_OBJECTID, top.value)
    BY <1>2, SubvolRoot DEF NameInv
  <2> HIDE DEF top
  <2>2. InTree(vol, top.value) /\ Leads(vol, FS_TREE_OBJECTID, <<>>, top.value)
    BY <2>1, RootTypes, LeadsNil
  <2>3. from'[1] = FS_TREE_OBJECTID /\ from'[2] = <<>>
    BY <1>2
  <2>4. RootOk(vol, root, from')
    BY <1>2 DEF RootOk
  <2>5. Leads(vol, from'[1], from'[2], top.value)
    BY <2>2, <2>3
  <2> QED
    BY <1>2, <2>2, <2>4, <2>5, StartKeeps
<1> QED
  BY <1>1, <1>2 DEF OpenSubvolPath

\* resolve and read_dir start at the root of the instance.
LEMMA CallKeeps ==
  ASSUME NameInv, NEW path \in Paths, NEW name \in {"resolve", "read_dir"}, Call(name, path)
  PROVE  NameInv'
<1>1. root # NoInode /\ StartWalk(name, root, path) /\ UNCHANGED <<vol, root, from, listing, known>>
  BY DEF Call
<1>2. vol \in Volumes /\ RootOf(vol, root.subvol, root) /\ Leads(vol, from[1], from[2], root)
  BY <1>1 DEF NameInv, RootOk
<1>3. InTree(vol, root)
  BY <1>2, RootTypes
<1>4. RootOk(vol, root, from') /\ Leads(vol, from'[1], from'[2], root)
  BY <1>1, <1>2 DEF NameInv
<1>5. name # "listing" /\ name # "open_subvol_path"
  OBVIOUS
<1> QED
  BY <1>1, <1>3, <1>4, <1>5, StartKeeps

\* One more name: the path grows by it, and by nothing else.
LEMMA OneMore ==
  ASSUME NEW v \in Volumes, NEW f, NEW p \in Seq(AllNames), NEW w \in Seq(AllNames), NEW d,
         Leads(v, f, p \o w, d), NEW name \in AllNames, NEW t, Step(v, d, name, t)
  PROVE  /\ Leads(v, f, p \o Append(w, name), t) /\ InTree(v, t)
         /\ Append(w, name) \in Seq(AllNames)
<1>1. p \o Append(w, name) = Append(p \o w, name)
  BY AppendProperties, ConcatProperties
<1>2. Append(w, name) \in Seq(AllNames)
  OBVIOUS
<1> QED
  BY <1>1, <1>2, LeadsStep

\* A round of resolve_path takes the walk one name further.
LEMMA LookupKeeps ==
  ASSUME NameInv, LookupComponent
  PROVE  NameInv'
<1> DEFINE name == Head(rest)
           found == lookup_in_dir(current, name)
<1>1. op # "none" /\ op # "listing" /\ rest # <<>> /\ name \notin {Slash, Dot}
  BY DEF LookupComponent
<1>2. \/ found.tag = "err" /\ Fail(found.token)
      \/ Fail("device")
      \/ /\ found.tag = "ok"
         /\ current' = found.value
         /\ walked' = Append(walked, name)
         /\ rest' = Tail(rest)
         /\ UNCHANGED <<vol, root, from, op, asked, listing, answer, known, calls>>
  BY DEF LookupComponent
<1>3. name \in AllNames /\ Tail(rest) \in Seq(Tokens)
  <2>1. name \in Tokens /\ Tail(rest) \in Seq(Tokens)
    BY <1>1 DEF NameInv
  <2> QED
    BY <1>1, <2>1 DEF Tokens, AllNames
<1>4. CASE (found.tag = "err" /\ Fail(found.token)) \/ Fail("device")
  BY <1>4, FailKeeps
<1>5. CASE /\ found.tag = "ok"
           /\ current' = found.value
           /\ walked' = Append(walked, name)
           /\ rest' = Tail(rest)
           /\ UNCHANGED <<vol, root, from, op, asked, listing, answer, known, calls>>
  <2>1. /\ vol \in Volumes /\ InTree(vol, current) /\ walked \in Seq(AllNames)
        /\ from[2] \in Seq(AllNames) /\ Leads(vol, from[1], from[2] \o walked, current)
    BY <1>1 DEF NameInv, WalkOk
  <2>2. Step(vol, current, name, found.value)
    BY <1>5, <2>1, LookupStep
  <2> HIDE DEF name, found
  <2>3. /\ Leads(vol, from[1], from[2] \o Append(walked, name), found.value)
        /\ InTree(vol, found.value) /\ Append(walked, name) \in Seq(AllNames)
    BY <1>3, <2>1, <2>2, OneMore
  <2>4. WalkOk(vol, op', from', walked', current')
    BY <1>5, <2>1, <2>3 DEF WalkOk
  <2>5. ListOk(vol, op', current', listing')
    BY <1>1, <1>5 DEF ListOk
  <2>6. AskedOk(op', asked', rest', walked')
    <3>1. AskedOk(op, asked, rest, walked) /\ Head(rest) = name
      BY DEF NameInv, name
    <3>2. AskedOk(op, asked, Tail(rest), Append(walked, name))
      BY <1>1, <1>3, <2>1, <3>1, AskedName
    <3> QED
      BY <1>5, <3>2
  <2> QED
    BY <1>1, <1>3, <1>5, <2>4, <2>5, <2>6 DEF NameInv
<1> QED
  BY <1>2, <1>4, <1>5

\* What lies at the end of a path may join the names seen.
LEMMA KnownGrows ==
  ASSUME NEW v, NEW names, KnownOk(v, names), NEW f, NEW path, NEW x,
         InTree(v, x), Leads(v, f, path, x)
  PROVE  KnownOk(v, names \cup {[from |-> f, path |-> path, inode |-> x]})
<1> DEFINE seen == [from |-> f, path |-> path, inode |-> x]
<1>1. seen.from = f /\ seen.path = path /\ seen.inode = x
  OBVIOUS
<1>2. InTree(v, seen.inode) /\ Leads(v, seen.from, seen.path, seen.inode)
  BY <1>1
<1> HIDE DEF seen
<1>3. KnownOk(v, names \cup {seen})
  BY <1>2, Zenon DEF KnownOk
<1> QED
  BY <1>3 DEF seen

\* A walk that is done has consumed the components of the path asked for.
LEMMA DoneWalk ==
  ASSUME NameInv, op # "none", rest = <<>>
  PROVE  walked = ComponentsOf(asked)
<1>1. walked \in Seq(AllNames) /\ AskedOk(op, asked, <<>>, walked)
  BY DEF NameInv, WalkOk
<1> QED
  BY <1>1, WalkedAll

\* What a walk that is done has reached may join them.
LEMMA SeenIsOk ==
  ASSUME NameInv, WalkDone, NEW names, names = known \cup {Seen(<<>>, current)}
  PROVE  KnownOk(vol, names)
<1>1. /\ InTree(vol, current) /\ Leads(vol, from[1], from[2] \o walked, current)
      /\ walked \in Seq(AllNames)
  BY DEF NameInv, WalkOk, WalkDone
<1>2. KnownOk(vol, known)
  BY DEF NameInv
<1>3. walked = ComponentsOf(asked)
  BY DoneWalk DEF WalkDone
<1>4. walked \o <<>> = walked
  BY <1>1
<1>5. PICK path : path = from[2] \o walked
  OBVIOUS
<1>6. Seen(<<>>, current) = [from |-> from[1], path |-> path, inode |-> current]
  BY <1>3, <1>4, <1>5 DEF Seen
<1>7. Leads(vol, from[1], path, current)
  BY <1>1, <1>5
<1> QED
  BY <1>1, <1>2, <1>6, <1>7, KnownGrows

\* resolve hands out what its walk has reached.
LEMMA ResolveDoneKeeps ==
  ASSUME NameInv, ResolveDone
  PROVE  NameInv'
<1>1. /\ WalkDone /\ Return(Ok(current)) /\ known' = known \cup {Seen(<<>>, current)}
      /\ UNCHANGED <<vol, root, from>>
  BY DEF ResolveDone
<1>2. /\ rest' \in Seq(Tokens) /\ op' = "none"
      /\ WalkOk(vol', op', from', walked', current')
      /\ AskedOk(op', asked', rest', walked')
      /\ ListOk(vol', op', current', listing')
  BY <1>1, ReturnKeeps
<1>3. KnownOk(vol, known')
  BY <1>1, SeenIsOk
<1> QED
  BY <1>1, <1>2, <1>3 DEF NameInv

\* open_subvol_path opens what its walk has reached, and remembers the way.
LEMMA OpenSubvolPathDoneKeeps ==
  ASSUME NameInv, OpenSubvolPathDone
  PROVE  NameInv'
<1>1. CASE Fail("NotASubvolume")
  BY <1>1, FailKeeps
<1>2. CASE /\ current.objectid = FIRST_FREE_OBJECTID
           /\ root' = current
           /\ from' = <<FS_TREE_OBJECTID, ComponentsOf(asked)>>
           /\ Return(Ok(current))
           /\ known' = known \cup {Seen(<<>>, current)}
           /\ UNCHANGED <<vol, calls>>
  <2>1. op = "open_subvol_path" /\ WalkDone
    BY DEF OpenSubvolPathDone
  <2>2. /\ vol \in Volumes /\ InTree(vol, current) /\ walked \in Seq(AllNames)
        /\ from = <<FS_TREE_OBJECTID, <<>> >> /\ Leads(vol, from[1], from[2] \o walked, current)
    BY <2>1 DEF NameInv, WalkOk
  <2>3. from[1] = FS_TREE_OBJECTID /\ from[2] \o walked = walked
    BY <2>2
  <2>4. from'[1] = FS_TREE_OBJECTID /\ from'[2] = walked
    BY <1>2, <2>1, DoneWalk DEF WalkDone
  <2>5. RootOf(vol, current.subvol, current)
    BY <1>2, <2>2, RootByNumber
  <2>6. Leads(vol, from'[1], from'[2], current)
    BY <2>2, <2>3, <2>4
  <2>7. RootOk(vol, root', from')
    BY <1>2, <2>5, <2>6 DEF RootOk
  <2>8. /\ rest' \in Seq(Tokens) /\ op' = "none"
        /\ WalkOk(vol', op', from', walked', current')
        /\ AskedOk(op', asked', rest', walked')
        /\ ListOk(vol', op', current', listing')
    BY <1>2, ReturnKeeps
  <2>9. KnownOk(vol, known')
    BY <1>2, <2>1, SeenIsOk
  <2> QED
    BY <1>2, <2>7, <2>8, <2>9 DEF NameInv
<1> QED
  BY <1>1, <1>2 DEF OpenSubvolPathDone

\* read_dir takes up the entries of the directory its walk has reached.
LEMMA ReadDirStartsKeeps ==
  ASSUME NameInv, ReadDirStarts
  PROVE  NameInv'
<1>1. /\ op # "none" /\ rest = <<>> /\ op' = "listing"
      /\ listing' = DirIndex(vol, current.tree_root, current.objectid)
      /\ UNCHANGED <<vol, root, from, asked, rest, walked, current, answer, known, calls>>
  BY DEF ReadDirStarts, WalkDone
<1>2. vol \in Volumes /\ InTree(vol, current)
  BY <1>1 DEF NameInv, WalkOk
<1>3. \A e \in DirIndex(vol, current.tree_root, current.objectid) :
        e \in DirEntry /\ EntryOf(vol, current, e.name, e.to)
  BY <1>2, IndexEntries
<1>4. ListOk(vol, op', current', listing')
  BY <1>1, <1>3 DEF ListOk
<1>5. WalkOk(vol, op', from', walked', current') /\ AskedOk(op', asked', rest', walked')
  BY <1>1 DEF NameInv, WalkOk, AskedOk
<1> QED
  BY <1>1, <1>4, <1>5 DEF NameInv

\* An entry listed is one name further than its directory.
LEMMA ListEntryKeeps ==
  ASSUME NameInv, ListEntry
  PROVE  NameInv'
<1>1. op = "listing"
  BY DEF ListEntry
<1>2. PICK entry \in listing :
         LET target == entry_target(current, entry.name, entry.to)
         IN  \/ \E token : Fail(token)
             \/ /\ target.tag = "ok"
                /\ known' = known \cup {Seen(<<entry.name>>, target.value)}
                /\ listing' = listing \ {entry}
                /\ UNCHANGED <<vol, root, from, op, asked, rest, walked, current, answer, calls>>
  BY Zenon DEF ListEntry
<1> DEFINE target == entry_target(current, entry.name, entry.to)
<1>3. CASE \E token : Fail(token)
  BY <1>3, FailKeeps
<1>4. CASE /\ target.tag = "ok"
           /\ known' = known \cup {Seen(<<entry.name>>, target.value)}
           /\ listing' = listing \ {entry}
           /\ UNCHANGED <<vol, root, from, op, asked, rest, walked, current, answer, calls>>
  <2>1. /\ vol \in Volumes /\ InTree(vol, current) /\ walked \in Seq(AllNames)
        /\ from[2] \in Seq(AllNames) /\ Leads(vol, from[1], from[2] \o walked, current)
    BY <1>1 DEF NameInv, WalkOk
  <2>2. entry \in DirEntry /\ EntryOf(vol, current, entry.name, entry.to)
    BY <1>1 DEF NameInv, ListOk
  <2>3. entry.name \in AllNames /\ entry.to \in Location
    BY <2>2 DEF DirEntry, AllNames
  <2>4. Step(vol, current, entry.name, target.value)
    BY <1>4, <2>1, <2>2, <2>3, ListedStep
  <2> HIDE DEF target
  <2>5. /\ Leads(vol, from[1], from[2] \o Append(walked, entry.name), target.value)
        /\ InTree(vol, target.value)
    BY <2>1, <2>3, <2>4, OneMore
  <2>6. KnownOk(vol, known')
    <3>1. KnownOk(vol, known)
      BY DEF NameInv
    <3>2. walked = ComponentsOf(asked)
      BY <1>1, DoneWalk DEF NameInv
    <3>3. PICK path : path = from[2] \o Append(walked, entry.name)
      OBVIOUS
    <3>4. Append(walked, entry.name) = walked \o <<entry.name>>
      BY <2>1, <2>3, AppendIsConcat
    <3>5. Seen(<<entry.name>>, target.value) =
            [from |-> from[1], path |-> path, inode |-> target.value]
      BY <3>2, <3>3, <3>4 DEF Seen
    <3>6. Leads(vol, from[1], path, target.value)
      BY <2>5, <3>3
    <3> QED
      BY <1>4, <2>5, <3>1, <3>5, <3>6, KnownGrows
  <2>7. ListOk(vol, op', current', listing')
    BY <1>4 DEF NameInv, ListOk
  <2> QED
    BY <1>4, <2>6, <2>7 DEF NameInv
<1> QED
  BY <1>2, <1>3, <1>4

\* Nothing is open at first.
LEMMA NameInitInv ==
  ASSUME Init
  PROVE  NameInv
BY DEF Init, NameInv, RootOk, WalkOk, AskedOk, ListOk, KnownOk

\* Every step keeps the invariant.
LEMMA NameNextInv ==
  ASSUME NameInv, [Next]_vars
  PROVE  NameInv'
<1>1. CASE Open
  BY <1>1, OpenedKeeps, DefaultRoot DEF Open
<1>2. CASE MountFails
  <2>1. Err("device").tag # "ok"
    BY DEF Err
  <2> QED
    BY <1>2, <2>1, OpenedKeeps DEF MountFails
<1>3. ASSUME NEW id \in DOMAIN vol.roots \cup {FS_TREE_OBJECTID}, OpenSubvolId(id)
      PROVE  NameInv'
  BY <1>3, OpenedKeeps, SubvolRoot DEF OpenSubvolId
<1>4. CASE Drop
  BY <1>4 DEF Drop, NameInv, RootOk, WalkOk, AskedOk, ListOk
<1>5. CASE SkipToken
  <2>1. rest' \in Seq(Tokens)
    BY <1>5 DEF SkipToken, NameInv
  <2>2. UNCHANGED <<vol, root, from, op, asked, walked, current, listing, known>>
    BY <1>5 DEF SkipToken
  <2>3. AskedOk(op, asked, rest', walked) /\ rest # <<>>
    BY <1>5, AskedSkip DEF SkipToken, NameInv
  <2> QED
    BY <2>1, <2>2, <2>3 DEF NameInv
<1>6. CASE ListDone
  <2>1. Return(Ok(current)) /\ UNCHANGED <<vol, root, from, known>>
    BY <1>6 DEF ListDone
  <2>2. /\ rest' \in Seq(Tokens) /\ op' = "none"
        /\ WalkOk(vol', op', from', walked', current')
        /\ AskedOk(op', asked', rest', walked')
        /\ ListOk(vol', op', current', listing')
    BY <2>1, ReturnKeeps
  <2> QED
    BY <2>1, <2>2 DEF NameInv
<1>7. CASE UNCHANGED vars
  BY <1>7 DEF vars, NameInv
<1> QED
  BY <1>1, <1>2, <1>3, <1>4, <1>5, <1>6, <1>7, OpenSubvolPathKeeps, CallKeeps, LookupKeeps,
     ResolveDoneKeeps, OpenSubvolPathDoneKeeps, ReadDirStartsKeeps, ListEntryKeeps DEF Next

\* On every volume, damaged or not, everything the calls of Btrfs hold and
\* hand out lies at the end of a path of the volume.
THEOREM NameInvariant == Spec => []NameInv
BY NameInitInv, NameNextInv, PTL DEF Spec

\* On every volume, the directory a walk of resolve_path has reached, the root
\* of the open instance and every inode handed out belong to the tree of the
\* subvolume they name, and that subvolume is not deleted.
THEOREM InodesStayLive == Spec => []InodesAreLive
<1>1. NameInv => InodesAreLive
  <2> SUFFICES ASSUME NameInv PROVE InodesAreLive
    OBVIOUS
  <2>1. \A x : InTree(vol, x) => Live(x)
    BY DEF InTree, LiveRoot, Live
  <2>2. root # NoInode => Live(root)
    BY <2>1, RootTypes DEF NameInv, RootOk
  <2>3. op # "none" => Live(current)
    BY <2>1 DEF NameInv, WalkOk
  <2>4. \A k \in known : Live(k.inode)
    BY <2>1 DEF NameInv, KnownOk
  <2> QED
    BY <2>2, <2>3, <2>4 DEF InodesAreLive
<1> QED
  BY <1>1, NameInvariant, PTL

\* On every volume, however it was opened, an instance is open at what
\* open_subvol_id gives for its subvolume.
THEOREM OpensAgree == Spec => []OpenedAtASubvolume
<1>1. NameInv => OpenedAtASubvolume
  BY SubvolRootOfRoot DEF NameInv, RootOk, OpenedAtASubvolume
<1> QED
  BY <1>1, NameInvariant, PTL

\* On every volume as btrfs writes one, a list of components leads to the same
\* inode, whatever slashes and dots the path spells it with and however
\* resolve, open_subvol_path and read_dir come to it.
THEOREM NamesMeanOneThing == Spec => []NamesAreConsistent
<1>1. NameInv => NamesAreConsistent
  <2> SUFFICES ASSUME NameInv, Legal(vol), NEW j \in known, NEW k \in known,
                      j.from = k.from, j.path = k.path
               PROVE  j.inode = k.inode
    BY DEF NamesAreConsistent
  <2>1. /\ vol \in Volumes /\ Leads(vol, j.from, j.path, j.inode)
        /\ Leads(vol, j.from, j.path, k.inode)
    BY DEF NameInv, KnownOk
  <2> QED
    BY <2>1, LeadsUnique
<1> QED
  BY <1>1, NameInvariant, PTL

\* On every volume as btrfs writes one, with any nesting of subvolumes and any
\* copies of their entries in snapshots, resolve and read_dir reach no directory
\* and no subvolume by two names, the placeholder directories of entry_target
\* aside.  Files may be hard-linked.
THEOREM NamesFormATree == Spec => []NamespaceIsATree
<1>1. NameInv => NamespaceIsATree
  <2> SUFFICES ASSUME NameInv, Legal(vol), NEW j \in known, NEW k \in known,
                      j.from = k.from, j.inode = k.inode,
                      Single(vol, j.inode)
               PROVE  j.path = k.path
    BY DEF NamespaceIsATree, Single
  <2>1. /\ vol \in Volumes /\ Leads(vol, j.from, j.path, j.inode)
        /\ Leads(vol, j.from, k.path, j.inode)
    BY DEF NameInv, KnownOk
  <2> QED
    BY <2>1, OneName
<1> QED
  BY <1>1, NameInvariant, PTL
=============================================================================
