------------------------------ MODULE Namespace ------------------------------
(***************************************************************************)
(* Names: opening a volume at a subvolume and resolving paths in it.       *)
(* src/src/lib.rs (open, open_subvol_id, open_subvol_path, resolve,        *)
(* read_dir), src/src/root_tree.rs, src/src/resolve.rs, src/src/path.rs    *)
(* and the entries of src/src/dir.rs.                                      *)
(*                                                                         *)
(* A caller opens the volume, resolves paths and lists directories, drops  *)
(* the instance and opens another.  A tree search is abstracted to its     *)
(* answer (BTree), which the device may turn into an error at any step.    *)
(* Object ids and item types keep the values the format gives them; a name *)
(* is a model of its bytes, and names may share a hash.                    *)
(***************************************************************************)
EXTENDS Integers, FiniteSets, SequencesExt

CONSTANTS
    Names,      \* the names of directory entries
    NameHash,   \* name_hash: Names -> Nat (CRC32C, so not injective)
    Volumes,    \* the volumes (see Volume)
    Paths,      \* the paths the caller uses, as sequences of tokens: a slash, or
                \* a maximal run of other bytes
    MaxCalls    \* bound: how many calls the caller makes in all

Slash == "/"
Dot == "."
Tokens == Names \cup {Slash, Dot}

ASSUME NamesAssumption ==
    /\ Names \cap {Slash, Dot} = {}
    /\ NameHash \in [Names -> Nat]
ASSUME PathsAssumption ==
    /\ Paths \subseteq Seq(Tokens)
    /\ \A p \in Paths : \A i \in 1 .. Len(p) - 1 : p[i] = Slash \/ p[i + 1] = Slash
ASSUME MaxCallsAssumption == MaxCalls \in Nat

FS_TREE_OBJECTID == 5
ROOT_TREE_DIR_OBJECTID == 6
FIRST_FREE_OBJECTID == 256
EMPTY_SUBVOL_DIR_OBJECTID == 2

\* A packed DirEntry: `short` when it does not parse, `to` its location.
Location == [objectid : Nat, item_type : {"INODE_ITEM", "ROOT_ITEM", "other"}]
DirEntry == [name : Names \cup {"default"}, to : Location, encrypted : BOOLEAN, short : BOOLEAN]

\* A volume: the root tree's ROOT_ITEMs by subvolume id, its ROOT_REFs by
\* <<parent, child>>, its DIR_ITEM "default" (one bucket of entries), the
\* superblock's root_dir_objectid, and of every file tree, by tree root, the
\* DIR_ITEMs by <<directory, hash>>, the DIR_INDEX items by directory (as a set:
\* their order is that of creation, so any) and the inode numbers whose
\* INODE_ITEM is a directory's.  A tree whose root block cannot be read is a
\* failed search.
RootItem == [bytenr : Nat, refs : Nat, short : BOOLEAN]
SubvolLink == [dirid : Nat, name : Names, short : BOOLEAN]
ASSUME VolumesAssumption ==
    \A v \in Volumes :
        /\ DOMAIN v = {"roots", "refs", "default", "hint", "trees", "index", "dirs"}
        /\ DOMAIN v.roots \subseteq Nat
        /\ \A id \in DOMAIN v.roots :
              v.roots[id] \in RootItem /\ v.roots[id].bytenr \in DOMAIN v.trees
        /\ DOMAIN v.refs \subseteq Nat \X Nat
        /\ \A at \in DOMAIN v.refs : v.refs[at] \in SubvolLink
        /\ v.default \in Seq(DirEntry)
        /\ \A t \in DOMAIN v.trees : \A at \in DOMAIN v.trees[t] : v.trees[t][at] \in Seq(DirEntry)
        /\ DOMAIN v.index = DOMAIN v.trees /\ DOMAIN v.dirs = DOMAIN v.trees
        /\ \A t \in DOMAIN v.index : \A dir \in DOMAIN v.index[t] : v.index[t][dir] \subseteq DirEntry

Inode == [subvol : Nat, tree_root : Nat, objectid : Nat]
NoInode == [subvol |-> 0, tree_root |-> 0, objectid |-> 0]

VARIABLES
    vol,       \* the volume
    root,      \* Btrfs::root of the open instance, NoInode when none is open
    from,      \* history: <<subvolume id, components>> the instance was opened at
    op,        \* the call in progress: "none", "open_subvol_path", "resolve", "read_dir"
    asked,     \* its path, as the caller spelled it
    rest,      \* the tokens of its path not consumed yet
    walked,    \* history: the components consumed so far
    current,   \* the directory the walk has reached
    listing,   \* read_dir: the set of entries not delivered yet
    answer,    \* the last call's answer
    known,     \* history: [from, path, inode] of every name seen resolved
    calls      \* number of calls made
vars == <<vol, root, from, op, asked, rest, walked, current, listing, answer, known, calls>>

Err(token) == [tag |-> "err", token |-> token]
Ok(value) == [tag |-> "ok", value |-> value]
NoAnswer == [tag |-> "none"]

-----------------------------------------------------------------------------
(* The root tree.                                                          *)

lookup_root_item(id) ==
    IF id \notin DOMAIN vol.roots THEN NoAnswer
    ELSE IF vol.roots[id].short THEN Err("root_item_short")
    ELSE Ok(vol.roots[id])

subvol_root(id) ==
    LET item == lookup_root_item(id)
    IN  IF item = NoAnswer THEN Err("NotFound")
        ELSE IF item.tag = "err" THEN item
        ELSE IF item.value.refs = 0 THEN Err("NotFound")
        ELSE Ok([subvol |-> id, tree_root |-> item.value.bytenr,
                 objectid |-> FIRST_FREE_OBJECTID])

root_ref_links(link) ==
    LET at == <<link.parent, link.child>>
    IN  IF at \notin DOMAIN vol.refs THEN Ok(FALSE)
        ELSE IF vol.refs[at].short THEN Err("root_ref_short")
        ELSE Ok(vol.refs[at].dirid = link.dirid /\ vol.refs[at].name = link.name)

\* The first entry of a bucket at which a scan stops, 0 when it runs off the end.
FirstStop(bucket, Stops(_)) ==
    LET stops == {i \in DOMAIN bucket : Stops(bucket[i])}
    IN  IF stops = {} THEN 0 ELSE CHOOSE i \in stops : \A j \in stops : i <= j

lookup_default_dir_item ==
    LET i == FirstStop(vol.default, LAMBDA e : e.short \/ e.name = "default")
    IN  IF i = 0 THEN NoAnswer
        ELSE IF vol.default[i].short THEN Err("dir_entry_short")
        ELSE Ok(vol.default[i].to.objectid)

resolve_default_subvol ==
    LET item == lookup_default_dir_item
        id == IF item # NoAnswer THEN item.value
              ELSE IF vol.hint \in {0, ROOT_TREE_DIR_OBJECTID} THEN FS_TREE_OBJECTID
              ELSE vol.hint
    IN  IF item.tag = "err" THEN item
        ELSE IF subvol_root(id) = Err("NotFound") THEN Err("subvol_root_missing")
        ELSE subvol_root(id)

-----------------------------------------------------------------------------
(* Directory entries.                                                      *)

\* Mutant of entry_target: every subvolume entry is followed, the copies in
\* snapshots too.
entry_target_unlinked(dir, name, to) ==
    IF to.item_type = "INODE_ITEM" THEN Ok([dir EXCEPT !.objectid = to.objectid])
    ELSE IF to.item_type = "other" THEN Err("dir_entry_location")
    ELSE subvol_root(to.objectid)

\* Mutant of entry_target: a crossing keeps the id of the subvolume it leaves.
entry_target_same_subvol(dir, name, to) ==
    LET target == subvol_root(to.objectid)
    IN  IF to.item_type = "INODE_ITEM" THEN Ok([dir EXCEPT !.objectid = to.objectid])
        ELSE IF to.item_type = "other" THEN Err("dir_entry_location")
        ELSE IF target.tag = "err" THEN target
        ELSE Ok([target.value EXCEPT !.subvol = dir.subvol])

\* The inode an entry of `dir` names, across the link to a nested subvolume.
entry_target(dir, name, to) ==
    LET link == root_ref_links([parent |-> dir.subvol, dirid |-> dir.objectid,
                                name |-> name, child |-> to.objectid])
    IN  IF to.item_type = "INODE_ITEM" THEN Ok([dir EXCEPT !.objectid = to.objectid])
        ELSE IF to.item_type = "other" THEN Err("dir_entry_location")
        ELSE IF link.tag = "err" THEN link
        ELSE IF link.value THEN subvol_root(to.objectid)
        ELSE Ok([dir EXCEPT !.objectid = EMPTY_SUBVOL_DIR_OBJECTID])

Bucket(dir, hash) ==
    LET tree == vol.trees[dir.tree_root]
    IN  IF <<dir.objectid, hash>> \in DOMAIN tree THEN tree[<<dir.objectid, hash>>] ELSE <<>>

\* Mutant of lookup_in_dir: the first entry with the name's hash is taken.
lookup_in_dir_by_hash(dir, name) ==
    LET bucket == Bucket(dir, NameHash[name])
    IN  IF bucket = <<>> THEN Err("NotFound")
        ELSE IF bucket[1].short THEN Err("dir_entry_short")
        ELSE IF bucket[1].encrypted THEN Err("feat_encryption")
        ELSE entry_target(dir, name, bucket[1].to)

lookup_in_dir(dir, name) ==
    LET bucket == Bucket(dir, NameHash[name])
        i == FirstStop(bucket, LAMBDA e : e.short \/ e.encrypted \/ e.name = name)
    IN  IF i = 0 THEN Err("NotFound")
        ELSE IF bucket[i].short THEN Err("dir_entry_short")
        ELSE IF bucket[i].encrypted THEN Err("feat_encryption")
        ELSE entry_target(dir, name, bucket[i].to)

\* The DIR_INDEX items of a directory, which a damaged volume need not keep in
\* step with the DIR_ITEMs that lookup_in_dir searches.
DirIndex(v, tree_root, objectid) ==
    IF objectid \in DOMAIN v.index[tree_root] THEN v.index[tree_root][objectid] ELSE {}

-----------------------------------------------------------------------------
Init ==
    /\ vol \in Volumes
    /\ root = NoInode
    /\ from = <<0, <<>> >>
    /\ op = "none"
    /\ asked = <<>>
    /\ rest = <<>>
    /\ walked = <<>>
    /\ current = NoInode
    /\ listing = {}
    /\ answer = NoAnswer
    /\ known = {}
    /\ calls = 0

Idle == op = "none" /\ calls < MaxCalls

\* A call returns: its locals are gone.
Return(value) ==
    /\ answer' = value
    /\ op' = "none"
    /\ asked' = <<>> /\ rest' = <<>> /\ walked' = <<>> /\ listing' = {}
    /\ current' = NoInode

Fail(token) ==
    /\ Return(Err(token))
    /\ UNCHANGED <<vol, root, from, known, calls>>

\* An open that ends at once.
Opened(inode_or_error) ==
    /\ Idle /\ root = NoInode
    /\ Return(inode_or_error)
    /\ root' = IF inode_or_error.tag = "ok" THEN inode_or_error.value ELSE NoInode
    /\ from' = <<root'.subvol, <<>> >>
    /\ calls' = calls + 1
    /\ UNCHANGED <<vol, known>>

\* Btrfs::open, at the default subvolume.
Open == Opened(resolve_default_subvol)

OpenSubvolId(id) == Opened(subvol_root(id))

\* Any of the three opens: the mount, or a search of the root tree, fails.
MountFails == Opened(Err("device"))

\* The caller drops the instance.
Drop ==
    /\ op = "none" /\ root # NoInode
    /\ root' = NoInode
    /\ from' = <<0, <<>> >>
    /\ answer' = NoAnswer
    /\ UNCHANGED <<vol, op, asked, rest, walked, current, listing, known, calls>>

\* A path walk begins: open_subvol_path from the top level of a fresh
\* instance, resolve and read_dir from the root of the open one.
StartWalk(name, start, path) ==
    /\ op' = name
    /\ asked' = path
    /\ rest' = path
    /\ walked' = <<>>
    /\ current' = start
    /\ answer' = NoAnswer
    /\ calls' = calls + 1

OpenSubvolPath(path) ==
    LET top == subvol_root(FS_TREE_OBJECTID)
    IN  \/ top.tag = "err" /\ Opened(top)
        \/ /\ Idle /\ root = NoInode
           /\ top.tag = "ok"
           /\ StartWalk("open_subvol_path", top.value, path)
           /\ from' = <<FS_TREE_OBJECTID, <<>> >>
           /\ UNCHANGED <<vol, root, listing, known>>

Call(name, path) ==
    /\ Idle /\ root # NoInode
    /\ StartWalk(name, root, path)
    /\ UNCHANGED <<vol, root, from, listing, known>>

\* Mutant of SkipToken: a "." component ends the iteration.
SkipTokenEndsAtDot ==
    /\ op # "none" /\ rest # <<>>
    /\ Head(rest) \in {Slash, Dot}
    /\ rest' = IF Head(rest) = Dot THEN <<>> ELSE Tail(rest)
    /\ UNCHANGED <<vol, root, from, op, asked, walked, current, listing, answer, known, calls>>

\* Components::next skips the slashes before a component, and "." components.
SkipToken ==
    /\ op # "none" /\ rest # <<>>
    /\ Head(rest) \in {Slash, Dot}
    /\ rest' = Tail(rest)
    /\ UNCHANGED <<vol, root, from, op, asked, walked, current, listing, answer, known, calls>>

\* One round of resolve_path.
LookupComponent ==
    /\ op \in {"open_subvol_path", "resolve", "read_dir"} /\ rest # <<>>
    /\ Head(rest) \notin {Slash, Dot}
    /\ LET found == lookup_in_dir(current, Head(rest))
       IN  \/ found.tag = "err" /\ Fail(found.token)
           \/ Fail("device")
           \/ /\ found.tag = "ok"
              /\ current' = found.value
              /\ walked' = Append(walked, Head(rest))
              /\ rest' = Tail(rest)
              /\ UNCHANGED <<vol, root, from, op, asked, listing, answer, known, calls>>

\* What a path names, whatever the iterator makes of it: its n-th component is
\* the n-th of its tokens that is neither a slash nor a dot.
NamedIn(path) == {i \in DOMAIN path : path[i] \notin {Slash, Dot}}
Rank(path, k) == Cardinality({i \in NamedIn(path) : i <= k})
ComponentsOf(path) ==
    [n \in 1 .. Rank(path, Len(path)) |-> path[CHOOSE i \in NamedIn(path) : Rank(path, i) = n]]

\* A name seen to lead to an inode: the components of the path asked for, then
\* `more`, from where the instance was opened.
Seen(more, inode) ==
    [from |-> from[1], path |-> from[2] \o (ComponentsOf(asked) \o more), inode |-> inode]

WalkDone == op # "none" /\ rest = <<>>

ResolveDone ==
    /\ WalkDone /\ op = "resolve"
    /\ Return(Ok(current))
    /\ known' = known \cup {Seen(<<>>, current)}
    /\ UNCHANGED <<vol, root, from, calls>>

\* Mutant of OpenSubvolPathDone: any directory will do.
OpenSubvolPathDoneAny ==
    /\ WalkDone /\ op = "open_subvol_path"
    /\ root' = current
    /\ from' = <<FS_TREE_OBJECTID, ComponentsOf(asked)>>
    /\ Return(Ok(current))
    /\ known' = known \cup {Seen(<<>>, current)}
    /\ UNCHANGED <<vol, calls>>

\* open_subvol_path keeps the target when it is a subvolume's root directory.
OpenSubvolPathDone ==
    /\ WalkDone /\ op = "open_subvol_path"
    /\ \/ current.objectid # FIRST_FREE_OBJECTID /\ Fail("NotASubvolume")
       \/ /\ current.objectid = FIRST_FREE_OBJECTID
          /\ root' = current
          /\ from' = <<FS_TREE_OBJECTID, ComponentsOf(asked)>>
          /\ Return(Ok(current))
          /\ known' = known \cup {Seen(<<>>, current)}
          /\ UNCHANGED <<vol, calls>>

\* dir::read_dir: the walk of the directory's DIR_INDEX items (TreeWalk).
ReadDirStarts ==
    /\ WalkDone /\ op = "read_dir"
    /\ listing' = DirIndex(vol, current.tree_root, current.objectid)
    /\ op' = "listing"
    /\ UNCHANGED <<vol, root, from, asked, rest, walked, current, answer, known, calls>>

ListEntry ==
    /\ op = "listing"
    /\ \E entry \in listing :
         LET target == entry_target(current, entry.name, entry.to)
         IN  \/ entry.short /\ Fail("dir_index_short")
             \/ Fail("device")
             \/ ~entry.short /\ entry.encrypted /\ Fail("feat_encryption")
             \/ ~entry.short /\ ~entry.encrypted /\ target.tag = "err" /\ Fail(target.token)
             \/ /\ ~entry.short /\ ~entry.encrypted /\ target.tag = "ok"
                /\ known' = known \cup {Seen(<<entry.name>>, target.value)}
                /\ listing' = listing \ {entry}
                /\ UNCHANGED <<vol, root, from, op, asked, rest, walked, current, answer, calls>>

ListDone ==
    /\ op = "listing" /\ listing = {}
    /\ Return(Ok(current))
    /\ UNCHANGED <<vol, root, from, known, calls>>

Next ==
    \/ Open
    \/ MountFails
    \/ \E id \in DOMAIN vol.roots \cup {FS_TREE_OBJECTID} : OpenSubvolId(id)
    \/ \E path \in Paths : OpenSubvolPath(path)
    \/ \E path \in Paths, name \in {"resolve", "read_dir"} : Call(name, path)
    \/ Drop
    \/ SkipToken
    \/ LookupComponent
    \/ ResolveDone
    \/ OpenSubvolPathDone
    \/ ReadDirStarts
    \/ ListEntry
    \/ ListDone

Spec == Init /\ [][Next]_vars

-----------------------------------------------------------------------------
(* A volume as btrfs writes one: a subvolume has one parent link and is    *)
(* not linked below itself, the names of a directory are distinct and its  *)
(* DIR_INDEX items are its DIR_ITEMs, only a directory has entries, and    *)
(* only a file may have several of them point to it (hard links).          *)
Entries(v, bytenr) ==
    UNION {{<<at, i>> : i \in DOMAIN v.trees[bytenr][at]} : at \in DOMAIN v.trees[bytenr]}
EntryAt(v, bytenr, p) == v.trees[bytenr][p[1]][p[2]]
IsDirectory(v, bytenr, objectid) ==
    objectid = FIRST_FREE_OBJECTID \/ objectid \in v.dirs[bytenr]
DirItems(v, bytenr, objectid) ==
    {EntryAt(v, bytenr, p) : p \in {q \in Entries(v, bytenr) : q[1][1] = objectid}}
Legal(v) ==
    /\ \A a, b \in DOMAIN v.refs : a[2] = b[2] => a = b
    /\ \A a \in DOMAIN v.refs : a[2] # FS_TREE_OBJECTID
    /\ \A S \in SUBSET DOMAIN v.roots : S # {} =>
          \E c \in S : \A a \in DOMAIN v.refs : a[2] = c => a[1] \notin S
    /\ \A a, b \in DOMAIN v.roots : v.roots[a].bytenr = v.roots[b].bytenr => a = b
    /\ \A t \in DOMAIN v.trees :
          \A dir \in DOMAIN v.index[t] \cup {p[1][1] : p \in Entries(v, t)} :
              DirIndex(v, t, dir) = DirItems(v, t, dir)
    /\ \A t \in DOMAIN v.trees : \A p, q \in Entries(v, t) :
          LET d == EntryAt(v, t, p)
              e == EntryAt(v, t, q)
          IN  /\ p[1][1] = q[1][1] /\ d.name = e.name => p = q
              /\ d.to = e.to /\ d.to.item_type = "INODE_ITEM" /\ IsDirectory(v, t, d.to.objectid)
                    => p = q
              /\ d.to.item_type = "INODE_ITEM" => d.to.objectid > FIRST_FREE_OBJECTID
              /\ IsDirectory(v, t, p[1][1]) /\ p[1][1] # EMPTY_SUBVOL_DIR_OBJECTID

Live(inode) ==
    /\ inode.subvol \in DOMAIN vol.roots
    /\ vol.roots[inode.subvol].refs # 0
    /\ inode.tree_root = vol.roots[inode.subvol].bytenr

-----------------------------------------------------------------------------
(* Properties.                                                             *)

\* Crossing from subvolume to subvolume, on any volume, a walk and an open
\* instance stay in the tree of the subvolume they say they are in, and that
\* subvolume is not deleted: subvol and tree_root of an Inode never part.
InodesAreLive ==
    /\ root # NoInode => Live(root)
    /\ op # "none" => Live(current)
    /\ \A k \in known : Live(k.inode)

\* The three ways of opening agree: an instance opened at the default subvolume
\* or at the end of a path is the one open_subvol_id gives for its subvolume,
\* at that subvolume's root directory and at no directory inside it.
OpenedAtASubvolume == root # NoInode => subvol_root(root.subvol) = Ok(root)

\* A name means one thing: whether a path is resolved in one go, in two
\* instances (open_subvol_path on its head, resolve on its tail), spelled with
\* other slashes and dots, or listed by read_dir, it leads to the same inode.
\* A path without its leading slash is such a spelling: Components::next takes
\* it as if it had one, although a comment at From<&str> says it has no
\* components.
NamesAreConsistent ==
    Legal(vol) => \A j, k \in known : j.from = k.from /\ j.path = k.path => j.inode = k.inode

\* What a mount shows is a tree: no subvolume, and no directory, is reached by
\* two names, although a snapshot copies its source's entries for nested
\* subvolumes and a file may have as many names as it has hard links.  The
\* placeholder directory stands for any number of such copies.
NamespaceIsATree ==
    Legal(vol) =>
        \A j, k \in known :
            /\ j.from = k.from
            /\ j.inode = k.inode
            /\ IsDirectory(vol, j.inode.tree_root, j.inode.objectid)
            /\ j.inode.objectid # EMPTY_SUBVOL_DIR_OBJECTID
            => j.path = k.path
=============================================================================
