------------------------------ MODULE TreeWalk ------------------------------
(***************************************************************************)
(* The walk that populate_from_chunk_tree (src/src/chunk_tree.rs) and      *)
(* read_dir (src/src/dir.rs) make over a tree: find_first_ge the next      *)
(* target, hand over the items of the leaf it returns, and search again    *)
(* for the key after the last one seen.  read_file and read_file_at        *)
(* (src/src/file.rs) walk the same way and may stop once their buffer is   *)
(* full.                                                                   *)
(*                                                                         *)
(* A key's offset is its remainder by OffsetSpan (2^64 in the code), so    *)
(* the keys of one (objectid, item_type) pair are one run of OffsetSpan    *)
(* numbers and the key after k is k + 1 unless the offset would overflow.  *)
(***************************************************************************)
EXTENDS BTree

CONSTANTS
  OffsetSpan,     \* number of offsets, u64::MAX + 1
  FirstTarget,    \* the key the walk starts from
  LastWanted,     \* the last key of the caller's (objectid, item_type)
  StopsAtOther    \* TRUE: return at the first item of another key (read_dir)

ASSUME OffsetSpanAssumption == OffsetSpan \in Nat \ {0}
ASSUME WalkAssumption ==
  /\ FirstTarget \in Keys /\ LastWanted \in Keys /\ FirstTarget <= LastWanted
  /\ StopsAtOther \in BOOLEAN
  /\ \A k \in Keys : (k + 1) % OffsetSpan # 0 => k + 1 \in Keys

VARIABLES
  walk,          \* "search", "scan", "complete" or "failed"
  next_target,
  leaf,          \* the leaf being scanned
  idx,           \* the next item of it
  last_key,      \* last_seen, NoKey for None
  delivered      \* history: the keys handed over, in order

walkVars == <<walk, next_target, leaf, idx, last_key, delivered>>
vars == <<btreeVars, walkVars>>

InRange(k) == k <= LastWanted

(* checked_add(1) on the offset of k.                                      *)
OffsetOverflows(k) == (k + 1) % OffsetSpan = 0

-----------------------------------------------------------------------------
WalkInit ==
  /\ BTreeInit
  /\ walk = "search"
  /\ next_target = FirstTarget
  /\ leaf = Root
  /\ idx = 1
  /\ last_key = NoKey
  /\ delivered = <<>>

Searching ==
  /\ walk = "search"
  /\ \/ Call("find_first_ge", next_target)
     \/ Search
  /\ UNCHANGED walkVars

(* find_first_ge returned: an error is passed on, None ends the walk, and  *)
(* a location starts the scan of its leaf.                                 *)
GotLocation ==
  /\ walk = "search"
  /\ TakeResult
  /\ \/ result.kind = "Err" /\ walk' = "failed" /\ UNCHANGED <<leaf, idx>>
     \/ result.kind = "Absent" /\ walk' = "complete" /\ UNCHANGED <<leaf, idx>>
     \/ result.kind = "Found" /\ walk' = "scan" /\ leaf' = result.block /\ idx' = result.idx
  /\ last_key' = NoKey
  /\ UNCHANGED <<next_target, delivered>>

ScanKey == disk[leaf].keys[idx]

MoreItems == walk = "scan" /\ idx <= disk[leaf].nritems

(* The next item of the leaf is handed over.  What handing it over does to *)
(* the chunk map is the caller's (ChunkTree).                              *)
TakeItem ==
  /\ MoreItems
  /\ StopsAtOther => InRange(ScanKey)
  /\ delivered' = Append(delivered, ScanKey)
  /\ last_key' = ScanKey
  /\ idx' = idx + 1
  /\ UNCHANGED <<disk, pc, op, target, key, current, depth, next_key, lo, hi, result,
                 walk, next_target, leaf>>

(* The item's data does not parse, or is refused: the walk returns Err.    *)
RefuseItem ==
  /\ MoreItems
  /\ StopsAtOther => InRange(ScanKey)
  /\ walk' = "failed"
  /\ UNCHANGED <<btreeVars, next_target, leaf, idx, last_key, delivered>>

(* An item of another object or type: the directory is at its end.         *)
PastLastWanted ==
  /\ MoreItems
  /\ StopsAtOther /\ ~InRange(ScanKey)
  /\ walk' = "complete"
  /\ UNCHANGED <<btreeVars, next_target, leaf, idx, last_key, delivered>>

(* Mutant of EndOfLeaf: the next search starts at the last key seen.       *)
EndOfLeafSameKey ==
  /\ walk = "scan"
  /\ idx > disk[leaf].nritems
  /\ IF last_key = NoKey \/ OffsetOverflows(last_key)
     THEN walk' = "complete" /\ UNCHANGED next_target
     ELSE walk' = "search" /\ next_target' = last_key
  /\ UNCHANGED <<btreeVars, leaf, idx, last_key, delivered>>

(* The leaf is used up: search for the key after the last one.             *)
EndOfLeaf ==
  /\ walk = "scan"
  /\ idx > disk[leaf].nritems
  /\ IF last_key = NoKey \/ OffsetOverflows(last_key)
     THEN walk' = "complete" /\ UNCHANGED next_target
     ELSE walk' = "search" /\ next_target' = last_key + 1
  /\ UNCHANGED <<btreeVars, leaf, idx, last_key, delivered>>

WalkStep == Searching \/ GotLocation \/ RefuseItem \/ PastLastWanted \/ EndOfLeaf

WalkDone == walk \in {"complete", "failed"} /\ UNCHANGED vars

WalkNext == WalkStep \/ (TakeItem /\ UNCHANGED mapped) \/ WalkDone

WalkStart == WalkInit /\ mapped = Blocks

WalkSpec ==
  /\ WalkStart
  /\ [][WalkNext]_vars
  /\ WF_vars(WalkNext)

-----------------------------------------------------------------------------
(* On any disk, however damaged, the walk hands over strictly ascending    *)
(* keys from FirstTarget on: a separator that lies can hide items but can  *)
(* never make the walk repeat one or go back.                              *)
KeysAscend ==
  /\ \A i \in 1 .. Len(delivered) : delivered[i] >= FirstTarget
  /\ \A i, j \in 1 .. Len(delivered) : i < j => delivered[i] < delivered[j]

(* The walk ends on every disk, because each search starts past the last   *)
(* key and each search returns.                                            *)
WalkReturns == <>(walk \in {"complete", "failed"})

(* The keys the walk owes its caller on a well-formed tree.                *)
Wanted == {k \in LeafKeys(disk, Root) : k >= FirstTarget /\ (StopsAtOther => InRange(k))}

(* Refinement: on a well-formed tree the walk is an OrderedScan of the     *)
(* wanted keys, whatever leaf boundaries fall between them.  A damaged     *)
(* disk owes its caller no particular keys: it is the scan of an empty set *)
(* that has not returned.                                                  *)
Intact == disk \in IntactDisks

Scan == INSTANCE OrderedScan WITH
  Contents <- SUBSET Keys,
  left <- IF Intact THEN Wanted \ {delivered[i] : i \in 1 .. Len(delivered)} ELSE {},
  delivered <- IF Intact THEN delivered ELSE <<>>,
  outcome <- IF ~Intact \/ walk \in {"search", "scan"} THEN "running" ELSE walk

ScanSpec == Scan!Spec
=============================================================================
