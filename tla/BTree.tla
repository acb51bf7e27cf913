------------------------------- MODULE BTree --------------------------------
(***************************************************************************)
(* The B-tree search of src/src/btree.rs: find_exact and find_first_ge,    *)
(* each one or two root-to-leaf descents, one block read or one probe of a *)
(* block per step.  The blocks come from a disk that may be damaged in any *)
(* way a checksum does not catch (wrong separators, cycles, empty nodes,   *)
(* wrong counts), and every read may fail.                                 *)
(*                                                                         *)
(* A key is a number: DiskKey orders (objectid, item_type, offset)         *)
(* lexicographically, and only that order matters to a search.             *)
(***************************************************************************)
EXTENDS Integers, Sequences, FiniteSets

CONSTANTS
  Keys,           \* keys a block or a caller may hold, a set of naturals
  Blocks,         \* logical addresses of tree blocks
  Root,           \* root_logical
  Disks,          \* the contents the blocks may have: functions on Blocks
  MaxTreeDepth,   \* MAX_TREE_DEPTH
  U8Max,          \* where depth, a u8, saturates
  NoKey           \* next_key = None

(* `keys` holds the slots the block has room for; nritems is what its      *)
(* header claims.  `damage` is what read_tree_block finds before it looks  *)
(* at the keys.                                                            *)
Damage == {"none", "csum_mismatch", "bytenr_mismatch"}

Node == [level : Nat, nritems : Nat, keys : Seq(Keys), ptrs : Seq(Blocks),
         damage : Damage]

ASSUME KeysAssumption == Keys \subseteq Nat /\ NoKey \notin Keys
ASSUME RootAssumption == Root \in Blocks
(* A slot of an interior node is a key and a pointer; a block, which is at *)
(* least MIN_NODE_SIZE long, has room for one slot.                        *)
ASSUME DisksAssumption ==
  Disks \subseteq {d \in [Blocks -> Node] :
                     \A b \in Blocks :
                       /\ d[b].level > 0 => Len(d[b].ptrs) = Len(d[b].keys)
                       /\ d[b].nritems > 0 => Len(d[b].keys) > 0}
ASSUME DepthAssumption == MaxTreeDepth \in Nat /\ U8Max \in Nat /\ MaxTreeDepth < U8Max

VARIABLES
  disk,       \* what each block holds
  mapped,     \* the blocks the chunk map resolves
  pc,         \* "idle", "descend", "descend_next" or "returned"
  op,         \* "find_exact", "find_first_ge", or "none" between calls
  target,     \* the caller's key
  key,        \* the key the descent under way looks for
  current,    \* the block last read
  depth,
  next_key,   \* nearest separator to the right of the path taken
  lo, hi,     \* the binary search in the current block, slots from 0
  result      \* the search's result

btreeVars == <<disk, mapped, pc, op, target, key, current, depth, next_key, lo, hi, result>>

Err(token)     == [kind |-> "Err", token |-> token, block |-> Root, idx |-> 0]
Found(b, i)    == [kind |-> "Found", token |-> "none", block |-> b, idx |-> i]
Absent         == [kind |-> "Absent", token |-> "none", block |-> Root, idx |-> 0]
NoResult       == [kind |-> "Pending", token |-> "none", block |-> Root, idx |-> 0]

-----------------------------------------------------------------------------
(* validate_keys_strictly_ascending: pairs are compared in order, so a     *)
(* misordered pair is reported before a slot past the end of the block.    *)
KeysVerdict(n) ==
  IF n.nritems < 2 THEN "ok"
  ELSE IF \E i \in 2 .. Len(n.keys) : i <= n.nritems /\ n.keys[i - 1] >= n.keys[i]
       THEN "key_order"
  ELSE IF n.nritems <= Len(n.keys) THEN "ok"
  ELSE IF n.level = 0 THEN "leaf_item_short" ELSE "keyptr_short"

(* read_tree_block of a block whose device reads succeed.                  *)
ReadVerdict(d, b) ==
  IF b \notin mapped THEN "chunk_unmapped"
  ELSE IF d[b].damage # "none" THEN d[b].damage
  ELSE KeysVerdict(d[b])

-----------------------------------------------------------------------------
BTreeInit ==
  /\ disk \in Disks
  /\ pc = "idle"
  /\ op = "none"
  /\ target = NoKey
  /\ key = NoKey
  /\ current = Root
  /\ depth = 0
  /\ next_key = NoKey
  /\ lo = 0
  /\ hi = 0
  /\ result = NoResult

(* The search returns r.                                                   *)
Return(r) ==
  /\ pc' = "returned"
  /\ result' = r

SaturatingInc(d) == IF d < U8Max THEN d + 1 ELSE d

(* Mutant of EnterBlock: no depth limit.                                   *)
EnterBlockUnbounded(b, p, d) ==
  LET node == disk[b] IN
  /\ current' = b
  /\ depth' = IF node.level > 0 THEN SaturatingInc(d) ELSE d
  /\ lo' = 0
  /\ hi' = node.nritems
  /\ IF node.level > 0 /\ node.nritems = 0
     THEN Return(Err("interior_empty"))
     ELSE pc' = p /\ UNCHANGED result

(* The head of descend_to_leaf's loop once block b, below d nodes, is      *)
(* read: an interior node counts towards the depth and must not be empty.  *)
(* The binary search of the block starts with all its slots.               *)
EnterBlock(b, p, d) ==
  LET node == disk[b]
      deeper == IF node.level > 0 THEN SaturatingInc(d) ELSE d IN
  /\ current' = b
  /\ depth' = deeper
  /\ lo' = 0
  /\ hi' = node.nritems
  /\ IF node.level > 0 /\ deeper > MaxTreeDepth
     THEN Return(Err("infinite_recursion"))
     ELSE IF node.level > 0 /\ node.nritems = 0
     THEN Return(Err("interior_empty"))
     ELSE pc' = p /\ UNCHANGED result

(* read_tree_block(b) as part of a step: the search ends with an error,    *)
(* or b becomes the current block of phase p.                              *)
ReadBlock(b, p, d) ==
  \/ /\ Return(Err("tree_block_read"))
     /\ depth' = d
     /\ UNCHANGED <<current, lo, hi>>
  \/ LET verdict == ReadVerdict(disk, b) IN
     IF verdict = "ok"
     THEN EnterBlock(b, p, d)
     ELSE /\ Return(Err(verdict))
          /\ depth' = d
          /\ UNCHANGED <<current, lo, hi>>

(* descend_to_leaf(k) begins by reading the root.                          *)
BeginDescent(k, p) ==
  /\ key' = k
  /\ next_key' = NoKey
  /\ ReadBlock(Root, p, 0)

(* A caller starts a search.                                               *)
Call(name, k) ==
  /\ pc = "idle"
  /\ op' = name
  /\ target' = k
  /\ BeginDescent(k, "descend")
  /\ UNCHANGED <<disk, mapped>>

Descending == pc \in {"descend", "descend_next"}

Interior == disk[current].level > 0

(* A block is searched unless it is the leaf of the second descent.        *)
Bisecting == Descending /\ lo < hi /\ (Interior \/ pc = "descend")

(* Mutant of GoesRight: a leaf's search steps over the target itself.      *)
GoesRightLeafLe(mid) == disk[current].keys[mid + 1] <= key

(* The comparison of binary_search_interior (<=) or binary_search_leaf (<).*)
GoesRight(mid) ==
  IF Interior THEN disk[current].keys[mid + 1] <= key ELSE disk[current].keys[mid + 1] < key

(* Mutant of Bisect: the lower bound does not move past the probe.         *)
BisectStuck ==
  LET mid == lo + (hi - lo) \div 2 IN
  /\ Bisecting
  /\ IF GoesRight(mid) THEN lo' = mid /\ UNCHANGED hi ELSE hi' = mid /\ UNCHANGED lo
  /\ UNCHANGED <<disk, mapped, pc, op, target, key, current, depth, next_key, result>>

(* One probe of a binary search.                                           *)
Bisect ==
  LET mid == lo + (hi - lo) \div 2 IN
  /\ Bisecting
  /\ IF GoesRight(mid) THEN lo' = mid + 1 /\ UNCHANGED hi ELSE hi' = mid /\ UNCHANGED lo
  /\ UNCHANGED <<disk, mapped, pc, op, target, key, current, depth, next_key, result>>

(* The child to descend into: the rightmost separator <= key, else the     *)
(* first child (saturating_sub).                                           *)
ChildSlot == IF lo = 0 THEN 1 ELSE lo

(* Mutant of DescendStep: the separator noted is that of the last level    *)
(* alone, so a path down the right edge of a subtree forgets the others.   *)
DescendStepForgets ==
  LET node == disk[current] IN
  /\ Descending /\ Interior /\ lo = hi
  /\ next_key' = IF ChildSlot < node.nritems THEN node.keys[ChildSlot + 1] ELSE NoKey
  /\ ReadBlock(node.ptrs[ChildSlot], pc, depth)
  /\ UNCHANGED <<disk, mapped, op, target, key>>

(* The rest of descend_to_leaf's loop: note the separator to the right and *)
(* read the child.                                                         *)
DescendStep ==
  LET node == disk[current] IN
  /\ Descending /\ Interior /\ lo = hi
  /\ next_key' = IF ChildSlot < node.nritems THEN node.keys[ChildSlot + 1] ELSE next_key
  /\ ReadBlock(node.ptrs[ChildSlot], pc, depth)
  /\ UNCHANGED <<disk, mapped, op, target, key>>

(* binary_search_leaf is done; the slot it found, if it is an item's.      *)
LeafSearched == pc = "descend" /\ ~Interior /\ lo = hi
SlotFound    == lo < disk[current].nritems

(* find_exact after its descent.                                           *)
FinishExact ==
  /\ LeafSearched
  /\ op = "find_exact"
  /\ Return(IF SlotFound /\ disk[current].keys[lo + 1] = target
            THEN Found(current, lo + 1) ELSE Absent)
  /\ UNCHANGED <<disk, mapped, op, target, key, current, depth, next_key, lo, hi>>

(* Mutant of FinishFirstGe: a search that runs off a leaf's end has found  *)
(* nothing (releases up to 0.3.1).                                         *)
FinishFirstGeOneLeaf ==
  /\ LeafSearched
  /\ op = "find_first_ge"
  /\ Return(IF SlotFound THEN Found(current, lo + 1) ELSE Absent)
  /\ UNCHANGED <<disk, mapped, op, target, key, current, depth, next_key, lo, hi>>

(* Mutant of FinishFirstGe: the second descent does not ask whether there  *)
(* is a separator to the right.                                            *)
FinishFirstGeNoNone ==
  /\ LeafSearched
  /\ op = "find_first_ge"
  /\ \/ /\ SlotFound
        /\ Return(Found(current, lo + 1))
        /\ UNCHANGED <<key, current, depth, next_key, lo, hi>>
     \/ ~SlotFound /\ BeginDescent(next_key, "descend_next")
  /\ UNCHANGED <<disk, mapped, op, target>>

(* find_first_ge after its first descent: the answer is in this leaf, or   *)
(* there is nothing to the right, or a second descent fetches the leaf     *)
(* the separator to the right names.                                       *)
FinishFirstGe ==
  /\ LeafSearched
  /\ op = "find_first_ge"
  /\ \/ /\ SlotFound
        /\ Return(Found(current, lo + 1))
        /\ UNCHANGED <<key, current, depth, next_key, lo, hi>>
     \/ /\ ~SlotFound
        /\ next_key = NoKey
        /\ Return(Absent)
        /\ UNCHANGED <<key, current, depth, next_key, lo, hi>>
     \/ /\ ~SlotFound
        /\ next_key # NoKey
        /\ BeginDescent(next_key, "descend_next")
  /\ UNCHANGED <<disk, mapped, op, target>>

(* Mutant of FinishNextLeaf: the separator is trusted.                     *)
FinishNextLeafTrusting ==
  /\ pc = "descend_next" /\ ~Interior
  /\ Return(IF disk[current].nritems = 0 THEN Err("separator_mismatch") ELSE Found(current, 1))
  /\ UNCHANGED <<disk, mapped, op, target, key, current, depth, next_key, lo, hi>>

(* The second descent's leaf must begin past the target.                   *)
FinishNextLeaf ==
  LET leaf == disk[current] IN
  /\ pc = "descend_next" /\ ~Interior
  /\ Return(IF leaf.nritems = 0 \/ leaf.keys[1] <= target
            THEN Err("separator_mismatch")
            ELSE Found(current, 1))
  /\ UNCHANGED <<disk, mapped, op, target, key, current, depth, next_key, lo, hi>>

(* The caller takes the result; the search's locals are gone.              *)
TakeResult ==
  /\ pc = "returned"
  /\ pc' = "idle"
  /\ current' = Root
  /\ depth' = 0
  /\ next_key' = NoKey
  /\ lo' = 0
  /\ hi' = 0
  /\ op' = "none"
  /\ target' = NoKey
  /\ key' = NoKey
  /\ result' = NoResult
  /\ UNCHANGED <<disk, mapped>>

Search == Bisect \/ DescendStep \/ FinishExact \/ FinishFirstGe \/ FinishNextLeaf

BTreeNext ==
  \/ \E name \in {"find_exact", "find_first_ge"}, k \in Keys : Call(name, k)
  \/ Search
  \/ TakeResult

(* Searches by any caller, over blocks that are all mapped.                *)
BTreeStart == BTreeInit /\ mapped = Blocks

BTreeSpec == BTreeStart /\ [][BTreeNext]_btreeVars

(* A search runs to its end: nothing in it waits.                          *)
FairBTreeSpec == BTreeSpec /\ WF_btreeVars(Search)

-----------------------------------------------------------------------------
(* Reference: what the search is for.                                      *)

Children(d, b) == IF d[b].level = 0 THEN {} ELSE {d[b].ptrs[i] : i \in DOMAIN d[b].ptrs}

(* The blocks reached from b: those in every set that holds b and the      *)
(* children of its members.                                                *)
Below(d, b) ==
  LET closed == {S \in SUBSET Blocks : b \in S /\ \A x \in S : Children(d, x) \subseteq S}
  IN {c \in Blocks : \A S \in closed : c \in S}

KeysOf(n) == {n.keys[i] : i \in DOMAIN n.keys}

LeafKeys(d, b) == UNION {KeysOf(d[c]) : c \in {x \in Below(d, b) : d[x].level = 0}}
NodeKeys(d, b) == UNION {KeysOf(d[c]) : c \in Below(d, b)}

(* What the filesystem driver writes: undamaged nodes in key order, levels *)
(* that count down to the leaves, no node with two parents, nothing empty  *)
(* but a root leaf, and everything under a child at or above its           *)
(* separator, if it is not the first, and below the next one.              *)
WellFormed(d) ==
  /\ \A b \in Below(d, Root) :
       LET n == d[b] IN
       /\ n.damage = "none" /\ n.nritems = Len(n.keys) /\ KeysVerdict(n) = "ok"
       /\ b # Root => n.nritems > 0
       /\ n.level > 0 =>
            /\ n.nritems > 0 /\ n.level <= MaxTreeDepth
            /\ \A i, j \in DOMAIN n.ptrs : i # j =>
                 Below(d, n.ptrs[i]) \cap Below(d, n.ptrs[j]) = {}
            /\ \A i \in DOMAIN n.ptrs :
                 /\ d[n.ptrs[i]].level = n.level - 1
                 /\ \A k \in NodeKeys(d, n.ptrs[i]) :
                      /\ i > 1 => k >= n.keys[i]
                      /\ i < n.nritems => k < n.keys[i + 1]

IntactDisks == {d \in Disks : WellFormed(d)}

-----------------------------------------------------------------------------
(* Every variable keeps its shape.                                         *)
TypeOK ==
  /\ disk \in [Blocks -> Node]
  /\ mapped \subseteq Blocks
  /\ pc \in {"idle", "descend", "descend_next", "returned"}
  /\ op \in {"none", "find_exact", "find_first_ge"}
  /\ pc # "idle" => target \in Keys /\ key \in Keys
  /\ current \in Blocks
  /\ depth \in 0 .. U8Max
  /\ next_key \in Keys \cup {NoKey}
  /\ lo \in 0 .. hi /\ hi \in Nat
  /\ result.kind \in {"Pending", "Found", "Absent", "Err"} /\ result.block \in Blocks

(* On any disk, however its separators lie, a search that answers points   *)
(* at a real item of a leaf it verified, with a key at or past the target: *)
(* the target itself for find_exact, and no smaller item of that leaf is   *)
(* passed over.  The walks built on find_first_ge rely on it to advance.   *)
AnswerIsSound ==
  result.kind = "Found" =>
    LET leaf == disk[result.block] IN
    /\ leaf.level = 0
    /\ ReadVerdict(disk, result.block) = "ok"
    /\ result.idx \in 1 .. leaf.nritems
    /\ leaf.keys[result.idx] >= target
    /\ \A i \in 1 .. (result.idx - 1) : leaf.keys[i] < target
    /\ op = "find_exact" => leaf.keys[result.idx] = target

(* On a tree as the filesystem driver writes it, find_exact finds exactly  *)
(* the keys of the tree and find_first_ge the smallest one at or past the  *)
(* target, and neither takes the tree for a damaged one: the only error is *)
(* a failed read.                                                          *)
SearchIsExact ==
  (pc = "returned" /\ disk \in IntactDisks) =>
    LET all == LeafKeys(disk, Root)
        hit == disk[result.block].keys[result.idx] IN
    CASE result.kind = "Found"  -> /\ hit \in all
                                   /\ \A k \in all : k >= target => k >= hit
      [] result.kind = "Absent" -> IF op = "find_exact" THEN target \notin all
                                   ELSE \A k \in all : k < target
      [] result.kind = "Err"    -> result.token = "tree_block_read"

(* A search returns on every disk: a descent into a cycle of blocks is cut *)
(* off by the depth limit.                                                 *)
SearchReturns == (pc = "descend") ~> (pc = "returned")
=============================================================================
