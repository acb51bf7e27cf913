--------------------------- MODULE TreeWalkProofs ---------------------------
(***************************************************************************)
(* Proofs about BTree and TreeWalk.  A search: on any disk an answer is a  *)
(* real item at or past the target, and on any tree as the filesystem      *)
(* driver writes it, of any depth and width, the answer is exactly the one *)
(* the whole tree gives.  A walk, the loop around such searches: on every  *)
(* disk it hands over strictly ascending keys, and on every well-formed    *)
(* tree it implements OrderedScan and skips none.                          *)
(*                                                                         *)
(* The lemmas hold for any set of readable blocks, and for one that grows  *)
(* while an item is handed over: a mount reads the chunk tree through the  *)
(* very map it is filling.                                                 *)
(***************************************************************************)
EXTENDS TreeWalk, SequenceTheorems, WellFoundedInduction, TLAPS

(* The least-number principle, for sets: what stands in for induction over *)
(* the slots of a block.                                                   *)
LEMMA LeastNumber ==
  ASSUME NEW T \in SUBSET Nat, T # {}
  PROVE  \E x \in T : \A y \in T : x <= y
<1> DEFINE R == OpToRel(<, Nat)
<1>1. R = {ss \in Nat \X Nat : ss[1] < ss[2]}
  BY Zenon DEF OpToRel
<1>2. IsWellFoundedOn(R, Nat)
  BY NatLessThanWellFounded, Zenon
<1> HIDE DEF R
<1>3. PICK x \in T : \A y \in T : ~(<<y, x>> \in R)
  BY <1>2, WFMin
<1>4. ASSUME NEW y \in T PROVE x <= y
  <2>1. ~(<<y, x>> \in R)
    BY <1>3
  <2>2. x \in Nat /\ y \in Nat
    OBVIOUS
  <2> QED
    BY <2>1, <2>2, <1>1
<1> QED
  BY <1>4

(* Blocks as the disk may hold them.                                       *)
IsNode(n) ==
  /\ n \in Node
  /\ n.level > 0 => Len(n.ptrs) = Len(n.keys)
  /\ n.nritems > 0 => Len(n.keys) > 0

\* What the disks may hold, block by block.
LEMMA DiskNodes ==
  ASSUME NEW d \in Disks, NEW b \in Blocks
  PROVE  d \in [Blocks -> Node] /\ IsNode(d[b])
BY DisksAssumption DEF IsNode

\* The fields of a block have the types the bisection computes with.
LEMMA NodeTypes ==
  ASSUME NEW n, IsNode(n)
  PROVE  /\ n.level \in Nat /\ n.nritems \in Nat
         /\ n.keys \in Seq(Keys) /\ n.ptrs \in Seq(Blocks)
         /\ Len(n.keys) \in Nat
         /\ \A i \in 1 .. Len(n.keys) : n.keys[i] \in Keys /\ n.keys[i] \in Nat
         /\ n.level > 0 => \A i \in 1 .. Len(n.keys) : n.ptrs[i] \in Blocks
<1>1. n \in Node
  BY DEF IsNode
<1>2. /\ n.level \in Nat /\ n.nritems \in Nat
      /\ n.keys \in Seq(Keys) /\ n.ptrs \in Seq(Blocks)
  BY <1>1 DEF Node
<1>3. \A i \in 1 .. Len(n.keys) : n.keys[i] \in Keys
  BY <1>2, ElementOfSeq
<1>4. n.level > 0 => \A i \in 1 .. Len(n.keys) : n.ptrs[i] \in Blocks
  BY <1>2, ElementOfSeq DEF IsNode
<1> QED
  BY <1>2, <1>3, <1>4, LenProperties, KeysAssumption

(* A block read_tree_block accepts has its nritems slots in the block and  *)
(* strictly ascending: the check of adjacent pairs orders every pair.      *)
LEMMA AcceptedKeysAscend ==
  ASSUME NEW n, IsNode(n), KeysVerdict(n) = "ok"
  PROVE  /\ n.nritems <= Len(n.keys)
         /\ \A i, j \in 1 .. n.nritems : i < j => n.keys[i] < n.keys[j]
<1> DEFINE ks == n.keys
<1>0. /\ n.nritems \in Nat /\ Len(ks) \in Nat
      /\ \A i \in 1 .. Len(ks) : ks[i] \in Nat
  BY NodeTypes
<1>1. n.nritems <= Len(ks)
  <2>1. CASE n.nritems < 2
    BY <2>1, <1>0 DEF IsNode
  <2>2. CASE ~(n.nritems < 2)
    BY <2>2 DEF KeysVerdict
  <2> QED
    BY <2>1, <2>2
<1>2. \A i \in 2 .. n.nritems : ks[i - 1] < ks[i]
  <2> SUFFICES ASSUME NEW i \in 2 .. n.nritems PROVE ks[i - 1] < ks[i]
    OBVIOUS
  <2>1. ~(n.nritems < 2) /\ i \in 2 .. Len(ks) /\ i <= n.nritems
    BY <1>0, <1>1
  <2>2. ~(ks[i - 1] >= ks[i])
    BY <2>1 DEF KeysVerdict
  <2>3. ks[i - 1] \in Nat /\ ks[i] \in Nat
    BY <2>1, <1>0
  <2> QED
    BY <2>2, <2>3
<1>3. ASSUME NEW i \in 1 .. n.nritems, NEW j \in 1 .. n.nritems, i < j
      PROVE  ks[i] < ks[j]
  <2> DEFINE Bad == {m \in Nat : i < m /\ m <= n.nritems /\ ~(ks[i] < ks[m])}
  <2> SUFFICES ASSUME Bad # {} PROVE FALSE
    BY <1>0, <1>3
  <2>1. PICK m \in Bad : \A y \in Bad : m <= y
    <3> HIDE DEF Bad
    <3>1. Bad \in SUBSET Nat
      BY DEF Bad
    <3> QED
      BY <3>1, LeastNumber
  <2>2. m \in Nat /\ i \in Nat /\ i < m /\ m <= n.nritems /\ ~(ks[i] < ks[m])
        /\ m \in 2 .. n.nritems
    BY <1>0
  <2>3. ks[m - 1] < ks[m]
    BY <2>2, <1>2
  <2>4. ks[i] \in Nat /\ ks[m] \in Nat /\ ks[m - 1] \in Nat
    <3>1. i \in 1 .. Len(ks) /\ m \in 1 .. Len(ks) /\ m - 1 \in 1 .. Len(ks)
      BY <2>2, <1>0, <1>1
    <3> QED
      BY <3>1, <1>0
  <2>5. CASE i = m - 1
    BY <2>2, <2>3, <2>5
  <2>6. CASE i < m - 1
    <3>1. m - 1 \in Nat /\ m - 1 <= n.nritems /\ ~(m <= m - 1)
      BY <2>2, <1>0
    <3>2. ks[i] < ks[m - 1]
      BY <3>1, <2>1, <2>6
    <3> QED
      BY <3>2, <2>2, <2>3, <2>4
  <2> QED
    BY <2>2, <2>5, <2>6
<1> QED
  BY <1>1, <1>3

-----------------------------------------------------------------------------
(* The inductive invariant of a search on any disk.                        *)

(* GoesRight, for slot i (from 1) of node n and key k.                     *)
GoesIn(n, k, i) == IF n.level > 0 THEN n.keys[i] <= k ELSE n.keys[i] < k

(* What the binary search of an accepted block has found out: every slot   *)
(* before lo goes right, none from hi on does.                             *)
Bisected ==
  /\ ReadVerdict(disk, current) = "ok"
  /\ hi <= disk[current].nritems
  /\ Interior => disk[current].nritems > 0
  /\ \A i \in 1 .. lo : GoesIn(disk[current], key, i)
  /\ \A i \in (hi + 1) .. disk[current].nritems : ~GoesIn(disk[current], key, i)

SearchInv ==
  /\ disk \in Disks
  /\ pc # "idle" => op \in {"find_exact", "find_first_ge"}
  /\ pc # "returned" => result = NoResult
  /\ Descending => Bisected
  /\ pc = "descend" => key = target
  /\ pc = "descend_next" => op = "find_first_ge"
  /\ AnswerIsSound

(* A block accepted by read_tree_block.                                    *)
LEMMA AcceptedBlock ==
  ASSUME disk \in Disks, NEW b \in Blocks, ReadVerdict(disk, b) = "ok"
  PROVE  /\ IsNode(disk[b])
         /\ disk[b].level \in Nat /\ disk[b].nritems \in Nat
         /\ disk[b].nritems <= Len(disk[b].keys)
         /\ \A i \in 1 .. disk[b].nritems :
              /\ i \in 1 .. Len(disk[b].keys)
              /\ disk[b].keys[i] \in Keys /\ disk[b].keys[i] \in Nat
              /\ disk[b].level > 0 => disk[b].ptrs[i] \in Blocks
         /\ \A i, j \in 1 .. disk[b].nritems : i < j => disk[b].keys[i] < disk[b].keys[j]
<1>1. IsNode(disk[b])
  BY DiskNodes
<1> DEFINE n == disk[b]
<1>2. KeysVerdict(n) = "ok"
  BY <1>1 DEF ReadVerdict, IsNode, Node, Damage
<1> HIDE DEF n
<1>3. IsNode(n)
  BY <1>1 DEF n
<1>4. /\ n.nritems <= Len(n.keys)
      /\ \A i, j \in 1 .. n.nritems : i < j => n.keys[i] < n.keys[j]
  BY <1>2, <1>3, AcceptedKeysAscend
<1>5. /\ n.level \in Nat /\ n.nritems \in Nat /\ Len(n.keys) \in Nat
      /\ \A i \in 1 .. Len(n.keys) : n.keys[i] \in Keys /\ n.keys[i] \in Nat
      /\ n.level > 0 => \A i \in 1 .. Len(n.keys) : n.ptrs[i] \in Blocks
  BY <1>3, NodeTypes
<1>6. \A i \in 1 .. n.nritems : i \in 1 .. Len(n.keys)
  BY <1>4, <1>5
<1> QED
  BY <1>3, <1>4, <1>5, <1>6 DEF n

(* Reading a block ends the search with an error, or makes it the current  *)
(* block with its binary search not begun.                                 *)
LEMMA ReadBlockKeeps ==
  ASSUME disk \in Disks, mapped \subseteq Blocks, result = NoResult,
         current \in Blocks, lo \in 0 .. hi, hi \in Nat,
         NEW b \in Blocks, NEW p \in {"descend", "descend_next"}, NEW d0 \in 0 .. U8Max,
         ReadBlock(b, p, d0), UNCHANGED <<disk, mapped>>,
         target' \in Keys, key' \in Keys, next_key' \in Keys \cup {NoKey},
         op' \in {"find_exact", "find_first_ge"},
         p = "descend" => key' = target',
         p = "descend_next" => op' = "find_first_ge"
  PROVE  TypeOK' /\ SearchInv'
<1>0. disk \in [Blocks -> Node] /\ IsNode(disk[b]) /\ Root \in Blocks
  BY DiskNodes, RootAssumption
<1>1. disk[b].level \in Nat /\ disk[b].nritems \in Nat
  BY <1>0, NodeTypes
<1>2. \A x \in 0 .. U8Max : SaturatingInc(x) \in 0 .. U8Max
  BY DepthAssumption DEF SaturatingInc
<1>3. CASE pc' = "returned"
  <2>1. PICK token : result' = Err(token)
    BY <1>3, <1>0 DEF ReadBlock, EnterBlock, Return
  <2>2. /\ current' \in Blocks /\ depth' \in 0 .. U8Max
        /\ lo' \in 0 .. hi' /\ hi' \in Nat
    BY <1>0, <1>1, <1>2 DEF ReadBlock, EnterBlock
  <2>3. result'.kind = "Err" /\ result'.block \in Blocks
    BY <2>1, <1>0 DEF Err
  <2>4. TypeOK'
    BY <1>3, <1>0, <2>2, <2>3 DEF TypeOK
  <2>5. AnswerIsSound'
    BY <2>3 DEF AnswerIsSound
  <2> QED
    BY <1>3, <2>4, <2>5 DEF SearchInv, Descending
<1>4. CASE pc' # "returned"
  <2>1. /\ ReadVerdict(disk, b) = "ok" /\ EnterBlock(b, p, d0)
    BY <1>4 DEF ReadBlock, Return
  <2>2. /\ pc' = p /\ result' = NoResult /\ current' = b /\ lo' = 0 /\ hi' = disk[b].nritems
        /\ disk[b].level > 0 => disk[b].nritems > 0
    BY <1>4, <1>1, <2>1 DEF EnterBlock, Return
  <2>3. depth' \in 0 .. U8Max
    BY <1>2, <2>1 DEF EnterBlock
  <2>4. TypeOK'
    BY <1>0, <1>1, <2>2, <2>3 DEF TypeOK, NoResult
  <2>5. AnswerIsSound'
    BY <2>2 DEF AnswerIsSound, NoResult
  <2>6. ReadVerdict(disk, current)'
          = "ok"
    BY <2>1, <2>2 DEF ReadVerdict
  <2>7. Bisected'
    BY <2>2, <2>6, <1>1 DEF Bisected, Interior
  <2> QED
    BY <2>2, <2>4, <2>5, <2>7 DEF SearchInv, Descending, NoResult
<1> QED
  BY <1>3, <1>4

(* A caller may start a search with any key.                               *)
LEMMA CallKeeps ==
  ASSUME TypeOK, SearchInv, NEW name \in {"find_exact", "find_first_ge"}, NEW k \in Keys,
         Call(name, k)
  PROVE  TypeOK' /\ SearchInv'
<1>1. ReadBlock(Root, "descend", 0) /\ UNCHANGED <<disk, mapped>>
  BY DEF Call, BeginDescent
<1>2. /\ target' = k /\ key' = k /\ next_key' = NoKey /\ op' = name
      /\ result = NoResult
  BY DEF Call, BeginDescent, SearchInv
<1>3. 0 \in 0 .. U8Max
  BY DepthAssumption
<1> QED
  BY <1>1, <1>2, <1>3, ReadBlockKeeps, RootAssumption DEF TypeOK, SearchInv

(* One probe: the order of the keys carries the probe's outcome to every   *)
(* slot on its side.                                                       *)
LEMMA BisectKeeps ==
  ASSUME TypeOK, SearchInv, Bisect
  PROVE  TypeOK' /\ SearchInv'
<1> DEFINE n == disk[current]
           mid == lo + (hi - lo) \div 2
<1>1. /\ Bisecting
      /\ IF GoesRight(mid) THEN lo' = mid + 1 /\ hi' = hi ELSE hi' = mid /\ lo' = lo
      /\ UNCHANGED <<disk, mapped, pc, op, target, key, current, depth, next_key, result>>
  BY DEF Bisect
<1>2. /\ Descending /\ lo < hi /\ Bisected /\ disk \in Disks /\ current \in Blocks
      /\ lo \in Nat /\ hi \in Nat /\ key \in Nat
  <2>1. Descending /\ lo < hi /\ pc # "idle"
    BY <1>1 DEF Bisecting, Descending
  <2>2. Bisected /\ disk \in Disks
    BY <2>1 DEF SearchInv
  <2>3. current \in Blocks /\ lo \in Nat /\ hi \in Nat /\ key \in Keys
    BY <2>1 DEF TypeOK
  <2> QED
    BY <2>1, <2>2, <2>3, KeysAssumption
<1>3. mid \in Nat /\ lo <= mid /\ mid < hi
  BY <1>2
<1>4. /\ n.level \in Nat /\ n.nritems \in Nat
      /\ \A i \in 1 .. n.nritems : n.keys[i] \in Nat
      /\ \A i, j \in 1 .. n.nritems : i < j => n.keys[i] < n.keys[j]
  BY <1>2, AcceptedBlock DEF Bisected
<1>5. hi <= n.nritems /\ mid + 1 \in 1 .. n.nritems
  BY <1>2, <1>3, <1>4 DEF Bisected
<1>6. GoesRight(mid) <=> GoesIn(n, key, mid + 1)
  BY DEF GoesRight, GoesIn, Interior
<1> HIDE DEF n, mid
<1>7. \A i, j \in 1 .. n.nritems : i <= j =>
         /\ GoesIn(n, key, j) => GoesIn(n, key, i)
         /\ ~GoesIn(n, key, i) => ~GoesIn(n, key, j)
  BY <1>2, <1>4 DEF GoesIn
<1>8. CASE GoesRight(mid)
  <2>1. lo' = mid + 1 /\ hi' = hi
    BY <1>1, <1>8
  <2>2. \A i \in 1 .. (mid + 1) : GoesIn(n, key, i)
    <3> SUFFICES ASSUME NEW i \in 1 .. (mid + 1) PROVE GoesIn(n, key, i)
      OBVIOUS
    <3>1. i \in 1 .. n.nritems /\ i <= mid + 1
      BY <1>3, <1>4, <1>5
    <3> QED
      BY <3>1, <1>5, <1>6, <1>7, <1>8, Zenon
  <2>3. Bisected'
    BY <1>1, <1>2, <2>1, <2>2 DEF Bisected, Interior, ReadVerdict, n
  <2>4. lo' \in 0 .. hi' /\ hi' \in Nat
    BY <2>1, <1>2, <1>3
  <2> QED
    BY <2>3, <2>4, <1>1, <1>2 DEF TypeOK, SearchInv, Descending, AnswerIsSound, ReadVerdict
<1>9. CASE ~GoesRight(mid)
  <2>1. lo' = lo /\ hi' = mid
    BY <1>1, <1>9
  <2>2. \A i \in (mid + 1) .. n.nritems : ~GoesIn(n, key, i)
    <3> SUFFICES ASSUME NEW i \in (mid + 1) .. n.nritems PROVE ~GoesIn(n, key, i)
      OBVIOUS
    <3>1. i \in 1 .. n.nritems /\ mid + 1 <= i
      BY <1>3, <1>4, <1>5
    <3> QED
      BY <3>1, <1>5, <1>6, <1>7, <1>9, Zenon
  <2>3. Bisected'
    BY <1>1, <1>2, <1>3, <1>4, <1>5, <2>1, <2>2 DEF Bisected, Interior, ReadVerdict, n
  <2>4. lo' \in 0 .. hi' /\ hi' \in Nat
    BY <2>1, <1>2, <1>3
  <2> QED
    BY <2>3, <2>4, <1>1, <1>2 DEF TypeOK, SearchInv, Descending, AnswerIsSound, ReadVerdict
<1> QED
  BY <1>8, <1>9

(* The child an interior block sends the search to is a slot of the block. *)
LEMMA ChildIsASlot ==
  ASSUME TypeOK, SearchInv, Descending, Interior, lo = hi
  PROVE  /\ ChildSlot \in 1 .. disk[current].nritems
         /\ disk[current].ptrs[ChildSlot] \in Blocks
         /\ ChildSlot < disk[current].nritems =>
              disk[current].keys[ChildSlot + 1] \in Keys
<1>1. /\ disk \in Disks /\ current \in Blocks /\ Bisected
      /\ ReadVerdict(disk, current) = "ok"
  BY DEF TypeOK, SearchInv, Bisected
<1>2. lo \in Nat /\ hi \in Nat
  BY DEF TypeOK
<1>3. /\ disk[current].nritems \in Nat
      /\ \A i \in 1 .. disk[current].nritems :
              /\ disk[current].keys[i] \in Keys
              /\ disk[current].level > 0 => disk[current].ptrs[i] \in Blocks
  BY <1>1, AcceptedBlock
<1>4. lo <= disk[current].nritems /\ disk[current].nritems > 0
  BY <1>1 DEF Bisected
<1>5. ChildSlot \in 1 .. disk[current].nritems
  BY <1>2, <1>3, <1>4 DEF ChildSlot
<1>6. ChildSlot < disk[current].nritems => ChildSlot + 1 \in 1 .. disk[current].nritems
  BY <1>3, <1>5
<1> QED
  BY <1>3, <1>5, <1>6 DEF Interior

\* DescendStep: a read child has the level its parent expects.
LEMMA DescendKeeps ==
  ASSUME TypeOK, SearchInv, DescendStep
  PROVE  TypeOK' /\ SearchInv'
<1>1. /\ Descending /\ Interior /\ lo = hi
      /\ UNCHANGED <<disk, mapped, op, target, key>>
  BY DEF DescendStep
<1>2. PICK b, p, d0 : b = disk[current].ptrs[ChildSlot] /\ p = pc /\ d0 = depth
  OBVIOUS
<1>3. ReadBlock(b, p, d0)
  BY <1>2 DEF DescendStep, ReadBlock, EnterBlock
<1>4. b \in Blocks /\ next_key' \in Keys \cup {NoKey}
  BY <1>1, <1>2, ChildIsASlot DEF DescendStep, TypeOK
<1>5. /\ p \in {"descend", "descend_next"} /\ d0 \in 0 .. U8Max
      /\ target' \in Keys /\ key' \in Keys
      /\ op' \in {"find_exact", "find_first_ge"}
      /\ p = "descend" => key' = target'
      /\ p = "descend_next" => op' = "find_first_ge"
      /\ result = NoResult
  BY <1>1, <1>2 DEF Descending, TypeOK, SearchInv
<1>6. /\ disk \in Disks /\ mapped \subseteq Blocks
      /\ current \in Blocks /\ lo \in 0 .. hi /\ hi \in Nat
  BY DEF TypeOK, SearchInv
<1> QED
  BY <1>1, <1>3, <1>4, <1>5, <1>6, ReadBlockKeeps

(* An answer found in the first leaf: the slot the binary search stopped   *)
(* at holds the first key that is not below the target.                    *)
LEMMA LeafAnswer ==
  ASSUME TypeOK, SearchInv, LeafSearched
  PROVE  /\ disk[current].level = 0 /\ ReadVerdict(disk, current) = "ok"
         /\ \A i \in 1 .. lo : disk[current].keys[i] < target
         /\ SlotFound => /\ lo + 1 \in 1 .. disk[current].nritems
                         /\ disk[current].keys[lo + 1] \in Nat
                         /\ disk[current].keys[lo + 1] >= target
<1>1. /\ disk \in Disks /\ current \in Blocks /\ Bisected /\ key = target
      /\ ReadVerdict(disk, current) = "ok" /\ pc # "idle" /\ lo = hi
  BY DEF TypeOK, SearchInv, Bisected, LeafSearched, Descending
<1>2. /\ disk[current].nritems \in Nat /\ disk[current].level \in Nat
      /\ \A i \in 1 .. disk[current].nritems : disk[current].keys[i] \in Nat
  BY <1>1, AcceptedBlock
<1>3. lo \in Nat /\ target \in Nat
  BY <1>1, KeysAssumption DEF TypeOK
<1>4. disk[current].level = 0
  BY <1>2 DEF LeafSearched, Interior
<1>5. \A i \in 1 .. lo : disk[current].keys[i] < target
  BY <1>1, <1>4 DEF Bisected, GoesIn
<1>6. ASSUME SlotFound
      PROVE  lo + 1 \in 1 .. disk[current].nritems /\ ~(disk[current].keys[lo + 1] < target)
  <2>1. lo + 1 \in 1 .. disk[current].nritems /\ lo + 1 \in (hi + 1) .. disk[current].nritems
    BY <1>1, <1>2, <1>3, <1>6 DEF SlotFound
  <2> QED
    BY <2>1, <1>1, <1>4 DEF Bisected, GoesIn
<1> QED
  BY <1>1, <1>2, <1>3, <1>4, <1>5, <1>6

(* The caller's call ends with result r, everything else as it was.        *)
LEMMA ReturnKeeps ==
  ASSUME TypeOK, SearchInv, pc # "idle",
         pc' = "returned",
         result'.kind \in {"Found", "Absent", "Err"}, result'.block \in Blocks,
         UNCHANGED <<disk, mapped, op, target, key, current, depth, next_key, lo, hi>>,
         AnswerIsSound'
  PROVE  TypeOK' /\ SearchInv'
<1>1. TypeOK'
  BY DEF TypeOK
<1>2. SearchInv'
  BY DEF SearchInv, Descending
<1> QED
  BY <1>1, <1>2

\* find_exact after its descent: only an item with the target as its key.
LEMMA FinishExactKeeps ==
  ASSUME TypeOK, SearchInv, FinishExact
  PROVE  TypeOK' /\ SearchInv'
<1>1. /\ LeafSearched /\ op = "find_exact" /\ pc' = "returned" /\ pc # "idle"
      /\ result' = IF SlotFound /\ disk[current].keys[lo + 1] = target
                   THEN Found(current, lo + 1) ELSE Absent
      /\ UNCHANGED <<disk, mapped, op, target, key, current, depth, next_key, lo, hi>>
  BY DEF FinishExact, Return, LeafSearched
<1>2. current \in Blocks /\ Root \in Blocks /\ lo \in Nat
  BY RootAssumption DEF TypeOK
<1>3. CASE SlotFound /\ disk[current].keys[lo + 1] = target
  <2>1. result' = Found(current, lo + 1)
    BY <1>1, <1>3
  <2>2. result'.kind = "Found" /\ result'.block = current /\ result'.idx = lo + 1
    BY <2>1 DEF Found
  <2>3. AnswerIsSound'
    BY <1>1, <1>2, <1>3, <2>2, LeafAnswer DEF AnswerIsSound, ReadVerdict
  <2> QED
    BY <1>1, <1>2, <2>2, <2>3, ReturnKeeps
<1>4. CASE ~(SlotFound /\ disk[current].keys[lo + 1] = target)
  <2>1. result'.kind = "Absent" /\ result'.block \in Blocks
    BY <1>1, <1>2, <1>4 DEF Absent
  <2> QED
    BY <1>1, <2>1, ReturnKeeps DEF AnswerIsSound
<1> QED
  BY <1>3, <1>4

\* find_first_ge after its first descent: an item of this leaf, or a second
\* descent.
LEMMA FinishFirstGeKeeps ==
  ASSUME TypeOK, SearchInv, FinishFirstGe
  PROVE  TypeOK' /\ SearchInv'
<1>1. /\ LeafSearched /\ op = "find_first_ge" /\ pc # "idle"
      /\ UNCHANGED <<disk, mapped, op, target>>
  BY DEF FinishFirstGe, LeafSearched
<1>2. current \in Blocks /\ Root \in Blocks /\ lo \in Nat
  BY RootAssumption DEF TypeOK
<1>3. CASE /\ SlotFound /\ Return(Found(current, lo + 1))
           /\ UNCHANGED <<key, current, depth, next_key, lo, hi>>
  <2>2. /\ result'.kind = "Found" /\ result'.block = current /\ result'.idx = lo + 1
        /\ pc' = "returned"
    BY <1>3 DEF Found, Return
  <2>3. AnswerIsSound'
    BY <1>1, <1>2, <1>3, <2>2, LeafAnswer DEF AnswerIsSound, ReadVerdict
  <2> QED
    BY <1>1, <1>2, <1>3, <2>2, <2>3, ReturnKeeps
<1>4. CASE /\ Return(Absent)
           /\ UNCHANGED <<key, current, depth, next_key, lo, hi>>
  <2>1. result'.kind = "Absent" /\ result'.block \in Blocks /\ pc' = "returned"
    BY <1>2, <1>4 DEF Absent, Return
  <2> QED
    BY <1>1, <1>4, <2>1, ReturnKeeps DEF AnswerIsSound
<1>5. CASE next_key # NoKey /\ BeginDescent(next_key, "descend_next")
  <2>1. /\ ReadBlock(Root, "descend_next", 0) /\ key' = next_key /\ next_key' = NoKey
        /\ key' \in Keys
    BY <1>5 DEF BeginDescent, TypeOK
  <2>2. /\ disk \in Disks /\ mapped \subseteq Blocks /\ result = NoResult
        /\ lo \in 0 .. hi /\ hi \in Nat /\ target \in Keys
    BY <1>1 DEF TypeOK, SearchInv, LeafSearched
  <2>3. 0 \in 0 .. U8Max
    BY DepthAssumption
  <2> QED
    BY <1>1, <1>2, <2>1, <2>2, <2>3, ReadBlockKeeps
<1> QED
  BY <1>3, <1>4, <1>5 DEF FinishFirstGe

\* find_first_ge after its second descent: the first item of the next leaf.
LEMMA FinishNextLeafKeeps ==
  ASSUME TypeOK, SearchInv, FinishNextLeaf
  PROVE  TypeOK' /\ SearchInv'
<1> DEFINE n == disk[current]
<1>1. /\ pc = "descend_next" /\ ~Interior /\ pc' = "returned"
      /\ result' = IF n.nritems = 0 \/ n.keys[1] <= target
                   THEN Err("separator_mismatch") ELSE Found(current, 1)
      /\ UNCHANGED <<disk, mapped, op, target, key, current, depth, next_key, lo, hi>>
  BY DEF FinishNextLeaf, Return
<1>2. /\ current \in Blocks /\ Root \in Blocks /\ disk \in Disks /\ Bisected
      /\ ReadVerdict(disk, current) = "ok" /\ op = "find_first_ge"
      /\ target \in Nat
  BY <1>1, RootAssumption, KeysAssumption DEF TypeOK, SearchInv, Descending, Bisected
<1>3. /\ n.nritems \in Nat /\ n.level \in Nat
      /\ \A i \in 1 .. n.nritems : n.keys[i] \in Nat
  BY <1>2, AcceptedBlock
<1>4. CASE n.nritems = 0 \/ n.keys[1] <= target
  <2>1. result'.kind = "Err" /\ result'.block \in Blocks
    BY <1>1, <1>2, <1>4 DEF Err
  <2> QED
    BY <1>1, <2>1, ReturnKeeps DEF AnswerIsSound
<1>5. CASE ~(n.nritems = 0 \/ n.keys[1] <= target)
  <2>1. result'.kind = "Found" /\ result'.block = current /\ result'.idx = 1
    BY <1>1, <1>5 DEF Found
  <2>2. n.level = 0 /\ 1 \in 1 .. n.nritems /\ n.keys[1] >= target
    BY <1>1, <1>2, <1>3, <1>5 DEF Interior
  <2>3. AnswerIsSound'
    BY <1>1, <1>2, <2>1, <2>2 DEF AnswerIsSound, ReadVerdict
  <2> QED
    BY <1>1, <1>2, <2>1, <2>3, ReturnKeeps
<1> QED
  BY <1>4, <1>5

\* The caller takes the answer and may call again.
LEMMA TakeResultKeeps ==
  ASSUME TypeOK, SearchInv, TakeResult
  PROVE  TypeOK' /\ SearchInv'
<1>1. result'.kind = "Pending" /\ result'.block = Root
  BY DEF TakeResult, NoResult
<1>2. TypeOK'
  BY <1>1, RootAssumption, DepthAssumption DEF TypeOK, TakeResult
<1>3. AnswerIsSound'
  BY <1>1 DEF AnswerIsSound
<1> QED
  BY <1>2, <1>3 DEF SearchInv, TakeResult, Descending

\* Every step of a search keeps the invariant.
LEMMA SearchKeeps ==
  ASSUME TypeOK, SearchInv, Search
  PROVE  TypeOK' /\ SearchInv'
BY BisectKeeps, DescendKeeps, FinishExactKeeps, FinishFirstGeKeeps, FinishNextLeafKeeps
   DEF Search

(* Nothing changes when the search's variables do not.                     *)
LEMMA SearchStutters ==
  ASSUME TypeOK, SearchInv, UNCHANGED btreeVars
  PROVE  TypeOK' /\ SearchInv'
<1>1. TypeOK'
  BY DEF btreeVars, TypeOK
<1>2. Bisected' <=> Bisected
  BY DEF btreeVars, Bisected, ReadVerdict, Interior
<1>3. AnswerIsSound'
  BY DEF btreeVars, SearchInv, AnswerIsSound, ReadVerdict
<1> QED
  BY <1>1, <1>2, <1>3 DEF btreeVars, SearchInv, Descending

(* Between two calls the chunk map may change.                             *)
LEMMA SearchIdles ==
  ASSUME TypeOK, SearchInv, pc = "idle", mapped' \subseteq Blocks,
         UNCHANGED <<disk, pc, op, target, key, current, depth, next_key, lo, hi, result>>
  PROVE  TypeOK' /\ SearchInv'
<1>1. TypeOK'
  BY DEF TypeOK
<1>2. result'.kind = "Pending"
  BY DEF SearchInv, NoResult
<1>3. AnswerIsSound'
  BY <1>2 DEF AnswerIsSound
<1> QED
  BY <1>1, <1>3 DEF SearchInv, Descending

\* No search is under way at first.
LEMMA InitSearchInv ==
  ASSUME BTreeInit, mapped \subseteq Blocks
  PROVE  TypeOK /\ SearchInv
<1>1. result.kind = "Pending" /\ result.block = Root
  BY DEF BTreeInit, NoResult
<1>2. TypeOK
  BY <1>1, RootAssumption, DisksAssumption, DepthAssumption DEF TypeOK, BTreeInit
<1>3. AnswerIsSound
  BY <1>1 DEF AnswerIsSound
<1> QED
  BY <1>2, <1>3 DEF SearchInv, BTreeInit, Descending

(* The invariant of a search, on every disk.                               *)
THEOREM SearchInvariant == BTreeSpec => [](TypeOK /\ SearchInv)
<1>1. BTreeStart => TypeOK /\ SearchInv
  BY InitSearchInv DEF BTreeStart
<1>2. TypeOK /\ SearchInv /\ [BTreeNext]_btreeVars => (TypeOK /\ SearchInv)'
  BY CallKeeps, SearchKeeps, TakeResultKeeps, SearchStutters DEF BTreeNext
<1> QED
  BY <1>1, <1>2, PTL DEF BTreeSpec

(* Every variable keeps its shape: no disk, however damaged, drives the    *)
(* search out of its block, its slots or its depth counter.                *)
THEOREM TypeCorrect == BTreeSpec => []TypeOK
BY SearchInvariant, PTL

(* On any disk, an answer is an item of a leaf that was verified, at or    *)
(* past the target, with nothing of the leaf passed over.                  *)
THEOREM AnswersAreSound == BTreeSpec => []AnswerIsSound
<1>1. SearchInv => AnswerIsSound
  BY DEF SearchInv
<1> QED
  BY <1>1, SearchInvariant, PTL

-----------------------------------------------------------------------------
(* Why a search returns on every disk, cycles of blocks included.          *)

(* What a search has left: a second descent, levels until MAX_TREE_DEPTH   *)
(* cuts it off, slots of the block at hand.                                *)
DescentsLeft == IF pc = "descend" THEN 1 ELSE 0
LevelsLeft   == IF Interior THEN MaxTreeDepth + 1 - depth ELSE 0
SlotsLeft    == hi - lo

(* The lexicographic order of three numbers.                               *)
Before(a, b, c, x, y, z) == a < x \/ (a = x /\ b < y) \/ (a = x /\ b = y /\ c < z)

(* A step of a search returns or leaves it less to do.                     *)
SearchCloser ==
  Descending =>
    \/ pc' = "returned"
    \/ Before(DescentsLeft', LevelsLeft', SlotsLeft', DescentsLeft, LevelsLeft, SlotsLeft)

(* What is left is counted by naturals, so that it cannot shrink for ever. *)
WithinLimits ==
  /\ Descending => depth <= MaxTreeDepth
  /\ Descending => DescentsLeft \in Nat /\ LevelsLeft \in Nat /\ SlotsLeft \in Nat

(* Reading a block uses up a level, the last one for a leaf.               *)
LEMMA ReadBlockCloser ==
  ASSUME disk \in Disks, NEW b \in Blocks, NEW ph, NEW d0 \in 0 .. MaxTreeDepth,
         ReadBlock(b, ph, d0), UNCHANGED disk, pc' # "returned"
  PROVE  /\ pc' = ph /\ SlotsLeft' \in Nat /\ depth' <= MaxTreeDepth
         /\ LevelsLeft' \in Nat /\ LevelsLeft' < MaxTreeDepth + 1 - d0
<1>1. disk[b].level \in Nat /\ disk[b].nritems \in Nat
  BY DiskNodes, NodeTypes
<1>2. EnterBlock(b, ph, d0)
  BY DEF ReadBlock, Return
<1>3. d0 \in Nat /\ MaxTreeDepth \in Nat /\ d0 < U8Max /\ U8Max \in Nat
  BY DepthAssumption
<1>4. current' = b /\ pc' = ph /\ SlotsLeft' \in Nat
  <2>1. current' = b /\ pc' = ph /\ lo' = 0 /\ hi' = disk[b].nritems
    BY <1>2 DEF EnterBlock, Return
  <2> QED
    BY <1>1, <2>1 DEF SlotsLeft
<1>5. CASE disk[b].level > 0
  <2>1. depth' = d0 + 1 /\ ~(depth' > MaxTreeDepth)
    BY <1>2, <1>3, <1>5 DEF EnterBlock, SaturatingInc, Return
  <2>2. LevelsLeft' = MaxTreeDepth + 1 - depth'
    BY <1>4, <1>5 DEF LevelsLeft, Interior
  <2> QED
    BY <1>1, <1>3, <1>4, <2>1, <2>2
<1>6. CASE ~(disk[b].level > 0)
  <2>1. depth' = d0
    BY <1>2, <1>6 DEF EnterBlock
  <2>2. LevelsLeft' = 0
    BY <1>4, <1>6 DEF LevelsLeft, Interior
  <2> QED
    BY <1>1, <1>3, <1>4, <2>1, <2>2
<1> QED
  BY <1>5, <1>6

(* A step of a search: a probe halves the slots, a child uses up a level,  *)
(* the second descent is the last.                                         *)
LEMMA SearchStepCloser ==
  ASSUME TypeOK, SearchInv, WithinLimits, Search
  PROVE  SearchCloser /\ WithinLimits'
<1>1. /\ disk \in Disks /\ lo \in Nat /\ hi \in Nat /\ lo <= hi /\ depth \in Nat
      /\ MaxTreeDepth \in Nat
  BY DepthAssumption DEF TypeOK, SearchInv
<1>2. CASE Bisect
  <2>1. PICK mid : mid = lo + (hi - lo) \div 2
    OBVIOUS
  <2>2. /\ Descending /\ lo < hi /\ UNCHANGED <<disk, pc, current, depth>>
        /\ \/ lo' = mid + 1 /\ hi' = hi
           \/ hi' = mid /\ lo' = lo
    BY <1>2, <2>1 DEF Bisect, Bisecting
  <2>3. mid \in Nat /\ lo <= mid /\ mid < hi
    BY <1>1, <2>1, <2>2
  <2>4. hi' - lo' \in Nat /\ hi' - lo' < hi - lo
    BY <1>1, <2>2, <2>3
  <2>5. DescentsLeft' = DescentsLeft /\ LevelsLeft' = LevelsLeft /\ Descending'
    BY <2>2 DEF DescentsLeft, LevelsLeft, Interior, Descending
  <2>6. SearchCloser
    BY <2>4, <2>5 DEF SearchCloser, Before, SlotsLeft
  <2>7. WithinLimits'
    BY <2>2, <2>4, <2>5 DEF WithinLimits, SlotsLeft
  <2> QED
    BY <2>6, <2>7
<1>3. CASE DescendStep
  <2>1. Descending /\ Interior /\ lo = hi /\ disk' = disk
    BY <1>3 DEF DescendStep
  <2>2. PICK b, ph, d0 : b = disk[current].ptrs[ChildSlot] /\ ph = pc /\ d0 = depth
    OBVIOUS
  <2>3. ReadBlock(b, ph, d0)
    BY <1>3, <2>2 DEF DescendStep, ReadBlock, EnterBlock
  <2>4. b \in Blocks /\ d0 \in 0 .. MaxTreeDepth
    BY <1>1, <2>1, <2>2, ChildIsASlot DEF WithinLimits
  <2>5. CASE pc' = "returned"
    BY <2>5 DEF SearchCloser, WithinLimits, Descending
  <2>6. CASE pc' # "returned"
    <3>1. /\ pc' = pc /\ SlotsLeft' \in Nat /\ depth' <= MaxTreeDepth
          /\ LevelsLeft' \in Nat /\ LevelsLeft' < MaxTreeDepth + 1 - d0
      BY <1>1, <2>1, <2>2, <2>3, <2>4, <2>6, ReadBlockCloser
    <3>2. LevelsLeft = MaxTreeDepth + 1 - d0
      BY <2>1, <2>2 DEF LevelsLeft
    <3>3. DescentsLeft' = DescentsLeft /\ DescentsLeft' \in Nat
      BY <3>1 DEF DescentsLeft
    <3>4. SearchCloser
      BY <3>1, <3>2, <3>3 DEF SearchCloser, Before
    <3>5. WithinLimits'
      BY <3>1, <3>3 DEF WithinLimits
    <3> QED
      BY <3>4, <3>5
  <2> QED
    BY <2>5, <2>6
<1>4. CASE FinishExact \/ FinishNextLeaf
  BY <1>4 DEF FinishExact, FinishNextLeaf, Return, SearchCloser, WithinLimits, Descending
<1>5. CASE FinishFirstGe
  <2>1. CASE pc' = "returned"
    BY <2>1 DEF SearchCloser, WithinLimits, Descending
  <2>2. CASE pc' # "returned"
    <3>1. ReadBlock(Root, "descend_next", 0) /\ disk' = disk /\ pc = "descend"
      BY <1>5, <2>2 DEF FinishFirstGe, BeginDescent, Return, LeafSearched
    <3>2. /\ pc' = "descend_next" /\ SlotsLeft' \in Nat /\ depth' <= MaxTreeDepth
          /\ LevelsLeft' \in Nat
      BY <1>1, <2>2, <3>1, RootAssumption, ReadBlockCloser
    <3>3. DescentsLeft' = 0 /\ DescentsLeft = 1
      BY <3>1, <3>2 DEF DescentsLeft
    <3>4. SearchCloser
      BY <3>3 DEF SearchCloser, Before
    <3>5. WithinLimits'
      BY <3>2, <3>3 DEF WithinLimits
    <3> QED
      BY <3>4, <3>5
  <2> QED
    BY <2>1, <2>2
<1> QED
  BY <1>2, <1>3, <1>4, <1>5 DEF Search

(* A search is within its limits from its first block on.                  *)
LEMMA CallWithinLimits ==
  ASSUME TypeOK, SearchInv, NEW name, NEW k, Call(name, k)
  PROVE  SearchCloser /\ WithinLimits'
<1>1. pc = "idle" /\ ReadBlock(Root, "descend", 0) /\ disk' = disk
  BY DEF Call, BeginDescent
<1>2. CASE pc' = "returned"
  BY <1>1, <1>2 DEF SearchCloser, WithinLimits, Descending
<1>3. CASE pc' # "returned"
  <2>1. disk \in Disks /\ 0 \in 0 .. MaxTreeDepth
    BY DepthAssumption DEF SearchInv
  <2>2. /\ pc' = "descend" /\ SlotsLeft' \in Nat /\ depth' <= MaxTreeDepth
        /\ LevelsLeft' \in Nat
    BY <1>1, <1>3, <2>1, RootAssumption, ReadBlockCloser
  <2>3. DescentsLeft' \in Nat
    BY DEF DescentsLeft
  <2>4. WithinLimits'
    BY <2>2, <2>3 DEF WithinLimits
  <2> QED
    BY <1>1, <2>4 DEF SearchCloser, Descending
<1> QED
  BY <1>2, <1>3

(* On every disk, however damaged and with whatever cycles, each step of   *)
(* find_exact and find_first_ge returns or leaves less to do, in an order  *)
(* without infinite descent: the loops of descend_to_leaf and of both      *)
(* binary searches are bounded by MAX_TREE_DEPTH and the slots of a block. *)
THEOREM SearchesAreBounded == BTreeSpec => []WithinLimits /\ [][SearchCloser]_btreeVars
<1>1. BTreeStart => WithinLimits
  BY DEF BTreeStart, BTreeInit, WithinLimits, Descending
<1>2. TypeOK /\ SearchInv /\ WithinLimits /\ [BTreeNext]_btreeVars
        => WithinLimits' /\ [SearchCloser]_btreeVars
  <2> SUFFICES ASSUME TypeOK, SearchInv, WithinLimits, [BTreeNext]_btreeVars
               PROVE  WithinLimits' /\ [SearchCloser]_btreeVars
    OBVIOUS
  <2>1. CASE UNCHANGED btreeVars
    BY <2>1 DEF btreeVars, WithinLimits, Descending, DescentsLeft, LevelsLeft, SlotsLeft, Interior
  <2>2. CASE TakeResult
    BY <2>2 DEF TakeResult, WithinLimits, SearchCloser, Descending
  <2>3. CASE Search
    BY <2>3, SearchStepCloser
  <2>4. ASSUME NEW name \in {"find_exact", "find_first_ge"}, NEW k \in Keys, Call(name, k)
        PROVE  SearchCloser /\ WithinLimits'
    BY <2>4, CallWithinLimits
  <2> QED
    BY <2>1, <2>2, <2>3, <2>4 DEF BTreeNext
<1> QED
  BY <1>1, <1>2, SearchInvariant, PTL DEF BTreeSpec

-----------------------------------------------------------------------------
(* Reachable blocks.                                                       *)

\* A child of a block is a block.
LEMMA ChildrenAreBlocks ==
  ASSUME NEW d \in Disks, NEW b \in Blocks
  PROVE  /\ Children(d, b) \subseteq Blocks
         /\ d[b].level > 0 =>
              \A i \in 1 .. Len(d[b].keys) : d[b].ptrs[i] \in Children(d, b)
         /\ \A e \in Children(d, b) : \E i \in 1 .. Len(d[b].keys) : e = d[b].ptrs[i]
<1>1. IsNode(d[b])
  BY DiskNodes
<1>2. d[b].ptrs \in Seq(Blocks) /\ d[b].level \in Nat
  BY <1>1, NodeTypes
<1>3. DOMAIN d[b].ptrs = 1 .. Len(d[b].ptrs)
  BY <1>2, LenProperties
<1>4. d[b].level > 0 => Len(d[b].ptrs) = Len(d[b].keys)
  BY <1>1 DEF IsNode
<1>5. \A i \in 1 .. Len(d[b].ptrs) : d[b].ptrs[i] \in Blocks
  BY <1>2, ElementOfSeq
<1>6. CASE d[b].level = 0
  BY <1>6, <1>2 DEF Children
<1>7. CASE d[b].level > 0
  <2>1. Children(d, b) = {d[b].ptrs[i] : i \in 1 .. Len(d[b].keys)}
    BY <1>3, <1>4, <1>7, <1>2 DEF Children
  <2> QED
    BY <2>1, <1>4, <1>5, <1>7
<1> QED
  BY <1>2, <1>6, <1>7

\* A block is below itself.
LEMMA BelowSelf ==
  ASSUME NEW d \in Disks, NEW b \in Blocks
  PROVE  b \in Below(d, b) /\ Below(d, b) \subseteq Blocks
BY DEF Below

\* So are the children of whatever is below it.
LEMMA BelowChild ==
  ASSUME NEW d \in Disks, NEW b \in Blocks, NEW c \in Below(d, b), NEW e \in Children(d, c)
  PROVE  e \in Below(d, b)
<1>1. c \in Blocks
  BY DEF Below
<1>2. e \in Blocks
  BY <1>1, ChildrenAreBlocks
<1> QED
  BY <1>2 DEF Below

\* And nothing else: Below is the least such set.
LEMMA BelowLeast ==
  ASSUME NEW d \in Disks, NEW b \in Blocks, NEW S \in SUBSET Blocks, b \in S,
         \A x \in S : Children(d, x) \subseteq S
  PROVE  Below(d, b) \subseteq S
BY DEF Below

\* What is below a block below b is below b.
LEMMA BelowTransitive ==
  ASSUME NEW d \in Disks, NEW b \in Blocks, NEW c \in Below(d, b)
  PROVE  Below(d, c) \subseteq Below(d, b)
<1>1. c \in Blocks /\ Below(d, b) \in SUBSET Blocks
  BY BelowSelf
<1>2. \A x \in Below(d, b) : Children(d, x) \subseteq Below(d, b)
  BY BelowChild
<1> QED
  BY <1>1, <1>2, BelowLeast

(* A block reached from b is b or is reached from a child of b.            *)
LEMMA BelowCases ==
  ASSUME NEW d \in Disks, NEW b \in Blocks, NEW c \in Below(d, b)
  PROVE  c = b \/ \E e \in Children(d, b) : c \in Below(d, e)
<1> DEFINE S == {b} \cup UNION {Below(d, e) : e \in Children(d, b)}
<1>1. Children(d, b) \subseteq Blocks
  BY ChildrenAreBlocks
<1>2. S \in SUBSET Blocks
  BY <1>1, BelowSelf
<1>3. ASSUME NEW x \in S, NEW y \in Children(d, x) PROVE y \in S
  <2>1. CASE x = b
    <3>1. y \in Children(d, b)
      BY <1>3, <2>1
    <3>2. y \in Below(d, y)
      BY <3>1, <1>1, BelowSelf
    <3> QED
      BY <3>1, <3>2
  <2>2. CASE x # b
    <3>1. PICK e \in Children(d, b) : x \in Below(d, e)
      BY <2>2
    <3>2. y \in Below(d, e)
      BY <3>1, <1>1, <1>3, BelowChild
    <3> QED
      BY <3>1, <3>2
  <2> QED
    BY <2>1, <2>2
<1>4. Below(d, b) \subseteq S
  <2> HIDE DEF S
  <2>1. b \in S
    BY DEF S
  <2>2. \A x \in S : Children(d, x) \subseteq S
    BY <1>3
  <2> QED
    BY <2>1, <2>2, <1>2, BelowLeast
<1> QED
  BY <1>4

-----------------------------------------------------------------------------
(* Well-formed trees.                                                      *)

(* The separators below b that bound a subtree from the left: all but the  *)
(* first of each interior node, which promises nothing.                    *)
BoundsOf(n) == IF n.level = 0 THEN {} ELSE {n.keys[i] : i \in 2 .. Len(n.keys)}

Bounds(d, b) == UNION {BoundsOf(d[c]) : c \in Below(d, b)}

(* A node of a well-formed tree.                                           *)
LEMMA IntactNode ==
  ASSUME NEW d \in IntactDisks, NEW b \in Below(d, Root)
  PROVE  /\ d \in Disks /\ b \in Blocks /\ IsNode(d[b])
         /\ d[b].damage = "none" /\ KeysVerdict(d[b]) = "ok"
         /\ d[b].level \in Nat /\ d[b].nritems \in Nat
         /\ d[b].nritems = Len(d[b].keys)
         /\ b # Root => d[b].nritems > 0
         /\ d[b].level > 0 => d[b].nritems > 0 /\ d[b].level <= MaxTreeDepth
         /\ \A i \in 1 .. d[b].nritems : d[b].keys[i] \in Keys /\ d[b].keys[i] \in Nat
         /\ \A i, j \in 1 .. d[b].nritems : i < j => d[b].keys[i] < d[b].keys[j]
<1>1. d \in Disks /\ WellFormed(d)
  BY DEF IntactDisks
<1>2. b \in Blocks
  BY <1>1, BelowSelf, RootAssumption
<1>3. IsNode(d[b])
  BY <1>1, <1>2, DiskNodes
<1>4. /\ d[b].damage = "none" /\ d[b].nritems = Len(d[b].keys) /\ KeysVerdict(d[b]) = "ok"
      /\ b # Root => d[b].nritems > 0
      /\ d[b].level > 0 => d[b].nritems > 0 /\ d[b].level <= MaxTreeDepth
  BY <1>1 DEF WellFormed
<1>5. \A i, j \in 1 .. d[b].nritems : i < j => d[b].keys[i] < d[b].keys[j]
  BY <1>3, <1>4, AcceptedKeysAscend
<1>6. /\ d[b].level \in Nat /\ d[b].nritems \in Nat
      /\ \A i \in 1 .. Len(d[b].keys) : d[b].keys[i] \in Keys /\ d[b].keys[i] \in Nat
  BY <1>3, NodeTypes
<1> QED
  BY <1>1, <1>2, <1>3, <1>4, <1>5, <1>6

(* A child of an interior node: one level down, in the tree, and between   *)
(* its separators.                                                         *)
LEMMA IntactChild ==
  ASSUME NEW d \in IntactDisks, NEW b \in Below(d, Root), d[b].level > 0,
         NEW i \in 1 .. d[b].nritems
  PROVE  /\ d[b].ptrs[i] \in Below(d, Root) /\ d[b].ptrs[i] \in Blocks
         /\ d[b].ptrs[i] \in Children(d, b)
         /\ d[d[b].ptrs[i]].level = d[b].level - 1
         /\ \A k \in NodeKeys(d, d[b].ptrs[i]) :
              /\ i > 1 => k >= d[b].keys[i]
              /\ i < d[b].nritems => k < d[b].keys[i + 1]
<1>1. d \in Disks /\ WellFormed(d)
  BY DEF IntactDisks
<1>2. b \in Blocks /\ d[b].nritems = Len(d[b].keys) /\ IsNode(d[b])
  BY IntactNode
<1>3. d[b].ptrs[i] \in Children(d, b)
  BY <1>1, <1>2, ChildrenAreBlocks
<1>4. d[b].ptrs[i] \in Below(d, Root) /\ d[b].ptrs[i] \in Blocks
  BY <1>1, <1>2, <1>3, BelowChild, BelowSelf, RootAssumption
<1>5. i \in DOMAIN d[b].ptrs
  <2>1. d[b].ptrs \in Seq(Blocks)
    BY <1>2, NodeTypes
  <2>2. Len(d[b].ptrs) = Len(d[b].keys)
    BY <1>2 DEF IsNode
  <2> QED
    BY <2>1, <2>2, <1>2, LenProperties
<1>6. \A j \in DOMAIN d[b].ptrs :
                 /\ d[d[b].ptrs[j]].level = d[b].level - 1
                 /\ \A k \in NodeKeys(d, d[b].ptrs[j]) :
                      /\ j > 1 => k >= d[b].keys[j]
                      /\ j < d[b].nritems => k < d[b].keys[j + 1]
  BY <1>1 DEF WellFormed
<1> QED
  BY <1>3, <1>4, <1>5, <1>6

(* The keys of a subtree are numbers; those of its leaves and its bounds   *)
(* are among them; a leaf's are its own.                                   *)
LEMMA SubtreeKeys ==
  ASSUME NEW d \in IntactDisks, NEW b \in Below(d, Root)
  PROVE  /\ NodeKeys(d, b) \subseteq Nat
         /\ LeafKeys(d, b) \subseteq NodeKeys(d, b)
         /\ Bounds(d, b) \subseteq NodeKeys(d, b)
         /\ \A i \in 1 .. d[b].nritems : d[b].keys[i] \in NodeKeys(d, b)
         /\ d[b].level = 0 => /\ LeafKeys(d, b) = {d[b].keys[i] : i \in 1 .. d[b].nritems}
                              /\ Bounds(d, b) = {}
<1>1. d \in Disks /\ b \in Blocks
  BY IntactNode
<1>2. \A c \in Below(d, b) : c \in Below(d, Root)
  BY <1>1, BelowTransitive, RootAssumption
<1>3. ASSUME NEW c \in Below(d, b)
      PROVE  /\ KeysOf(d[c]) = {d[c].keys[i] : i \in 1 .. d[c].nritems}
             /\ KeysOf(d[c]) \subseteq Nat
             /\ BoundsOf(d[c]) \subseteq KeysOf(d[c])
  <2>1. /\ IsNode(d[c]) /\ d[c].nritems = Len(d[c].keys) /\ d[c].nritems \in Nat
        /\ \A i \in 1 .. d[c].nritems : d[c].keys[i] \in Nat
    BY <1>2, IntactNode
  <2>2. DOMAIN d[c].keys = 1 .. d[c].nritems
    BY <2>1, NodeTypes, LenProperties
  <2>3. KeysOf(d[c]) = {d[c].keys[i] : i \in 1 .. d[c].nritems}
    BY <2>2 DEF KeysOf
  <2> QED
    BY <2>1, <2>3 DEF BoundsOf
<1>4. NodeKeys(d, b) \subseteq Nat
  BY <1>3 DEF NodeKeys
<1>5. LeafKeys(d, b) \subseteq NodeKeys(d, b)
  BY DEF LeafKeys, NodeKeys
<1>6. Bounds(d, b) \subseteq NodeKeys(d, b)
  BY <1>3 DEF Bounds, NodeKeys
<1>7. b \in Below(d, b)
  BY <1>1, BelowSelf
<1>8. \A i \in 1 .. d[b].nritems : d[b].keys[i] \in NodeKeys(d, b)
  BY <1>3, <1>7 DEF NodeKeys
<1>9. ASSUME d[b].level = 0
      PROVE  /\ LeafKeys(d, b) = {d[b].keys[i] : i \in 1 .. d[b].nritems}
             /\ Bounds(d, b) = {}
  <2>1. Below(d, b) = {b}
    <3>1. Children(d, b) = {}
      BY <1>9 DEF Children
    <3>2. \A c \in Below(d, b) : c = b
      BY <3>1, <1>1, BelowCases
    <3> QED
      BY <3>2, <1>7
  <2>2. LeafKeys(d, b) = KeysOf(d[b])
    BY <2>1, <1>9 DEF LeafKeys
  <2>3. Bounds(d, b) = {}
    BY <2>1, <1>9 DEF Bounds, BoundsOf
  <2> QED
    BY <2>2, <2>3, <1>3, <1>7
<1> QED
  BY <1>4, <1>5, <1>6, <1>8, <1>9

(* The keys of an interior node's subtree come from its children's.        *)
LEMMA ChildKeys ==
  ASSUME NEW d \in IntactDisks, NEW b \in Below(d, Root), d[b].level > 0
  PROVE  /\ \A i \in 1 .. d[b].nritems :
              /\ LeafKeys(d, d[b].ptrs[i]) \subseteq LeafKeys(d, b)
              /\ NodeKeys(d, d[b].ptrs[i]) \subseteq NodeKeys(d, b)
         /\ \A x \in LeafKeys(d, b) :
              \E i \in 1 .. d[b].nritems : x \in LeafKeys(d, d[b].ptrs[i])
         /\ \A x \in Bounds(d, b) :
              \/ \E i \in 2 .. d[b].nritems : x = d[b].keys[i]
              \/ \E i \in 1 .. d[b].nritems : x \in Bounds(d, d[b].ptrs[i])
<1>1. /\ d \in Disks /\ b \in Blocks /\ d[b].nritems = Len(d[b].keys)
      /\ d[b].level # 0
  BY IntactNode
<1>2. ASSUME NEW i \in 1 .. d[b].nritems
      PROVE  Below(d, d[b].ptrs[i]) \subseteq Below(d, b)
  <2>1. d[b].ptrs[i] \in Children(d, b) /\ d[b].ptrs[i] \in Blocks
    BY IntactChild
  <2>2. d[b].ptrs[i] \in Below(d, b)
    BY <2>1, <1>1, BelowSelf, BelowChild
  <2> QED
    BY <2>2, <1>1, BelowTransitive
<1>3. \A c \in Below(d, b) : c # b =>
        \E i \in 1 .. d[b].nritems : c \in Below(d, d[b].ptrs[i])
  BY <1>1, BelowCases, ChildrenAreBlocks
<1>4. \A i \in 1 .. d[b].nritems : LeafKeys(d, d[b].ptrs[i]) \subseteq LeafKeys(d, b)
  BY <1>2 DEF LeafKeys
<1>5. \A i \in 1 .. d[b].nritems : NodeKeys(d, d[b].ptrs[i]) \subseteq NodeKeys(d, b)
  BY <1>2 DEF NodeKeys
<1>6. ASSUME NEW x \in LeafKeys(d, b)
      PROVE  \E i \in 1 .. d[b].nritems : x \in LeafKeys(d, d[b].ptrs[i])
  <2>1. PICK c \in Below(d, b) : d[c].level = 0 /\ x \in KeysOf(d[c])
    BY DEF LeafKeys
  <2>2. c # b
    BY <2>1, <1>1
  <2>3. PICK i \in 1 .. d[b].nritems : c \in Below(d, d[b].ptrs[i])
    BY <2>2, <1>3
  <2>4. x \in LeafKeys(d, d[b].ptrs[i])
    BY <2>1, <2>3 DEF LeafKeys
  <2> QED
    BY <2>4
<1>7. ASSUME NEW x \in Bounds(d, b)
      PROVE  \/ \E i \in 2 .. d[b].nritems : x = d[b].keys[i]
             \/ \E i \in 1 .. d[b].nritems : x \in Bounds(d, d[b].ptrs[i])
  <2>1. PICK c \in Below(d, b) : x \in BoundsOf(d[c])
    BY DEF Bounds
  <2>2. CASE c = b
    BY <2>1, <2>2, <1>1 DEF BoundsOf
  <2>3. CASE c # b
    <3>1. PICK i \in 1 .. d[b].nritems : c \in Below(d, d[b].ptrs[i])
      BY <2>3, <1>3
    <3>2. x \in Bounds(d, d[b].ptrs[i])
      BY <2>1, <3>1 DEF Bounds
    <3> QED
      BY <3>2
  <2> QED
    BY <2>2, <2>3
<1> QED
  BY <1>4, <1>5, <1>6, <1>7

-----------------------------------------------------------------------------
(* One level of a descent.                                                 *)

(* c is the slot an interior node sends the key k to.                      *)
Chosen(n, k, c) ==
  /\ c \in 1 .. n.nritems
  /\ \A i \in 2 .. c : n.keys[i] <= k
  /\ \A i \in (c + 1) .. n.nritems : n.keys[i] > k

(* Where a descent for k stands at block b with nk noted: the keys of the  *)
(* tree are those below b, those too small to matter, and those from nk on.*)
OnPath(d, b, k, nk) ==
  /\ b \in Below(d, Root)
  /\ nk # NoKey => /\ nk > k /\ nk \in Bounds(d, Root)
                   /\ \A x \in NodeKeys(d, b) : x < nk
  /\ \A x \in LeafKeys(d, Root) :
       x \in LeafKeys(d, b) \/ x < k \/ (nk # NoKey /\ x >= nk)

(* What the second descent of find_first_ge relies on: the separator k it  *)
(* looks for is still below b, or everything below b is past it.           *)
SecondPath(d, b, k, t) ==
  /\ k > t /\ k \in Bounds(d, Root)
  /\ \A x \in LeafKeys(d, Root) : x < t \/ x >= k
  /\ k \in Bounds(d, b) \/ \A x \in LeafKeys(d, b) : x >= k

NextKey(n, c, nk) == IF c < n.nritems THEN n.keys[c + 1] ELSE nk

\* A descent keeps to the path that the whole tree gives its target.
LEMMA PathStep ==
  ASSUME NEW d \in IntactDisks, NEW b, NEW k \in Nat, NEW nk \in Keys \cup {NoKey},
         OnPath(d, b, k, nk), d[b].level > 0,
         NEW c, Chosen(d[b], k, c)
  PROVE  OnPath(d, d[b].ptrs[c], k, NextKey(d[b], c, nk))
<1> DEFINE n == d[b]
           e == d[b].ptrs[c]
           nk2 == NextKey(d[b], c, nk)
<1>0. b \in Below(d, Root) /\ c \in 1 .. n.nritems
  BY DEF OnPath, Chosen
<1>1. /\ n.nritems \in Nat
      /\ \A i \in 1 .. n.nritems : n.keys[i] \in Keys /\ n.keys[i] \in Nat
      /\ \A i, j \in 1 .. n.nritems : i < j => n.keys[i] < n.keys[j]
      /\ n.nritems = Len(n.keys)
  BY <1>0, IntactNode
<1>2. /\ NodeKeys(d, b) \subseteq Nat /\ LeafKeys(d, b) \subseteq NodeKeys(d, b)
      /\ \A i \in 1 .. n.nritems : n.keys[i] \in NodeKeys(d, b)
  BY <1>0, SubtreeKeys
<1>3. ASSUME NEW i \in 1 .. n.nritems
      PROVE  /\ n.ptrs[i] \in Below(d, Root)
             /\ \A x \in NodeKeys(d, n.ptrs[i]) :
                  /\ i > 1 => x >= n.keys[i]
                  /\ i < n.nritems => x < n.keys[i + 1]
             /\ LeafKeys(d, n.ptrs[i]) \subseteq NodeKeys(d, n.ptrs[i])
             /\ NodeKeys(d, n.ptrs[i]) \subseteq NodeKeys(d, b)
  BY <1>0, IntactChild, ChildKeys, SubtreeKeys
<1>4. CASE c < n.nritems
  <2>1. c + 1 \in 1 .. n.nritems /\ c + 1 \in (c + 1) .. n.nritems /\ nk2 = n.keys[c + 1]
    BY <1>0, <1>1, <1>4 DEF NextKey
  <2>2. nk2 > k /\ nk2 \in Nat /\ nk2 \in Keys
    BY <2>1, <1>1 DEF Chosen
  <2>3. nk2 \in Bounds(d, Root)
    <3>1. c + 1 \in 2 .. Len(n.keys)
      BY <2>1, <1>0, <1>1
    <3>2. nk2 \in BoundsOf(n)
      BY <3>1, <2>1 DEF BoundsOf
    <3> QED
      BY <3>2, <1>0 DEF Bounds
  <2>4. \A x \in NodeKeys(d, e) : x < nk2
    BY <2>1, <1>0, <1>3, <1>4
  <2>5. nk # NoKey => nk2 < nk /\ nk \in Nat
    BY <2>1, <1>2, KeysAssumption DEF OnPath
  <2>6. ASSUME NEW x \in LeafKeys(d, Root)
        PROVE  x \in LeafKeys(d, e) \/ x < k \/ x >= nk2
    <3>1. CASE x \in LeafKeys(d, b)
      <4>1. PICK i \in 1 .. n.nritems : x \in LeafKeys(d, n.ptrs[i])
        BY <3>1, <1>0, ChildKeys
      <4>2. /\ i > 1 => x >= n.keys[i]
            /\ i < n.nritems => x < n.keys[i + 1]
            /\ x \in Nat
        BY <4>1, <1>2, <1>3
      <4>3. CASE i < c
        <5>1. i + 1 \in 2 .. c /\ i < n.nritems /\ i + 1 \in 1 .. n.nritems
          BY <4>3, <1>0, <1>1
        <5>2. n.keys[i + 1] <= k /\ n.keys[i + 1] \in Nat
          BY <5>1, <1>1 DEF Chosen
        <5>3. x < n.keys[i + 1]
          BY <5>1, <4>2
        <5> QED
          BY <5>2, <5>3, <4>2
      <4>4. CASE i = c
        BY <4>1, <4>4
      <4>5. CASE i > c
        <5>1. c + 1 <= i /\ i > 1
          BY <4>5, <1>0, <1>1
        <5>2. n.keys[c + 1] <= n.keys[i] /\ n.keys[i] \in Nat
          BY <5>1, <2>1, <1>1
        <5> QED
          BY <5>1, <5>2, <4>2, <2>1, <2>2
      <4> QED
        BY <4>3, <4>4, <4>5, <1>0, <1>1
    <3>2. CASE x < k
      BY <3>2
    <3>3. CASE nk # NoKey /\ x >= nk
      <4>1. x \in Nat
        BY SubtreeKeys, BelowSelf, RootAssumption DEF IntactDisks
      <4> QED
        BY <4>1, <3>3, <2>2, <2>5
    <3> QED
      BY <3>1, <3>2, <3>3 DEF OnPath
  <2>7. nk2 # NoKey
    BY <2>2, KeysAssumption
  <2> QED
    BY <2>2, <2>3, <2>4, <2>6, <2>7, <1>0, <1>3 DEF OnPath
<1>5. CASE ~(c < n.nritems)
  <2>1. c = n.nritems /\ nk2 = nk
    BY <1>0, <1>1, <1>5 DEF NextKey
  <2>2. \A x \in NodeKeys(d, e) : nk # NoKey => x < nk
    BY <1>0, <1>3 DEF OnPath
  <2>3. ASSUME NEW x \in LeafKeys(d, b)
        PROVE  x \in LeafKeys(d, e) \/ x < k
    <3>1. PICK i \in 1 .. n.nritems : x \in LeafKeys(d, n.ptrs[i])
      BY <2>3, <1>0, ChildKeys
    <3>2. CASE i < c
      <4>1. i + 1 \in 2 .. c /\ i < n.nritems /\ i + 1 \in 1 .. n.nritems
        BY <3>2, <2>1, <1>0, <1>1
      <4>2. n.keys[i + 1] <= k /\ n.keys[i + 1] \in Nat
        BY <4>1, <1>1 DEF Chosen
      <4>3. x < n.keys[i + 1] /\ x \in Nat
        BY <4>1, <3>1, <1>2, <1>3
      <4> QED
        BY <4>2, <4>3
    <3>3. CASE i = c
      BY <3>1, <3>3
    <3> QED
      BY <3>2, <3>3, <2>1, <1>0, <1>1
  <2> QED
    BY <2>1, <2>2, <2>3, <1>0, <1>3 DEF OnPath
<1> QED
  BY <1>4, <1>5

\* The second descent keeps to the path of the separator noted by the first.
LEMMA SecondStep ==
  ASSUME NEW d \in IntactDisks, NEW b \in Below(d, Root), NEW k \in Nat, NEW t,
         SecondPath(d, b, k, t), d[b].level > 0,
         NEW c, Chosen(d[b], k, c)
  PROVE  SecondPath(d, d[b].ptrs[c], k, t)
<1> DEFINE n == d[b]
           e == d[b].ptrs[c]
<1>0. c \in 1 .. n.nritems
  BY DEF Chosen
<1>1. /\ n.nritems \in Nat
      /\ \A i \in 1 .. n.nritems : n.keys[i] \in Nat
      /\ \A i, j \in 1 .. n.nritems : i < j => n.keys[i] < n.keys[j]
  BY IntactNode
<1>2. ASSUME NEW i \in 1 .. n.nritems
      PROVE  /\ \A x \in NodeKeys(d, n.ptrs[i]) :
                  /\ i > 1 => x >= n.keys[i]
                  /\ i < n.nritems => x < n.keys[i + 1]
             /\ LeafKeys(d, n.ptrs[i]) \subseteq NodeKeys(d, n.ptrs[i])
             /\ Bounds(d, n.ptrs[i]) \subseteq NodeKeys(d, n.ptrs[i])
  BY IntactChild, SubtreeKeys
<1>3. CASE \A x \in LeafKeys(d, b) : x >= k
  <2>1. LeafKeys(d, e) \subseteq LeafKeys(d, b)
    BY <1>0, ChildKeys
  <2> QED
    BY <1>3, <2>1 DEF SecondPath
<1>4. CASE \E i \in 2 .. n.nritems : k = n.keys[i]
  <2>1. PICK i \in 2 .. n.nritems : k = n.keys[i]
    BY <1>4
  <2>2. i \in 1 .. n.nritems
    BY <1>1
  <2>3. ~(i > c)
    <3> SUFFICES ASSUME i > c PROVE FALSE
      OBVIOUS
    <3>1. i \in (c + 1) .. n.nritems
      BY <1>0, <1>1
    <3> QED
      BY <3>1, <2>1 DEF Chosen
  <2>4. ~(i < c)
    <3> SUFFICES ASSUME i < c PROVE FALSE
      OBVIOUS
    <3>1. c \in 2 .. c
      BY <1>0, <1>1
    <3>2. n.keys[c] <= k /\ n.keys[i] < n.keys[c] /\ n.keys[c] \in Nat
      BY <3>1, <2>2, <1>0, <1>1 DEF Chosen
    <3> QED
      BY <3>2, <2>1
  <2>5. i = c /\ c > 1
    BY <2>3, <2>4, <1>0, <1>1
  <2>6. \A x \in LeafKeys(d, e) : x >= k
    BY <2>1, <2>5, <1>0, <1>2
  <2> QED
    BY <2>6 DEF SecondPath
<1>5. CASE \E i \in 1 .. n.nritems : k \in Bounds(d, n.ptrs[i])
  <2>1. PICK i \in 1 .. n.nritems : k \in Bounds(d, n.ptrs[i])
    BY <1>5
  <2>2. /\ i > 1 => k >= n.keys[i]
        /\ i < n.nritems => k < n.keys[i + 1]
    BY <2>1, <1>2
  <2>3. ~(i > c)
    <3> SUFFICES ASSUME i > c PROVE FALSE
      OBVIOUS
    <3>1. i \in (c + 1) .. n.nritems /\ i > 1
      BY <1>0, <1>1
    <3>2. n.keys[i] > k /\ k >= n.keys[i] /\ n.keys[i] \in Nat
      BY <3>1, <2>2, <1>1 DEF Chosen
    <3> QED
      BY <3>2
  <2>4. ~(i < c)
    <3> SUFFICES ASSUME i < c PROVE FALSE
      OBVIOUS
    <3>1. i + 1 \in 2 .. c /\ i < n.nritems /\ i + 1 \in 1 .. n.nritems
      BY <1>0, <1>1
    <3>2. n.keys[i + 1] <= k /\ k < n.keys[i + 1] /\ n.keys[i + 1] \in Nat
      BY <3>1, <2>2, <1>1 DEF Chosen
    <3> QED
      BY <3>2
  <2>5. i = c
    BY <2>3, <2>4, <1>0, <1>1
  <2> QED
    BY <2>1, <2>5 DEF SecondPath
<1> QED
  BY <1>3, <1>4, <1>5, ChildKeys DEF SecondPath

-----------------------------------------------------------------------------
(* The search came to a block of the tree that no chunk covers.            *)
UnmappedRead ==
  /\ result.kind = "Err" /\ result.token = "chunk_unmapped"
  /\ ~(Below(disk, Root) \subseteq mapped)

(* The invariant of a search on a well-formed tree: a descent is on the    *)
(* path of its key with levels enough to the limit, and a result is exact  *)
(* unless the tree is not all readable and the error says so.              *)
ExactInv ==
  disk \in IntactDisks =>
    /\ Descending =>
         /\ OnPath(disk, current, key, next_key)
         /\ Interior => disk[current].level + depth <= MaxTreeDepth + 1
    /\ pc = "descend_next" => SecondPath(disk, current, key, target)
    /\ SearchIsExact \/ UnmappedRead

(* A block of the tree is read, or no chunk covers it, or the device fails. *)
LEMMA ReadIntact ==
  ASSUME disk \in IntactDisks,
         NEW b \in Below(disk, Root), NEW d0 \in Nat,
         disk[b].level > 0 => disk[b].level + d0 <= MaxTreeDepth,
         NEW p \in {"descend", "descend_next"}, ReadBlock(b, p, d0)
  PROVE  \/ pc' = "returned" /\ result' = Err("tree_block_read")
         \/ b \notin mapped /\ pc' = "returned" /\ result' = Err("chunk_unmapped")
         \/ /\ pc' = p /\ current' = b /\ result' = result
            /\ depth' = IF disk[b].level > 0 THEN d0 + 1 ELSE d0
<1>1. /\ b \in Blocks /\ disk[b].level \in Nat /\ disk[b].nritems \in Nat
      /\ disk[b].damage = "none" /\ KeysVerdict(disk[b]) = "ok"
      /\ disk[b].level > 0 => disk[b].nritems > 0
  BY IntactNode
<1>2. ReadVerdict(disk, b) = IF b \in mapped THEN "ok" ELSE "chunk_unmapped"
  BY <1>1 DEF ReadVerdict
<1>3. disk[b].level > 0 => SaturatingInc(d0) = d0 + 1 /\ ~(d0 + 1 > MaxTreeDepth)
  BY <1>1, DepthAssumption DEF SaturatingInc
<1>4. CASE Return(Err("tree_block_read"))
  BY <1>4 DEF Return
<1>5. CASE EnterBlock(b, p, d0)
  <2>1. CASE disk[b].level > 0
    BY <1>1, <1>3, <1>5, <2>1 DEF EnterBlock
  <2>2. CASE ~(disk[b].level > 0)
    BY <1>5, <2>2 DEF EnterBlock
  <2> QED
    BY <2>1, <2>2
<1>6. CASE b \notin mapped /\ Return(Err("chunk_unmapped"))
  BY <1>6 DEF Return
<1> QED
  BY <1>2, <1>4, <1>5, <1>6 DEF ReadBlock

(* The end of a call, and the reading of a block, keep the invariant.      *)
LEMMA ReadFailureIsExact ==
  ASSUME pc' = "returned", result' = Err("tree_block_read")
  PROVE  ExactInv'
<1>1. result'.kind = "Err" /\ result'.token = "tree_block_read"
  BY DEF Err
<1>2. SearchIsExact'
  BY <1>1 DEF SearchIsExact
<1> QED
  BY <1>2 DEF ExactInv, Descending

\* A block that is read is on the path; a read that fails ends the search
\* with an error, which is no wrong answer.
LEMMA ReadKeepsExact ==
  ASSUME disk \in IntactDisks, disk' = disk, mapped' = mapped, result = NoResult,
         NEW b \in Below(disk, Root), NEW d0 \in Nat,
         disk[b].level > 0 => disk[b].level + d0 <= MaxTreeDepth,
         NEW p \in {"descend", "descend_next"}, ReadBlock(b, p, d0),
         OnPath(disk, b, key', next_key'),
         p = "descend_next" => SecondPath(disk, b, key', target')
  PROVE  ExactInv'
<1>1. CASE pc' = "returned" /\ result' = Err("tree_block_read")
  BY <1>1, ReadFailureIsExact
<1>2. CASE /\ pc' = p /\ current' = b
           /\ depth' = IF disk[b].level > 0 THEN d0 + 1 ELSE d0
  <2>1. disk[b].level \in Nat
    BY IntactNode
  <2>2. Interior' => disk'[current'].level + depth' <= MaxTreeDepth + 1
    BY <1>2, <2>1, DepthAssumption DEF Interior
  <2>3. SearchIsExact'
    BY <1>2 DEF SearchIsExact
  <2> QED
    BY <1>2, <2>2, <2>3 DEF ExactInv
<1>3. CASE b \notin mapped /\ pc' = "returned" /\ result' = Err("chunk_unmapped")
  <2>1. UnmappedRead'
    BY <1>3 DEF UnmappedRead, Err
  <2> QED
    BY <1>3, <2>1 DEF ExactInv, Descending
<1> QED
  BY <1>1, <1>2, <1>3, ReadIntact

\* Every descent starts on its path, at the root.
LEMMA RootPath ==
  ASSUME NEW d \in IntactDisks, NEW k
  PROVE  /\ Root \in Below(d, Root) /\ OnPath(d, Root, k, NoKey)
         /\ d[Root].level > 0 => d[Root].level + 0 <= MaxTreeDepth
<1>1. Root \in Below(d, Root)
  BY BelowSelf, RootAssumption DEF IntactDisks
<1>2. d[Root].level \in Nat /\ (d[Root].level > 0 => d[Root].level <= MaxTreeDepth)
  BY <1>1, IntactNode
<1> QED
  BY <1>1, <1>2, DepthAssumption DEF OnPath

\* A call starts a search on its path.
LEMMA CallKeepsExact ==
  ASSUME TypeOK, SearchInv, NEW name, NEW k, Call(name, k)
  PROVE  ExactInv'
<1>1. /\ ReadBlock(Root, "descend", 0) /\ disk' = disk /\ mapped' = mapped /\ key' = k /\ next_key' = NoKey
      /\ result = NoResult
  BY DEF Call, BeginDescent, SearchInv
<1>2. CASE disk \in IntactDisks
  BY <1>1, <1>2, RootPath, ReadKeepsExact
<1>3. CASE disk \notin IntactDisks
  BY <1>1, <1>3 DEF ExactInv
<1> QED
  BY <1>2, <1>3

\* DescendStep stays on the path, and notes the separator to the right of it.
LEMMA DescendKeepsExact ==
  ASSUME TypeOK, SearchInv, ExactInv, DescendStep
  PROVE  ExactInv'
<1>1. /\ Descending /\ Interior /\ lo = hi
      /\ UNCHANGED <<disk, mapped, op, target, key>>
      /\ result = NoResult /\ Bisected /\ disk \in Disks
  BY DEF DescendStep, SearchInv, Descending
<1>2. CASE disk \in IntactDisks
  <2> DEFINE n == disk[current]
  <2>1. /\ OnPath(disk, current, key, next_key) /\ current \in Below(disk, Root)
        /\ n.level + depth <= MaxTreeDepth + 1 /\ n.level > 0
        /\ pc = "descend_next" => SecondPath(disk, current, key, target)
    BY <1>1, <1>2 DEF ExactInv, OnPath, Interior
  <2>2. /\ lo \in Nat /\ depth \in Nat /\ key \in Nat /\ next_key \in Keys \cup {NoKey}
    <3>1. pc # "idle"
      BY <1>1 DEF Descending
    <3>2. /\ lo \in Nat /\ depth \in 0 .. U8Max /\ key \in Keys
          /\ next_key \in Keys \cup {NoKey}
      BY <3>1 DEF TypeOK
    <3> QED
      BY <3>2, KeysAssumption, DepthAssumption
  <2>3. /\ n.nritems \in Nat /\ n.level \in Nat
        /\ \A i \in 1 .. n.nritems : n.keys[i] \in Nat
    BY <1>2, <2>1, IntactNode
  <2>4. ChildSlot \in 1 .. n.nritems
    BY <1>1, ChildIsASlot
  <2>5. PICK c, b, p, d0 : c = ChildSlot /\ b = n.ptrs[c] /\ p = pc /\ d0 = depth
    OBVIOUS
  <2>6. Chosen(n, key, c)
    <3>1. \A i \in 2 .. c : i \in 1 .. lo
      BY <2>2, <2>5 DEF ChildSlot
    <3>2. \A i \in 1 .. lo : n.keys[i] <= key
      BY <1>1, <2>1 DEF Bisected, GoesIn
    <3>3. \A i \in (lo + 1) .. n.nritems : ~(n.keys[i] <= key)
      BY <1>1, <2>1 DEF Bisected, GoesIn
    <3>4. \A i \in (c + 1) .. n.nritems : i \in (lo + 1) .. n.nritems /\ i \in 1 .. n.nritems
      BY <2>2, <2>3, <2>5 DEF ChildSlot
    <3>5. \A i \in (c + 1) .. n.nritems : n.keys[i] > key
      BY <3>3, <3>4, <2>2, <2>3
    <3> QED
      BY <3>1, <3>2, <3>5, <2>4, <2>5 DEF Chosen
  <2>7. ReadBlock(b, p, d0)
    BY <2>5 DEF DescendStep, ReadBlock, EnterBlock
  <2>8. next_key' = NextKey(n, c, next_key)
    BY <2>5 DEF DescendStep, NextKey
  <2>9. OnPath(disk, b, key', next_key')
    BY <1>1, <1>2, <2>1, <2>2, <2>5, <2>6, <2>8, PathStep
  <2>10. p = "descend_next" => SecondPath(disk, b, key', target')
    BY <1>1, <1>2, <2>1, <2>2, <2>5, <2>6, SecondStep
  <2>11. disk[b].level = n.level - 1
    BY <1>2, <2>1, <2>4, <2>5, IntactChild
  <2>12. b \in Below(disk, Root) /\ d0 \in Nat /\ disk[b].level + d0 <= MaxTreeDepth
         /\ p \in {"descend", "descend_next"}
    <3>1. b \in Below(disk, Root)
      BY <2>9 DEF OnPath
    <3>2. disk[b].level + d0 <= MaxTreeDepth /\ d0 \in Nat
      BY <2>1, <2>2, <2>3, <2>5, <2>11, DepthAssumption
    <3> QED
      BY <3>1, <3>2, <2>5, <1>1 DEF Descending
  <2> QED
    BY <1>1, <1>2, <2>7, <2>9, <2>10, <2>12, ReadKeepsExact
<1>3. CASE disk \notin IntactDisks
  BY <1>1, <1>3 DEF ExactInv
<1> QED
  BY <1>2, <1>3

\* A probe moves neither the block nor what was noted.
LEMMA BisectKeepsExact ==
  ASSUME ExactInv, Bisect
  PROVE  ExactInv'
<1>1. /\ Descending
      /\ UNCHANGED <<disk, mapped, pc, op, target, key, current, depth, next_key, result>>
  BY DEF Bisect, Bisecting
<1> QED
  BY <1>1 DEF ExactInv, Descending, Interior, SearchIsExact, UnmappedRead

(* A first descent that reached its leaf: the keys of the tree are the     *)
(* leaf's, those below the target and those from the separator noted on.   *)
LEMMA LeafReached ==
  ASSUME TypeOK, SearchInv, ExactInv, LeafSearched, disk \in IntactDisks
  PROVE  /\ OnPath(disk, current, target, next_key)
         /\ LeafKeys(disk, current)
              = {disk[current].keys[i] : i \in 1 .. disk[current].nritems}
         /\ LeafKeys(disk, current) \subseteq LeafKeys(disk, Root)
         /\ \A x \in LeafKeys(disk, current) : next_key # NoKey => x < next_key
         /\ LeafKeys(disk, Root) \subseteq Nat
         /\ \A i \in 1 .. disk[current].nritems : disk[current].keys[i] \in Nat
         /\ \A i, j \in 1 .. disk[current].nritems :
              i < j => disk[current].keys[i] < disk[current].keys[j]
<1>1. pc = "descend" /\ Descending /\ key = target
  BY DEF LeafSearched, Descending, SearchInv
<1>2. OnPath(disk, current, target, next_key) /\ current \in Below(disk, Root)
  BY <1>1 DEF ExactInv, OnPath
<1>3. /\ disk[current].level = 0 /\ disk \in Disks
      /\ \A i \in 1 .. disk[current].nritems : disk[current].keys[i] \in Nat
      /\ \A i, j \in 1 .. disk[current].nritems :
              i < j => disk[current].keys[i] < disk[current].keys[j]
  BY <1>2, IntactNode DEF LeafSearched, Interior
<1>4. /\ LeafKeys(disk, current)
           = {disk[current].keys[i] : i \in 1 .. disk[current].nritems}
      /\ LeafKeys(disk, current) \subseteq NodeKeys(disk, current)
  BY <1>2, <1>3, SubtreeKeys
<1>5. LeafKeys(disk, current) \subseteq LeafKeys(disk, Root)
  <2>1. Below(disk, current) \subseteq Below(disk, Root)
    BY <1>2, <1>3, RootAssumption, BelowTransitive
  <2> QED
    BY <2>1 DEF LeafKeys
<1>6. LeafKeys(disk, Root) \subseteq Nat
  BY RootPath, SubtreeKeys
<1> QED
  BY <1>2, <1>3, <1>4, <1>5, <1>6 DEF OnPath

\* find_exact: the answer of its leaf is the answer of the tree.
LEMMA FinishExactKeepsExact ==
  ASSUME TypeOK, SearchInv, ExactInv, FinishExact
  PROVE  ExactInv'
<1>1. /\ LeafSearched /\ op = "find_exact" /\ op' = op /\ pc' = "returned"
      /\ result' = IF SlotFound /\ disk[current].keys[lo + 1] = target
                   THEN Found(current, lo + 1) ELSE Absent
      /\ disk' = disk /\ target' = target
  BY DEF FinishExact, Return
<1> SUFFICES ASSUME disk \in IntactDisks PROVE SearchIsExact'
  BY <1>1 DEF ExactInv, Descending
<1> DEFINE n == disk[current]
           all == LeafKeys(disk, Root)
<1>2. lo \in Nat /\ n.nritems \in Nat /\ target \in Nat
  <2>1. pc # "idle"
    BY <1>1 DEF LeafSearched
  <2>2. current \in Blocks /\ disk \in Disks /\ lo \in Nat /\ target \in Keys
    BY <2>1 DEF TypeOK, SearchInv
  <2> QED
    BY <2>2, KeysAssumption, DiskNodes, NodeTypes
<1>3. CASE SlotFound /\ n.keys[lo + 1] = target
  <2>1. result'.kind = "Found" /\ result'.block = current /\ result'.idx = lo + 1
    BY <1>1, <1>3 DEF Found
  <2>2. lo + 1 \in 1 .. n.nritems
    BY <1>1, <1>3, LeafAnswer
  <2>3. target \in all
    BY <2>2, <1>1, <1>3, LeafReached
  <2>4. disk'[result'.block].keys[result'.idx] = target
    BY <2>1, <1>1, <1>3
  <2>5. \A k \in all : k >= target => k >= target
    OBVIOUS
  <2> QED
    BY <2>1, <2>3, <2>4, <2>5, <1>1 DEF SearchIsExact
<1>4. CASE ~(SlotFound /\ n.keys[lo + 1] = target)
  <2>1. result'.kind = "Absent"
    BY <1>1, <1>4 DEF Absent
  <2>2. target \notin LeafKeys(disk, current)
    <3> SUFFICES ASSUME NEW i \in 1 .. n.nritems, n.keys[i] = target PROVE FALSE
      BY <1>1, LeafReached
    <3>1. CASE i <= lo
      <4>1. i \in 1 .. lo
        BY <3>1, <1>2
      <4>2. n.keys[i] < target
        BY <4>1, <1>1, LeafAnswer
      <4> QED
        BY <4>2, <1>2
    <3>2. CASE i = lo + 1
      BY <3>2, <1>2, <1>4 DEF SlotFound
    <3>3. CASE i > lo + 1
      <4>1. SlotFound
        BY <3>3, <1>2 DEF SlotFound
      <4>2. /\ lo + 1 \in 1 .. n.nritems /\ n.keys[lo + 1] >= target
            /\ n.keys[lo + 1] \in Nat /\ n.keys[lo + 1] < n.keys[i]
        BY <4>1, <3>3, <1>1, LeafAnswer, LeafReached
      <4> QED
        BY <4>2, <1>2
    <3> QED
      BY <3>1, <3>2, <3>3, <1>2
  <2>3. target \notin all
    <3>1. next_key # NoKey => next_key > target /\ next_key \in Nat
      BY <1>1, LeafReached, KeysAssumption DEF OnPath, TypeOK
    <3> QED
      BY <3>1, <2>2, <1>1, <1>2, LeafReached DEF OnPath
  <2> QED
    BY <2>1, <2>3, <1>1 DEF SearchIsExact
<1> QED
  BY <1>3, <1>4

\* find_first_ge: when the leaf has no answer, the separator noted says where
\* it is.
LEMMA FinishFirstGeKeepsExact ==
  ASSUME TypeOK, SearchInv, ExactInv, FinishFirstGe
  PROVE  ExactInv'
<1>1. /\ LeafSearched /\ op = "find_first_ge" /\ op' = op /\ mapped' = mapped
      /\ disk' = disk /\ target' = target
  BY DEF FinishFirstGe
<1>2. CASE disk \notin IntactDisks
  BY <1>1, <1>2 DEF ExactInv
<1> SUFFICES ASSUME disk \in IntactDisks PROVE ExactInv'
  BY <1>2
<1> DEFINE n == disk[current]
           all == LeafKeys(disk, Root)
<1>3. lo \in Nat /\ n.nritems \in Nat /\ target \in Nat /\ result = NoResult
  <2>1. pc # "idle" /\ pc # "returned"
    BY <1>1 DEF LeafSearched
  <2>2. /\ current \in Blocks /\ disk \in Disks /\ lo \in Nat /\ target \in Keys
        /\ result = NoResult
    BY <2>1 DEF TypeOK, SearchInv
  <2> QED
    BY <2>2, KeysAssumption, DiskNodes, NodeTypes
<1>4. next_key # NoKey => next_key > target /\ next_key \in Nat
  BY <1>1, LeafReached, KeysAssumption DEF OnPath, TypeOK
<1>5. ASSUME ~SlotFound, NEW x \in LeafKeys(disk, current) PROVE x < target
  <2>1. PICK i \in 1 .. n.nritems : x = n.keys[i]
    BY <1>1, <1>5, LeafReached
  <2>2. i \in 1 .. lo
    BY <1>3, <1>5 DEF SlotFound
  <2> QED
    BY <2>1, <2>2, <1>1, LeafAnswer
<1>6. CASE SlotFound /\ Return(Found(current, lo + 1))
  <2>1. /\ result'.kind = "Found" /\ result'.block = current /\ result'.idx = lo + 1
        /\ pc' = "returned"
    BY <1>6 DEF Found, Return
  <2> DEFINE hit == n.keys[lo + 1]
  <2>2. lo + 1 \in 1 .. n.nritems /\ hit \in Nat
    BY <1>1, <1>6, LeafAnswer
  <2>3. hit \in LeafKeys(disk, current) /\ hit \in all
    BY <2>2, <1>1, LeafReached
  <2>4. ASSUME NEW k \in all, k >= target PROVE k >= hit
    <3>1. k \in Nat
      BY <1>1, LeafReached
    <3>2. CASE k \in LeafKeys(disk, current)
      <4>1. PICK i \in 1 .. n.nritems : k = n.keys[i]
        BY <3>2, <1>1, LeafReached
      <4>2. ~(i <= lo)
        <5> SUFFICES ASSUME i <= lo PROVE FALSE
          OBVIOUS
        <5>1. i \in 1 .. lo
          BY <1>3
        <5>2. k < target
          BY <4>1, <5>1, <1>1, LeafAnswer
        <5> QED
          BY <5>2, <2>4, <3>1, <1>3
      <4>3. CASE i = lo + 1
        BY <4>1, <4>3, <2>2
      <4>4. CASE i > lo + 1
        <5>1. n.keys[lo + 1] < n.keys[i]
          BY <4>4, <2>2, <1>1, LeafReached
        <5> QED
          BY <5>1, <4>1, <2>2, <3>1
      <4> QED
        BY <4>2, <4>3, <4>4, <1>3
    <3>3. CASE k < target
      BY <3>1, <3>3, <2>4, <1>3
    <3>4. CASE next_key # NoKey /\ k >= next_key
      <4>1. hit < next_key
        BY <2>3, <3>4, <1>1, LeafReached
      <4> QED
        BY <4>1, <3>1, <3>4, <2>2, <1>4
    <3> QED
      BY <3>2, <3>3, <3>4, <1>1, LeafReached DEF OnPath
  <2>5. disk'[result'.block].keys[result'.idx] = hit
    BY <2>1, <1>1
  <2>6. SearchIsExact'
    BY <2>1, <2>3, <2>4, <2>5, <1>1 DEF SearchIsExact
  <2> QED
    BY <2>1, <2>6 DEF ExactInv, Descending
<1>7. CASE ~SlotFound /\ next_key = NoKey /\ Return(Absent)
  <2>1. result'.kind = "Absent" /\ pc' = "returned"
    BY <1>7 DEF Absent, Return
  <2>2. \A k \in all : k < target
    BY <1>1, <1>5, <1>7, LeafReached DEF OnPath
  <2>3. SearchIsExact'
    BY <2>1, <2>2, <1>1 DEF SearchIsExact
  <2> QED
    BY <2>1, <2>3 DEF ExactInv, Descending
<1>8. CASE ~SlotFound /\ next_key # NoKey /\ BeginDescent(next_key, "descend_next")
  <2>1. ReadBlock(Root, "descend_next", 0) /\ key' = next_key /\ next_key' = NoKey
    BY <1>8 DEF BeginDescent
  <2>2. \A x \in all : x < target \/ x >= next_key
    BY <1>1, <1>5, <1>8, LeafReached DEF OnPath
  <2>3. SecondPath(disk, Root, next_key, target)
    BY <1>1, <1>4, <1>8, <2>2, LeafReached DEF SecondPath, OnPath
  <2> QED
    BY <1>1, <1>3, <2>1, <2>3, RootPath, ReadKeepsExact
<1> QED
  BY <1>6, <1>7, <1>8 DEF FinishFirstGe

(* The leaf of the second descent begins with the answer.                  *)
LEMMA FinishNextLeafKeepsExact ==
  ASSUME TypeOK, SearchInv, ExactInv, FinishNextLeaf
  PROVE  ExactInv'
<1> DEFINE n == disk[current]
           all == LeafKeys(disk, Root)
<1>1. /\ pc = "descend_next" /\ ~Interior /\ pc' = "returned"
      /\ result' = IF n.nritems = 0 \/ n.keys[1] <= target
                   THEN Err("separator_mismatch") ELSE Found(current, 1)
      /\ disk' = disk /\ target' = target /\ op' = op
  BY DEF FinishNextLeaf, Return
<1> SUFFICES ASSUME disk \in IntactDisks PROVE SearchIsExact'
  BY <1>1 DEF ExactInv, Descending
<1>2. /\ OnPath(disk, current, key, next_key) /\ SecondPath(disk, current, key, target)
      /\ current \in Below(disk, Root)
  BY <1>1 DEF ExactInv, OnPath, Descending
<1>3. /\ n.level \in Nat /\ n.nritems \in Nat /\ disk \in Disks
      /\ current # Root => n.nritems > 0
      /\ \A i \in 1 .. n.nritems : n.keys[i] \in Nat
      /\ \A i, j \in 1 .. n.nritems : i < j => n.keys[i] < n.keys[j]
  BY <1>2, IntactNode
<1>4. n.level = 0
  BY <1>1, <1>3 DEF Interior
<1>5. /\ LeafKeys(disk, current) = {n.keys[i] : i \in 1 .. n.nritems}
      /\ LeafKeys(disk, current) \subseteq NodeKeys(disk, current)
      /\ Bounds(disk, current) = {}
  BY <1>2, <1>4, SubtreeKeys
<1>6. /\ key > target /\ \A x \in LeafKeys(disk, current) : x >= key
      /\ \A x \in all : x < target \/ x >= key
  BY <1>2, <1>5 DEF SecondPath
<1>7. n.nritems > 0
  <2>1. current # Root
    BY <1>2, <1>5 DEF SecondPath
  <2> QED
    BY <2>1, <1>3
<1>8. target \in Nat /\ key \in Nat
  BY <1>1, KeysAssumption DEF TypeOK
<1>9. 1 \in 1 .. n.nritems /\ n.keys[1] \in Nat /\ n.keys[1] \in LeafKeys(disk, current)
  BY <1>3, <1>5, <1>7
<1>10. n.keys[1] >= key
  BY <1>6, <1>9
<1>11. ~(n.nritems = 0 \/ n.keys[1] <= target)
  BY <1>3, <1>6, <1>7, <1>8, <1>9, <1>10
<1>12. result'.kind = "Found" /\ result'.block = current /\ result'.idx = 1
  BY <1>1, <1>11 DEF Found
<1>13. n.keys[1] \in all
  <2>1. Below(disk, current) \subseteq Below(disk, Root)
    BY <1>2, <1>3, RootAssumption, BelowTransitive
  <2>2. LeafKeys(disk, current) \subseteq all
    BY <2>1 DEF LeafKeys
  <2> QED
    BY <2>2, <1>9
<1>14. ASSUME NEW k \in all, k >= target PROVE k >= n.keys[1]
  <2>1. k \in Nat
    BY RootPath, SubtreeKeys
  <2>2. k >= key
    BY <2>1, <1>6, <1>8, <1>14
  <2>3. CASE k \in LeafKeys(disk, current)
    <3>1. PICK i \in 1 .. n.nritems : k = n.keys[i]
      BY <2>3, <1>5
    <3> QED
      BY <3>1, <1>3, <1>9
  <2>4. CASE next_key # NoKey /\ k >= next_key
    <3>1. n.keys[1] < next_key /\ next_key \in Nat
      BY <2>4, <1>2, <1>5, <1>9, KeysAssumption DEF OnPath, TypeOK
    <3> QED
      BY <3>1, <2>1, <2>4, <1>9
  <2> QED
    BY <2>1, <2>2, <2>3, <2>4, <1>2, <1>8 DEF OnPath
<1>15. disk'[result'.block].keys[result'.idx] = n.keys[1]
  BY <1>1, <1>12
<1> QED
  BY <1>1, <1>12, <1>13, <1>14, <1>15 DEF SearchIsExact

\* Every step of a search stays on its path.
LEMMA SearchKeepsExact ==
  ASSUME TypeOK, SearchInv, ExactInv, Search
  PROVE  ExactInv'
BY BisectKeepsExact, DescendKeepsExact, FinishExactKeepsExact, FinishFirstGeKeepsExact,
   FinishNextLeafKeepsExact DEF Search

\* Taking the answer starts no search.
LEMMA TakeResultKeepsExact ==
  ASSUME TakeResult
  PROVE  ExactInv'
BY DEF TakeResult, ExactInv, Descending, SearchIsExact

\* Nor does a step that leaves the state alone.
LEMMA ExactStutters ==
  ASSUME ExactInv, UNCHANGED btreeVars
  PROVE  ExactInv'
BY DEF btreeVars, ExactInv, Descending, Interior, SearchIsExact, UnmappedRead

\* Nor does one between two calls, whatever becomes of the chunk map.
LEMMA ExactIdles ==
  ASSUME pc = "idle", pc' = pc
  PROVE  ExactInv'
BY DEF ExactInv, Descending, SearchIsExact

\* There is nothing to be exact about at first.
LEMMA InitExactInv ==
  ASSUME BTreeInit
  PROVE  ExactInv
BY DEF BTreeInit, ExactInv, Descending, SearchIsExact

\* A search maps no block and unmaps none.
LEMMA MappedIsFixed ==
  ASSUME [BTreeNext]_btreeVars
  PROVE  mapped' = mapped
BY DEF BTreeNext, Call, Search, Bisect, DescendStep, FinishExact, FinishFirstGe,
       FinishNextLeaf, TakeResult, btreeVars

(* On every tree as the filesystem driver writes it, of any depth the      *)
(* format allows and any number of blocks, find_exact finds exactly the    *)
(* keys of the tree, find_first_ge the smallest one at or past its target, *)
(* also when it lies in the next leaf, and neither takes the tree for a    *)
(* damaged one.                                                            *)
THEOREM SearchesAreExact == BTreeSpec => []SearchIsExact
<1> DEFINE Inv == TypeOK /\ SearchInv
           EInv == mapped = Blocks /\ ExactInv
<1>1. BTreeStart => EInv
  BY InitExactInv DEF BTreeStart
<1>2. Inv /\ EInv /\ [BTreeNext]_btreeVars => EInv'
  <2> SUFFICES ASSUME TypeOK, SearchInv, mapped = Blocks, ExactInv, [BTreeNext]_btreeVars
               PROVE  mapped' = Blocks /\ ExactInv'
    OBVIOUS
  <2>1. mapped' = Blocks
    BY MappedIsFixed
  <2>2. ExactInv'
    BY CallKeepsExact, SearchKeepsExact, TakeResultKeepsExact, ExactStutters DEF BTreeNext
  <2> QED
    BY <2>1, <2>2
<1>3. EInv => SearchIsExact
  <2>1. Below(disk, Root) \subseteq Blocks
    BY DEF Below
  <2>2. mapped = Blocks => ~UnmappedRead
    BY <2>1 DEF UnmappedRead
  <2> QED
    BY <2>2 DEF SearchIsExact, ExactInv
<1> QED
  BY <1>1, <1>2, <1>3, SearchInvariant, PTL DEF BTreeSpec

-----------------------------------------------------------------------------
(* The walk.                                                               *)

(* The keys handed over are keys, and all of them are below k.             *)
DeliveredBelow(dv, k) == \A i \in 1 .. Len(dv) : dv[i] < k

(* Where the scan of block b stands at slot x, after a search for t: the   *)
(* slots from x on are at or past t and past everything handed over, and   *)
(* last, if there is one, is the slot before x.                            *)
Scanning(d, b, x, last, t, dv) ==
  /\ x \in 1 .. (d[b].nritems + 1)
  /\ d[b].nritems \in Nat
  /\ \A i \in x .. d[b].nritems : d[b].keys[i] >= t /\ DeliveredBelow(dv, d[b].keys[i])
  /\ last = NoKey => x <= d[b].nritems
  /\ last # NoKey => /\ x > 1 /\ last = d[b].keys[x - 1]
                     /\ last \in Keys /\ last >= t
                     /\ DeliveredBelow(dv, last + 1)

WalkInv ==
  /\ walk \in {"search", "scan", "complete", "failed"}
  /\ next_target \in Keys /\ next_target >= FirstTarget
  /\ delivered \in Seq(Keys)
  /\ KeysAscend
  /\ walk = "search" => /\ DeliveredBelow(delivered, next_target)
                        /\ pc # "idle" => op = "find_first_ge" /\ target = next_target
  /\ walk # "search" => pc = "idle"
  /\ walk = "scan" => /\ leaf \in Blocks /\ ReadVerdict(disk, leaf) = "ok"
                      /\ disk[leaf].level = 0
                      /\ Scanning(disk, leaf, idx, last_key, next_target, delivered)

WalkInd == TypeOK /\ SearchInv /\ WalkInv

(* What is handed over is keys.                                            *)
LEMMA DeliveredKeys ==
  ASSUME NEW dv \in Seq(Keys), NEW j \in 1 .. Len(dv)
  PROVE  dv[j] \in Keys /\ dv[j] \in Nat
<1>1. dv[j] \in Keys
  OBVIOUS
<1> QED
  BY <1>1, KeysAssumption

(* A walk starts with nothing handed over.                                 *)
LEMMA InitWalkInd ==
  ASSUME WalkInit, mapped \subseteq Blocks
  PROVE  WalkInd
<1>1. TypeOK /\ SearchInv
  BY InitSearchInv DEF WalkInit
<1>2. delivered = <<>> /\ FirstTarget \in Nat
  BY WalkAssumption, KeysAssumption DEF WalkInit
<1>3. WalkInv
  BY <1>2, WalkAssumption DEF WalkInit, BTreeInit, WalkInv, KeysAscend, DeliveredBelow
<1> QED
  BY <1>1, <1>3 DEF WalkInd

(* Searching: the walk's own variables keep still.                         *)
LEMMA SearchingKeeps ==
  ASSUME WalkInd, Searching
  PROVE  WalkInd'
<1>1. /\ walk = "search" /\ walk' = walk /\ next_target' = next_target
      /\ delivered' = delivered
      /\ next_target \in Keys
  BY DEF Searching, walkVars, WalkInd, WalkInv
<1>2. CASE Call("find_first_ge", next_target)
  <2>1. TypeOK' /\ SearchInv'
    BY <1>1, <1>2, CallKeeps DEF WalkInd
  <2>2. /\ op' = "find_first_ge" /\ target' = next_target /\ mapped' = mapped
    BY <1>2 DEF Call
  <2> QED
    BY <1>1, <2>1, <2>2 DEF WalkInd, WalkInv, KeysAscend
<1>3. CASE Search
  <2>1. TypeOK' /\ SearchInv'
    BY <1>3, SearchKeeps DEF WalkInd
  <2>2. /\ op' = op /\ target' = target /\ mapped' = mapped /\ pc # "idle"
    BY <1>3 DEF Search, Bisect, Bisecting, Descending, DescendStep, FinishExact,
                FinishFirstGe, LeafSearched, FinishNextLeaf
  <2> QED
    BY <1>1, <2>1, <2>2 DEF WalkInd, WalkInv, KeysAscend
<1> QED
  BY <1>2, <1>3 DEF Searching

(* The answer of find_first_ge starts the scan of a verified leaf at the   *)
(* first slot that is not below next_target.                               *)
LEMMA GotLocationKeeps ==
  ASSUME WalkInd, GotLocation
  PROVE  WalkInd'
<1>1. /\ TakeResult /\ walk = "search"
      /\ last_key' = NoKey /\ next_target' = next_target /\ delivered' = delivered
  BY DEF GotLocation
<1>2. /\ pc = "returned" /\ pc' = "idle" /\ disk' = disk /\ mapped' = mapped
  BY <1>1 DEF TakeResult
<1>3. TypeOK' /\ SearchInv'
  BY <1>1, TakeResultKeeps DEF WalkInd
<1>4. /\ op = "find_first_ge" /\ target = next_target
      /\ DeliveredBelow(delivered, next_target)
  BY <1>1, <1>2 DEF WalkInd, WalkInv
<1>5. CASE result.kind = "Found"
  <2>1. walk' = "scan" /\ leaf' = result.block /\ idx' = result.idx
    BY <1>5 DEF GotLocation
  <2>2. PICK b \in Blocks : b = result.block
    BY DEF WalkInd, TypeOK
  <2>3. /\ disk[b].level = 0 /\ ReadVerdict(disk, b) = "ok"
        /\ result.idx \in 1 .. disk[b].nritems
        /\ disk[b].keys[result.idx] >= target
    BY <1>5, <2>2 DEF WalkInd, SearchInv, AnswerIsSound
  <2>4. /\ disk[b].nritems \in Nat
        /\ \A i \in 1 .. disk[b].nritems : disk[b].keys[i] \in Keys /\ disk[b].keys[i] \in Nat
        /\ \A i, j \in 1 .. disk[b].nritems : i < j => disk[b].keys[i] < disk[b].keys[j]
    <3>1. disk \in Disks
      BY DEF WalkInd, SearchInv
    <3> QED
      BY <2>3, <3>1, AcceptedBlock
  <2>5. /\ next_target \in Nat /\ delivered \in Seq(Keys) /\ Keys \subseteq Nat
    BY KeysAssumption DEF WalkInd, WalkInv
  <2>6. ASSUME NEW i \in result.idx .. disk[b].nritems
        PROVE  disk[b].keys[i] >= next_target /\ DeliveredBelow(delivered, disk[b].keys[i])
    <3>1. disk[b].keys[i] \in Nat /\ disk[b].keys[i] >= next_target
      <4>1. CASE i = result.idx
        BY <4>1, <1>4, <2>3, <2>4
      <4>2. CASE i # result.idx
        <5>1. i \in 1 .. disk[b].nritems /\ result.idx < i
          BY <4>2, <2>3, <2>4
        <5>2. disk[b].keys[result.idx] < disk[b].keys[i]
          BY <5>1, <2>3, <2>4
        <5> QED
          BY <5>1, <5>2, <1>4, <2>3, <2>4, <2>5
      <4> QED
        BY <4>1, <4>2
    <3>2. ASSUME NEW j \in 1 .. Len(delivered)
          PROVE  delivered[j] < disk[b].keys[i]
      <4>1. delivered[j] < next_target
        BY <1>4 DEF DeliveredBelow
      <4>2. delivered[j] \in Nat
        BY <2>5, DeliveredKeys
      <4> QED
        BY <4>1, <4>2, <3>1, <2>5
    <3> QED
      BY <3>1, <3>2 DEF DeliveredBelow
  <2>7. Scanning(disk, b, result.idx, NoKey, next_target, delivered)
    BY <2>3, <2>4, <2>6 DEF Scanning
  <2>8. ReadVerdict(disk, b)' = "ok"
    BY <2>3, <1>2 DEF ReadVerdict
  <2> QED
    BY <1>1, <1>2, <1>3, <2>1, <2>2, <2>3, <2>7, <2>8 DEF WalkInd, WalkInv, KeysAscend
<1>6. CASE result.kind # "Found"
  <2>2. walk' \in {"complete", "failed"}
    BY <1>6 DEF GotLocation
  <2> QED
    BY <1>1, <1>2, <1>3, <2>2 DEF WalkInd, WalkInv, KeysAscend
<1> QED
  BY <1>5, <1>6

(* The caller of a walk may make more blocks readable.                     *)
MapGrows == mapped \subseteq mapped' /\ mapped' \subseteq Blocks

(* Handing over a slot of the leaf: the next one is past it.               *)
LEMMA TakeItemKeeps ==
  ASSUME WalkInd, TakeItem, MapGrows
  PROVE  WalkInd'
<1>1. /\ walk = "scan" /\ idx <= disk[leaf].nritems
      /\ delivered' = Append(delivered, disk[leaf].keys[idx])
      /\ last_key' = disk[leaf].keys[idx] /\ idx' = idx + 1
      /\ walk' = walk /\ next_target' = next_target /\ leaf' = leaf
      /\ UNCHANGED <<disk, pc, op, target, key, current, depth, next_key, lo, hi, result>>
  BY DEF TakeItem, MoreItems, ScanKey
<1>2. TypeOK' /\ SearchInv'
  BY <1>1, SearchIdles DEF WalkInd, WalkInv, MapGrows
<1>3. disk' = disk /\ pc' = pc
  BY <1>1
<1>4. PICK d, b, x, dv, t :
        /\ d = disk /\ b = leaf /\ b \in Blocks /\ x = idx /\ dv = delivered /\ t = next_target
  BY <1>1 DEF WalkInd, WalkInv
<1> DEFINE k == d[b].keys[x]
           dv2 == Append(dv, k)
<1>5. /\ d \in Disks /\ ReadVerdict(disk, b) = "ok" /\ d[b].level = 0
      /\ Scanning(d, b, x, last_key, t, dv)
      /\ dv \in Seq(Keys) /\ t \in Keys /\ t >= FirstTarget /\ KeysAscend
      /\ pc = "idle"
  BY <1>1, <1>4 DEF WalkInd, WalkInv, SearchInv
<1>6. /\ d[b].nritems \in Nat
      /\ \A i \in 1 .. d[b].nritems : d[b].keys[i] \in Keys /\ d[b].keys[i] \in Nat
      /\ \A i, j \in 1 .. d[b].nritems : i < j => d[b].keys[i] < d[b].keys[j]
  BY <1>4, <1>5, AcceptedBlock
<1>7. /\ x \in 1 .. d[b].nritems /\ x <= d[b].nritems
      /\ k >= t /\ DeliveredBelow(dv, k)
      /\ \A i \in x .. d[b].nritems : d[b].keys[i] >= t /\ DeliveredBelow(dv, d[b].keys[i])
  BY <1>1, <1>4, <1>5, <1>6 DEF Scanning
<1>8. k \in Keys /\ k \in Nat /\ t \in Nat /\ FirstTarget \in Nat
  BY <1>5, <1>6, <1>7, KeysAssumption, WalkAssumption
<1>9. /\ dv2 \in Seq(Keys) /\ Len(dv2) = Len(dv) + 1 /\ Len(dv) \in Nat
      /\ dv2[Len(dv) + 1] = k
      /\ \A i \in 1 .. Len(dv) : dv2[i] = dv[i]
  BY <1>5, <1>8
<1> HIDE DEF k, dv2
<1>10. \A i \in 1 .. Len(dv) : dv[i] \in Nat /\ dv[i] < k
  BY <1>5, <1>7, DeliveredKeys DEF DeliveredBelow
<1>11. ASSUME NEW n \in Nat, n > k
       PROVE  DeliveredBelow(dv2, n)
  <2> SUFFICES ASSUME NEW i \in 1 .. Len(dv2) PROVE dv2[i] < n
    BY DEF DeliveredBelow
  <2>1. CASE i = Len(dv) + 1
    BY <2>1, <1>9, <1>11
  <2>2. CASE i # Len(dv) + 1
    <3>1. i \in 1 .. Len(dv)
      BY <2>2, <1>9
    <3>2. dv2[i] \in Nat /\ dv2[i] < k
      BY <3>1, <1>9, <1>10
    <3> QED
      BY <3>2, <1>8, <1>11
  <2> QED
    BY <2>1, <2>2
<1>12. Scanning(d, b, x + 1, k, t, dv2)
  <2>1. x + 1 \in 1 .. (d[b].nritems + 1) /\ x + 1 > 1 /\ (x + 1) - 1 = x
    BY <1>6, <1>7
  <2>2. ASSUME NEW i \in (x + 1) .. d[b].nritems
        PROVE  d[b].keys[i] >= t /\ DeliveredBelow(dv2, d[b].keys[i])
    <3>1. i \in x .. d[b].nritems /\ i \in 1 .. d[b].nritems /\ x < i
      BY <1>6, <1>7
    <3>2. d[b].keys[i] >= t /\ d[b].keys[i] \in Nat /\ d[b].keys[i] > k
      BY <3>1, <1>6, <1>7, <1>8 DEF k
    <3> QED
      BY <3>2, <1>11
  <2>3. k # NoKey /\ k + 1 \in Nat /\ k + 1 > k
    BY <1>8, KeysAssumption
  <2>4. DeliveredBelow(dv2, k + 1)
    BY <2>3, <1>11
  <2>5. k = d[b].keys[(x + 1) - 1]
    BY <2>1 DEF k
  <2> QED
    BY <2>1, <2>2, <2>3, <2>4, <2>5, <1>6, <1>7, <1>8 DEF Scanning
<1>13. KeysAscend'
  <2>1. delivered' = dv2 /\ delivered = dv
    BY <1>1, <1>4 DEF dv2, k
  <2>2. \A i \in 1 .. Len(dv) : dv[i] >= FirstTarget
    BY <1>5, <2>1 DEF KeysAscend
  <2>3. \A i, j \in 1 .. Len(dv) : i < j => dv[i] < dv[j]
    BY <1>5, <2>1 DEF KeysAscend
  <2>4. ASSUME NEW i \in 1 .. Len(dv2) PROVE dv2[i] >= FirstTarget
    <3>1. CASE i = Len(dv) + 1
      BY <3>1, <1>5, <1>7, <1>8, <1>9 DEF k
    <3>2. CASE i # Len(dv) + 1
      BY <3>2, <2>2, <1>9
    <3> QED
      BY <3>1, <3>2
  <2>5. ASSUME NEW i \in 1 .. Len(dv2), NEW j \in 1 .. Len(dv2), i < j
        PROVE  dv2[i] < dv2[j]
    <3>1. i \in 1 .. Len(dv)
      BY <2>5, <1>9
    <3>2. CASE j = Len(dv) + 1
      BY <3>1, <3>2, <1>9, <1>10
    <3>3. CASE j # Len(dv) + 1
      BY <3>1, <3>3, <2>3, <2>5, <1>9
    <3> QED
      BY <3>2, <3>3
  <2> QED
    BY <2>1, <2>4, <2>5 DEF KeysAscend
<1>14. ReadVerdict(disk, b)' = "ok"
  BY <1>1, <1>5 DEF ReadVerdict, MapGrows
<1>15. WalkInv'
  <2>1. /\ delivered' = dv2 /\ last_key' = k /\ idx' = x + 1 /\ leaf' = b
        /\ next_target' = t /\ disk' = d /\ walk' = "scan" /\ pc' = "idle"
    BY <1>1, <1>3, <1>4, <1>5 DEF dv2, k
  <2> QED
    BY <2>1, <1>4, <1>5, <1>9, <1>12, <1>13, <1>14 DEF WalkInv
<1> QED
  BY <1>2, <1>15 DEF WalkInd

(* The end of a leaf: the next search starts past everything handed over.  *)
LEMMA EndOfLeafKeeps ==
  ASSUME WalkInd, EndOfLeaf
  PROVE  WalkInd'
<1>1. /\ walk = "scan" /\ UNCHANGED btreeVars /\ delivered' = delivered
      /\ disk' = disk /\ pc' = pc /\ mapped' = mapped
  BY DEF EndOfLeaf, btreeVars
<1>2. TypeOK' /\ SearchInv'
  BY <1>1, SearchStutters DEF WalkInd
<1>3. CASE last_key = NoKey \/ OffsetOverflows(last_key)
  <2>1. walk' = "complete" /\ next_target' = next_target
    BY <1>3 DEF EndOfLeaf
  <2> QED
    BY <1>1, <1>2, <2>1 DEF WalkInd, WalkInv, KeysAscend
<1>4. CASE ~(last_key = NoKey \/ OffsetOverflows(last_key))
  <2>1. walk' = "search" /\ next_target' = last_key + 1
    BY <1>4 DEF EndOfLeaf
  <2>2. /\ last_key \in Keys /\ last_key >= next_target
        /\ DeliveredBelow(delivered, last_key + 1)
        /\ next_target \in Keys /\ next_target >= FirstTarget /\ pc = "idle"
    BY <1>1, <1>4 DEF WalkInd, WalkInv, Scanning
  <2>3. last_key + 1 \in Keys
    BY <1>4, <2>2, WalkAssumption DEF OffsetOverflows
  <2>4. last_key + 1 >= FirstTarget
    BY <2>2, WalkAssumption, KeysAssumption
  <2> QED
    BY <1>1, <1>2, <2>1, <2>2, <2>3, <2>4 DEF WalkInd, WalkInv, KeysAscend
<1> QED
  BY <1>3, <1>4

(* The walk ends inside a leaf.                                            *)
LEMMA WalkEndKeeps ==
  ASSUME WalkInd, RefuseItem \/ PastLastWanted
  PROVE  WalkInd'
<1>1. /\ walk = "scan" /\ UNCHANGED btreeVars /\ delivered' = delivered
      /\ pc' = pc /\ mapped' = mapped /\ walk' \in {"complete", "failed"}
      /\ next_target' = next_target
  BY DEF RefuseItem, PastLastWanted, MoreItems, btreeVars
<1>2. TypeOK' /\ SearchInv'
  BY <1>1, SearchStutters DEF WalkInd
<1> QED
  BY <1>1, <1>2 DEF WalkInd, WalkInv, KeysAscend

(* Nothing changes.                                                        *)
LEMMA WalkStutters ==
  ASSUME WalkInd, UNCHANGED vars
  PROVE  WalkInd'
<1>1. UNCHANGED btreeVars /\ UNCHANGED walkVars /\ mapped' = mapped
  BY DEF vars, btreeVars
<1>2. TypeOK' /\ SearchInv'
  BY <1>1, SearchStutters DEF WalkInd
<1>3. ReadVerdict(disk, leaf)' = ReadVerdict(disk, leaf)
  BY <1>1 DEF ReadVerdict, btreeVars, walkVars
<1>4. WalkInv'
  BY <1>1, <1>3 DEF WalkInd, WalkInv, KeysAscend, btreeVars, walkVars
<1> QED
  BY <1>2, <1>4 DEF WalkInd

(* Every step of the walk keeps its invariant.                             *)
LEMMA WalkKeeps ==
  ASSUME WalkInd, [WalkNext]_vars
  PROVE  WalkInd'
<1>1. UNCHANGED mapped => MapGrows
  BY DEF WalkInd, TypeOK, MapGrows
<1> QED
  BY <1>1, SearchingKeeps, GotLocationKeeps, TakeItemKeeps, EndOfLeafKeeps, WalkEndKeeps,
     WalkStutters DEF WalkNext, WalkStep, WalkDone

(* The invariant of a walk, on every disk.                                 *)
THEOREM WalkInvariant == WalkSpec => []WalkInd
<1>1. WalkStart => WalkInd
  BY InitWalkInd DEF WalkStart
<1>2. WalkInd /\ [WalkNext]_vars => WalkInd'
  BY WalkKeeps
<1> QED
  BY <1>1, <1>2, PTL DEF WalkSpec

(* On any disk, however its separators lie and whatever order its leaves   *)
(* are linked in, the loop around find_first_ge hands over strictly        *)
(* ascending keys from its first target on: it never repeats an item and   *)
(* never goes back.                                                        *)
THEOREM WalksAscend == WalkSpec => []KeysAscend
<1>1. WalkInd => KeysAscend
  BY DEF WalkInd, WalkInv
<1> QED
  BY <1>1, WalkInvariant, PTL

(* The walk searches again only from past a key of the leaf it leaves.     *)
SearchesAgainFarther ==
  walk = "scan" /\ walk' = "search" =>
    /\ next_target' > next_target
    /\ \E i \in 1 .. disk[leaf].nritems : next_target' = disk[leaf].keys[i] + 1

(* On any disk every search of a walk starts farther than the one before,  *)
(* at the successor of a key the disk holds: the loop around find_first_ge *)
(* turns at most once for each key of the disk.                            *)
THEOREM WalksAreBounded == WalkSpec => [][SearchesAgainFarther]_vars
<1>1. WalkInd /\ [WalkNext]_vars => [SearchesAgainFarther]_vars
  <2> SUFFICES ASSUME WalkInd, WalkNext, walk = "scan", walk' = "search"
               PROVE  /\ next_target' > next_target
                      /\ \E i \in 1 .. disk[leaf].nritems :
                           next_target' = disk[leaf].keys[i] + 1
    BY DEF SearchesAgainFarther
  <2>1. EndOfLeaf
    BY DEF WalkNext, WalkStep, Searching, GotLocation, RefuseItem, PastLastWanted, TakeItem, WalkDone
  <2>2. last_key # NoKey /\ next_target' = last_key + 1
    BY <2>1 DEF EndOfLeaf
  <2>3. /\ last_key \in Keys /\ last_key >= next_target /\ next_target \in Keys
        /\ idx > 1 /\ last_key = disk[leaf].keys[idx - 1]
        /\ idx \in 1 .. (disk[leaf].nritems + 1) /\ leaf \in Blocks /\ disk \in Disks
    BY <2>2 DEF WalkInd, WalkInv, Scanning, SearchInv
  <2>4. next_target' > next_target
    BY <2>2, <2>3, KeysAssumption
  <2>5. disk[leaf].nritems \in Nat
    BY <2>3, DiskNodes, NodeTypes
  <2>6. idx - 1 \in 1 .. disk[leaf].nritems
    BY <2>3, <2>5
  <2> QED
    BY <2>2, <2>3, <2>4, <2>6
<1> QED
  BY <1>1, WalkInvariant, PTL DEF WalkSpec

-----------------------------------------------------------------------------
(* Well-formed trees.                                                      *)

(* Key x is one of block c's, or on one side of all of them.               *)
Apart(d, c, x) ==
  \/ \E i \in 1 .. d[c].nritems : x = d[c].keys[i]
  \/ \A i \in 1 .. d[c].nritems : x < d[c].keys[i]
  \/ \A i \in 1 .. d[c].nritems : x > d[c].keys[i]

(* The keys under one child of a node lie between those under the others.  *)
LEMMA ChildrenApart ==
  ASSUME NEW d \in IntactDisks, NEW b \in Below(d, Root), d[b].level > 0,
         NEW i \in 1 .. d[b].nritems, NEW j \in 1 .. d[b].nritems, i < j,
         NEW x \in NodeKeys(d, d[b].ptrs[i]), NEW y \in NodeKeys(d, d[b].ptrs[j])
  PROVE  x \in Nat /\ y \in Nat /\ x < y
<1>1. /\ d[b].nritems \in Nat
      /\ \A m \in 1 .. d[b].nritems : d[b].keys[m] \in Nat
      /\ \A m, n \in 1 .. d[b].nritems : m < n => d[b].keys[m] < d[b].keys[n]
  BY IntactNode
<1>2. /\ d[b].ptrs[i] \in Below(d, Root)
      /\ i < d[b].nritems => x < d[b].keys[i + 1]
  BY IntactChild
<1>3. /\ d[b].ptrs[j] \in Below(d, Root)
      /\ j > 1 => y >= d[b].keys[j]
  BY IntactChild
<1>4. x \in Nat /\ y \in Nat
  BY <1>2, <1>3, SubtreeKeys
<1>5. i < d[b].nritems /\ j > 1 /\ i + 1 \in 1 .. d[b].nritems
  BY <1>1
<1>6. d[b].keys[i + 1] <= d[b].keys[j]
  BY <1>1, <1>5
<1> QED
  BY <1>1, <1>2, <1>3, <1>4, <1>5, <1>6

(* The keys of a leaf are consecutive among the keys of the tree.          *)
LEMMA LeavesAreRuns ==
  ASSUME NEW d \in IntactDisks, NEW c \in Below(d, Root), d[c].level = 0,
         NEW x \in LeafKeys(d, Root)
  PROVE  Apart(d, c, x)
<1> DEFINE Bad == {n \in Nat : \E b \in Below(d, Root) :
                     /\ d[b].level = n /\ c \in Below(d, b) /\ x \in LeafKeys(d, b)
                     /\ ~Apart(d, c, x)}
<1>0. /\ Root \in Below(d, Root) /\ d \in Disks
  BY BelowSelf, RootAssumption, IntactNode
<1>1. CASE Bad = {}
  <2>1. d[Root].level \in Nat
    BY <1>0, IntactNode
  <2> QED
    BY <1>0, <1>1, <2>1
<1>2. CASE Bad # {}
  <2>1. PICK n \in Bad : \A m \in Bad : n <= m
    BY <1>2, LeastNumber
  <2>2. PICK b \in Below(d, Root) :
               /\ d[b].level = n /\ c \in Below(d, b) /\ x \in LeafKeys(d, b)
               /\ ~Apart(d, c, x)
    BY <2>1
  <2>3. /\ b \in Blocks /\ n \in Nat /\ d[b].nritems = Len(d[b].keys)
        /\ d[c].nritems \in Nat /\ c \in Blocks
    BY <2>1, <2>2, IntactNode
  <2>4. CASE n = 0
    <3>1. c = b
      BY <2>2, <2>3, <2>4, <1>0, BelowCases DEF Children
    <3> QED
      BY <3>1, <2>2, SubtreeKeys DEF Apart
  <2>5. CASE n > 0
    <3>1. PICK e \in Children(d, b) : c \in Below(d, e)
      BY <2>2, <2>3, <2>5, <1>0, BelowCases
    <3>2. PICK i \in 1 .. d[b].nritems : e = d[b].ptrs[i]
      BY <2>3, <1>0, ChildrenAreBlocks
    <3>3. PICK j \in 1 .. d[b].nritems : x \in LeafKeys(d, d[b].ptrs[j])
      BY <2>2, <2>5, ChildKeys
    <3>4. /\ d[b].ptrs[j] \in Below(d, Root) /\ e \in Below(d, Root) /\ e \in Blocks
          /\ d[d[b].ptrs[j]].level = n - 1
      BY <2>2, <2>5, <3>2, IntactChild
    <3>5. /\ x \in NodeKeys(d, d[b].ptrs[j])
      BY <3>3, <3>4, SubtreeKeys
    <3>6. \A m \in 1 .. d[c].nritems : d[c].keys[m] \in NodeKeys(d, d[b].ptrs[i])
      <4>1. Below(d, c) \subseteq Below(d, e)
        BY <3>1, <3>4, <1>0, BelowTransitive
      <4>2. NodeKeys(d, c) \subseteq NodeKeys(d, e)
        BY <4>1 DEF NodeKeys
      <4> QED
        BY <4>2, <3>2, SubtreeKeys
    <3>7. CASE i = j
      <4>1. n - 1 \in Bad
        BY <3>1, <3>2, <3>3, <3>4, <3>7, <2>2, <2>3, <2>5
      <4> QED
        BY <4>1, <2>1, <2>3
    <3>8. CASE i < j
      <4>1. \A m \in 1 .. d[c].nritems : d[c].keys[m] \in Nat /\ x \in Nat /\ d[c].keys[m] < x
        BY <3>5, <3>6, <3>8, <2>2, <2>5, ChildrenApart
      <4> QED
        BY <4>1, <2>2 DEF Apart
    <3>9. CASE j < i
      <4>1. \A m \in 1 .. d[c].nritems : x < d[c].keys[m]
        BY <3>5, <3>6, <3>9, <2>2, <2>5, ChildrenApart
      <4> QED
        BY <4>1, <2>2 DEF Apart
    <3>10. i \in Nat /\ j \in Nat
      OBVIOUS
    <3> QED
      BY <3>7, <3>8, <3>9, <3>10
  <2> QED
    BY <2>3, <2>4, <2>5
<1> QED
  BY <1>1, <1>2

(* An answer on a well-formed tree names a block of the tree.              *)
FoundInTree ==
  (disk \in IntactDisks /\ pc = "returned" /\ result.kind = "Found")
    => result.block \in Below(disk, Root)

(* Only a finished search answers, with the leaf it stands at.             *)
LEMMA SearchFindsInTree ==
  ASSUME SearchInv, ExactInv, Search
  PROVE  FoundInTree'
<1>1. /\ Descending /\ disk' = disk /\ result = NoResult
  BY DEF Search, Bisect, Bisecting, DescendStep, FinishExact, FinishFirstGe, LeafSearched,
         FinishNextLeaf, Descending, SearchInv
<1>2. disk \in IntactDisks => current \in Below(disk, Root)
  BY <1>1 DEF ExactInv, OnPath
<1>3. \/ result'.kind # "Found"
      \/ result'.block = current
      \/ pc' = pc
  <2>1. ASSUME NEW b, NEW p, NEW dd, ReadBlock(b, p, dd)
        PROVE  result'.kind # "Found"
    BY <2>1, <1>1 DEF ReadBlock, EnterBlock, Return, Err, NoResult
  <2>2. CASE Bisect
    BY <2>2 DEF Bisect
  <2>3. CASE DescendStep
    BY <2>1, <2>3 DEF DescendStep
  <2>4. CASE FinishExact
    BY <2>4 DEF FinishExact, Return, Found, Absent
  <2>5. CASE FinishFirstGe
    BY <2>1, <2>5 DEF FinishFirstGe, Return, Found, Absent, BeginDescent
  <2>6. CASE FinishNextLeaf
    BY <2>6 DEF FinishNextLeaf, Return, Found, Err
  <2> QED
    BY <2>2, <2>3, <2>4, <2>5, <2>6 DEF Search
<1> QED
  BY <1>1, <1>2, <1>3 DEF FoundInTree, Descending

-----------------------------------------------------------------------------
(* The refinement.  The walk of one (objectid, item_type) pair stops at    *)
(* the first other key, and no offset of the pair but the last overflows.  *)
OneRun ==
  /\ StopsAtOther
  /\ \A k \in Keys : FirstTarget <= k /\ k < LastWanted => ~OffsetOverflows(k)

Handed(dv) == {dv[i] : i \in 1 .. Len(dv)}

WantedOf(d) ==
  {k \in LeafKeys(d, Root) : k >= FirstTarget /\ (StopsAtOther => InRange(k))}

(* A wanted key is handed over already, is among the slots of b from x on, *)
(* or is past block b.                                                     *)
Pending(d, b, x, dv) ==
  \A k \in WantedOf(d) :
    \/ k \in Handed(dv)
    \/ \E i \in x .. d[b].nritems : k = d[b].keys[i]
    \/ \A i \in 1 .. d[b].nritems : k > d[b].keys[i]

(* No item of the tree before the last one the caller asks for has the     *)
(* largest offset, after which checked_add(1) ends the walk.               *)
RunsOn(d) ==
  \A k \in LeafKeys(d, Root) : FirstTarget <= k /\ k < LastWanted => ~OffsetOverflows(k)

(* What a walk that says it is complete must have handed over.             *)
Owed(d) == {k \in LeafKeys(d, Root) : k >= FirstTarget /\ InRange(k)}

(* Nothing wanted is skipped: a search has all of it below its target      *)
(* behind it, a scan all of it before its slot, and a complete walk what   *)
(* it owes.  Nothing else is handed over.                                  *)
NoneSkipped ==
  disk \in IntactDisks =>
    /\ Handed(delivered) \subseteq LeafKeys(disk, Root)
    /\ walk = "complete" /\ RunsOn(disk) => Owed(disk) \subseteq Handed(delivered)
    /\ walk = "search" => \A k \in WantedOf(disk) : k < next_target => k \in Handed(delivered)
    /\ walk = "scan" => leaf \in Below(disk, Root) /\ Pending(disk, leaf, idx, delivered)

WalkExact == WalkInd /\ ExactInv /\ FoundInTree /\ NoneSkipped

(* The keys of a well-formed tree are keys.                                *)
LEMMA TreeKeys ==
  ASSUME NEW d \in IntactDisks
  PROVE  LeafKeys(d, Root) \subseteq Keys
<1> SUFFICES ASSUME NEW k \in LeafKeys(d, Root) PROVE k \in Keys
  OBVIOUS
<1>1. PICK c \in Below(d, Root) : d[c].level = 0 /\ k \in KeysOf(d[c])
  BY DEF LeafKeys
<1>2. /\ d[c].nritems = Len(d[c].keys) /\ d[c].keys \in Seq(Keys)
      /\ \A i \in 1 .. d[c].nritems : d[c].keys[i] \in Keys
  BY IntactNode DEF IsNode, Node
<1> QED
  BY <1>1, <1>2 DEF KeysOf

(* The wanted keys are keys of the tree, so numbers.                       *)
LEMMA WantedKeys ==
  ASSUME NEW d \in IntactDisks
  PROVE  WantedOf(d) \subseteq Keys /\ WantedOf(d) \subseteq Nat
BY TreeKeys, KeysAssumption DEF WantedOf

(* The slots of the leaf under the scan on a well-formed tree.             *)
LEMMA ScanLeaf ==
  ASSUME WalkExact, disk \in IntactDisks, walk = "scan"
  PROVE  /\ leaf \in Below(disk, Root) /\ disk[leaf].level = 0
         /\ Scanning(disk, leaf, idx, last_key, next_target, delivered)
         /\ Pending(disk, leaf, idx, delivered)
         /\ disk[leaf].nritems \in Nat
         /\ \A i \in 1 .. disk[leaf].nritems :
              /\ disk[leaf].keys[i] \in Keys /\ disk[leaf].keys[i] \in Nat
              /\ disk[leaf].keys[i] \in LeafKeys(disk, Root)
         /\ \A i, j \in 1 .. disk[leaf].nritems :
              i < j => disk[leaf].keys[i] < disk[leaf].keys[j]
<1>1. /\ leaf \in Below(disk, Root) /\ disk[leaf].level = 0
      /\ Scanning(disk, leaf, idx, last_key, next_target, delivered)
      /\ Pending(disk, leaf, idx, delivered)
  BY DEF WalkExact, WalkInd, WalkInv, NoneSkipped
<1>2. /\ disk[leaf].nritems \in Nat /\ disk[leaf].nritems = Len(disk[leaf].keys)
      /\ \A i \in 1 .. disk[leaf].nritems :
           disk[leaf].keys[i] \in Keys /\ disk[leaf].keys[i] \in Nat
      /\ \A i, j \in 1 .. disk[leaf].nritems :
           i < j => disk[leaf].keys[i] < disk[leaf].keys[j]
      /\ IsNode(disk[leaf])
  BY <1>1, IntactNode
<1>3. disk[leaf].keys \in Seq(Keys)
  BY <1>2, NodeTypes
<1>4. \A i \in 1 .. disk[leaf].nritems : disk[leaf].keys[i] \in KeysOf(disk[leaf])
  BY <1>2, <1>3 DEF KeysOf
<1>5. \A i \in 1 .. disk[leaf].nritems : disk[leaf].keys[i] \in LeafKeys(disk, Root)
  BY <1>1, <1>4 DEF LeafKeys
<1> QED
  BY <1>1, <1>2, <1>5

(* None: find_first_ge says that nothing is at or past the target.         *)
LEMMA AbsentMeansAllHanded ==
  ASSUME WalkExact, disk \in IntactDisks, walk = "search", pc = "returned",
         result.kind = "Absent"
  PROVE  WantedOf(disk) \subseteq Handed(delivered)
<1>1. op = "find_first_ge" /\ target = next_target
  BY DEF WalkExact, WalkInd, WalkInv
<1>2. \A k \in LeafKeys(disk, Root) : k < target
  BY <1>1 DEF WalkExact, ExactInv, SearchIsExact, UnmappedRead
<1> QED
  BY <1>1, <1>2 DEF WalkExact, NoneSkipped, WantedOf

(* Some: the leaf holds the smallest key at or past the target, so what is *)
(* wanted and not in the slots from the answer on is behind or past it.    *)
LEMMA FoundSkipsNone ==
  ASSUME WalkExact, disk \in IntactDisks, walk = "search", pc = "returned",
         result.kind = "Found"
  PROVE  /\ result.block \in Below(disk, Root)
         /\ Pending(disk, result.block, result.idx, delivered)
<1>1. /\ op = "find_first_ge" /\ target = next_target /\ target \in Nat
  <2>1. pc # "idle"
    OBVIOUS
  <2>2. target \in Keys
    BY <2>1 DEF WalkExact, WalkInd, TypeOK
  <2> QED
    BY <2>2, KeysAssumption DEF WalkExact, WalkInd, WalkInv
<1>2. PICK d, b, x : d = disk /\ b = result.block /\ x = result.idx
  OBVIOUS
<1>3. b \in Below(d, Root) /\ d \in IntactDisks
  BY <1>2 DEF WalkExact, FoundInTree
<1>4. d[b].level = 0 /\ x \in 1 .. d[b].nritems
  BY <1>2 DEF WalkExact, WalkInd, SearchInv, AnswerIsSound
<1>5. \A k \in LeafKeys(d, Root) : k >= target => k >= d[b].keys[x]
  BY <1>2 DEF WalkExact, ExactInv, SearchIsExact, UnmappedRead
<1>6. /\ d[b].nritems \in Nat
      /\ \A i \in 1 .. d[b].nritems : d[b].keys[i] \in Nat
      /\ \A i, j \in 1 .. d[b].nritems : i < j => d[b].keys[i] < d[b].keys[j]
  BY <1>3, IntactNode
<1>7. ASSUME NEW k \in WantedOf(d), k < d[b].keys[x]
      PROVE  k \in Handed(delivered)
  <2>1. k \in LeafKeys(d, Root) /\ k \in Nat
    BY <1>3, WantedKeys DEF WantedOf
  <2>2. k < target
    BY <2>1, <1>1, <1>4, <1>5, <1>6, <1>7
  <2> QED
    BY <2>2, <1>1, <1>2 DEF WalkExact, NoneSkipped
<1>8. ASSUME NEW k \in WantedOf(d), k \notin Handed(delivered)
      PROVE  \/ \E i \in x .. d[b].nritems : k = d[b].keys[i]
             \/ \A i \in 1 .. d[b].nritems : k > d[b].keys[i]
  <2>1. ~(k < d[b].keys[x])
    BY <1>7, <1>8
  <2>2. Apart(d, b, k)
    BY <1>3, <1>4, LeavesAreRuns DEF WantedOf
  <2>3. CASE \E i \in 1 .. d[b].nritems : k = d[b].keys[i]
    <3>1. PICK i \in 1 .. d[b].nritems : k = d[b].keys[i]
      BY <2>3
    <3>2. ~(i < x)
      BY <3>1, <2>1, <1>4, <1>6
    <3>3. i \in x .. d[b].nritems
      BY <3>2, <1>4, <1>6
    <3> QED
      BY <3>1, <3>3
  <2> QED
    BY <2>1, <2>2, <2>3, <1>4 DEF Apart
<1> QED
  BY <1>2, <1>3, <1>8 DEF Pending

(* How a step of the walk looks to its caller, on any disk.                *)

(* Nothing is handed over and the walk goes on, or has ended before.       *)
LEMMA StepIsHidden ==
  ASSUME disk' = disk, delivered' = delivered,
         walk' = walk \/ (walk \in {"search", "scan"} /\ walk' \in {"search", "scan"})
  PROVE  [Scan!Next]_(Scan!scanVars)
<1>1. Intact' = Intact /\ Wanted' = Wanted
  BY DEF Intact, Wanted
<1>2. (IF Intact THEN Wanted \ {delivered[i] : i \in 1 .. Len(delivered)} ELSE {})'
        = (IF Intact THEN Wanted \ {delivered[i] : i \in 1 .. Len(delivered)} ELSE {})
  BY <1>1
<1>3. (IF Intact THEN delivered ELSE <<>>)' = (IF Intact THEN delivered ELSE <<>>)
  BY <1>1
<1>4. (IF ~Intact \/ walk \in {"search", "scan"} THEN "running" ELSE walk)'
        = (IF ~Intact \/ walk \in {"search", "scan"} THEN "running" ELSE walk)
  BY <1>1
<1> QED
  BY <1>2, <1>3, <1>4 DEF Scan!scanVars

(* The walk fails.                                                         *)
LEMMA StepIsFail ==
  ASSUME disk' = disk, delivered' = delivered, walk \in {"search", "scan"}, walk' = "failed"
  PROVE  [Scan!Next]_(Scan!scanVars)
<1>1. Intact' = Intact /\ Wanted' = Wanted
  BY DEF Intact, Wanted
<1>2. (IF Intact THEN Wanted \ {delivered[i] : i \in 1 .. Len(delivered)} ELSE {})'
        = (IF Intact THEN Wanted \ {delivered[i] : i \in 1 .. Len(delivered)} ELSE {})
  BY <1>1
<1>3. (IF Intact THEN delivered ELSE <<>>)' = (IF Intact THEN delivered ELSE <<>>)
  BY <1>1
<1>4. CASE Intact
  BY <1>1, <1>2, <1>3, <1>4 DEF Scan!Next, Scan!Fail
<1>5. CASE ~Intact
  BY <1>1, <1>2, <1>3, <1>5 DEF Scan!scanVars
<1> QED
  BY <1>4, <1>5

(* The walk completes with nothing left.                                   *)
LEMMA StepIsComplete ==
  ASSUME disk' = disk, delivered' = delivered, walk \in {"search", "scan"},
         walk' = "complete",
         disk \in IntactDisks => WantedOf(disk) \subseteq Handed(delivered)
  PROVE  [Scan!Next]_(Scan!scanVars)
<1>1. Intact' = Intact /\ Wanted' = Wanted
  BY DEF Intact, Wanted
<1>2. (IF Intact THEN Wanted \ {delivered[i] : i \in 1 .. Len(delivered)} ELSE {})'
        = (IF Intact THEN Wanted \ {delivered[i] : i \in 1 .. Len(delivered)} ELSE {})
  BY <1>1
<1>3. (IF Intact THEN delivered ELSE <<>>)' = (IF Intact THEN delivered ELSE <<>>)
  BY <1>1
<1>4. CASE Intact
  <2>1. Wanted \ {delivered[i] : i \in 1 .. Len(delivered)} = {}
    BY <1>4 DEF Intact, Wanted, WantedOf, Handed
  <2> QED
    BY <1>1, <1>2, <1>3, <1>4, <2>1 DEF Scan!Next, Scan!Complete
<1>5. CASE ~Intact
  BY <1>1, <1>2, <1>3, <1>5 DEF Scan!scanVars
<1> QED
  BY <1>4, <1>5

(* The smallest wanted key that is left is handed over.                    *)
LEMMA StepIsDeliver ==
  ASSUME disk' = disk, walk = "scan", walk' = walk, delivered \in Seq(Keys),
         NEW k \in Keys, delivered' = Append(delivered, k),
         disk \in IntactDisks =>
           /\ k \in WantedOf(disk) \ Handed(delivered)
           /\ \A j \in WantedOf(disk) \ Handed(delivered) : k <= j
  PROVE  [Scan!Next]_(Scan!scanVars)
<1>1. Intact' = Intact /\ Wanted' = Wanted /\ Wanted = WantedOf(disk)
  BY DEF Intact, Wanted, WantedOf
<1>2. CASE Intact
  <2> DEFINE left == Wanted \ {delivered[i] : i \in 1 .. Len(delivered)}
  <2>1. (IF Intact THEN Wanted \ {delivered[i] : i \in 1 .. Len(delivered)} ELSE {})' = left'
    BY <1>1, <1>2
  <2>2. left = WantedOf(disk) \ Handed(delivered)
    BY <1>1 DEF Handed
  <2>3. k \in left /\ \A j \in left : k <= j
    BY <1>2, <2>2 DEF Intact
  <2>4. {delivered'[i] : i \in 1 .. Len(delivered')}
          = {delivered[i] : i \in 1 .. Len(delivered)} \cup {k}
    <3>1. /\ Len(delivered') = Len(delivered) + 1 /\ Len(delivered) \in Nat
          /\ delivered'[Len(delivered) + 1] = k
          /\ \A i \in 1 .. Len(delivered) : delivered'[i] = delivered[i]
      OBVIOUS
    <3>2. \A i \in 1 .. Len(delivered') : i = Len(delivered) + 1 \/ i \in 1 .. Len(delivered)
      BY <3>1
    <3>3. Len(delivered) + 1 \in 1 .. Len(delivered')
          /\ \A i \in 1 .. Len(delivered) : i \in 1 .. Len(delivered')
      BY <3>1
    <3> QED
      BY <3>1, <3>2, <3>3
  <2>5. left' = left \ {k}
    BY <2>4, <1>1
  <2> HIDE DEF left
  <2>6. /\ (IF Intact THEN delivered ELSE <<>>)' = Append(delivered, k)
        /\ (IF Intact THEN delivered ELSE <<>>) = delivered
    BY <1>1, <1>2
  <2>7. /\ (IF ~Intact \/ walk \in {"search", "scan"} THEN "running" ELSE walk)' = "running"
        /\ (IF ~Intact \/ walk \in {"search", "scan"} THEN "running" ELSE walk) = "running"
    BY <1>1, <1>2
  <2>8. (IF Intact THEN Wanted \ {delivered[i] : i \in 1 .. Len(delivered)} ELSE {}) = left
    BY <1>2 DEF left
  <2> QED
    BY <2>1, <2>3, <2>5, <2>6, <2>7, <2>8 DEF Scan!Next, Scan!Deliver
<1>3. CASE ~Intact
  BY <1>1, <1>3 DEF Scan!scanVars
<1> QED
  BY <1>2, <1>3

Refines == WalkExact' /\ [Scan!Next]_(Scan!scanVars)

(* The search is hidden.                                                   *)
LEMMA SearchingRefines ==
  ASSUME WalkExact, Searching
  PROVE  Refines
<1>1. WalkInd' /\ WalkInd
  BY SearchingKeeps DEF WalkExact
<1>2. /\ walk = "search" /\ walk' = walk /\ next_target' = next_target
      /\ delivered' = delivered
  BY DEF Searching, walkVars
<1>3. TypeOK /\ SearchInv /\ ExactInv
  BY DEF WalkExact, WalkInd, WalkInv
<1>4. disk' = disk /\ ExactInv' /\ FoundInTree'
  <2>1. CASE Call("find_first_ge", next_target)
    <3>1. ExactInv'
      BY <2>1, <1>3, CallKeepsExact
    <3>2. result = NoResult /\ disk' = disk
      BY <2>1, <1>3 DEF Call, SearchInv
    <3>3. result'.kind # "Found"
      BY <2>1, <3>2 DEF Call, BeginDescent, ReadBlock, EnterBlock, Return, Err, NoResult
    <3> QED
      BY <3>1, <3>2, <3>3 DEF FoundInTree
  <2>2. CASE Search
    <3>1. ExactInv'
      BY <2>2, <1>3, SearchKeepsExact
    <3>2. FoundInTree'
      BY <2>2, <1>3, SearchFindsInTree
    <3>3. disk' = disk
      BY <2>2 DEF Search, Bisect, DescendStep, FinishExact, FinishFirstGe, FinishNextLeaf
    <3> QED
      BY <3>1, <3>2, <3>3
  <2> QED
    BY <2>1, <2>2 DEF Searching
<1>5. NoneSkipped'
  BY <1>2, <1>4 DEF WalkExact, NoneSkipped
<1>6. [Scan!Next]_(Scan!scanVars)
  BY <1>2, <1>4, StepIsHidden
<1> QED
  BY <1>1, <1>4, <1>5, <1>6 DEF Refines, WalkExact

(* The answer starts a scan, ends the walk or fails it.                    *)
LEMMA GotLocationRefines ==
  ASSUME WalkExact, GotLocation
  PROVE  Refines
<1>1. WalkInd'
  BY GotLocationKeeps DEF WalkExact
<1>2. /\ TakeResult /\ walk = "search" /\ pc = "returned" /\ pc' = "idle" /\ disk' = disk
      /\ delivered' = delivered
  BY DEF GotLocation, TakeResult
<1>3. ExactInv' /\ FoundInTree'
  BY <1>2, TakeResultKeepsExact DEF FoundInTree
<1>4. CASE result.kind = "Err"
  <2>1. walk' = "failed"
    BY <1>4 DEF GotLocation
  <2>2. NoneSkipped'
    BY <2>1, <1>2 DEF WalkExact, NoneSkipped
  <2>3. [Scan!Next]_(Scan!scanVars)
    BY <2>1, <1>2, StepIsFail
  <2> QED
    BY <2>2, <2>3, <1>1, <1>3 DEF Refines, WalkExact
<1>5. CASE result.kind = "Absent"
  <2>1. walk' = "complete"
    BY <1>5 DEF GotLocation
  <2>2. NoneSkipped'
    BY <2>1, <1>2, <1>5, AbsentMeansAllHanded DEF WalkExact, NoneSkipped, Owed, WantedOf
  <2>3. [Scan!Next]_(Scan!scanVars)
    BY <2>1, <1>2, <1>5, AbsentMeansAllHanded, StepIsComplete
  <2> QED
    BY <2>2, <2>3, <1>1, <1>3 DEF Refines, WalkExact
<1>6. CASE result.kind = "Found"
  <2>1. walk' = "scan" /\ leaf' = result.block /\ idx' = result.idx
    BY <1>6 DEF GotLocation
  <2>2. NoneSkipped'
    BY <2>1, <1>2, <1>6, FoundSkipsNone DEF WalkExact, NoneSkipped
  <2>3. [Scan!Next]_(Scan!scanVars)
    BY <2>1, <1>2, StepIsHidden
  <2> QED
    BY <2>2, <2>3, <1>1, <1>3 DEF Refines, WalkExact
<1> QED
  BY <1>4, <1>5, <1>6 DEF GotLocation

(* The rest of the walk leaves the search alone.                           *)
LEMMA IdleSearch ==
  ASSUME WalkExact, UNCHANGED btreeVars
  PROVE  ExactInv' /\ FoundInTree' /\ disk' = disk
<1>1. ExactInv'
  BY ExactStutters DEF WalkExact
<1> QED
  BY <1>1 DEF WalkExact, FoundInTree, btreeVars

(* The slot handed over is the smallest wanted key that is left.           *)
LEMMA TakeItemRefines ==
  ASSUME WalkExact, TakeItem, MapGrows
  PROVE  Refines
<1>1. WalkInd'
  BY TakeItemKeeps DEF WalkExact
<1>2. /\ walk = "scan" /\ idx <= disk[leaf].nritems
      /\ StopsAtOther => InRange(disk[leaf].keys[idx])
      /\ delivered' = Append(delivered, disk[leaf].keys[idx])
      /\ idx' = idx + 1 /\ walk' = walk /\ leaf' = leaf
      /\ disk' = disk /\ pc' = pc /\ pc = "idle"
  BY DEF TakeItem, MoreItems, ScanKey, WalkExact, WalkInd, WalkInv
<1>3. ExactInv' /\ FoundInTree' /\ disk' = disk
  BY <1>2, ExactIdles DEF FoundInTree
<1>4. PICK d, b, x, dv : d = disk /\ b = leaf /\ x = idx /\ dv = delivered
  OBVIOUS
<1> DEFINE k == d[b].keys[x]
<1>5. /\ dv \in Seq(Keys) /\ b \in Blocks /\ ReadVerdict(disk, b) = "ok" /\ d \in Disks
      /\ Scanning(d, b, x, last_key, next_target, dv)
      /\ next_target >= FirstTarget /\ next_target \in Keys
  BY <1>2, <1>4 DEF WalkExact, WalkInd, WalkInv, SearchInv
<1>6. /\ d[b].nritems \in Nat /\ x \in 1 .. d[b].nritems
      /\ \A i \in 1 .. d[b].nritems : d[b].keys[i] \in Keys /\ d[b].keys[i] \in Nat
      /\ \A i, j \in 1 .. d[b].nritems : i < j => d[b].keys[i] < d[b].keys[j]
  <2>1. /\ d[b].nritems \in Nat
        /\ \A i \in 1 .. d[b].nritems : d[b].keys[i] \in Keys /\ d[b].keys[i] \in Nat
        /\ \A i, j \in 1 .. d[b].nritems : i < j => d[b].keys[i] < d[b].keys[j]
    BY <1>4, <1>5, AcceptedBlock
  <2> QED
    BY <2>1, <1>2, <1>4, <1>5 DEF Scanning
<1>7. /\ k \in Keys /\ k \in Nat /\ k >= FirstTarget
      /\ \A i \in 1 .. Len(dv) : dv[i] < k
  <2>1. k >= next_target /\ \A i \in 1 .. Len(dv) : dv[i] < k
    BY <1>5, <1>6 DEF Scanning, DeliveredBelow
  <2>2. k \in Keys /\ k \in Nat
    BY <1>6
  <2>3. next_target \in Nat /\ FirstTarget \in Nat
    BY <1>5, KeysAssumption, WalkAssumption
  <2> HIDE DEF k
  <2> QED
    BY <2>1, <2>2, <2>3, <1>5
<1>8. ASSUME d \in IntactDisks
      PROVE  /\ k \in WantedOf(d) \ Handed(dv)
             /\ \A j \in WantedOf(d) \ Handed(dv) : k <= j
             /\ b \in Below(d, Root)
             /\ Pending(d, b, x + 1, Append(dv, k))
             /\ Handed(Append(dv, k)) \subseteq LeafKeys(d, Root)
  <2>1. /\ b \in Below(d, Root) /\ Pending(d, b, x, dv)
        /\ \A i \in 1 .. d[b].nritems : d[b].keys[i] \in LeafKeys(d, Root)
    BY <1>2, <1>4, <1>8, ScanLeaf
  <2>2. k \notin Handed(dv)
    <3> SUFFICES ASSUME NEW i \in 1 .. Len(dv), k = dv[i] PROVE FALSE
      BY DEF Handed
    <3> QED
      BY <1>7
  <2>3. k \in WantedOf(d)
    BY <2>1, <1>2, <1>4, <1>6, <1>7 DEF WantedOf
  <2>4. ASSUME NEW j \in WantedOf(d) \ Handed(dv)
        PROVE  /\ k <= j
               /\ \/ j = k \/ \E i \in (x + 1) .. d[b].nritems : j = d[b].keys[i]
                  \/ \A i \in 1 .. d[b].nritems : j > d[b].keys[i]
    <3>1. j \in Nat
      BY <1>8, WantedKeys
    <3>2. CASE \E i \in x .. d[b].nritems : j = d[b].keys[i]
      <4>1. PICK i \in x .. d[b].nritems : j = d[b].keys[i]
        BY <3>2
      <4>2. CASE i = x
        BY <4>1, <4>2, <1>7
      <4>3. CASE i # x
        <5>1. i \in 1 .. d[b].nritems /\ x < i /\ i \in (x + 1) .. d[b].nritems
          BY <4>3, <1>6
        <5>2. k < j
          BY <5>1, <4>1, <1>6
        <5> QED
          BY <5>1, <5>2, <4>1, <3>1, <1>7
      <4> QED
        BY <4>2, <4>3
    <3>3. CASE \A i \in 1 .. d[b].nritems : j > d[b].keys[i]
      BY <3>1, <3>3, <1>6, <1>7
    <3> QED
      BY <3>2, <3>3, <2>1 DEF Pending
  <2>5. Handed(Append(dv, k)) = Handed(dv) \cup {k}
    <3>1. PICK w : w = Append(dv, k)
      OBVIOUS
    <3>2. /\ Len(w) = Len(dv) + 1 /\ Len(dv) \in Nat
          /\ w[Len(dv) + 1] = k
          /\ \A i \in 1 .. Len(dv) : w[i] = dv[i]
      BY <3>1, <1>5, <1>7
    <3>3. \A i \in 1 .. Len(w) : i = Len(dv) + 1 \/ i \in 1 .. Len(dv)
      BY <3>2
    <3>4. /\ Len(dv) + 1 \in 1 .. Len(w)
          /\ \A i \in 1 .. Len(dv) : i \in 1 .. Len(w)
      BY <3>2
    <3> HIDE DEF k
    <3>5. Handed(w) = Handed(dv) \cup {k}
      BY <3>2, <3>3, <3>4 DEF Handed
    <3> QED
      BY <3>1, <3>5
  <2> HIDE DEF k
  <2>6. Pending(d, b, x + 1, Append(dv, k))
    BY <2>4, <2>5 DEF Pending
  <2>7. Handed(Append(dv, k)) \subseteq LeafKeys(d, Root)
    BY <2>3, <2>5, <1>4, <1>8 DEF WalkExact, NoneSkipped, WantedOf
  <2> QED
    BY <2>1, <2>2, <2>3, <2>4, <2>6, <2>7
<1>9. NoneSkipped'
  BY <1>2, <1>3, <1>4, <1>8 DEF NoneSkipped
<1>10. [Scan!Next]_(Scan!scanVars)
  BY <1>2, <1>3, <1>4, <1>5, <1>7, <1>8, StepIsDeliver
<1> QED
  BY <1>1, <1>3, <1>9, <1>10 DEF Refines, WalkExact

(* The scan came to another key, or to the end of the leaf.                *)
LEMMA EndOfLeafExact ==
  ASSUME WalkExact, EndOfLeaf
  PROVE  WalkExact'
<1>1. WalkInd'
  BY EndOfLeafKeeps DEF WalkExact
<1>2. /\ walk = "scan" /\ idx > disk[leaf].nritems /\ delivered' = delivered
      /\ UNCHANGED btreeVars
  BY DEF EndOfLeaf
<1>3. ExactInv' /\ FoundInTree' /\ disk' = disk
  BY <1>2, IdleSearch
<1>4. ASSUME disk \in IntactDisks
      PROVE  /\ last_key # NoKey /\ last_key \in Nat /\ last_key \in LeafKeys(disk, Root)
             /\ last_key >= FirstTarget
             /\ \A k \in WantedOf(disk) : k \in Handed(delivered) \/ k > last_key
  <2>1. /\ Scanning(disk, leaf, idx, last_key, next_target, delivered)
        /\ Pending(disk, leaf, idx, delivered) /\ disk[leaf].nritems \in Nat
        /\ \A i \in 1 .. disk[leaf].nritems : disk[leaf].keys[i] \in LeafKeys(disk, Root)
    BY <1>2, <1>4, ScanLeaf
  <2>2. /\ last_key # NoKey /\ idx = disk[leaf].nritems + 1 /\ idx - 1 \in 1 .. disk[leaf].nritems
        /\ last_key = disk[leaf].keys[idx - 1]
        /\ last_key \in Keys /\ last_key >= next_target
    BY <1>2, <2>1 DEF Scanning
  <2>3. last_key \in Nat /\ next_target \in Nat /\ FirstTarget \in Nat /\ next_target >= FirstTarget
    BY <2>2, KeysAssumption, WalkAssumption DEF WalkExact, WalkInd, WalkInv
  <2>4. ~\E i \in idx .. disk[leaf].nritems : TRUE
    BY <2>1, <2>2
  <2>5. ASSUME NEW k \in WantedOf(disk), k \notin Handed(delivered)
        PROVE  k > last_key
    BY <2>1, <2>2, <2>4, <2>5 DEF Pending
  <2>6. last_key \in LeafKeys(disk, Root)
    BY <2>1, <2>2
  <2> QED
    BY <2>2, <2>3, <2>5, <2>6
<1>5. CASE last_key = NoKey \/ OffsetOverflows(last_key)
  <2>1. walk' = "complete"
    BY <1>5 DEF EndOfLeaf
  <2>2. ASSUME disk \in IntactDisks, RunsOn(disk)
        PROVE  Owed(disk) \subseteq Handed(delivered)
    <3> SUFFICES ASSUME NEW k \in Owed(disk), k \notin Handed(delivered) PROVE FALSE
      OBVIOUS
    <3>1. k \in WantedOf(disk) /\ k <= LastWanted
      BY DEF Owed, WantedOf, InRange
    <3>2. /\ k > last_key /\ last_key \in Nat /\ last_key \in LeafKeys(disk, Root)
          /\ last_key >= FirstTarget /\ OffsetOverflows(last_key)
      BY <3>1, <1>4, <1>5, <2>2
    <3>3. k \in Nat /\ LastWanted \in Nat /\ FirstTarget \in Nat
      BY <2>2, <3>1, WantedKeys, WalkAssumption, KeysAssumption
    <3>4. FirstTarget <= last_key /\ last_key < LastWanted
      BY <3>1, <3>2, <3>3
    <3> QED
      BY <3>2, <3>4, <2>2 DEF RunsOn
  <2>3. NoneSkipped'
    BY <2>1, <2>2, <1>2, <1>3 DEF WalkExact, NoneSkipped
  <2> QED
    BY <2>3, <1>1, <1>3 DEF WalkExact
<1>6. CASE ~(last_key = NoKey \/ OffsetOverflows(last_key))
  <2>1. walk' = "search" /\ next_target' = last_key + 1
    BY <1>6 DEF EndOfLeaf
  <2>2. ASSUME disk \in IntactDisks, NEW k \in WantedOf(disk), k < last_key + 1
        PROVE  k \in Handed(delivered)
    <3>1. k \in Nat
      BY <2>2, WantedKeys
    <3> QED
      BY <3>1, <2>2, <1>4
  <2>3. NoneSkipped'
    BY <2>1, <2>2, <1>2, <1>3 DEF WalkExact, NoneSkipped
  <2> QED
    BY <2>3, <1>1, <1>3 DEF WalkExact
<1> QED
  BY <1>5, <1>6

(* The end of a leaf is hidden, or the walk is complete with nothing left. *)
LEMMA EndOfLeafRefines ==
  ASSUME OneRun, WalkExact, EndOfLeaf
  PROVE  Refines
<1>1. WalkExact'
  BY EndOfLeafExact
<1>2. /\ walk = "scan" /\ delivered' = delivered /\ disk' = disk
      /\ walk' \in {"search", "complete"}
  BY DEF EndOfLeaf, btreeVars
<1>3. ASSUME disk \in IntactDisks, walk' = "complete"
      PROVE  WantedOf(disk) \subseteq Handed(delivered)
  <2>1. LeafKeys(disk, Root) \subseteq Keys
    BY <1>3, TreeKeys
  <2>2. RunsOn(disk)
    BY <2>1 DEF OneRun, RunsOn
  <2>3. Owed(disk) \subseteq Handed(delivered)
    BY <1>1, <1>2, <1>3, <2>2 DEF WalkExact, NoneSkipped
  <2>4. WantedOf(disk) \subseteq Owed(disk)
    BY DEF WantedOf, Owed, OneRun
  <2> QED
    BY <2>3, <2>4
<1>4. [Scan!Next]_(Scan!scanVars)
  BY <1>2, <1>3, StepIsHidden, StepIsComplete
<1> QED
  BY <1>1, <1>4 DEF Refines

(* The first other key of the leaf: what is wanted lies before it.         *)
LEMMA PastLastWantedRefines ==
  ASSUME WalkExact, PastLastWanted
  PROVE  Refines
<1>1. WalkInd'
  BY WalkEndKeeps DEF WalkExact
<1>2. /\ walk = "scan" /\ idx <= disk[leaf].nritems /\ delivered' = delivered
      /\ UNCHANGED btreeVars /\ walk' = "complete"
      /\ StopsAtOther /\ ~InRange(disk[leaf].keys[idx])
  BY DEF PastLastWanted, MoreItems, ScanKey
<1>3. ExactInv' /\ FoundInTree' /\ disk' = disk
  BY <1>2, IdleSearch
<1>5. ASSUME disk \in IntactDisks
      PROVE  WantedOf(disk) \subseteq Handed(delivered)
  <2> SUFFICES ASSUME NEW k \in WantedOf(disk), k \notin Handed(delivered) PROVE FALSE
    OBVIOUS
  <2>1. /\ Scanning(disk, leaf, idx, last_key, next_target, delivered)
        /\ Pending(disk, leaf, idx, delivered) /\ disk[leaf].nritems \in Nat
        /\ \A i \in 1 .. disk[leaf].nritems : disk[leaf].keys[i] \in Nat
        /\ \A i, j \in 1 .. disk[leaf].nritems :
              i < j => disk[leaf].keys[i] < disk[leaf].keys[j]
    BY <1>2, <1>5, ScanLeaf
  <2>2. idx \in 1 .. disk[leaf].nritems
    BY <2>1, <1>2 DEF Scanning
  <2>3. k <= LastWanted /\ k \in Nat /\ LastWanted \in Nat
    BY <1>2, <1>5, WantedKeys, WalkAssumption, KeysAssumption DEF WantedOf, InRange
  <2>4. disk[leaf].keys[idx] > LastWanted /\ disk[leaf].keys[idx] \in Nat
    BY <1>2, <2>1, <2>2, <2>3 DEF InRange
  <2>5. ASSUME NEW i \in idx .. disk[leaf].nritems PROVE k # disk[leaf].keys[i]
    <3>1. i \in 1 .. disk[leaf].nritems /\ (i = idx \/ idx < i)
      BY <2>1, <2>2
    <3> QED
      BY <3>1, <2>1, <2>2, <2>3, <2>4
  <2> QED
    BY <2>1, <2>2, <2>3, <2>4, <2>5 DEF Pending
<1>4. NoneSkipped'
  BY <1>2, <1>3, <1>5 DEF WalkExact, NoneSkipped, Owed, WantedOf
<1>6. [Scan!Next]_(Scan!scanVars)
  BY <1>2, <1>3, <1>5, StepIsComplete
<1> QED
  BY <1>1, <1>3, <1>4, <1>6 DEF Refines, WalkExact

(* An item that is refused fails the walk.                                 *)
LEMMA RefuseItemRefines ==
  ASSUME WalkExact, RefuseItem
  PROVE  Refines
<1>1. WalkInd'
  BY WalkEndKeeps DEF WalkExact
<1>2. walk = "scan" /\ delivered' = delivered /\ UNCHANGED btreeVars /\ walk' = "failed"
  BY DEF RefuseItem, MoreItems
<1>3. ExactInv' /\ FoundInTree' /\ disk' = disk
  BY <1>2, IdleSearch
<1>4. NoneSkipped'
  BY <1>2, <1>3 DEF WalkExact, NoneSkipped
<1>5. [Scan!Next]_(Scan!scanVars)
  BY <1>2, <1>3, StepIsFail
<1> QED
  BY <1>1, <1>3, <1>4, <1>5 DEF Refines, WalkExact

(* A walk that has ended, or a step of something else.                     *)
LEMMA WalkStutterRefines ==
  ASSUME WalkExact, UNCHANGED vars
  PROVE  Refines
<1>1. WalkInd'
  BY WalkStutters DEF WalkExact
<1>2. UNCHANGED btreeVars /\ UNCHANGED walkVars
  BY DEF vars
<1>3. ExactInv' /\ FoundInTree' /\ disk' = disk
  BY <1>2, IdleSearch
<1>4. NoneSkipped'
  BY <1>2, <1>3 DEF WalkExact, NoneSkipped, walkVars
<1>5. [Scan!Next]_(Scan!scanVars)
  BY <1>2, <1>3, StepIsHidden DEF walkVars
<1> QED
  BY <1>1, <1>3, <1>4, <1>5 DEF Refines, WalkExact

(* The initial states of the walk are initial states of the scan.          *)
LEMMA InitRefines ==
  ASSUME WalkInit, mapped \subseteq Blocks
  PROVE  WalkExact /\ Scan!Init
<1>1. WalkInd /\ ExactInv
  BY InitWalkInd, InitExactInv DEF WalkInit
<1>2. /\ pc = "idle" /\ walk = "search" /\ next_target = FirstTarget /\ delivered = <<>>
  BY DEF WalkInit, BTreeInit
<1>3. FoundInTree
  BY <1>2 DEF FoundInTree
<1>4. NoneSkipped
  <2> SUFFICES ASSUME disk \in IntactDisks, NEW k \in WantedOf(disk), k < FirstTarget
               PROVE  FALSE
    <3>1. Handed(delivered) = {}
      BY <1>2 DEF Handed
    <3> QED
      BY <1>2, <3>1 DEF NoneSkipped
  <2>1. k \in Nat /\ k >= FirstTarget /\ FirstTarget \in Nat
    BY WantedKeys, WalkAssumption, KeysAssumption DEF WantedOf
  <2> QED
    BY <2>1
<1>5. Scan!Init
  <2>1. ASSUME Intact PROVE Wanted \ {delivered[i] : i \in 1 .. Len(delivered)} \in SUBSET Keys
    <3>1. Wanted \subseteq Keys
      BY <2>1, WantedKeys DEF Intact, Wanted, WantedOf
    <3> QED
      BY <3>1
  <2> QED
    BY <2>1, <1>2 DEF Scan!Init
<1> QED
  BY <1>1, <1>3, <1>4, <1>5 DEF WalkExact

(* Refinement: on every well-formed tree, however its items are split into *)
(* leaves, the loop around find_first_ge that reads a directory hands over *)
(* the items of its (objectid, item_type) in order, none skipped and none  *)
(* twice, and says it is complete only when nothing is left.               *)
THEOREM WalkIsAnOrderedScan ==
  ASSUME OneRun
  PROVE  WalkSpec => ScanSpec
<1>1. WalkStart => WalkExact /\ Scan!Init
  BY InitRefines DEF WalkStart
<1>2. WalkExact /\ [WalkNext]_vars => WalkExact' /\ [Scan!Next]_(Scan!scanVars)
  <2> SUFFICES ASSUME WalkExact, [WalkNext]_vars PROVE Refines
    BY DEF Refines
  <2>1. UNCHANGED mapped => MapGrows
    BY DEF WalkExact, WalkInd, TypeOK, MapGrows
  <2> QED
    BY <2>1, SearchingRefines, GotLocationRefines, TakeItemRefines, EndOfLeafRefines,
       PastLastWantedRefines, RefuseItemRefines, WalkStutterRefines
       DEF WalkNext, WalkStep, WalkDone
<1> QED
  BY <1>1, <1>2, PTL DEF WalkSpec, ScanSpec, Scan!Spec

(* The walks that do not stop at another key (the chunk tree's, and those  *)
(* of read_file and read_file_at, whose callers pass over what they do not *)
(* want) lose nothing either: on every well-formed tree whose items before *)
(* LastWanted leave checked_add(1) room, a walk that says it is complete   *)
(* has handed over every item from FirstTarget to LastWanted.              *)
THEOREM CompleteWalkOwesNothing ==
  WalkSpec => [](Intact /\ walk = "complete" /\ RunsOn(disk)
                   => Owed(disk) \subseteq Handed(delivered))
<1>1. WalkStart => WalkExact
  BY InitRefines DEF WalkStart
<1>2. WalkExact /\ [WalkNext]_vars => WalkExact'
  <2> SUFFICES ASSUME WalkExact, [WalkNext]_vars PROVE WalkExact'
    OBVIOUS
  <2>1. UNCHANGED mapped => MapGrows
    BY DEF WalkExact, WalkInd, TypeOK, MapGrows
  <2>2. Refines => WalkExact'
    BY DEF Refines
  <2> QED
    BY <2>1, <2>2, SearchingRefines, GotLocationRefines, TakeItemRefines, EndOfLeafExact,
       PastLastWantedRefines, RefuseItemRefines, WalkStutterRefines
       DEF WalkNext, WalkStep, WalkDone
<1>3. WalkExact => (Intact /\ walk = "complete" /\ RunsOn(disk)
                      => Owed(disk) \subseteq Handed(delivered))
  BY DEF WalkExact, NoneSkipped, Intact
<1> QED
  BY <1>1, <1>2, <1>3, PTL DEF WalkSpec

-----------------------------------------------------------------------------
(* What a caller that fills the chunk map as it walks needs of a walk.     *)

(* The map may change in any way before the walk's first search.           *)
LEMMA WalkIdles ==
  ASSUME WalkExact, walk = "search", pc = "idle", mapped' \subseteq Blocks,
         UNCHANGED <<disk, pc, op, target, key, current, depth, next_key, lo, hi, result>>,
         UNCHANGED walkVars
  PROVE  WalkExact'
<1>1. TypeOK' /\ SearchInv'
  BY SearchIdles DEF WalkExact, WalkInd
<1>2. ExactInv' /\ FoundInTree'
  BY ExactIdles DEF FoundInTree
<1>3. WalkInv'
  BY DEF WalkExact, WalkInd, WalkInv, KeysAscend, walkVars
<1>4. NoneSkipped'
  BY DEF WalkExact, NoneSkipped, walkVars
<1> QED
  BY <1>1, <1>2, <1>3, <1>4 DEF WalkExact, WalkInd

(* Every step a walk takes keeps its invariant, also when handing an item  *)
(* over makes more blocks readable.                                        *)
LEMMA WalkStaysExact ==
  ASSUME WalkExact,
         \/ Searching \/ GotLocation \/ EndOfLeaf \/ RefuseItem
         \/ TakeItem /\ MapGrows
         \/ UNCHANGED vars
  PROVE  WalkExact'
<1>1. Refines => WalkExact'
  BY DEF Refines
<1> QED
  BY <1>1, SearchingRefines, GotLocationRefines, EndOfLeafExact, RefuseItemRefines,
     TakeItemRefines, WalkStutterRefines

(* The item under the scan is an item of the tree.                         *)
LEMMA ScanKeyInTree ==
  ASSUME WalkExact, disk \in IntactDisks, MoreItems
  PROVE  ScanKey \in LeafKeys(disk, Root)
<1>1. /\ disk[leaf].nritems \in Nat
      /\ Scanning(disk, leaf, idx, last_key, next_target, delivered)
      /\ \A i \in 1 .. disk[leaf].nritems : disk[leaf].keys[i] \in LeafKeys(disk, Root)
  BY ScanLeaf DEF MoreItems
<1>2. idx \in 1 .. disk[leaf].nritems
  BY <1>1 DEF MoreItems, Scanning
<1> QED
  BY <1>1, <1>2 DEF ScanKey

(* A search of a well-formed tree whose blocks are all readable fails only *)
(* when a read does.                                                       *)
LEMMA ReadableTreeFailure ==
  ASSUME WalkExact, disk \in IntactDisks, pc = "returned", result.kind = "Err",
         Below(disk, Root) \subseteq mapped
  PROVE  result.token = "tree_block_read"
BY DEF WalkExact, ExactInv, SearchIsExact, UnmappedRead

(* A complete walk of a well-formed tree has handed over the keys of the   *)
(* tree between its bounds and no others between them.                     *)
LEMMA CompleteWalkIsExact ==
  ASSUME WalkExact, disk \in IntactDisks, walk = "complete", RunsOn(disk),
         NEW k \in FirstTarget .. LastWanted
  PROVE  k \in LeafKeys(disk, Root) <=> k \in Handed(delivered)
<1>1. Owed(disk) \subseteq Handed(delivered) /\ Handed(delivered) \subseteq LeafKeys(disk, Root)
  BY DEF WalkExact, NoneSkipped
<1>2. FirstTarget \in Nat /\ LastWanted \in Nat
  BY WalkAssumption, KeysAssumption
<1>3. k >= FirstTarget /\ InRange(k)
  BY <1>2 DEF InRange
<1> QED
  BY <1>1, <1>3 DEF Owed

(* Handing over one more key.                                              *)
LEMMA HandedAppend ==
  ASSUME NEW dv \in Seq(Keys), NEW k \in Keys
  PROVE  Handed(Append(dv, k)) = Handed(dv) \cup {k}
<1> DEFINE w == Append(dv, k)
<1>1. Len(dv) \in Nat /\ Len(w) = Len(dv) + 1
  BY LenProperties, AppendProperties
<1>2. /\ w[Len(dv) + 1] = k
      /\ \A i \in 1 .. Len(dv) : w[i] = dv[i]
  BY AppendProperties
<1> HIDE DEF w
<1>3. \A i \in 1 .. Len(w) : i = Len(dv) + 1 \/ i \in 1 .. Len(dv)
  BY <1>1
<1>4. /\ Len(dv) + 1 \in 1 .. Len(w)
      /\ \A i \in 1 .. Len(dv) : i \in 1 .. Len(w)
  BY <1>1
<1>5. Handed(w) = Handed(dv) \cup {k}
  BY <1>1, <1>2, <1>3, <1>4 DEF Handed
<1> QED
  BY <1>5 DEF w
=============================================================================
