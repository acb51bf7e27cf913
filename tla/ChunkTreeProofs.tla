-------------------------- MODULE ChunkTreeProofs ---------------------------
(***************************************************************************)
(* Proofs about ChunkTree, the mount's bootstrap: the table it fills while *)
(* it reads through it.  A block that can be read stays readable; a mount  *)
(* of a well-formed tree that succeeds has every chunk of the tree; and a  *)
(* sound filesystem mounts unless a read fails.                            *)
(*                                                                         *)
(* The proofs compose those of the two components: MP is ChunkMapProofs    *)
(* on the mount's table, WP is TreeWalkProofs on its walk.                 *)
(***************************************************************************)
EXTENDS ChunkTree, SequenceTheorems, FiniteSetTheorems, TLAPS

MP == INSTANCE ChunkMapProofs

WP == INSTANCE TreeWalkProofs WITH
  mapped <- Readable(mappings, local_devid),
  OffsetSpan <- MaxU64 + 1,
  StopsAtOther <- FALSE

-----------------------------------------------------------------------------
(* What the components' lemmas assume of their constants holds here.       *)
WalkAssumptions ==
  /\ Keys \subseteq Nat /\ NoKey \notin Keys
  /\ Root \in Blocks
  /\ Disks \subseteq {d \in [Blocks -> WP!Node] :
                     \A b \in Blocks :
                       /\ d[b].level > 0 => Len(d[b].ptrs) = Len(d[b].keys)
                       /\ d[b].nritems > 0 => Len(d[b].keys) > 0}
  /\ MaxTreeDepth \in Nat /\ U8Max \in Nat /\ MaxTreeDepth < U8Max
  /\ MaxU64 + 1 \in Nat \ {0}
  /\ FirstTarget \in Keys /\ LastWanted \in Keys /\ FirstTarget <= LastWanted
  /\ FALSE \in BOOLEAN
  /\ \A k \in Keys : (k + 1) % (MaxU64 + 1) # 0 => k + 1 \in Keys

\* What the walk's lemmas assume of keys, disks and the depth limit.
LEMMA WalkAssumptionsHold == WalkAssumptions
BY MapAssumption, TreeAssumption DEF WalkAssumptions, W!Node, WP!Node, W!Damage, WP!Damage

MapAssumptions ==
  MaxU64 \in Nat /\ NoDevid \notin Devids /\ Chunks \subseteq MP!ChunkMapping

\* What the chunk map's lemmas assume of chunks and addresses.
LEMMA MapAssumptionsHold == MapAssumptions
BY MapAssumption DEF MapAssumptions, M!ChunkMapping, MP!ChunkMapping, M!U64, MP!U64,
   M!Stripe, MP!Stripe, M!ReadableProfiles, MP!ReadableProfiles, M!RefusedProfiles,
   MP!RefusedProfiles

(* The two instances of each component define the same operators.          *)
LEMMA SameResolution ==
  ASSUME NEW s, NEW d, NEW l, NEW r
  PROVE  M!IsResolution(s, d, l, r) <=> MP!IsResolution(s, d, l, r)
BY DEF M!IsResolution, MP!IsResolution, M!PartitionLessEq, MP!PartitionLessEq,
   M!Unresolved, MP!Unresolved, M!End, MP!End, M!PickVerdict, MP!PickVerdict,
   M!IsPicked, MP!IsPicked, M!Resolved, MP!Resolved, M!ResolvedAt, MP!ResolvedAt,
   M!RefusedProfiles, MP!RefusedProfiles

\* An answer of resolve reads the same in both instances.
LEMMA SameResolvedAt ==
  ASSUME NEW l, NEW d, NEW x, NEW n
  PROVE  /\ M!ResolvedAt(l, d, x, n) = MP!ResolvedAt(l, d, x, n)
         /\ MP!ResolvedAt(l, d, x, n).verdict = "ok"
BY DEF M!ResolvedAt, MP!ResolvedAt

(* insert, as one of the proofs' instance.                                 *)
LEMMA SameInsert ==
  ASSUME NEW m, M!DoInsert(m)
  PROVE  \E pos \in 1 .. (Len(mappings) + 1) :
           /\ MP!PartitionLess(mappings, m.logical, pos)
           /\ mappings' = IF MP!InsertVerdict(mappings, m, pos) = "ok"
                          THEN MP!InsertAt(mappings, pos, m) ELSE mappings
           /\ alive' = (MP!InsertVerdict(mappings, m, pos) = "ok")
           /\ answer' = [op |-> "insert", logical |-> m.logical,
                         verdict |-> MP!InsertVerdict(mappings, m, pos)]
BY DEF M!DoInsert, M!PartitionLess, MP!PartitionLess, M!InsertVerdict, MP!InsertVerdict,
   M!InsertAt, MP!InsertAt, M!End, MP!End

\* So does each step of the walk the mount makes.
LEMMA SameWalkSteps ==
  /\ W!Searching <=> WP!Searching
  /\ W!GotLocation <=> WP!GotLocation
  /\ W!EndOfLeaf <=> WP!EndOfLeaf
  /\ W!RefuseItem <=> WP!RefuseItem
  /\ W!TakeItem <=> WP!TakeItem
  /\ W!MoreItems <=> WP!MoreItems
  /\ W!ScanKey = WP!ScanKey
<1>1. W!Searching <=> WP!Searching
  BY DEF W!Searching, WP!Searching, W!Call, WP!Call, W!Search, WP!Search, W!Bisect, WP!Bisect,
     W!Bisecting, WP!Bisecting, W!Descending, WP!Descending, W!Interior, WP!Interior,
     W!GoesRight, WP!GoesRight, W!DescendStep, WP!DescendStep, W!ChildSlot, WP!ChildSlot,
     W!FinishExact, WP!FinishExact, W!LeafSearched, WP!LeafSearched, W!SlotFound, WP!SlotFound,
     W!FinishFirstGe, WP!FinishFirstGe, W!FinishNextLeaf, WP!FinishNextLeaf,
     W!BeginDescent, WP!BeginDescent, W!ReadBlock, WP!ReadBlock, W!EnterBlock, WP!EnterBlock,
     W!Return, WP!Return, W!Err, WP!Err, W!Found, WP!Found, W!Absent, WP!Absent,
     W!ReadVerdict, WP!ReadVerdict, W!KeysVerdict, WP!KeysVerdict,
     W!SaturatingInc, WP!SaturatingInc, W!walkVars, WP!walkVars
<1>2. W!GotLocation <=> WP!GotLocation
  BY DEF W!GotLocation, WP!GotLocation, W!TakeResult, WP!TakeResult, W!NoResult, WP!NoResult
<1>3. W!ScanKey = WP!ScanKey
  BY DEF W!ScanKey, WP!ScanKey
<1>4. W!MoreItems <=> WP!MoreItems
  BY DEF W!MoreItems, WP!MoreItems
<1>5. W!EndOfLeaf <=> WP!EndOfLeaf
  BY DEF W!EndOfLeaf, WP!EndOfLeaf, W!OffsetOverflows, WP!OffsetOverflows, W!btreeVars, WP!btreeVars
<1>6. W!RefuseItem <=> WP!RefuseItem
  BY DEF W!RefuseItem, WP!RefuseItem, W!MoreItems, WP!MoreItems, W!btreeVars, WP!btreeVars
<1>7. W!TakeItem <=> WP!TakeItem
  BY DEF W!TakeItem, WP!TakeItem, W!MoreItems, WP!MoreItems, W!ScanKey, WP!ScanKey
<1> QED
  BY <1>1, <1>2, <1>3, <1>4, <1>5, <1>6, <1>7

-----------------------------------------------------------------------------
(* The table.                                                              *)
TableOK(s) == s \in Seq(MP!ChunkMapping) /\ MP!Disjoint(s)

(* What an insert, accepted or refused, may do to table s.                 *)
Grows(s, t) ==
  /\ TableOK(t)
  /\ \A d : Readable(s, d) \subseteq Readable(t, d)

\* A step that inserts nothing keeps what is readable.
LEMMA TableStays ==
  ASSUME NEW s, TableOK(s)
  PROVE  Grows(s, s)
BY DEF Grows

(* An accepted mapping joins the table, and what resolved before resolves  *)
(* to the same place.                                                      *)
LEMMA AcceptedInsert ==
  ASSUME NEW s, TableOK(s), NEW m \in Chunks, NEW pos \in 1 .. (Len(s) + 1),
         MP!PartitionLess(s, m.logical, pos), MP!InsertVerdict(s, m, pos) = "ok",
         NEW t, t = MP!InsertAt(s, pos, m)
  PROVE  /\ Grows(s, t)
         /\ MP!Elements(t) = MP!Elements(s) \cup {m}
<1>1. MapAssumptions /\ m \in MP!ChunkMapping /\ s \in Seq(MP!ChunkMapping) /\ MP!Disjoint(s)
  BY MapAssumptionsHold DEF MapAssumptions, TableOK
<1>2. t \in Seq(MP!ChunkMapping)
  BY <1>1, MP!InsertAtElements DEF MapAssumptions
<1>3. MP!Disjoint(t)
  BY <1>1, MP!InsertKeepsDisjoint DEF MapAssumptions
<1>4. MP!Elements(t) = MP!Elements(s) \cup {m}
  BY <1>1, MP!InsertedElements DEF MapAssumptions
<1>5. ASSUME NEW d, NEW b \in Readable(s, d)
      PROVE  b \in Readable(t, d)
  <2>1. PICK n \in 1 .. MaxU64 : M!IsResolution(s, d, b, M!ResolvedAt(b, LocalDevid, Home[b], n))
    BY DEF Readable
  <2>2. b \in Blocks /\ b \in MP!U64
    BY DeviceAssumption DEF Readable, M!U64, MP!U64
  <2>3. PICK r : r = MP!ResolvedAt(b, LocalDevid, Home[b], n)
    OBVIOUS
  <2>4. MP!IsResolution(s, d, b, r) /\ r.verdict = "ok"
    BY <2>1, <2>3, SameResolution, SameResolvedAt
  <2>5. MP!IsResolution(t, d, b, r)
    BY <1>1, <2>2, <2>4, MP!InsertKeepsResolution DEF MapAssumptions
  <2>6. M!IsResolution(t, d, b, M!ResolvedAt(b, LocalDevid, Home[b], n))
    BY <2>3, <2>5, SameResolution, SameResolvedAt
  <2> QED
    BY <2>2, <2>6 DEF Readable
<1> QED
  BY <1>2, <1>3, <1>4, <1>5 DEF Grows, TableOK

(* insert as a step of the mount.                                          *)
LEMMA InsertEffect ==
  ASSUME TableOK(mappings), NEW m \in Chunks, M!DoInsert(m)
  PROVE  /\ Grows(mappings, mappings')
         /\ alive' => MP!Elements(mappings') = MP!Elements(mappings) \cup {m}
         /\ ~alive' => mappings' = mappings
<1>1. PICK pos \in 1 .. (Len(mappings) + 1) :
           /\ MP!PartitionLess(mappings, m.logical, pos)
           /\ mappings' = IF MP!InsertVerdict(mappings, m, pos) = "ok"
                          THEN MP!InsertAt(mappings, pos, m) ELSE mappings
           /\ alive' = (MP!InsertVerdict(mappings, m, pos) = "ok")
  BY SameInsert
<1>2. PICK s, t : s = mappings /\ t = mappings'
  OBVIOUS
<1>3. TableOK(s) /\ pos \in 1 .. (Len(s) + 1) /\ MP!PartitionLess(s, m.logical, pos)
  BY <1>1, <1>2
<1>4. CASE MP!InsertVerdict(mappings, m, pos) = "ok"
  <2>1. t = MP!InsertAt(s, pos, m) /\ MP!InsertVerdict(s, m, pos) = "ok" /\ alive'
    BY <1>1, <1>2, <1>4
  <2>2. Grows(s, t) /\ MP!Elements(t) = MP!Elements(s) \cup {m}
    BY <2>1, <1>3, AcceptedInsert
  <2> QED
    BY <2>1, <2>2, <1>2
<1>5. CASE MP!InsertVerdict(mappings, m, pos) # "ok"
  <2>1. mappings' = mappings /\ ~alive'
    BY <1>1, <1>5
  <2>2. Grows(s, t)
    BY <2>1, <1>2, <1>3, TableStays
  <2> QED
    BY <2>1, <2>2, <1>2
<1> QED
  BY <1>4, <1>5

(* A mapping that lies apart from those of the table is accepted.          *)
Apart(c, e) == MP!End(c) <= e.logical \/ MP!End(e) <= c.logical

\* insert accepts a mapping that lies apart from all of the table.
LEMMA ApartInsertSucceeds ==
  ASSUME TableOK(mappings), NEW m \in Chunks, M!DoInsert(m), MP!End(m) <= MaxU64,
         \A e \in MP!Elements(mappings) : e.length > 0 /\ Apart(e, m)
  PROVE  alive'
<1>1. PICK pos \in 1 .. (Len(mappings) + 1) :
           /\ MP!PartitionLess(mappings, m.logical, pos)
           /\ alive' = (MP!InsertVerdict(mappings, m, pos) = "ok")
  BY SameInsert
<1>2. PICK s : s = mappings
  OBVIOUS
<1>3. MapAssumptions /\ m \in MP!ChunkMapping /\ s \in Seq(MP!ChunkMapping) /\ MP!Disjoint(s)
  BY <1>2, MapAssumptionsHold DEF MapAssumptions, TableOK
<1>4. \A i \in 1 .. Len(s) : s[i] \in MP!Elements(mappings)
  BY <1>2, <1>3, LenProperties DEF MP!Elements
<1>5. \A i \in 1 .. Len(s) : /\ s[i].length > 0
                             /\ MP!End(s[i]) <= m.logical \/ MP!End(m) <= s[i].logical
  BY <1>4 DEF Apart
<1>6. pos \in 1 .. (Len(s) + 1) /\ MP!PartitionLess(s, m.logical, pos)
  BY <1>1, <1>2
<1>7. MP!InsertVerdict(s, m, pos) = "ok"
  BY <1>3, <1>5, <1>6, MP!ApartIsAccepted DEF MapAssumptions
<1> QED
  BY <1>1, <1>2, <1>7

-----------------------------------------------------------------------------
(* The invariant of the mount.  The phases follow each other; the walk has *)
(* not begun while the array is parsed; and the table holds the entries    *)
(* parsed and, of the chunks the walk has handed over, those whose start   *)
(* the array does not have.                                                *)
Phases == {"new", "sys_array", "walk", "mounted", "failed", "panicked"}

MountInv ==
  /\ TableOK(mappings)
  /\ sys_array \in SysArrays
  /\ entry \in 1 .. (Len(sys_array) + 1)
  /\ phase \in Phases
  /\ phase = "new" => mappings = <<>> /\ entry = 1 /\ p = 0
  /\ phase # "new" => local_devid = LocalDevid
  /\ phase \in {"new", "sys_array"} => walk = "search" /\ pc = "idle" /\ delivered = <<>>
  /\ phase = "mounted" => walk = "complete"

FirstChunks(sa, n) == {sa[i].chunk : i \in 1 .. (n - 1)}

ChunksAt(H) == {Payload[k] : k \in H \cap DOMAIN Payload}

Added(dv) == ChunksAt(WP!Handed(dv))

TableOf(ps, ad) == ps \cup {c \in ad : \A e \in ps : e.logical # c.logical}

TableInv ==
  MP!Elements(mappings) = TableOf(FirstChunks(sys_array, entry), Added(delivered))

Ind == MountInv /\ TableInv /\ WP!WalkExact

StaysReadable ==
  phase # "new" => Readable(mappings, local_devid) \subseteq Readable(mappings', local_devid')

(* Nothing is added while nothing is handed over.                          *)
LEMMA NothingAdded ==
  ASSUME NEW dv, dv = <<>>
  PROVE  Added(dv) = {}
BY DEF Added, ChunksAt, WP!Handed

\* The mount starts with an empty table and a walk not begun.
LEMMA InitInd == Init => Ind
<1> SUFFICES ASSUME Init PROVE Ind
  OBVIOUS
<1>1. /\ mappings = <<>> /\ phase = "new" /\ sys_array \in SysArrays /\ p = 0 /\ entry = 1
      /\ delivered = <<>> /\ walk = "search" /\ pc = "idle"
  BY DEF Init, M!Init, W!WalkInit, W!BTreeInit
<1>2. TableOK(<<>>)
  BY DEF TableOK, MP!Disjoint
<1>3. Len(sys_array) \in Nat
  BY <1>1, SysArraysAssumption, LenProperties
<1>4. MountInv
  BY <1>1, <1>2, <1>3 DEF MountInv, Phases
<1>5. TableInv
  <2>1. Added(delivered) = {} /\ FirstChunks(sys_array, entry) = {} /\ MP!Elements(mappings) = {}
    BY <1>1, NothingAdded DEF FirstChunks, MP!Elements
  <2> QED
    BY <2>1 DEF TableInv, TableOf
<1>6. WP!WalkInit
  BY DEF Init, W!WalkInit, WP!WalkInit, W!BTreeInit, WP!BTreeInit, W!NoResult, WP!NoResult
<1>7. Readable(mappings, local_devid) \subseteq Blocks
  BY DEF Readable
<1>8. WP!WalkExact
  BY <1>6, <1>7, WalkAssumptionsHold, WP!InitRefines DEF WalkAssumptions
<1> QED
  BY <1>4, <1>5, <1>8 DEF Ind

(* The walk does not move before its phase.                                *)
LEMMA WalkWaits ==
  ASSUME Ind, phase \in {"new", "sys_array"}, UNCHANGED treeVars
  PROVE  WP!WalkExact'
<1>1. walk = "search" /\ pc = "idle" /\ WP!WalkExact
  BY DEF Ind, MountInv
<1>2. Readable(mappings', local_devid') \subseteq Blocks
  BY DEF Readable
<1>3. /\ UNCHANGED <<disk, pc, op, target, key, current, depth, next_key, lo, hi, result>>
      /\ UNCHANGED WP!walkVars
  BY DEF treeVars, WP!walkVars
<1> QED
  BY <1>1, <1>2, <1>3, WalkAssumptionsHold, WP!WalkIdles DEF WalkAssumptions

\* set_local_devid comes before anything is in the table.
LEMMA RecordDeviceKeeps ==
  ASSUME Ind, RecordDevice
  PROVE  Ind' /\ StaysReadable
<1>1. /\ phase = "new" /\ phase' = "sys_array" /\ mappings' = mappings
      /\ local_devid' = LocalDevid /\ UNCHANGED treeVars /\ UNCHANGED arrayVars
  BY DEF RecordDevice, M!SetLocalDevid
<1>2. WP!WalkExact'
  BY <1>1, WalkWaits
<1>3. MountInv'
  BY <1>1 DEF Ind, MountInv, Phases, treeVars, arrayVars
<1>4. TableInv'
  BY <1>1 DEF Ind, TableInv, treeVars, arrayVars
<1> QED
  BY <1>1, <1>2, <1>3, <1>4 DEF Ind, StaysReadable

(* The entries of the array are of the disk's chunks.                      *)
LEMMA EntryChunk ==
  ASSUME NEW sa \in SysArrays
  PROVE  /\ Len(sa) \in Nat /\ DOMAIN sa = 1 .. Len(sa)
         /\ \A i \in 1 .. Len(sa) : sa[i].chunk \in Chunks
<1>1. sa \in Seq(SysEntry)
  BY SysArraysAssumption
<1>2. \A i \in 1 .. Len(sa) : sa[i] \in SysEntry
  BY <1>1, ElementOfSeq
<1> QED
  BY <1>1, <1>2, LenProperties DEF SysEntry

\* The chunks of one more entry of the system array.
LEMMA OneMoreEntry ==
  ASSUME NEW sa, NEW n \in Nat \ {0}
  PROVE  FirstChunks(sa, n + 1) = FirstChunks(sa, n) \cup {sa[n].chunk}
<1>1. 1 .. ((n + 1) - 1) = (1 .. (n - 1)) \cup {n}
  OBVIOUS
<1> QED
  BY <1>1 DEF FirstChunks

\* An entry of the system array goes into the table, or the mount fails.
LEMMA ParseEntryKeeps ==
  ASSUME Ind, ParseEntry
  PROVE  Ind' /\ StaysReadable
<1>1. /\ phase = "sys_array" /\ UNCHANGED treeVars /\ local_devid' = local_devid
      /\ M!DoInsert(sys_array[entry].chunk)
      /\ alive' => entry' = entry + 1 /\ phase' = phase
      /\ ~alive' => entry' = entry /\ phase' = "failed"
      /\ sys_array' = sys_array
      /\ EntryVerdict = "ok"
  BY DEF ParseEntry, ParsingArray, M!Insert, Fail
<1>2. entry \in 1 .. Len(sys_array) /\ Len(sys_array) \in Nat
  <2>1. Len(sys_array) \in Nat
    BY EntryChunk DEF Ind, MountInv
  <2> QED
    BY <2>1, <1>1 DEF Ind, MountInv, EntryVerdict, IsChunkKey
<1>3. PICK m : m = sys_array[entry].chunk
  OBVIOUS
<1>4. m \in Chunks /\ TableOK(mappings)
  BY <1>2, <1>3, EntryChunk DEF Ind, MountInv
<1>5. /\ Grows(mappings, mappings')
      /\ alive' => MP!Elements(mappings') = MP!Elements(mappings) \cup {m}
      /\ ~alive' => mappings' = mappings
  BY <1>1, <1>3, <1>4, InsertEffect
<1>6. WP!WalkExact'
  BY <1>1, WalkWaits
<1>7. delivered = <<>> /\ delivered' = delivered /\ walk' = walk /\ pc' = pc
  BY <1>1 DEF Ind, MountInv, treeVars
<1>8. MountInv'
  <2>1. entry' \in 1 .. (Len(sys_array') + 1) /\ phase' \in {"sys_array", "failed"}
    BY <1>1, <1>2
  <2> QED
    BY <2>1, <1>1, <1>5, <1>7 DEF Ind, MountInv, Phases, Grows
<1>9. TableInv'
  <2>1. MP!Elements(mappings) = FirstChunks(sys_array, entry)
    BY <1>7, NothingAdded DEF Ind, TableInv, TableOf
  <2>2. MP!Elements(mappings') = FirstChunks(sys_array, entry')
    <3>1. CASE alive'
      <4>1. FirstChunks(sys_array, entry + 1) = FirstChunks(sys_array, entry) \cup {m}
        BY <1>2, <1>3, OneMoreEntry
      <4> QED
        BY <3>1, <4>1, <2>1, <1>1, <1>5
    <3>2. CASE ~alive'
      BY <3>2, <2>1, <1>1, <1>5
    <3> QED
      BY <3>1, <3>2
  <2>3. Added(delivered') = {}
    BY <1>7, NothingAdded
  <2> QED
    BY <2>2, <2>3, <1>1 DEF TableInv, TableOf
<1>10. StaysReadable
  BY <1>1, <1>5 DEF StaysReadable, Grows
<1> QED
  BY <1>6, <1>8, <1>9, <1>10 DEF Ind

(* A step that only changes the phase: an entry is refused or panics, the  *)
(* array is used up, or the mount has returned.                            *)
LEMMA PhaseStepKeeps ==
  ASSUME Ind, UNCHANGED <<mapVars, treeVars, arrayVars>>,
         \/ phase' = phase
         \/ phase = "sys_array" /\ phase' \in {"walk", "failed", "panicked"}
  PROVE  Ind' /\ StaysReadable
<1>1. /\ mappings' = mappings /\ local_devid' = local_devid
      /\ UNCHANGED treeVars /\ UNCHANGED arrayVars
  BY DEF mapVars
<1>2. UNCHANGED WP!vars
  BY <1>1 DEF WP!vars, WP!btreeVars, WP!walkVars, treeVars
<1>3. WP!WalkExact'
  BY <1>2, WalkAssumptionsHold, WP!WalkStaysExact DEF WalkAssumptions, Ind
<1>4. MountInv'
  BY <1>1 DEF Ind, MountInv, Phases, treeVars, arrayVars
<1>5. TableInv'
  BY <1>1 DEF Ind, TableInv, treeVars, arrayVars
<1> QED
  BY <1>1, <1>3, <1>4, <1>5 DEF Ind, StaysReadable

\* The steps of the array's parser that leave the table alone.
LEMMA QuietStepKeeps ==
  ASSUME Ind, RefuseEntry \/ EntryPanics \/ ArrayDone \/ UNCHANGED vars
  PROVE  Ind' /\ StaysReadable
<1>1. /\ UNCHANGED <<mapVars, treeVars, arrayVars>>
      /\ \/ phase' = phase
         \/ phase = "sys_array" /\ phase' \in {"walk", "failed", "panicked"}
  BY DEF RefuseEntry, EntryPanics, ArrayDone, ParsingArray, Fail, vars
<1> QED
  BY <1>1, PhaseStepKeeps

(* A step of the walk that touches no item.                                *)
LEMMA WalkOnKeeps ==
  ASSUME Ind, WalkOn
  PROVE  Ind' /\ StaysReadable
<1>1. /\ phase = "walk" /\ mappings' = mappings /\ local_devid' = local_devid
      /\ UNCHANGED arrayVars
      /\ WP!Searching \/ WP!GotLocation \/ WP!EndOfLeaf
      /\ \/ phase' = "mounted" /\ walk' = "complete"
         \/ phase' = "failed"
         \/ phase' = phase
  BY SameWalkSteps DEF WalkOn, Fail, mapVars
<1>2. delivered' = delivered
  BY <1>1 DEF WP!Searching, WP!walkVars, WP!GotLocation, WP!EndOfLeaf
<1>3. WP!WalkExact'
  BY <1>1, WalkAssumptionsHold, WP!WalkStaysExact DEF WalkAssumptions, Ind
<1>4. MountInv'
  BY <1>1 DEF Ind, MountInv, Phases, arrayVars
<1>5. TableInv'
  BY <1>1, <1>2 DEF Ind, TableInv, arrayVars
<1> QED
  BY <1>1, <1>3, <1>4, <1>5 DEF Ind, StaysReadable

(* An item refused, by its parser or by insert, ends the walk.             *)
LEMMA RefusedItemKeeps ==
  ASSUME Ind, phase = "walk", phase' = "failed", W!RefuseItem,
         UNCHANGED arrayVars, mappings' = mappings, local_devid' = local_devid
  PROVE  Ind' /\ StaysReadable
<1>1. WP!RefuseItem
  BY SameWalkSteps
<1>2. delivered' = delivered
  BY <1>1 DEF WP!RefuseItem
<1>3. WP!WalkExact'
  BY <1>1, WalkAssumptionsHold, WP!WalkStaysExact DEF WalkAssumptions, Ind
<1>4. MountInv'
  BY DEF Ind, MountInv, Phases, arrayVars
<1>5. TableInv'
  BY <1>2 DEF Ind, TableInv, arrayVars
<1> QED
  BY <1>3, <1>4, <1>5 DEF Ind, StaysReadable

(* An item is handed over: one key more.                                   *)
LEMMA TakenItem ==
  ASSUME Ind, W!TakeItem
  PROVE  WP!Handed(delivered') = WP!Handed(delivered) \cup {W!ScanKey}
<1>1. /\ WP!TakeItem /\ WP!WalkExact /\ delivered \in Seq(Keys) /\ W!ScanKey = WP!ScanKey
  BY SameWalkSteps DEF Ind, WP!WalkExact, WP!WalkInd, WP!WalkInv
<1>2. WP!ScanKey \in Keys
  <2>1. PICK d, b, i : d = disk /\ b = leaf /\ i = idx
    OBVIOUS
  <2>2. /\ d \in Disks /\ b \in Blocks /\ i \in 1 .. d[b].nritems /\ d[b].nritems \in Nat
        /\ WP!ReadVerdict(disk, b) = "ok"
    BY <1>1, <2>1 DEF WP!TakeItem, WP!MoreItems, WP!WalkExact, WP!WalkInd, WP!WalkInv,
       WP!SearchInv, WP!Scanning
  <2>3. \A j \in 1 .. d[b].nritems : d[b].keys[j] \in Keys
    BY <2>1, <2>2, WalkAssumptionsHold, WP!AcceptedBlock DEF WalkAssumptions
  <2> QED
    BY <2>1, <2>2, <2>3 DEF WP!ScanKey
<1>3. delivered' = Append(delivered, WP!ScanKey)
  BY <1>1 DEF WP!TakeItem
<1>4. PICK dv, k : dv = delivered /\ k = WP!ScanKey
  OBVIOUS
<1>5. dv \in Seq(Keys) /\ k \in Keys
  BY <1>1, <1>2, <1>4
<1>6. WP!Handed(Append(dv, k)) = WP!Handed(dv) \cup {k}
  BY <1>5, WalkAssumptionsHold, WP!HandedAppend DEF WalkAssumptions
<1> QED
  BY <1>1, <1>3, <1>4, <1>6

(* Handing over keeps all but the table's contents.                        *)
LEMMA TakeItemKeeps ==
  ASSUME Ind, phase = "walk", phase' = phase, W!TakeItem, UNCHANGED arrayVars,
         Grows(mappings, mappings'), local_devid' = local_devid
  PROVE  MountInv' /\ WP!WalkExact' /\ StaysReadable
<1>1. Readable(mappings, local_devid) \subseteq Readable(mappings', local_devid')
  BY DEF Grows
<1>2. Readable(mappings', local_devid') \subseteq Blocks
  BY DEF Readable
<1>3. WP!TakeItem /\ WP!MapGrows
  BY <1>1, <1>2, SameWalkSteps DEF WP!MapGrows
<1>4. WP!WalkExact'
  BY <1>3, WalkAssumptionsHold, WP!WalkStaysExact DEF WalkAssumptions, Ind
<1>5. MountInv'
  BY DEF Ind, MountInv, Phases, arrayVars, Grows
<1> QED
  BY <1>1, <1>4, <1>5 DEF StaysReadable

\* An item that is no chunk leaves the table alone.
LEMMA PassOverItemKeeps ==
  ASSUME Ind, PassOverItem
  PROVE  Ind' /\ StaysReadable
<1>1. /\ phase = "walk" /\ phase' = phase /\ W!TakeItem /\ UNCHANGED arrayVars
      /\ mappings' = mappings /\ local_devid' = local_devid /\ W!ScanKey \notin DOMAIN Payload
  BY DEF PassOverItem, mapVars
<1>2. Grows(mappings, mappings')
  BY <1>1, TableStays DEF Ind, MountInv
<1>3. MountInv' /\ WP!WalkExact' /\ StaysReadable
  BY <1>1, <1>2, TakeItemKeeps
<1>4. Added(delivered') = Added(delivered)
  BY <1>1, TakenItem DEF Added, ChunksAt
<1>5. TableInv'
  BY <1>1, <1>4 DEF Ind, TableInv, arrayVars
<1> QED
  BY <1>3, <1>5 DEF Ind

(* The chunk of an item joins the table unless its start is there: the     *)
(* table stays what the array and the walk have given.                     *)
Joined(T, m) == IF \E e \in T : e.logical = m.logical THEN T ELSE T \cup {m}

\* One more chunk item makes the table that of one more key.
LEMMA TableAfterItem ==
  ASSUME NEW ps, NEW H, NEW k \in DOMAIN Payload, NEW T, NEW U,
         T = TableOf(ps, ChunksAt(H)),
         U = Joined(T, Payload[k])
  PROVE  U = TableOf(ps, ChunksAt(H \cup {k}))
<1> DEFINE A == ChunksAt(H)
           B == ChunksAt(H \cup {k})
           m == Payload[k]
<1>1. B = A \cup {m}
  BY DEF ChunksAt
<1>2. \A c \in A : c.logical = m.logical => c = m
  BY PayloadAssumption DEF ChunksAt
<1>3. T = TableOf(ps, A)
  OBVIOUS
<1> HIDE DEF A, B, m
<1>4. CASE \E e \in T : e.logical = m.logical
  <2>1. U = T
    BY <1>4 DEF m, Joined
  <2>2. (\E e \in ps : e.logical = m.logical) \/ m \in A
    BY <1>2, <1>3, <1>4 DEF TableOf
  <2> QED
    BY <2>1, <2>2, <1>1, <1>3 DEF TableOf, B
<1>5. CASE ~\E e \in T : e.logical = m.logical
  <2>1. U = T \cup {m}
    BY <1>5 DEF m, Joined
  <2>2. \A e \in ps : e.logical # m.logical
    BY <1>3, <1>5 DEF TableOf
  <2> QED
    BY <2>1, <2>2, <1>1, <1>3, ZenonT(30) DEF TableOf, B
<1> QED
  BY <1>4, <1>5

\* A chunk item: passed over when its start is mapped, inserted otherwise.
LEMMA AddChunkItemKeeps ==
  ASSUME Ind, AddChunkItem
  PROVE  Ind' /\ StaysReadable
<1>1. PICK k : k = W!ScanKey
  OBVIOUS
<1>2. /\ phase = "walk" /\ UNCHANGED arrayVars /\ local_devid' = local_devid
      /\ k \in DOMAIN Payload
      /\ alive' => W!TakeItem /\ phase' = phase
      /\ ~alive' => W!RefuseItem /\ phase' = "failed"
      /\ alive
      /\ IF M!ContainsChunk(mappings, Payload[k].logical)
         THEN UNCHANGED <<mappings, alive>> ELSE M!DoInsert(Payload[k])
  BY <1>1 DEF AddChunkItem, M!InsertIfAbsent, Fail
<1>3. Payload[k] \in Chunks /\ TableOK(mappings)
  BY <1>2, PayloadAssumption DEF Ind, MountInv
<1>4. M!ContainsChunk(mappings, Payload[k].logical)
        <=> \E e \in MP!Elements(mappings) : e.logical = Payload[k].logical
  <2>1. DOMAIN mappings = 1 .. Len(mappings)
    BY <1>3, LenProperties DEF TableOK
  <2> QED
    BY <2>1 DEF M!ContainsChunk, MP!Elements
<1>5. CASE ~alive'
  <2>1. ~M!ContainsChunk(mappings, Payload[k].logical) /\ mappings' = mappings
    BY <1>2, <1>3, <1>5, InsertEffect
  <2> QED
    BY <2>1, <1>2, <1>5, RefusedItemKeeps
<1>6. CASE alive'
  <2>1. /\ Grows(mappings, mappings')
        /\ MP!Elements(mappings') = Joined(MP!Elements(mappings), Payload[k])
    <3>1. CASE M!ContainsChunk(mappings, Payload[k].logical)
      BY <3>1, <1>2, <1>3, <1>4, TableStays DEF Joined
    <3>2. CASE ~M!ContainsChunk(mappings, Payload[k].logical)
      BY <3>2, <1>2, <1>3, <1>4, <1>6, InsertEffect DEF Joined
    <3> QED
      BY <3>1, <3>2
  <2>2. MountInv' /\ WP!WalkExact' /\ StaysReadable
    BY <2>1, <1>2, <1>6, TakeItemKeeps
  <2>3. WP!Handed(delivered') = WP!Handed(delivered) \cup {k}
    BY <1>1, <1>2, <1>6, TakenItem
  <2>4. PICK ps, H, T, U : /\ ps = FirstChunks(sys_array, entry) /\ H = WP!Handed(delivered)
                           /\ T = MP!Elements(mappings) /\ U = MP!Elements(mappings')
    OBVIOUS
  <2>5. T = TableOf(ps, ChunksAt(H))
    BY <2>4 DEF Ind, TableInv, Added
  <2>6. U = Joined(T, Payload[k])
    BY <2>1, <2>4
  <2>7. U = TableOf(ps, ChunksAt(H \cup {k}))
    BY <2>5, <2>6, <1>2, TableAfterItem
  <2>8. TableInv'
    BY <2>3, <2>4, <2>7, <1>2 DEF TableInv, Added, arrayVars
  <2> QED
    BY <2>2, <2>8 DEF Ind
<1> QED
  BY <1>5, <1>6

\* Every step of the mount keeps the invariant and what is readable.
LEMMA NextKeeps ==
  ASSUME Ind, [Next]_vars
  PROVE  Ind' /\ StaysReadable
<1>1. CASE RefuseItem
  <2>1. /\ phase = "walk" /\ phase' = "failed" /\ W!RefuseItem /\ UNCHANGED arrayVars
        /\ mappings' = mappings /\ local_devid' = local_devid
    BY <1>1 DEF RefuseItem, Fail, mapVars
  <2> QED
    BY <2>1, RefusedItemKeeps
<1>2. CASE Done \/ UNCHANGED vars
  BY <1>2, QuietStepKeeps DEF Done
<1> QED
  BY <1>1, <1>2, RecordDeviceKeeps, ParseEntryKeeps, QuietStepKeeps, WalkOnKeeps,
     PassOverItemKeeps, AddChunkItemKeeps DEF Next

(* The invariant of the mount, on every disk and every array.              *)
THEOREM MountInvariant == Spec => []Ind
<1>1. Ind /\ [Next]_vars => Ind'
  BY NextKeeps
<1> QED
  BY <1>1, InitInd, PTL DEF Spec

(* The walk reads the chunk tree through the table it is filling: whatever *)
(* chunks the disk offers, overlapping, overflowing or repeated, no insert *)
(* makes a block unreadable or sends its reads elsewhere.                  *)
THEOREM ReadableNeverShrinks == Spec => ReadableOnlyGrows
<1>1. Ind /\ [Next]_vars =>
        [phase # "new" => Readable(mappings, local_devid) \subseteq Readable(mappings', local_devid')]_vars
  BY NextKeeps DEF StaysReadable
<1> QED
  BY <1>1, MountInvariant, PTL DEF Spec, ReadableOnlyGrows

-----------------------------------------------------------------------------
(* The tree the walk reads.                                                *)
LEMMA SameBelow ==
  ASSUME NEW d, NEW b
  PROVE  W!Below(d, b) = WP!Below(d, b)
BY DEF W!Below, WP!Below, W!Children, WP!Children

\* The keys of its leaves read the same in both instances.
LEMMA SameLeafKeys ==
  ASSUME NEW d, NEW b
  PROVE  W!LeafKeys(d, b) = WP!LeafKeys(d, b)
BY DEF W!LeafKeys, WP!LeafKeys, W!KeysOf, WP!KeysOf, W!Below, WP!Below, W!Children, WP!Children

\* So does the tree's being well formed.
LEMMA SameWellFormed ==
  ASSUME NEW d
  PROVE  W!WellFormed(d) <=> WP!WellFormed(d)
BY DEF W!WellFormed, WP!WellFormed, W!NodeKeys, WP!NodeKeys, W!KeysOf, WP!KeysOf,
   W!Below, WP!Below, W!Children, WP!Children, W!KeysVerdict, WP!KeysVerdict

(* A well-formed tree is intact in the sense of the walk's proofs, and no  *)
(* offset of it ends the walk early.                                       *)
LEMMA WellFormedTree ==
  ASSUME Ind, W!WellFormed(disk)
  PROVE  disk \in WP!IntactDisks /\ WP!RunsOn(disk)
<1>1. PICK d : d = disk
  OBVIOUS
<1>2. d \in Disks /\ W!WellFormed(d) /\ WP!WellFormed(d)
  BY <1>1, SameWellFormed DEF Ind, WP!WalkExact, WP!WalkInd, WP!SearchInv
<1>3. \A k \in WP!LeafKeys(d, Root) :
        FirstTarget <= k /\ k < LastWanted => ~WP!OffsetOverflows(k)
  BY <1>2, ChunkRunAssumption, SameLeafKeys DEF W!OffsetOverflows, WP!OffsetOverflows
<1> QED
  BY <1>1, <1>2, <1>3 DEF WP!IntactDisks, WP!RunsOn

\* A mount that has succeeded has all the tree's chunks.
LEMMA CompleteTable ==
  ASSUME Ind
  PROVE  MountedTableIsComplete
<1> SUFFICES ASSUME phase = "mounted", W!WellFormed(disk)
             PROVE  InTable = Parsed \cup
                      {c \in TreeChunks : \A e \in Parsed : e.logical # c.logical}
  BY DEF MountedTableIsComplete
<1>1. /\ disk \in WP!IntactDisks /\ WP!RunsOn(disk) /\ WP!WalkExact /\ walk = "complete"
  BY WellFormedTree DEF Ind, MountInv
<1>2. ASSUME NEW k \in DOMAIN Payload
      PROVE  k \in W!LeafKeys(disk, Root) <=> k \in WP!Handed(delivered)
  <2>1. k \in FirstTarget .. LastWanted
    BY PayloadAssumption
  <2>2. k \in WP!LeafKeys(disk, Root) <=> k \in WP!Handed(delivered)
    BY <1>1, <2>1, WalkAssumptionsHold, WP!CompleteWalkIsExact DEF WalkAssumptions
  <2> QED
    BY <2>2, SameLeafKeys
<1>3. TreeChunks = Added(delivered)
  BY <1>2 DEF TreeChunks, Added, ChunksAt
<1>4. InTable = MP!Elements(mappings) /\ Parsed = FirstChunks(sys_array, entry)
  BY DEF InTable, MP!Elements, Parsed, FirstChunks
<1> QED
  BY <1>3, <1>4 DEF Ind, TableInv, TableOf

(* The walk of the chunk tree, whatever leaves the items are split over    *)
(* and while it extends the table it reads through, loses no chunk: when   *)
(* the mount of a well-formed tree succeeds, the table holds the array's   *)
(* chunks, every chunk of the tree whose start the array does not have,    *)
(* and nothing else.                                                       *)
THEOREM MountedTablesAreComplete == Spec => []MountedTableIsComplete
BY CompleteTable, MountInvariant, PTL

-----------------------------------------------------------------------------
(* Where the entries of the array lie.                                     *)

(* An entry takes its key's bytes and more.                                *)
LEMMA EntryBytesType ==
  ASSUME NEW sa \in SysArrays, NEW n \in 1 .. Len(sa)
  PROVE  EntryBytes(sa[n]) \in Nat
<1>1. sa[n].chunk \in MP!ChunkMapping
  BY EntryChunk, MapAssumptionsHold DEF MapAssumptions
<1>2. Len(sa[n].chunk.stripes) \in Nat
  <2>1. sa[n].chunk.stripes \in Seq(MP!Stripe)
    BY <1>1 DEF MP!ChunkMapping
  <2> QED
    BY <2>1, LenProperties
<1> DEFINE k == Len(sa[n].chunk.stripes)
<1>3. k \in Nat
  BY <1>2
<1> HIDE DEF k
<1>4. HeaderSize + StripeSize * k \in Nat
  BY <1>3, SizesAssumption
<1> QED
  BY <1>4 DEF EntryBytes, k

(* f holds the sizes of the first 0, 1, ..., n entries.                    *)
Packs(sa, n, f) ==
  f = [m \in 0 .. n |-> IF m = 0 THEN 0 ELSE f[m - 1] + KeySize + EntryBytes(sa[m])]

\* There are such sizes, by the least number of entries without.
LEMMA PacksExists ==
  ASSUME NEW sa \in SysArrays, NEW n \in 0 .. Len(sa)
  PROVE  \E f : Packs(sa, n, f)
<1>0. Len(sa) \in Nat
  BY EntryChunk
<1> DEFINE T == {m \in 0 .. Len(sa) : ~\E f : Packs(sa, m, f)}
<1>1. SUFFICES ASSUME T # {} PROVE FALSE
  BY <1>0
<1>2. T \in SUBSET Nat
  BY <1>0
<1>3. PICK x \in T : \A y \in T : x <= y
  BY <1>1, <1>2, WalkAssumptionsHold, WP!LeastNumber DEF WalkAssumptions
<1>4. x \in 0 .. Len(sa) /\ ~\E f : Packs(sa, x, f)
  BY <1>3
<1>5. CASE x = 0
  <2> DEFINE g == [m \in 0 .. 0 |-> 0]
  <2>1. g = [m \in 0 .. 0 |-> IF m = 0 THEN 0 ELSE g[m - 1] + KeySize + EntryBytes(sa[m])]
    OBVIOUS
  <2> QED
    BY <2>1, <1>4, <1>5 DEF Packs
<1>6. CASE x # 0
  <2>1. x - 1 \in 0 .. Len(sa) /\ ~(x <= x - 1)
    BY <1>0, <1>4, <1>6
  <2>2. PICK f : Packs(sa, x - 1, f)
    BY <2>1, <1>3
  <2> DEFINE e == KeySize + EntryBytes(sa[x])
             g == [m \in 0 .. x |-> IF m < x THEN f[m] ELSE f[x - 1] + KeySize + EntryBytes(sa[x])]
  <2>3. ASSUME NEW m \in 0 .. x
        PROVE  g[m] = IF m = 0 THEN 0 ELSE g[m - 1] + KeySize + EntryBytes(sa[m])
    <3>1. CASE m = x
      <4>1. x - 1 \in 0 .. x /\ x - 1 < x /\ ~(x < x)
        BY <1>0, <1>4, <1>6
      <4> QED
        BY <3>1, <4>1, <1>6
    <3>2. CASE m # x
      <4>1. m \in 0 .. (x - 1) /\ m < x
        BY <3>2, <1>0, <1>4
      <4>2. f[m] = IF m = 0 THEN 0 ELSE f[m - 1] + KeySize + EntryBytes(sa[m])
        BY <4>1, <2>2 DEF Packs
      <4>3. m # 0 => m - 1 \in 0 .. x /\ m - 1 < x
        BY <4>1, <1>0, <1>4
      <4> QED
        BY <4>1, <4>2, <4>3
    <3> QED
      BY <3>1, <3>2
  <2>4. Packs(sa, x, g)
    <3>1. g = [m \in 0 .. x |-> g[m]]
      OBVIOUS
    <3> HIDE DEF g
    <3> QED
      BY <3>1, <2>3 DEF Packs
  <2> QED
    BY <2>4, <1>4
<1> QED
  BY <1>5, <1>6

\* PackedSize is they.
LEMMA PackedSizePacks ==
  ASSUME NEW sa \in SysArrays
  PROVE  Packs(sa, Len(sa), PackedSize(sa))
<1>1. \E f : Packs(sa, Len(sa), f)
  BY PacksExists, EntryChunk
<1> QED
  BY <1>1 DEF PackedSize, Packs

(* The sizes begin at 0 and grow with every entry.                         *)
LEMMA PackedSizes ==
  ASSUME NEW sa \in SysArrays
  PROVE  /\ PackedSize(sa)[0] = 0
         /\ \A n \in 1 .. Len(sa) :
              PackedSize(sa)[n] = PackedSize(sa)[n - 1] + KeySize + EntryBytes(sa[n])
         /\ \A n \in 0 .. Len(sa) : PackedSize(sa)[n] \in Nat
         /\ \A i, j \in 0 .. Len(sa) : i < j => PackedSize(sa)[i] < PackedSize(sa)[j]
<1>0. Len(sa) \in Nat /\ KeySize \in Nat \ {0}
  BY EntryChunk, SizesAssumption
<1> DEFINE f == PackedSize(sa)
<1>1. Packs(sa, Len(sa), f)
  BY PackedSizePacks
<1> HIDE DEF f
<1>2. \A n \in 0 .. Len(sa) :
        f[n] = IF n = 0 THEN 0 ELSE f[n - 1] + KeySize + EntryBytes(sa[n])
  BY <1>1, Zenon DEF Packs
<1>3. f[0] = 0
  BY <1>0, <1>2
<1>4. \A n \in 1 .. Len(sa) : f[n] = f[n - 1] + KeySize + EntryBytes(sa[n])
  BY <1>0, <1>2
<1>5. \A n \in 0 .. Len(sa) : f[n] \in Nat
  <2> DEFINE T == {n \in 0 .. Len(sa) : f[n] \notin Nat}
  <2> SUFFICES ASSUME T # {} PROVE FALSE
    OBVIOUS
  <2>1. T \in SUBSET Nat
    BY <1>0
  <2>2. PICK x \in T : \A y \in T : x <= y
    BY <2>1, WalkAssumptionsHold, WP!LeastNumber DEF WalkAssumptions
  <2>3. x \in 1 .. Len(sa) /\ x - 1 \in 0 .. Len(sa) /\ ~(x <= x - 1)
    BY <1>0, <1>3, <2>2
  <2>4. f[x - 1] \in Nat
    BY <2>2, <2>3
  <2>5. EntryBytes(sa[x]) \in Nat
    BY <2>3, EntryBytesType
  <2>6. f[x] \in Nat
    BY <2>3, <2>4, <2>5, <1>0, <1>4
  <2> QED
    BY <2>2, <2>6
<1>6. ASSUME NEW i \in 0 .. Len(sa), NEW j \in 0 .. Len(sa), i < j
      PROVE  f[i] < f[j]
  <2> DEFINE T == {n \in (i + 1) .. Len(sa) : ~(f[i] < f[n])}
  <2> SUFFICES ASSUME T # {} PROVE FALSE
    BY <1>0, <1>6
  <2>1. T \in SUBSET Nat
    BY <1>0
  <2>2. PICK x \in T : \A y \in T : x <= y
    BY <2>1, WalkAssumptionsHold, WP!LeastNumber DEF WalkAssumptions
  <2>3. /\ x \in 1 .. Len(sa) /\ x - 1 \in 0 .. Len(sa) /\ ~(x <= x - 1)
        /\ x - 1 = i \/ x - 1 \in (i + 1) .. Len(sa)
    BY <1>0, <2>2
  <2>4. f[i] <= f[x - 1]
    <3>1. CASE x - 1 = i
      BY <3>1, <1>5
    <3>2. CASE x - 1 \in (i + 1) .. Len(sa)
      <4>1. f[i] < f[x - 1]
        BY <3>2, <2>2, <2>3
      <4> QED
        BY <4>1, <2>3, <1>5
    <3> QED
      BY <3>1, <3>2, <2>3
  <2>5. EntryBytes(sa[x]) \in Nat /\ f[x - 1] \in Nat /\ f[i] \in Nat
    BY <2>3, <1>5, EntryBytesType
  <2>6. f[i] < f[x]
    BY <2>3, <2>4, <2>5, <1>0, <1>4, SMTT(30)
  <2> QED
    BY <2>2, <2>6
<1> QED
  BY <1>3, <1>4, <1>5, <1>6 DEF f

\* The slots of an array are as many as its length.
LEMMA CountUpTo ==
  ASSUME NEW n \in Nat
  PROVE  IsFiniteSet(1 .. n) /\ Cardinality(1 .. n) = n
<1>1. IsFiniteSet(1 .. n) /\ Cardinality(1 .. n) = IF 1 > n THEN 0 ELSE n - 1 + 1
  BY FS_Interval
<1> QED
  BY <1>1

(* An array whose chunks are as many as its entries repeats none.          *)
LEMMA EntriesDiffer ==
  ASSUME NEW sa \in SysArrays, Cardinality({sa[i].chunk : i \in DOMAIN sa}) = Len(sa),
         NEW i \in 1 .. Len(sa), NEW j \in 1 .. Len(sa), sa[i].chunk = sa[j].chunk
  PROVE  i = j
<1>0. Len(sa) \in Nat /\ DOMAIN sa = 1 .. Len(sa)
  BY EntryChunk
<1> DEFINE S == 1 .. Len(sa)
           T == {sa[n].chunk : n \in DOMAIN sa}
           f == [n \in S |-> sa[n].chunk]
<1>1. IsFiniteSet(S) /\ Cardinality(S) = Len(sa)
  BY <1>0, CountUpTo, Zenon
<1>2. f \in Surjection(S, T)
  BY <1>0 DEF Surjection
<1>3. Cardinality(S) = Cardinality(T)
  BY <1>1
<1>4. f \in Injection(S, T)
  <2> HIDE DEF S, T, f
  <2> QED
    BY <1>1, <1>2, <1>3, FS_SurjSameCardinalityImpliesInj
<1>5. \A a, b \in S : f[a] = f[b] => a = b
  BY <1>4, Zenon DEF Injection, IsInjective
<1>6. f[i] = f[j]
  OBVIOUS
<1> QED
  BY <1>5, <1>6

-----------------------------------------------------------------------------
(* The mount of a sound filesystem: the parser's cursor is where the next  *)
(* entry begins, the walk has the whole array behind it, and nothing has   *)
(* failed but a read.                                                      *)
SoundInv ==
  SoundFilesystem =>
    /\ p = PackedSize(sys_array)[entry - 1]
    /\ phase \in {"walk", "mounted"} => entry = Len(sys_array) + 1
    /\ phase # "panicked"
    /\ phase = "failed" => token = "tree_block_read"

(* The filesystem does not change under the mount.                         *)
LEMMA SoundStays ==
  ASSUME disk' = disk, sys_array' = sys_array, used' = used
  PROVE  SoundFilesystem' <=> SoundFilesystem
BY DEF SoundFilesystem, TreeChunks, SysChunks

(* Two chunks of a sound tree lie apart.                                   *)
SoundChunks(S) ==
  /\ \A c \in S : MP!End(c) <= MaxU64 /\ c.length > 0
  /\ \A c, e \in S : c # e => Apart(c, e)

\* The chunks of a sound filesystem are such chunks.
LEMMA TreeIsSound ==
  ASSUME SoundFilesystem
  PROVE  SoundChunks(TreeChunks)
BY DEF SoundFilesystem, SoundChunks, Apart, M!End, MP!End

(* All the table ever holds is chunks of the tree.                         *)
LEMMA TableOfTree ==
  ASSUME Ind, SoundFilesystem
  PROVE  /\ FirstChunks(sys_array, entry) \subseteq SysChunks
         /\ SysChunks \subseteq TreeChunks
         /\ MP!Elements(mappings) \subseteq TreeChunks
<1>1. FirstChunks(sys_array, entry) \subseteq SysChunks
  <2>1. /\ Len(sys_array) \in Nat /\ DOMAIN sys_array = 1 .. Len(sys_array)
        /\ entry \in 1 .. (Len(sys_array) + 1)
    BY EntryChunk DEF Ind, MountInv
  <2>2. 1 .. (entry - 1) \subseteq DOMAIN sys_array
    BY <2>1
  <2> QED
    BY <2>2 DEF FirstChunks, SysChunks
<1>2. SysChunks \subseteq TreeChunks /\ W!WellFormed(disk)
  BY DEF SoundFilesystem
<1>3. Added(delivered) \subseteq TreeChunks
  <2>1. disk \in WP!IntactDisks /\ WP!WalkExact
    BY <1>2, WellFormedTree DEF Ind
  <2>2. WP!Handed(delivered) \subseteq WP!LeafKeys(disk, Root)
    BY <2>1 DEF WP!WalkExact, WP!NoneSkipped
  <2>3. WP!Handed(delivered) \subseteq W!LeafKeys(disk, Root)
    BY <2>2, SameLeafKeys
  <2> QED
    BY <2>3 DEF Added, ChunksAt, TreeChunks
<1> QED
  BY <1>1, <1>2, <1>3 DEF Ind, TableInv, TableOf

(* A chunk of the tree that is not in the table is accepted.               *)
LEMMA TreeChunkAccepted ==
  ASSUME Ind, SoundFilesystem, NEW m \in TreeChunks, m \in Chunks,
         m \notin MP!Elements(mappings), M!DoInsert(m)
  PROVE  alive'
<1>1. PICK S, E : S = TreeChunks /\ E = MP!Elements(mappings)
  OBVIOUS
<1>2. SoundChunks(S) /\ E \subseteq S /\ m \in S /\ m \notin E
  BY <1>1, TreeIsSound, TableOfTree
<1>3. \A e \in E : e.length > 0 /\ Apart(e, m)
  BY <1>2 DEF SoundChunks
<1>4. MP!End(m) <= MaxU64
  BY <1>2 DEF SoundChunks
<1> QED
  BY <1>1, <1>3, <1>4, ApartInsertSucceeds DEF Ind, MountInv

(* The parser stands at an entry it can use.                               *)
LEMMA SoundEntry ==
  ASSUME Ind, SoundInv, SoundFilesystem, ParsingArray
  PROVE  /\ entry \in 1 .. Len(sys_array)
         /\ EntryVerdict = "ok"
         /\ p + KeySize + EntrySize = PackedSize(sys_array)[entry]
<1>1. PICK sa, n : sa = sys_array /\ n = entry
  OBVIOUS
<1>2. /\ sa \in SysArrays /\ Len(sa) \in Nat /\ DOMAIN sa = 1 .. Len(sa)
      /\ n \in 1 .. (Len(sa) + 1)
  BY <1>1, EntryChunk DEF Ind, MountInv
<1>3. /\ p = PackedSize(sa)[n - 1] /\ p < used
      /\ used = PackedSize(sa)[Len(sa)] /\ used <= ArrayLen
      /\ \A i \in DOMAIN sa : sa[i].is_chunk_key
  BY <1>1 DEF SoundInv, SoundFilesystem, ParsingArray
<1> DEFINE f == PackedSize(sa)
<1>4. /\ \A i \in 1 .. Len(sa) : f[i] = f[i - 1] + KeySize + EntryBytes(sa[i])
      /\ \A i \in 0 .. Len(sa) : f[i] \in Nat
      /\ \A i, j \in 0 .. Len(sa) : i < j => f[i] < f[j]
  BY <1>2, PackedSizes
<1>5. p = f[n - 1] /\ used = f[Len(sa)]
  BY <1>3
<1> HIDE DEF f
<1>6. n \in 1 .. Len(sa)
  <2>1. Len(sa) \in 0 .. Len(sa)
    BY <1>2
  <2>2. CASE n = Len(sa) + 1
    <3>1. n - 1 = Len(sa)
      BY <2>2, <1>2
    <3>2. p = used /\ used \in Nat
      BY <3>1, <2>1, <1>4, <1>5
    <3> QED
      BY <3>2, <1>3
  <2> QED
    BY <2>2, <1>2
<1>7. /\ f[n] = p + KeySize + EntryBytes(sa[n]) /\ f[n] \in Nat /\ p \in Nat /\ used \in Nat
      /\ f[n] <= used
  <2> DEFINE L == Len(sa)
  <2>0. L \in Nat /\ n \in 1 .. L
    BY <1>2, <1>6
  <2>1. /\ n \in 0 .. Len(sa) /\ n - 1 \in 0 .. Len(sa) /\ Len(sa) \in 0 .. Len(sa)
        /\ n = Len(sa) \/ n < Len(sa)
    <3> HIDE DEF L
    <3>1. n \in 0 .. L /\ n - 1 \in 0 .. L /\ L \in 0 .. L /\ (n = L \/ n < L)
      BY <2>0
    <3> QED
      BY <3>1 DEF L
  <2>2. f[n] \in Nat /\ p \in Nat /\ used \in Nat
    BY <2>1, <1>4, <1>5
  <2>3. f[n] <= used
    BY <2>1, <2>2, <1>4, <1>5
  <2> QED
    BY <2>2, <2>3, <1>4, <1>5, <1>6
<1>8. EntryBytes(sa[n]) = HeaderSize + StripeSize * Len(sa[n].chunk.stripes)
  BY DEF EntryBytes
<1>9. Len(sa[n].chunk.stripes) \in Nat
  <2>1. sa[n].chunk \in MP!ChunkMapping
    BY <1>2, <1>6, EntryChunk, MapAssumptionsHold DEF MapAssumptions
  <2>2. sa[n].chunk.stripes \in Seq(MP!Stripe)
    BY <2>1 DEF MP!ChunkMapping
  <2> QED
    BY <2>2, LenProperties
<1>10. EntryBytes(sa[n]) \in Nat /\ HeaderSize <= EntryBytes(sa[n])
  <2> DEFINE k == Len(sa[n].chunk.stripes)
  <2>1. k \in Nat
    BY <1>9
  <2> HIDE DEF k
  <2>2. HeaderSize + StripeSize * k \in Nat /\ HeaderSize <= HeaderSize + StripeSize * k
    BY <2>1, SizesAssumption
  <2> QED
    BY <2>2, <1>8 DEF k
<1>11. EntrySize = EntryBytes(sa[n]) /\ IsChunkKey
  BY <1>1, <1>2, <1>3, <1>6 DEF EntrySize, IsChunkKey
<1> DEFINE e == EntryBytes(sa[n])
<1>12. /\ ~(p + KeySize > used) /\ ~(p + KeySize > ArrayLen)
       /\ ~(p + KeySize + HeaderSize > ArrayLen)
       /\ ~(p + KeySize + e > used) /\ ~(p + KeySize + e > ArrayLen)
  <2>1. e \in Nat /\ HeaderSize <= e /\ p + KeySize + e <= used
    BY <1>7, <1>10
  <2> HIDE DEF e
  <2> QED
    BY <2>1, <1>3, <1>7, SizesAssumption, SMTT(30)
<1>13. EntryVerdict = "ok"
  BY <1>11, <1>12 DEF EntryVerdict
<1> QED
  BY <1>1, <1>6, <1>7, <1>11, <1>13 DEF f

(* A block that a mapping of the table covers, with a copy where the block *)
(* really is on the local device, is readable.                             *)
LEMMA CoveredBlock ==
  ASSUME NEW s, TableOK(s), NEW b \in Blocks, NEW c \in MP!Elements(s),
         MP!Covers(c, b), c.profile \in MP!ReadableProfiles,
         NEW j \in DOMAIN c.stripes,
         c.stripes[j] = [devid |-> LocalDevid, offset |-> Home[b] - (b - c.logical)],
         \A k \in 1 .. (j - 1) : c.stripes[k].devid # LocalDevid
  PROVE  b \in Readable(s, LocalDevid)
<1>0. /\ MapAssumptions /\ s \in Seq(MP!ChunkMapping) /\ MP!Disjoint(s)
      /\ DOMAIN s = 1 .. Len(s)
  BY MapAssumptionsHold, LenProperties DEF TableOK
<1>1. PICK i \in 1 .. Len(s) : s[i] = c
  BY <1>0 DEF MP!Elements
<1>2. c \in MP!ChunkMapping
  BY <1>0, <1>1, ElementOfSeq
<1>3. /\ c.logical \in Nat /\ c.length \in Nat /\ c.length <= MaxU64
      /\ c.stripes \in Seq(MP!Stripe) /\ MaxU64 \in Nat
  BY <1>0, <1>2 DEF MP!ChunkMapping, MP!U64, MapAssumptions
<1>4. /\ b \in MP!U64 /\ b \in Nat /\ Home[b] \in Nat /\ Home[b] <= MaxU64
      /\ LocalDevid # NoDevid
  BY <1>0, DeviceAssumption DEF M!U64, MP!U64, MapAssumptions
<1>5. DOMAIN c.stripes = 1 .. Len(c.stripes) /\ Len(c.stripes) \in Nat
  BY <1>3, LenProperties
<1>6. j \in 1 .. Len(c.stripes) /\ c.stripes[j].devid = LocalDevid
      /\ c.stripes[j].offset = Home[b] - (b - c.logical)
  BY <1>5
<1>7. MP!IsPicked(c, LocalDevid, j)
  BY <1>4, <1>6 DEF MP!IsPicked
<1>8. MP!PickVerdict(c, LocalDevid) = "ok"
  <2>1. c.profile \notin MP!RefusedProfiles
    BY DEF MP!ReadableProfiles, MP!RefusedProfiles
  <2>2. c.stripes # <<>>
    BY <1>5, <1>6
  <2> QED
    BY <2>1, <2>2, <1>6 DEF MP!PickVerdict
<1>9. c.stripes[j].offset + (b - c.logical) = Home[b]
  BY <1>3, <1>4, <1>6
<1>10. PICK r : r = MP!Resolved(b, s[i], s[i].stripes[j])
  OBVIOUS
<1>11. MP!IsResolution(s, LocalDevid, b, r)
  <2>1. /\ MP!Covers(s[i], b) /\ MP!PickVerdict(s[i], LocalDevid) = "ok"
        /\ j \in 1 .. Len(s[i].stripes) /\ MP!IsPicked(s[i], LocalDevid, j)
        /\ s[i].stripes[j].offset + (b - s[i].logical) <= MaxU64
    BY <1>1, <1>4, <1>6, <1>7, <1>8, <1>9
  <2>2. MP!IsResolution(s, LocalDevid, b, MP!Resolved(b, s[i], s[i].stripes[j]))
    BY <2>1, <1>0, <1>4, MP!CoverResolves DEF MapAssumptions
  <2> QED
    BY <2>2, <1>10
<1>12. PICK n : n = c.length - (b - c.logical)
  OBVIOUS
<1>13. n \in 1 .. MaxU64
  <2>1. c.logical <= b /\ b < c.logical + c.length
    BY DEF MP!Covers, MP!End
  <2>2. c.logical \in Int /\ c.length \in Int /\ b \in Int /\ MaxU64 \in Int
    BY <1>3, <1>4
  <2>3. n >= 1 /\ n <= c.length /\ n \in Int
    BY <1>12, <2>1, <2>2
  <2> QED
    BY <1>3, <2>2, <2>3
<1>14. r = M!ResolvedAt(b, LocalDevid, Home[b], n)
  BY <1>1, <1>6, <1>9, <1>10, <1>12 DEF MP!Resolved, MP!ResolvedAt, M!ResolvedAt
<1>15. M!IsResolution(s, LocalDevid, b, M!ResolvedAt(b, LocalDevid, Home[b], n))
  BY <1>11, <1>14, SameResolution
<1> QED
  BY <1>13, <1>15 DEF Readable

(* Once the array is parsed, every block of a sound tree is readable.      *)
LEMMA SoundTreeReadable ==
  ASSUME Ind, SoundInv, SoundFilesystem, phase = "walk"
  PROVE  WP!Below(disk, Root) \subseteq Readable(mappings, local_devid)
<1> SUFFICES ASSUME NEW b \in WP!Below(disk, Root)
             PROVE  b \in Readable(mappings, local_devid)
  OBVIOUS
<1>1. b \in W!Below(disk, Root) /\ b \in Blocks
  BY SameBelow DEF WP!Below
<1>2. PICK c \in SysChunks :
           /\ M!Covers(c, b) /\ c.profile \in M!ReadableProfiles
           /\ \E i \in DOMAIN c.stripes :
                /\ c.stripes[i] = [devid |-> LocalDevid, offset |-> Home[b] - (b - c.logical)]
                /\ \A j \in 1 .. (i - 1) : c.stripes[j].devid # LocalDevid
  BY <1>1 DEF SoundFilesystem
<1>3. MP!Covers(c, b) /\ c.profile \in MP!ReadableProfiles
  BY <1>2 DEF M!Covers, MP!Covers, M!End, MP!End, M!ReadableProfiles, MP!ReadableProfiles
<1>4. PICK i \in DOMAIN c.stripes :
           /\ c.stripes[i] = [devid |-> LocalDevid, offset |-> Home[b] - (b - c.logical)]
           /\ \A j \in 1 .. (i - 1) : c.stripes[j].devid # LocalDevid
  BY <1>2
<1>5. c \in MP!Elements(mappings)
  <2>1. /\ entry = Len(sys_array) + 1 /\ Len(sys_array) \in Nat
        /\ DOMAIN sys_array = 1 .. Len(sys_array)
    BY EntryChunk DEF SoundInv, Ind, MountInv
  <2>2. 1 .. (entry - 1) = DOMAIN sys_array
    BY <2>1
  <2>3. c \in FirstChunks(sys_array, entry)
    BY <2>2 DEF FirstChunks, SysChunks
  <2> QED
    BY <2>3 DEF Ind, TableInv, TableOf
<1>6. PICK s : s = mappings
  OBVIOUS
<1>7. TableOK(s) /\ c \in MP!Elements(s) /\ local_devid = LocalDevid
  BY <1>5, <1>6 DEF Ind, MountInv
<1>8. b \in Readable(s, LocalDevid)
  BY <1>1, <1>3, <1>4, <1>7, CoveredBlock
<1> QED
  BY <1>6, <1>7, <1>8

-----------------------------------------------------------------------------
(* The steps of the mount of a sound filesystem.                           *)
Kept == disk' = disk /\ sys_array' = sys_array /\ used' = used

(* Parsing: every entry is used, and its chunk is accepted.                *)
LEMMA ParseSound ==
  ASSUME Ind, SoundInv, ParseEntry \/ RefuseEntry \/ EntryPanics
  PROVE  SoundInv'
<1>1. ParsingArray /\ phase = "sys_array" /\ Kept
  BY DEF ParseEntry, RefuseEntry, EntryPanics, ParsingArray, treeVars, arrayVars, Kept
<1> SUFFICES ASSUME SoundFilesystem PROVE SoundInv'
  BY <1>1, SoundStays DEF SoundInv, Kept
<1>2. /\ entry \in 1 .. Len(sys_array) /\ EntryVerdict = "ok"
      /\ p + KeySize + EntrySize = PackedSize(sys_array)[entry]
  BY <1>1, SoundEntry
<1>3. ParseEntry
  BY <1>2 DEF RefuseEntry, EntryPanics
<1>4. PICK m : m = sys_array[entry].chunk
  OBVIOUS
<1>5. M!DoInsert(m)
  BY <1>3, <1>4 DEF ParseEntry, M!Insert
<1>6. /\ sys_array \in SysArrays /\ Len(sys_array) \in Nat
      /\ DOMAIN sys_array = 1 .. Len(sys_array) /\ m \in Chunks
  BY <1>2, <1>4, EntryChunk DEF Ind, MountInv
<1>7. m \in TreeChunks
  BY <1>2, <1>4, <1>6, TableOfTree DEF SysChunks
<1>8. m \notin MP!Elements(mappings)
  <2>1. delivered = <<>>
    BY <1>1 DEF Ind, MountInv
  <2>2. MP!Elements(mappings) = FirstChunks(sys_array, entry)
    BY <2>1, NothingAdded DEF Ind, TableInv, TableOf
  <2>3. PICK sa, n : sa = sys_array /\ n = entry
    OBVIOUS
  <2>4. sa \in SysArrays /\ Cardinality({sa[i].chunk : i \in DOMAIN sa}) = Len(sa)
    BY <2>3, <1>6 DEF SoundFilesystem, SysChunks
  <2>5. ASSUME NEW i \in 1 .. (n - 1), sa[i].chunk = m
        PROVE  FALSE
    <3>1. i \in 1 .. Len(sa) /\ n \in 1 .. Len(sa) /\ i # n
      BY <2>3, <1>2, <1>6
    <3>2. sa[i].chunk = sa[n].chunk
      BY <2>3, <2>5, <1>4
    <3> QED
      BY <3>1, <3>2, <2>4, EntriesDiffer
  <2> QED
    BY <2>2, <2>3, <2>5 DEF FirstChunks
<1>9. alive'
  BY <1>5, <1>6, <1>7, <1>8, TreeChunkAccepted
<1>10. /\ p' = p + KeySize + EntrySize /\ entry' = entry + 1 /\ phase' = phase
       /\ sys_array' = sys_array
  BY <1>3, <1>9 DEF ParseEntry
<1>11. p' = PackedSize(sys_array')[entry' - 1]
  <2>1. entry' - 1 = entry
    BY <1>2, <1>6, <1>10
  <2> QED
    BY <2>1, <1>2, <1>10
<1> QED
  BY <1>1, <1>10, <1>11 DEF SoundInv

(* The parser stops at the end of the last entry.                          *)
LEMMA ArrayDoneSound ==
  ASSUME Ind, SoundInv, ArrayDone
  PROVE  SoundInv'
<1>1. /\ phase = "sys_array" /\ phase' = "walk" /\ p >= used /\ Kept
      /\ p' = p /\ entry' = entry
  BY DEF ArrayDone, treeVars, arrayVars, Kept
<1> SUFFICES ASSUME SoundFilesystem PROVE SoundInv'
  BY <1>1, SoundStays DEF SoundInv, Kept
<1>2. PICK sa, n : sa = sys_array /\ n = entry
  OBVIOUS
<1> DEFINE f == PackedSize(sa)
           L == Len(sa)
<1>3. /\ sa \in SysArrays /\ L \in Nat /\ n \in 1 .. (L + 1)
  BY <1>2, EntryChunk DEF Ind, MountInv
<1>4. p = f[n - 1] /\ used = f[L]
  BY <1>2 DEF SoundInv, SoundFilesystem
<1>5. /\ \A i \in 0 .. L : f[i] \in Nat
      /\ \A i, j \in 0 .. L : i < j => f[i] < f[j]
  BY <1>3, PackedSizes
<1>6. n = L + 1
  <2> HIDE DEF f, L
  <2>1. n - 1 \in 0 .. L /\ L \in 0 .. L /\ (n = L + 1 \/ n - 1 < L)
    BY <1>3
  <2>2. ~(n - 1 < L)
    BY <2>1, <1>1, <1>4, <1>5
  <2> QED
    BY <2>1, <2>2
<1>7. p' = PackedSize(sys_array')[entry' - 1]
  BY <1>1, <1>2, <1>4 DEF Kept
<1>8. entry' = Len(sys_array') + 1
  BY <1>1, <1>2, <1>6 DEF Kept
<1> QED
  BY <1>1, <1>7, <1>8 DEF SoundInv

(* Nothing the walk meets in a sound tree ends the mount but a failed read. *)
LEMMA WalkOnSound ==
  ASSUME Ind, SoundInv, WalkOn
  PROVE  SoundInv'
<1>1. /\ phase = "walk" /\ UNCHANGED arrayVars
      /\ WP!Searching \/ WP!GotLocation \/ WP!EndOfLeaf
      /\ \/ phase' \in {"mounted", "walk"}
         \/ phase' = "failed" /\ walk' = "failed" /\ token' = result.token
  BY SameWalkSteps DEF WalkOn, Fail
<1>2. disk' = disk
  BY <1>1 DEF WP!Searching, WP!Call, WP!Search, WP!Bisect, WP!DescendStep, WP!FinishExact,
     WP!FinishFirstGe, WP!FinishNextLeaf, WP!GotLocation, WP!TakeResult, WP!EndOfLeaf, WP!btreeVars
<1>3. Kept /\ p' = p /\ entry' = entry
  BY <1>1, <1>2 DEF Kept, arrayVars
<1> SUFFICES ASSUME SoundFilesystem PROVE SoundInv'
  BY <1>3, SoundStays DEF SoundInv, Kept
<1>4. ASSUME phase' = "failed" PROVE token' = "tree_block_read"
  <2>1. walk' = "failed" /\ token' = result.token
    BY <1>1, <1>4
  <2>2. WP!GotLocation
    BY <2>1, <1>1 DEF WP!Searching, WP!walkVars, WP!EndOfLeaf
  <2>3. pc = "returned" /\ result.kind = "Err"
    BY <2>1, <2>2 DEF WP!GotLocation, WP!TakeResult
  <2>4. disk \in WP!IntactDisks /\ WP!WalkExact
    BY WellFormedTree DEF SoundFilesystem, Ind
  <2>5. WP!Below(disk, Root) \subseteq Readable(mappings, local_devid)
    BY <1>1, SoundTreeReadable
  <2>6. result.token = "tree_block_read"
    BY <2>3, <2>4, <2>5, WalkAssumptionsHold, WP!ReadableTreeFailure DEF WalkAssumptions
  <2> QED
    BY <2>1, <2>6
<1>5. /\ entry = Len(sys_array) + 1 /\ p = PackedSize(sys_array)[entry - 1]
      /\ phase' \in {"mounted", "walk", "failed"}
  BY <1>1 DEF SoundInv
<1> QED
  BY <1>3, <1>4, <1>5 DEF SoundInv, Kept

(* Nor does an item of it: none is malformed, and every chunk that is not  *)
(* there already is accepted.                                              *)
LEMMA ItemSound ==
  ASSUME Ind, SoundInv, PassOverItem \/ RefuseItem \/ AddChunkItem
  PROVE  SoundInv'
<1>1. /\ phase = "walk" /\ UNCHANGED arrayVars /\ W!MoreItems
      /\ W!TakeItem \/ W!RefuseItem
  BY DEF PassOverItem, RefuseItem, AddChunkItem
<1>2. disk' = disk
  BY <1>1 DEF W!TakeItem, W!RefuseItem, W!btreeVars
<1>3. Kept /\ p' = p /\ entry' = entry
  BY <1>1, <1>2 DEF Kept, arrayVars
<1> SUFFICES ASSUME SoundFilesystem PROVE SoundInv'
  BY <1>3, SoundStays DEF SoundInv, Kept
<1>4. W!ScanKey \in W!LeafKeys(disk, Root)
  <2>1. disk \in WP!IntactDisks /\ WP!WalkExact
    BY WellFormedTree DEF SoundFilesystem, Ind
  <2>2. WP!ScanKey \in WP!LeafKeys(disk, Root)
    BY <2>1, <1>1, SameWalkSteps, WalkAssumptionsHold, WP!ScanKeyInTree DEF WalkAssumptions
  <2> QED
    BY <2>2, SameWalkSteps, SameLeafKeys
<1>5. phase' = phase
  <2>1. CASE PassOverItem
    BY <2>1 DEF PassOverItem
  <2>2. CASE RefuseItem
    BY <2>2, <1>4 DEF RefuseItem, SoundFilesystem
  <2>3. CASE AddChunkItem
    <3>1. PICK k : k = W!ScanKey
      OBVIOUS
    <3>2. /\ k \in DOMAIN Payload /\ alive
          /\ alive' => phase' = phase
          /\ IF M!ContainsChunk(mappings, Payload[k].logical)
             THEN UNCHANGED <<mappings, alive>> ELSE M!DoInsert(Payload[k])
      BY <2>3, <3>1 DEF AddChunkItem, M!InsertIfAbsent
    <3>3. CASE M!ContainsChunk(mappings, Payload[k].logical)
      BY <3>2, <3>3
    <3>4. CASE ~M!ContainsChunk(mappings, Payload[k].logical)
      <4>1. PICK m : m = Payload[k]
        OBVIOUS
      <4>2. m \in TreeChunks /\ m \in Chunks
        BY <4>1, <3>1, <3>2, <1>4, PayloadAssumption DEF TreeChunks
      <4>3. m \notin MP!Elements(mappings)
        <5>1. DOMAIN mappings = 1 .. Len(mappings)
          BY LenProperties DEF Ind, MountInv, TableOK
        <5> QED
          BY <5>1, <4>1, <3>4 DEF M!ContainsChunk, MP!Elements
      <4>4. alive'
        BY <4>1, <4>2, <4>3, <3>2, <3>4, TreeChunkAccepted
      <4> QED
        BY <4>4, <3>2
    <3> QED
      BY <3>3, <3>4
  <2> QED
    BY <2>1, <2>2, <2>3
<1>6. entry = Len(sys_array) + 1 /\ p = PackedSize(sys_array)[entry - 1]
  BY <1>1 DEF SoundInv
<1> QED
  BY <1>1, <1>3, <1>5, <1>6 DEF SoundInv, Kept

\* The parser starts at the first entry.
LEMMA InitSoundInv == Init => SoundInv
<1> SUFFICES ASSUME Init PROVE SoundInv
  OBVIOUS
<1>1. /\ phase = "new" /\ entry = 1 /\ p = 0 /\ sys_array \in SysArrays
  BY DEF Init
<1>2. PackedSize(sys_array)[0] = 0
  BY <1>1, PackedSizes
<1> QED
  BY <1>1, <1>2 DEF SoundInv

\* Every step of the mount of a sound filesystem keeps to it.
LEMMA NextSoundInv ==
  ASSUME Ind, SoundInv, [Next]_vars
  PROVE  SoundInv'
<1>1. CASE RecordDevice \/ Done \/ UNCHANGED vars
  <2>1. /\ Kept /\ p' = p /\ entry' = entry /\ token' = token
        /\ phase' = phase \/ phase' = "sys_array"
    BY <1>1 DEF RecordDevice, Done, vars, treeVars, arrayVars, Kept
  <2>2. SoundFilesystem' <=> SoundFilesystem
    BY <2>1, SoundStays DEF Kept
  <2> QED
    BY <2>1, <2>2 DEF SoundInv, Kept
<1> QED
  BY <1>1, ParseSound, ArrayDoneSound, WalkOnSound, ItemSound DEF Next

(* A filesystem as its driver writes it mounts, whatever its chunks, the   *)
(* split of its chunk tree over leaves and the part of it the array        *)
(* repeats: the parser indexes nothing past the array, no insert is        *)
(* refused, the tree's blocks are readable before the walk needs them, so  *)
(* the one way to fail is a read that fails.                               *)
THEOREM SoundFilesystemsMount == Spec => []SoundFilesystemMounts
<1>1. Ind /\ SoundInv /\ [Next]_vars => SoundInv'
  BY NextSoundInv
<1>2. SoundInv => SoundFilesystemMounts
  BY DEF SoundInv, SoundFilesystemMounts
<1> QED
  BY <1>1, <1>2, InitSoundInv, MountInvariant, PTL DEF Spec
=============================================================================
