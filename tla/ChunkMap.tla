------------------------------ MODULE ChunkMap ------------------------------
(***************************************************************************)
(* The in-memory chunk map of src/src/chunk_tree.rs: the table that turns  *)
(* a logical address of the filesystem into a byte offset of the device    *)
(* being read.  Mappings come from a disk that may be damaged, so insert   *)
(* must keep the table sorted and non-overlapping whatever it is given,    *)
(* and resolve, called between inserts while the chunk tree is being read, *)
(* must never send a read to the wrong place.                              *)
(*                                                                         *)
(* The map's callers are in ChunkTree.tla; here any sequence of calls on   *)
(* one map is allowed, with the one rule they all follow: an insert that   *)
(* fails ends the map's life (`?` drops it with the failed mount).         *)
(***************************************************************************)
EXTENDS Integers, SequencesExt

CONSTANTS
  MaxU64,      \* u64::MAX
  Devids,      \* device ids a stripe may name
  NoDevid,     \* local_devid = None
  Chunks       \* the chunk mappings the disk offers to insert

U64 == 0 .. MaxU64

\* The profile bits of a chunk type.  "unknown" is any other combination.
ReadableProfiles == {"single", "DUP", "RAID1", "RAID1C3", "RAID1C4"}
RefusedProfiles  == {"RAID0", "RAID10", "RAID5", "RAID6", "unknown"}

Stripe == [devid : Devids, offset : U64]

ChunkMapping == [logical : U64, length : U64,
                 profile : ReadableProfiles \cup RefusedProfiles,
                 stripes : Seq(Stripe)]

ASSUME MaxU64Assumption == MaxU64 \in Nat
ASSUME NoDevidAssumption == NoDevid \notin Devids
ASSUME ChunksAssumption == Chunks \subseteq ChunkMapping

VARIABLES
  mappings,     \* ChunkMap.mappings, the sorted Vec
  local_devid,  \* ChunkMap.local_devid
  alive,        \* FALSE once an insert has failed and the map was dropped
  answer        \* what the last call returned

vars == <<mappings, local_devid, alive, answer>>

-----------------------------------------------------------------------------
(* One past the last logical address of a mapping.  The sums are unbounded *)
(* here; checked_add fails exactly when one exceeds MaxU64.                *)
End(m) == m.logical + m.length

Covers(m, l) == m.logical <= l /\ l < End(m)

(* pos (1-based) splits s where `logical < l` stops holding: what          *)
(* partition_point returns in insert.                                      *)
PartitionLess(s, l, pos) ==
  /\ \A i \in 1 .. (pos - 1) : s[i].logical < l
  /\ \A i \in pos .. Len(s) : s[i].logical >= l

(* Mutant of PartitionLessEq: the strict comparison of insert, so that an  *)
(* address at the very start of a chunk is looked for in the one before.   *)
PartitionLessEqStrict(s, l, pos) == PartitionLess(s, l, pos)

(* pos splits s where `logical <= l` stops holding: partition_point in     *)
(* resolve.                                                                *)
PartitionLessEq(s, l, pos) ==
  /\ \A i \in 1 .. (pos - 1) : s[i].logical <= l
  /\ \A i \in pos .. Len(s) : s[i].logical > l

(* Mutants of InsertVerdict: the check against the next mapping, or the    *)
(* one against the previous mapping, is missing.                           *)
InsertVerdictNoNext(s, m, pos) ==
  IF pos > 1 /\ End(s[pos - 1]) > m.logical THEN "chunk_overlap"
  ELSE IF End(m) > MaxU64 THEN "chunk_overflow"
  ELSE "ok"

InsertVerdictNoPrev(s, m, pos) ==
  IF End(m) > MaxU64 THEN "chunk_overflow"
  ELSE IF pos <= Len(s) /\ End(m) > s[pos].logical THEN "chunk_overlap"
  ELSE "ok"

(* The verdict of insert for mapping m at position pos, the checks in the  *)
(* order the code makes them.                                              *)
InsertVerdict(s, m, pos) ==
  IF pos > 1 /\ End(s[pos - 1]) > MaxU64 THEN "chunk_overflow"
  ELSE IF pos > 1 /\ End(s[pos - 1]) > m.logical THEN "chunk_overlap"
  ELSE IF End(m) > MaxU64 THEN "chunk_overflow"
  ELSE IF pos <= Len(s) /\ End(m) > s[pos].logical THEN "chunk_overlap"
  ELSE "ok"

(* Mutant of IsPicked: always the first stripe.                            *)
IsPickedFirst(m, d, i) == i \in 1 .. Len(m.stripes) /\ i = 1

(* The first stripe on the device being read, or the first of all when no  *)
(* device is recorded.                                                     *)
IsPicked(m, d, i) ==
  /\ i \in 1 .. Len(m.stripes)
  /\ IF d = NoDevid
     THEN i = 1
     ELSE /\ m.stripes[i].devid = d
          /\ \A j \in 1 .. (i - 1) : m.stripes[j].devid # d

(* The error pick_stripe returns, or "ok". *)
PickVerdict(m, d) ==
  IF m.profile \in RefusedProfiles THEN "prof_refused"
  ELSE IF m.stripes = <<>> THEN "prof_no_stripes"
  ELSE IF d # NoDevid /\ \A i \in 1 .. Len(m.stripes) : m.stripes[i].devid # d
       THEN "prof_other_device"
  ELSE "ok"

Unresolved(l, why) == [op |-> "resolve", logical |-> l, verdict |-> why]

ResolvedAt(l, devid, physical, n) ==
  [op |-> "resolve", logical |-> l, verdict |-> "ok",
   devid |-> devid, physical |-> physical, contiguous_bytes |-> n]

(* Mutant of Resolved: the run is as long as the chunk, wherever in the    *)
(* chunk the address is.                                                   *)
ResolvedWholeChunk(l, m, st) ==
  ResolvedAt(l, st.devid, st.offset + (l - m.logical), m.length)

(* SINGLE, DUP and RAID1* stripes hold the chunk linearly.                 *)
Resolved(l, m, st) ==
  ResolvedAt(l, st.devid, st.offset + (l - m.logical), m.length - (l - m.logical))

(* r is what resolve(l) returns on table s for local device d.             *)
IsResolution(s, d, l, r) ==
  \E pos \in 1 .. (Len(s) + 1) :
    /\ PartitionLessEq(s, l, pos)
    /\ IF pos = 1 THEN r = Unresolved(l, "chunk_unmapped")
       ELSE LET m == s[pos - 1] IN
         IF End(m) > MaxU64 THEN r = Unresolved(l, "chunk_overflow")
         ELSE IF l >= End(m) THEN r = Unresolved(l, "chunk_unmapped")
         ELSE IF PickVerdict(m, d) # "ok" THEN r = Unresolved(l, PickVerdict(m, d))
         ELSE \E i \in 1 .. Len(m.stripes) :
                /\ IsPicked(m, d, i)
                /\ IF m.stripes[i].offset + (l - m.logical) > MaxU64
                   THEN r = Unresolved(l, "chunk_overflow")
                   ELSE r = Resolved(l, m, m.stripes[i])

(* contains(l): some mapping starts exactly at l.                          *)
ContainsChunk(s, l) == \E i \in 1 .. Len(s) : s[i].logical = l

-----------------------------------------------------------------------------
Init ==
  /\ mappings = <<>>
  /\ local_devid = NoDevid
  /\ alive = TRUE
  /\ answer = [op |-> "none"]

(* mount records the device before anything is inserted; the bootstrap     *)
(* fuzz entry point never does.                                            *)
SetLocalDevid(d) ==
  /\ alive
  /\ mappings = <<>>
  /\ local_devid = NoDevid
  /\ local_devid' = d
  /\ answer' = [op |-> "set_local_devid"]
  /\ UNCHANGED <<mappings, alive>>

(* Mutant of DoInsert: the table holds each stripe's offset less the       *)
(* chunk's start, to save resolve a subtraction.                           *)
DoInsertBiased(m) ==
  \E pos \in 1 .. (Len(mappings) + 1) :
    LET verdict == InsertVerdict(mappings, m, pos)
        biased == [m EXCEPT !.stripes =
                     [i \in DOMAIN m.stripes |-> [m.stripes[i] EXCEPT !.offset = @ - m.logical]]]
    IN
    /\ PartitionLess(mappings, m.logical, pos)
    /\ mappings' = IF verdict = "ok" THEN InsertAt(mappings, pos, biased) ELSE mappings
    /\ alive' = (verdict = "ok")
    /\ answer' = [op |-> "insert", logical |-> m.logical, verdict |-> verdict]

(* Mutant of DoInsert: a mapping of the same range replaces the old one.   *)
DoInsertReplaces(m) ==
  \E pos \in 1 .. (Len(mappings) + 1) :
    LET same == /\ pos <= Len(mappings)
                /\ mappings[pos].logical = m.logical /\ mappings[pos].length = m.length
        verdict == IF same THEN "ok" ELSE InsertVerdict(mappings, m, pos)
    IN
    /\ PartitionLess(mappings, m.logical, pos)
    /\ mappings' = IF same THEN [mappings EXCEPT ![pos] = m]
                   ELSE IF verdict = "ok" THEN InsertAt(mappings, pos, m) ELSE mappings
    /\ alive' = (verdict = "ok")
    /\ answer' = [op |-> "insert", logical |-> m.logical, verdict |-> verdict]

(* ChunkMap::insert: the mapping goes in at the partition point, or the    *)
(* table stays as it is and the caller gives the map up.                   *)
DoInsert(m) ==
  \E pos \in 1 .. (Len(mappings) + 1) :
    LET verdict == InsertVerdict(mappings, m, pos) IN
    /\ PartitionLess(mappings, m.logical, pos)
    /\ mappings' = IF verdict = "ok" THEN InsertAt(mappings, pos, m) ELSE mappings
    /\ alive' = (verdict = "ok")
    /\ answer' = [op |-> "insert", logical |-> m.logical, verdict |-> verdict]

(* parse_system_chunk_array inserts each of its entries unconditionally.   *)
Insert(m) ==
  /\ alive
  /\ DoInsert(m)
  /\ UNCHANGED local_devid

(* Mutant of InsertIfAbsent: the duplicates are not skipped.               *)
InsertIfAbsentAlways(m) == Insert(m)

(* populate_from_chunk_tree skips an item whose start is already present,  *)
(* so a chunk the system array gave keeps the mapping given there.         *)
InsertIfAbsent(m) ==
  /\ alive
  /\ IF ContainsChunk(mappings, m.logical)
     THEN /\ answer' = [op |-> "insert", logical |-> m.logical, verdict |-> "present"]
          /\ UNCHANGED <<mappings, alive>>
     ELSE DoInsert(m)
  /\ UNCHANGED local_devid

Resolve(l) ==
  /\ alive
  /\ IsResolution(mappings, local_devid, l, answer')
  /\ UNCHANGED <<mappings, local_devid, alive>>

Next ==
  \/ \E d \in Devids : SetLocalDevid(d)
  \/ \E m \in Chunks : Insert(m)
  \/ \E m \in Chunks : InsertIfAbsent(m)
  \/ \E l \in U64 : Resolve(l)

Spec == Init /\ [][Next]_vars
-----------------------------------------------------------------------------
(* Every variable keeps its shape.                                         *)
TypeOK ==
  /\ mappings \in Seq(ChunkMapping)
  /\ local_devid \in Devids \cup {NoDevid}
  /\ alive \in BOOLEAN
  /\ answer.op \in {"none", "set_local_devid", "insert", "resolve"}

(* The table's own contract ("Sorted by `logical`, non-overlapping"), for  *)
(* any chunks a disk may offer, zero-length and overflowing ones included: *)
(* no mapping reaches past the end of the address space, and a mapping     *)
(* ends before any later one begins.                                       *)
Disjoint(s) ==
  /\ \A i \in 1 .. Len(s) : End(s[i]) <= MaxU64
  /\ \A i, j \in 1 .. Len(s) : i < j => End(s[i]) <= s[j].logical

NonOverlapping == Disjoint(mappings)

(* resolve's answer, from its predecessor search alone, is the answer of   *)
(* the whole table: success names a place inside the one mapping that      *)
(* covers the address, and chunk_unmapped means no mapping covers it.      *)
ResolveIsExact ==
  answer.op = "resolve" =>
    LET l == answer.logical
        Cover == {i \in 1 .. Len(mappings) : Covers(mappings[i], l)}
    IN /\ answer.verdict = "ok" =>
            \E i \in Cover : \E k \in 1 .. Len(mappings[i].stripes) :
               LET m == mappings[i]
                   st == m.stripes[k] IN
               /\ Cover = {i}
               /\ m.profile \in ReadableProfiles
               /\ answer.devid = st.devid
               /\ answer.physical - st.offset = l - m.logical
               /\ l + answer.contiguous_bytes = End(m)
               /\ answer.contiguous_bytes > 0
       /\ answer.verdict = "chunk_unmapped" => Cover = {}
       /\ answer.verdict \in {"prof_refused", "prof_no_stripes", "prof_other_device"}
            => Cover # {}

(* A read never goes to another device of a multi-device filesystem: when  *)
(* the local device is recorded, an address resolves only to it, and is    *)
(* refused only when the covering chunk has no copy there.                 *)
ReadsLocalDevice ==
  (answer.op = "resolve" /\ local_devid # NoDevid) =>
    /\ answer.verdict = "ok" => answer.devid = local_devid
    /\ answer.verdict = "prof_other_device" =>
         \A i \in 1 .. Len(mappings) : Covers(mappings[i], answer.logical) =>
           \A k \in 1 .. Len(mappings[i].stripes) :
             mappings[i].stripes[k].devid # local_devid

(* Where the table sends an address never changes while chunks are added,  *)
(* so the chunk tree read through the system chunks stays the same tree as *)
(* the walk over it extends the table: a mapping that was accepted is      *)
(* neither moved, shadowed nor dropped by a later insert, good or bad.     *)
Covering(s, l) == {s[i] : i \in {j \in 1 .. Len(s) : Covers(s[j], l)}}

AddressesAreStable ==
  [][\A l \in U64 : Covering(mappings, l) # {} =>
        Covering(mappings', l) = Covering(mappings, l)]_vars

(* The run of contiguous_bytes a resolution promises is really one run:    *)
(* read_tree_block and read_through_chunks read that many bytes in one     *)
(* call, so every address in the run must resolve to the matching offset   *)
(* of the same device (as far as the device offset fits in a u64).         *)
RunIsLinear ==
  (answer.op = "resolve" /\ answer.verdict = "ok") =>
    \A k \in 0 .. (answer.contiguous_bytes - 1) :
      answer.physical + k <= MaxU64 =>
        IsResolution(mappings, local_devid, answer.logical + k,
          ResolvedAt(answer.logical + k, answer.devid, answer.physical + k,
                     answer.contiguous_bytes - k))
=============================================================================
