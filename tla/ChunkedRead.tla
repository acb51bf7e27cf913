---------------------------- MODULE ChunkedRead -----------------------------
(***************************************************************************)
(* Reading a logical byte range through the chunk map: the loops of        *)
(* read_tree_block (src/src/btree.rs) and read_through_chunks              *)
(* (src/src/file.rs), which join the runs resolve returns, over the        *)
(* BlockRead of src/src/block_read.rs.  They are resolve's only callers,   *)
(* and the table may have grown between two reads, never during one.       *)
(*                                                                         *)
(* A byte of the buffer is the place it was read from: reading is right    *)
(* when every byte comes from where the whole table puts its address.      *)
(***************************************************************************)
EXTENDS ChunkMap

CONSTANTS
  DeviceLen,     \* bytes the device has
  UsizeSpan,     \* 2^32 or 2^64: the values of a usize
  Starts,        \* addresses a caller may read from
  Lens,          \* buffer lengths a caller may pass (nodesize for a block)
  MaxMappings    \* bound: chunks are offered while the table is shorter

ASSUME DeviceAssumption == DeviceLen \in U64
ASSUME UsizeAssumption == UsizeSpan \in 1 .. (MaxU64 + 1)
ASSUME RangesAssumption == Starts \subseteq U64 /\ Lens \subseteq 1 .. (UsizeSpan - 1)
ASSUME MaxMappingsAssumption == MaxMappings \in Nat

VARIABLES
  reader,     \* "none", "read_tree_block" or "read_through_chunks"
  start,      \* the logical address asked for
  len,        \* buf.len()
  buf,        \* the bytes written so far
  outcome     \* "idle", "running", "done", or the token of an error

readVars == <<reader, start, len, buf, outcome>>
allVars  == <<vars, readVars>>

Place(r, k) == [devid |-> r.devid, physical |-> r.physical + k]

(* BlockRead::read_at of a device that is read in full or not at all; the  *)
(* sum is unbounded, where the slice adapter fails on each overflow.       *)
InBounds(offset, n) == offset + n <= DeviceLen

(* The Error::Io token each caller gives a failed read_at.                 *)
IoToken(op) == IF op = "read_tree_block" THEN "tree_block_read" ELSE "extent_read"

SmallerOf(a, b) == IF a <= b THEN a ELSE b

(* Mutant of Take: the run is taken as one byte shorter than it is, as if  *)
(* its length were the index of its last byte.                             *)
TakeLessOne(op, rest, n) == SmallerOf(rest, n - 1)

(* Bytes taken from a run of n when `rest` are missing.  read_tree_block   *)
(* takes the minimum as u64; read_through_chunks casts the run's length to *)
(* usize first.                                                            *)
Take(op, rest, n) ==
  IF op = "read_tree_block" THEN SmallerOf(rest, n) ELSE SmallerOf(rest, n % UsizeSpan)

-----------------------------------------------------------------------------
ReadInit ==
  /\ Init
  /\ reader = "none"
  /\ start = 0
  /\ len = 0
  /\ buf = <<>>
  /\ outcome = "idle"

(* The cursor is resolved, whatever becomes of the answer.                 *)
ResolveCursor(op, s, n, b) ==
  /\ alive
  /\ reader' = op /\ start' = s /\ len' = n
  /\ IsResolution(mappings, local_devid, s + Len(b), answer')
  /\ UNCHANGED <<mappings, local_devid, alive>>

(* Mutant of LoopTurn: the loop runs on until resolve has been asked for   *)
(* the byte after the buffer's last.                                       *)
LoopTurnPastEnd(op, s, n, b) ==
  /\ ResolveCursor(op, s, n, b)
  /\ \/ /\ answer'.verdict # "ok"
        /\ buf' = b /\ outcome' = answer'.verdict
     \/ LET take == Take(op, n - Len(b), answer'.contiguous_bytes) IN
        /\ answer'.verdict = "ok"
        /\ InBounds(answer'.physical, take)
        /\ buf' = b \o [k \in 1 .. take |-> Place(answer', k - 1)]
        /\ outcome' = IF Len(b) = n THEN "done" ELSE "running"

(* One turn of the loop with b written so far: resolve the cursor, take    *)
(* what the run and the buffer allow, read it.                             *)
LoopTurn(op, s, n, b) ==
  /\ ResolveCursor(op, s, n, b)
  /\ \/ /\ answer'.verdict # "ok"
        /\ buf' = b /\ outcome' = answer'.verdict
     \/ LET take == Take(op, n - Len(b), answer'.contiguous_bytes) IN
        /\ answer'.verdict = "ok"
        /\ InBounds(answer'.physical, take)
        /\ buf' = b \o [k \in 1 .. take |-> Place(answer', k - 1)]
        /\ outcome' = IF Len(b) + take = n THEN "done" ELSE "running"

(* A turn whose read_at fails: past the device's end it must, elsewhere it *)
(* may.                                                                    *)
TurnFails(op, s, n, b) ==
  /\ ResolveCursor(op, s, n, b)
  /\ answer'.verdict = "ok"
  /\ buf' = b /\ outcome' = IoToken(op)

(* A caller asks for n > 0 bytes at s: the first turn.                     *)
BeginRead(op, s, n) ==
  /\ outcome = "idle"
  /\ LoopTurn(op, s, n, <<>>) \/ TurnFails(op, s, n, <<>>)

ReadOn    == outcome = "running" /\ LoopTurn(reader, start, len, buf)
ReadFails == outcome = "running" /\ TurnFails(reader, start, len, buf)

(* Beyond the device's end no read succeeds.                               *)
PastDevice ==
  /\ answer'.verdict = "ok"
  /\ ~InBounds(answer'.physical, Take(reader, len - Len(buf), answer'.contiguous_bytes))

TakeBytes ==
  /\ outcome \notin {"idle", "running"}
  /\ reader' = "none" /\ start' = 0 /\ len' = 0 /\ buf' = <<>> /\ outcome' = "idle"
  /\ UNCHANGED vars

(* The mount's calls on the table, between reads.                          *)
Extend ==
  /\ outcome = "idle"
  /\ \/ \E d \in Devids : SetLocalDevid(d)
     \/ /\ Len(mappings) < MaxMappings
        /\ \E m \in Chunks : Insert(m) \/ InsertIfAbsent(m)
  /\ UNCHANGED readVars

ReadNext ==
  \/ Extend
  \/ \E op \in {"read_tree_block", "read_through_chunks"}, s \in Starts, n \in Lens :
       BeginRead(op, s, n)
  \/ ReadOn
  \/ ReadFails
  \/ TakeBytes

(* The loop waits for nothing: a reader always answers, and a device that  *)
(* is never read past its end need not fail.                               *)
ReadSpec ==
  /\ ReadInit /\ [][ReadNext]_allVars
  /\ WF_allVars(ReadOn \/ (ReadFails /\ PastDevice))

-----------------------------------------------------------------------------
(* The table puts address l at the place p.                                *)
Puts(l, p) ==
  \E n \in 1 .. MaxU64 :
    IsResolution(mappings, local_devid, l, ResolvedAt(l, p.devid, p.physical, n))

(* However the chunks cut the range, each byte of the buffer is the one    *)
(* the table puts at its address, in order; no write goes past the         *)
(* buffer's end, and a read that returns Ok has filled it.  A run whose    *)
(* device offsets would pass u64::MAX, which resolve does not check beyond *)
(* its first byte, is stopped by the device's own end.                     *)
ReadIsExact ==
  /\ Len(buf) <= len
  /\ \A k \in 1 .. Len(buf) : Puts(start + k - 1, buf[k])
  /\ outcome = "done" => Len(buf) = len

(* A range the table maps in full is never refused by the map: a read that *)
(* fails with one of resolve's tokens asked for an address that has no     *)
(* place.                                                                  *)
RefusedForCause ==
  outcome \notin {"idle", "running", "done", "tree_block_read", "extent_read"} =>
    \E k \in 0 .. (len - 1) :
      IsResolution(mappings, local_devid, start + k, Unresolved(start + k, outcome))

(* The loop ends: each turn takes at least one byte.  A turn that takes    *)
(* none leaves every variable as it was and shows as stuttering for ever.  *)
ReadReturns == (outcome = "running") ~> (outcome # "running")
=============================================================================
