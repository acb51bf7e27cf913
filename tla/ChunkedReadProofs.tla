------------------------- MODULE ChunkedReadProofs --------------------------
(***************************************************************************)
(* Proofs about ChunkedRead: a read is a sequence of the chunk map's own   *)
(* calls, so what ChunkMapProofs shows of the map holds while it is read   *)
(* through; every byte a read returns is the one the table puts at its     *)
(* address; and a read the table refuses met an address without a place.   *)
(* For any table, device, usize width, start and buffer length.            *)
(***************************************************************************)
EXTENDS ChunkedRead, ChunkMapProofs

Readers == {"read_tree_block", "read_through_chunks"}

Places == [devid : Devids, physical : U64]

ResolveTokens == {"chunk_unmapped", "chunk_overflow", "prof_refused",
                  "prof_no_stripes", "prof_other_device"}

(* Puts, of any table mp and local device d.                               *)
PutsIn(mp, d, l, p) ==
  \E n \in 1 .. MaxU64 : IsResolution(mp, d, l, ResolvedAt(l, p.devid, p.physical, n))

(* The state of a read of n bytes at s with b written: the cursor stays in *)
(* the address space and the buffer, and each byte is where the table puts *)
(* it.                                                                     *)
Progress(mp, d, s, n, b) ==
  /\ s \in U64 /\ n \in Nat /\ b \in Seq(Places)
  /\ Len(b) <= n
  /\ s + Len(b) <= MaxU64
  /\ \A k \in 1 .. Len(b) : PutsIn(mp, d, s + k - 1, b[k])

(* The inductive invariant.  An idle reader holds no bytes, which is what  *)
(* lets the table grow between reads; a running one has room left, so the  *)
(* address it resolves next is one the caller asked for.                   *)
ReadInv ==
  /\ Progress(mappings, local_devid, start, len, buf)
  /\ outcome = "idle" => buf = <<>>
  /\ outcome = "running" => reader \in Readers /\ Len(buf) < len
  /\ outcome = "done" => Len(buf) = len
  /\ RefusedForCause

-----------------------------------------------------------------------------
(* A refusal of resolve carries its own token and nothing else.            *)
LEMMA Refusal ==
  ASSUME NEW s \in Seq(ChunkMapping), NEW d, NEW l \in U64, NEW r,
         IsResolution(s, d, l, r), r.verdict # "ok"
  PROVE  r = Unresolved(l, r.verdict) /\ r.verdict \in ResolveTokens
<1>1. \A m, st : r # Resolved(l, m, st)
  BY DEF Resolved, ResolvedAt
<1>2. \A m : PickVerdict(m, d) # "ok" => PickVerdict(m, d) \in ResolveTokens
  BY DEF PickVerdict, ResolveTokens
<1>3. \E why \in ResolveTokens : r = Unresolved(l, why)
  <2>1. "chunk_unmapped" \in ResolveTokens /\ "chunk_overflow" \in ResolveTokens
    BY DEF ResolveTokens
  <2> QED
    BY <1>1, <1>2, <2>1, ResolutionCases
<1> QED
  BY <1>3 DEF Unresolved

(* A turn never takes more than the run has or the buffer misses, whatever *)
(* the cast to usize makes of the run's length.                            *)
LEMMA TakeBounds ==
  ASSUME NEW op, NEW rest \in Nat, NEW n \in Nat
  PROVE  Take(op, rest, n) \in Nat /\ Take(op, rest, n) <= rest /\ Take(op, rest, n) <= n
<1>1. UsizeSpan \in Nat /\ UsizeSpan > 0
  BY UsizeAssumption, MaxU64Assumption
<1>2. n % UsizeSpan \in Nat /\ n % UsizeSpan <= n
  BY <1>1
<1> QED
  BY <1>2 DEF Take, SmallerOf

(* The place of the byte k of a run, as far as the device holds it.        *)
LEMMA RunPuts ==
  ASSUME NEW mp \in Seq(ChunkMapping), Disjoint(mp), NEW d, NEW l \in U64, NEW r,
         IsResolution(mp, d, l, r), r.verdict = "ok",
         NEW k \in 0 .. (r.contiguous_bytes - 1), r.physical + k <= MaxU64
  PROVE  Place(r, k) \in Places /\ PutsIn(mp, d, l + k, Place(r, k))
<1>0. MaxU64 \in Nat
  BY MaxU64Assumption
<1>1. r.physical \in U64 /\ r.contiguous_bytes \in 1 .. MaxU64
  BY <1>0, OkResolutionBounds
<1>2. IsResolution(mp, d, l + k,
        ResolvedAt(l + k, r.devid, r.physical + k, r.contiguous_bytes - k))
  BY <1>0, RunContinues
<1>3. r.devid \in Devids
  <2>1. PICK pos \in 2 .. (Len(mp) + 1) : \E j \in 1 .. Len(mp[pos - 1].stripes) :
          /\ mp[pos - 1].stripes[j] \in Stripe
          /\ r = Resolved(l, mp[pos - 1], mp[pos - 1].stripes[j])
    BY <1>0, OkResolution
  <2>2. PICK st, m : st \in Stripe /\ r = Resolved(l, m, st)
    BY <2>1
  <2> QED
    BY <2>2 DEF Resolved, ResolvedAt, Stripe
<1>4. Place(r, k) \in Places
  <2>1. r.physical + k \in U64
    BY <1>0, <1>1 DEF U64
  <2> QED
    BY <2>1, <1>3 DEF Place, Places
<1>5. r.contiguous_bytes - k \in 1 .. MaxU64
  BY <1>0, <1>1
<1>6. Place(r, k).devid = r.devid /\ Place(r, k).physical = r.physical + k
  BY DEF Place
<1>7. PutsIn(mp, d, l + k, Place(r, k))
  BY <1>2, <1>5, <1>6, Zenon DEF PutsIn
<1> QED
  BY <1>4, <1>7

(* The buffer after a turn that took `take` bytes of the run r.            *)
Written(b, r, take) == b \o [k \in 1 .. take |-> Place(r, k - 1)]

(* The bytes of one turn go to the end of the buffer, each to its place.   *)
LEMMA TurnExtends ==
  ASSUME NEW mp \in Seq(ChunkMapping), Disjoint(mp), NEW d, NEW op, NEW s, NEW n, NEW b, Progress(mp, d, s, n, b),
         NEW r, IsResolution(mp, d, s + Len(b), r), r.verdict = "ok",
         NEW take, take = Take(op, n - Len(b), r.contiguous_bytes),
         InBounds(r.physical, take)
  PROVE  /\ Progress(mp, d, s, n, Written(b, r, take))
         /\ Len(Written(b, r, take)) = Len(b) + take /\ take \in Nat
<1> DEFINE c == Written(b, r, take)
<1>0. /\ MaxU64 \in Nat
      /\ DeviceLen \in Nat /\ DeviceLen <= MaxU64
  BY MaxU64Assumption, DeviceAssumption DEF U64
<1>1. /\ s \in Nat /\ n \in Nat /\ b \in Seq(Places) /\ Len(b) \in Nat /\ Len(b) <= n
      /\ s + Len(b) <= MaxU64 /\ s \in U64
      /\ \A k \in 1 .. Len(b) : PutsIn(mp, d, s + k - 1, b[k])
  BY LenProperties, <1>0 DEF Progress, U64
<1> DEFINE l == s + Len(b)
<1>2. l \in U64 /\ l \in Nat
  BY <1>0, <1>1 DEF U64
<1>3. /\ r.physical \in U64 /\ r.contiguous_bytes \in 1 .. MaxU64
      /\ l + r.contiguous_bytes <= MaxU64
  BY <1>0, <1>2, OkResolutionBounds
<1>4. r.physical \in Nat /\ r.contiguous_bytes \in Nat
  BY <1>3, <1>0 DEF U64
<1>5. take \in Nat /\ take <= n - Len(b) /\ take <= r.contiguous_bytes
  <2>1. n - Len(b) \in Nat
    BY <1>1
  <2> QED
    BY <2>1, <1>4, TakeBounds
<1>6. r.physical + take <= MaxU64
  BY <1>0, <1>4, <1>5 DEF InBounds
<1>7. ASSUME NEW k \in 1 .. take
      PROVE  Place(r, k - 1) \in Places /\ PutsIn(mp, d, l + (k - 1), Place(r, k - 1))
  <2>1. k - 1 \in 0 .. (r.contiguous_bytes - 1) /\ r.physical + (k - 1) <= MaxU64
    BY <1>0, <1>4, <1>5, <1>6
  <2> QED
    BY <2>1, <1>2, RunPuts
<1> DEFINE t == [k \in 1 .. take |-> Place(r, k - 1)]
<1>8. t \in Seq(Places) /\ Len(t) = take /\ \A k \in 1 .. take : t[k] = Place(r, k - 1)
  BY <1>5, <1>7
<1> HIDE DEF t, l, c
<1>9. /\ c \in Seq(Places) /\ Len(c) = Len(b) + take
      /\ \A i \in 1 .. (Len(b) + take) : c[i] = IF i <= Len(b) THEN b[i] ELSE t[i - Len(b)]
  <2>1. c = b \o t
    BY DEF t, c, Written
  <2>2. /\ b \o t \in Seq(Places) /\ Len(b \o t) = Len(b) + Len(t)
        /\ \A i \in 1 .. (Len(b) + Len(t)) :
             (b \o t)[i] = IF i <= Len(b) THEN b[i] ELSE t[i - Len(b)]
    BY <1>1, <1>8, ConcatProperties, Zenon
  <2> QED
    BY <2>1, <2>2, <1>8, Zenon
<1>10. Len(c) <= n /\ s + Len(c) <= MaxU64
  <2>1. \A x, y, rn \in Nat :
          (x <= n /\ y <= n - x /\ y <= rn /\ (s + x) + rn <= MaxU64)
            => x + y <= n /\ s + (x + y) <= MaxU64
    BY <1>0, <1>1
  <2> QED
    BY <2>1, <1>1, <1>3, <1>4, <1>5, <1>9, Zenon DEF l
<1>11. ASSUME NEW i \in 1 .. Len(c) PROVE PutsIn(mp, d, s + i - 1, c[i])
  <2>1. CASE i <= Len(b)
    <3>1. i \in 1 .. Len(b) /\ i \in 1 .. (Len(b) + take)
      BY <2>1, <1>1, <1>5, <1>9
    <3> QED
      BY <3>1, <2>1, <1>1, <1>9, Zenon
  <2>2. CASE i > Len(b)
    <3>1. i - Len(b) \in 1 .. take
      BY <2>2, <1>1, <1>5, <1>9
    <3>2. c[i] = Place(r, (i - Len(b)) - 1)
      BY <3>1, <2>2, <1>1, <1>5, <1>8, <1>9
    <3>3. l + ((i - Len(b)) - 1) = s + i - 1
      BY <1>1, <1>5, <1>9 DEF l
    <3>4. PutsIn(mp, d, l + ((i - Len(b)) - 1), Place(r, (i - Len(b)) - 1))
      BY <3>1, <1>7
    <3> QED
      BY <3>2, <3>3, <3>4
  <2> QED
    BY <2>1, <2>2, <1>1, <1>5, <1>9
<1>12. Progress(mp, d, s, n, c)
  BY <1>1, <1>9, <1>10, <1>11 DEF Progress
<1> QED
  BY <1>5, <1>9, <1>12 DEF c

-----------------------------------------------------------------------------
(* One turn, the first or a later one, keeps the invariant.                *)
LEMMA TurnKeepsReadInv ==
  ASSUME TypeOK, NonOverlapping, NEW op \in Readers, NEW s, NEW n, NEW b,
         Progress(mappings, local_devid, s, n, b), Len(b) < n,
         LoopTurn(op, s, n, b) \/ TurnFails(op, s, n, b)
  PROVE  ReadInv'
<1>0. /\ ResolveCursor(op, s, n, b)
      /\ mappings \in Seq(ChunkMapping) /\ Disjoint(mappings)
  BY DEF LoopTurn, TurnFails, TypeOK, NonOverlapping
<1>1. /\ reader' = op /\ start' = s /\ len' = n
      /\ IsResolution(mappings, local_devid, s + Len(b), answer')
      /\ mappings' = mappings /\ local_devid' = local_devid
  BY <1>0 DEF ResolveCursor
<1>2. /\ s \in Nat /\ n \in Nat /\ Len(b) \in Nat /\ s + Len(b) <= MaxU64
      /\ s + Len(b) \in U64
  BY LenProperties, MaxU64Assumption DEF Progress, U64
<1>3. ASSUME NEW c, buf' = c, Progress(mappings, local_devid, s, n, c) PROVE Progress(mappings, local_devid, start, len, buf)'
  BY <1>1, <1>3
<1>4. CASE answer'.verdict # "ok"
  <2>1. buf' = b /\ outcome' = answer'.verdict
    BY <1>4 DEF LoopTurn, TurnFails
  <2>2. answer' = Unresolved(s + Len(b), outcome') /\ outcome' \in ResolveTokens
    BY <1>0, <1>1, <1>2, <1>4, <2>1, Refusal
  <2>3. Len(b) \in 0 .. (n - 1)
    BY <1>2
  <2>4. RefusedForCause'
    <3>1. IsResolution(mappings, local_devid, s + Len(b), Unresolved(s + Len(b), outcome'))
      BY <2>2, <1>1
    <3> QED
      BY <3>1, <2>3, <1>1 DEF RefusedForCause
  <2>5. Progress(mappings, local_devid, start, len, buf)'
    BY <1>3, <2>1
  <2> QED
    BY <2>2, <2>4, <2>5 DEF ReadInv, ResolveTokens
<1>5. CASE answer'.verdict = "ok" /\ buf' = b /\ outcome' = IoToken(op)
  <2>1. outcome' \in {"tree_block_read", "extent_read"}
    BY <1>5 DEF IoToken
  <2>2. Progress(mappings, local_devid, start, len, buf)'
    BY <1>3, <1>5
  <2> QED
    BY <2>1, <2>2 DEF ReadInv, RefusedForCause
<1>6. CASE answer'.verdict = "ok" /\ ~(buf' = b /\ outcome' = IoToken(op))
  <2> DEFINE take == Take(op, n - Len(b), answer'.contiguous_bytes)
  <2>1. /\ InBounds(answer'.physical, take)
        /\ buf' = b \o [k \in 1 .. take |-> Place(answer', k - 1)]
        /\ outcome' = IF Len(b) + take = n THEN "done" ELSE "running"
    BY <1>6 DEF LoopTurn, TurnFails
  <2>2. Progress(mappings, local_devid, s, n, buf') /\ Len(buf') = Len(b) + take /\ take \in Nat
    <3>1. /\ IsResolution(mappings, local_devid, s + Len(b), answer')
          /\ buf' = Written(b, answer', take)
      BY <1>1, <2>1 DEF Written
    <3>2. /\ Progress(mappings, local_devid, s, n, Written(b, answer', take))
          /\ Len(Written(b, answer', take)) = Len(b) + take /\ take \in Nat
      BY <1>0, <1>6, <2>1, <3>1, TurnExtends, Zenon
    <3> QED
      BY <3>1, <3>2
  <2>3. Progress(mappings, local_devid, start, len, buf)'
    BY <1>3, <2>2
  <2>4. Len(buf') <= n
    BY <2>2 DEF Progress
  <2> HIDE DEF take
  <2>5. /\ outcome' \in {"done", "running"}
        /\ outcome' = "done" => Len(buf') = n
        /\ outcome' = "running" => Len(buf') < n
    <3>1. CASE Len(b) + take = n
      BY <3>1, <2>1, <2>2
    <3>2. CASE Len(b) + take # n
      <4>1. outcome' = "running"
        BY <3>2, <2>1
      <4>2. \A x, y, z \in Nat : z = x + y /\ z <= n /\ x + y # n => z < n
        BY <1>2
      <4>3. Len(buf') \in Nat
        BY <2>2, <1>2
      <4> QED
        BY <4>1, <4>2, <4>3, <3>2, <2>2, <2>4, <1>2, Zenon
    <3> QED
      BY <3>1, <3>2
  <2>6. RefusedForCause'
    BY <2>5 DEF RefusedForCause
  <2> QED
    BY <2>3, <2>5, <2>6, <1>1 DEF ReadInv
<1> QED
  BY <1>4, <1>5, <1>6

(* A read about to start has made no progress yet.                         *)
LEMMA EmptyProgress ==
  ASSUME NEW mp, NEW d, NEW s \in U64, NEW n \in Nat
  PROVE  Progress(mp, d, s, n, <<>>) /\ Len(<<>>) = 0
<1>1. <<>> \in Seq(Places) /\ Len(<<>>) = 0
  OBVIOUS
<1>2. s \in Nat /\ s <= MaxU64
  BY MaxU64Assumption DEF U64
<1> QED
  BY <1>1, <1>2 DEF Progress

(* What the steps of ReadNext are, for both proofs below: calls on the     *)
(* table while no read runs, turns of a read, and its end.                 *)
LEMMA ReadSteps ==
  ASSUME ReadInv, ReadNext
  PROVE  \/ Extend
         \/ TakeBytes
         \/ \E op \in Readers : \E s, n, b :
              /\ Progress(mappings, local_devid, s, n, b) /\ Len(b) < n
              /\ LoopTurn(op, s, n, b) \/ TurnFails(op, s, n, b)
<1>1. ASSUME NEW op \in Readers, NEW s \in Starts, NEW n \in Lens, BeginRead(op, s, n)
      PROVE  /\ Progress(mappings, local_devid, s, n, <<>>) /\ Len(<<>>) < n
             /\ LoopTurn(op, s, n, <<>>) \/ TurnFails(op, s, n, <<>>)
  <2>1. s \in U64 /\ n \in Nat /\ n > 0
    BY RangesAssumption, UsizeAssumption, MaxU64Assumption
  <2>2. Progress(mappings, local_devid, s, n, <<>>) /\ Len(<<>>) = 0
    BY <2>1, EmptyProgress
  <2> QED
    BY <1>1, <2>1, <2>2 DEF BeginRead
<1>2. ASSUME ReadOn \/ ReadFails
      PROVE  /\ reader \in Readers /\ Progress(mappings, local_devid, start, len, buf) /\ Len(buf) < len
             /\ LoopTurn(reader, start, len, buf) \/ TurnFails(reader, start, len, buf)
  BY <1>2 DEF ReadInv, ReadOn, ReadFails
<1> QED
  BY <1>1, <1>2 DEF ReadNext, Readers

(* The mount's calls between two reads find no bytes in the buffer, so     *)
(* what the table now says of them cannot matter.                          *)
LEMMA ReadInvInductive ==
  ASSUME TypeOK, NonOverlapping, ReadInv, [ReadNext]_allVars
  PROVE  ReadInv'
<1>1. CASE UNCHANGED allVars
  <2>1. UNCHANGED <<mappings, local_devid, reader, start, len, buf, outcome>>
    BY <1>1 DEF allVars, vars, readVars
  <2> QED
    BY <2>1 DEF ReadInv, RefusedForCause
<1>2. CASE Extend
  <2>1. outcome = "idle" /\ buf = <<>> /\ UNCHANGED readVars
    BY <1>2 DEF Extend, ReadInv
  <2>2. start' \in U64 /\ len' \in Nat /\ outcome' = "idle" /\ buf' = <<>>
    BY <2>1 DEF ReadInv, Progress, readVars
  <2>3. Progress(mappings, local_devid, start, len, buf)'
    <3>1. buf' \in Seq(Places) /\ Len(buf') = 0
      BY <2>2
    <3>2. start' \in Nat /\ start' <= MaxU64
      BY <2>2, MaxU64Assumption DEF U64
    <3> QED
      BY <3>1, <3>2, <2>2 DEF Progress
  <2> QED
    BY <2>2, <2>3 DEF ReadInv, RefusedForCause
<1>3. CASE TakeBytes
  <2>1. start' = 0 /\ len' = 0 /\ buf' = <<>> /\ outcome' = "idle"
    BY <1>3 DEF TakeBytes
  <2>2. Progress(mappings, local_devid, start, len, buf)'
    <3>1. buf' \in Seq(Places) /\ Len(buf') = 0
      BY <2>1
    <3> QED
      BY <3>1, <2>1, MaxU64Assumption DEF Progress, U64
  <2> QED
    BY <2>1, <2>2 DEF ReadInv, RefusedForCause
<1>4. ASSUME NEW op \in Readers, NEW s, NEW n, NEW b, Progress(mappings, local_devid, s, n, b), Len(b) < n,
             LoopTurn(op, s, n, b) \/ TurnFails(op, s, n, b)
      PROVE  ReadInv'
  BY <1>4, TurnKeepsReadInv
<1> QED
  BY <1>1, <1>2, <1>3, <1>4, ReadSteps

(* Seen from the table, every step of a reader is one of the map's own     *)
(* operations: the cursor it resolves never leaves the address space,      *)
(* because no accepted chunk does.                                         *)
LEMMA ReadStepIsTableStep ==
  ASSUME ReadInv, [ReadNext]_allVars
  PROVE  [Next]_vars
<1>1. CASE UNCHANGED allVars
  BY <1>1 DEF allVars
<1>2. CASE Extend
  BY <1>2 DEF Extend, Next
<1>3. CASE TakeBytes
  BY <1>3 DEF TakeBytes
<1>4. ASSUME NEW op \in Readers, NEW s, NEW n, NEW b, Progress(mappings, local_devid, s, n, b), Len(b) < n,
             LoopTurn(op, s, n, b) \/ TurnFails(op, s, n, b)
      PROVE  Next
  <2>1. ResolveCursor(op, s, n, b)
    BY <1>4 DEF LoopTurn, TurnFails
  <2>2. s + Len(b) \in U64
    BY <1>4, LenProperties, MaxU64Assumption DEF Progress, U64
  <2>3. Resolve(s + Len(b))
    BY <2>1 DEF ResolveCursor, Resolve
  <2> QED
    BY <2>2, <2>3 DEF Next
<1> QED
  BY <1>1, <1>2, <1>3, <1>4, ReadSteps

-----------------------------------------------------------------------------
\* No read is under way at first.
LEMMA ReadInitInv == ReadInit => Init /\ TypeOK /\ NonOverlapping /\ ReadInv
<1> SUFFICES ASSUME ReadInit PROVE TypeOK /\ NonOverlapping /\ ReadInv /\ Init
  OBVIOUS
<1>1. Init /\ start = 0 /\ len = 0 /\ buf = <<>> /\ outcome = "idle"
  BY DEF ReadInit
<1>2. TypeOK
  BY <1>1, InitTypeOK
<1>3. NonOverlapping
  BY <1>1 DEF Init, NonOverlapping, Disjoint
<1>4. Progress(mappings, local_devid, start, len, buf)
  BY <1>1, EmptyProgress, MaxU64Assumption DEF U64
<1> QED
  BY <1>1, <1>2, <1>3, <1>4 DEF ReadInv, RefusedForCause

(* The invariant of the reading loops, together with the table's.          *)
THEOREM ReadInvariant == ReadSpec => [](TypeOK /\ NonOverlapping /\ ReadInv)
<1>1. TypeOK /\ NonOverlapping /\ ReadInv /\ [ReadNext]_allVars
        => (TypeOK /\ NonOverlapping /\ ReadInv)'
  <2> SUFFICES ASSUME TypeOK, NonOverlapping, ReadInv, [ReadNext]_allVars
               PROVE  TypeOK' /\ NonOverlapping' /\ ReadInv'
    OBVIOUS
  <2>1. [Next]_vars
    BY ReadStepIsTableStep
  <2>2. TypeOK'
    BY <2>1, NextTypeOK
  <2>3. NonOverlapping'
    BY <2>1, NextNonOverlapping
  <2>4. ReadInv'
    BY ReadInvInductive
  <2> QED
    BY <2>2, <2>3, <2>4
<1> QED
  BY <1>1, ReadInitInv, PTL DEF ReadSpec

(* The chunk map with its readers is a chunk map: reading through it and   *)
(* extending it between reads are behaviours of ChunkMap's Spec, so every  *)
(* theorem of ChunkMapProofs holds of the map the readers use.             *)
THEOREM ReadersUseTheMap == ReadSpec => Spec
<1>1. ReadInit => Init
  BY ReadInitInv
<1>2. ReadInv /\ [ReadNext]_allVars => [Next]_vars
  BY ReadStepIsTableStep
<1> QED
  BY <1>1, <1>2, ReadInvariant, PTL DEF ReadSpec, Spec

(* Every byte a reader has written is the one the table puts at its        *)
(* address, and a read that returns Ok has filled the buffer.              *)
THEOREM ReadsAreExact == ReadSpec => []ReadIsExact
<1>1. ReadInv => ReadIsExact
  BY DEF ReadInv, Progress, ReadIsExact, Puts, PutsIn
<1> QED
  BY <1>1, ReadInvariant, PTL

(* A read fails with a token of resolve only when the table has no place   *)
(* for an address of the range, and with the very token of that address.   *)
THEOREM RefusalsHaveACause == ReadSpec => []RefusedForCause
<1>1. ReadInv => RefusedForCause
  BY DEF ReadInv
<1> QED
  BY <1>1, ReadInvariant, PTL

(* Every turn of a read takes bytes: whatever run resolve gives for the    *)
(* cursor.  read_through_chunks only where a usize holds every u64.        *)
TurnsTakeBytes ==
  outcome = "running" /\ (reader = "read_tree_block" \/ UsizeSpan > MaxU64) =>
    \A r : IsResolution(mappings, local_devid, start + Len(buf), r) /\ r.verdict = "ok" =>
             Take(reader, len - Len(buf), r.contiguous_bytes) \in 1 .. (len - Len(buf))

(* The loop of read_tree_block advances on every turn, and so does that of *)
(* read_through_chunks where its cast to usize loses nothing: a read ends  *)
(* after at most as many turns as the buffer has bytes, for every table.   *)
(* Where the cast does lose something, finding 4 of the README is the turn *)
(* that takes none.                                                        *)
THEOREM ReadsAreBounded == ReadSpec => []TurnsTakeBytes
<1>1. TypeOK /\ NonOverlapping /\ ReadInv => TurnsTakeBytes
  <2> SUFFICES ASSUME TypeOK, NonOverlapping, ReadInv, outcome = "running",
                      reader = "read_tree_block" \/ UsizeSpan > MaxU64,
                      NEW r, IsResolution(mappings, local_devid, start + Len(buf), r),
                      r.verdict = "ok"
               PROVE  Take(reader, len - Len(buf), r.contiguous_bytes) \in 1 .. (len - Len(buf))
    BY DEF TurnsTakeBytes
  <2>0. MaxU64 \in Nat /\ UsizeSpan \in Nat
    BY MaxU64Assumption, UsizeAssumption
  <2>1. /\ mappings \in Seq(ChunkMapping) /\ Disjoint(mappings)
    BY DEF TypeOK, NonOverlapping
  <2>2. PICK l, rest, n, op : /\ l = start + Len(buf) /\ rest = len - Len(buf)
                              /\ n = r.contiguous_bytes /\ op = reader
    OBVIOUS
  <2>3. l \in U64 /\ rest \in Nat /\ rest > 0
    <3>1. /\ start \in U64 /\ len \in Nat /\ buf \in Seq(Places) /\ Len(buf) < len
          /\ start + Len(buf) <= MaxU64
      BY DEF ReadInv, Progress
    <3>2. Len(buf) \in Nat
      BY <3>1, LenProperties
    <3> QED
      BY <2>0, <2>2, <3>1, <3>2 DEF U64
  <2>4. n \in 1 .. MaxU64
    BY <2>0, <2>1, <2>2, <2>3, OkResolutionBounds
  <2>5. op = "read_tree_block" \/ n % UsizeSpan = n
    BY <2>0, <2>2, <2>4
  <2>6. Take(op, rest, n) \in 1 .. rest
    BY <2>0, <2>3, <2>4, <2>5 DEF Take, SmallerOf
  <2> QED
    BY <2>2, <2>6
<1> QED
  BY <1>1, ReadInvariant, PTL
=============================================================================
