------------------------ MODULE SuperblockLoadProofs ------------------------
(* Proofs about superblock arbitration for any number of locations, any    *)
(* device and any pattern of failed reads.                                 *)
EXTENDS SuperblockLoad, TLAPS

(* try_load_one has these outcomes and no other.                           *)
LEMMA TryLoadOneOutcome ==
  ASSUME NEW c
  PROVE  TryLoadOne(c) \in {"BadMagic", "UnsupportedCsumType", "BadCsum",
                            "UnsupportedIncompat", "BadGeometry", "Valid"}
BY DEF TryLoadOne

(* The token an unsupported checksum type is reported with.                *)
LEMMA CsumTokenType ==
  ASSUME NEW c
  PROVE  CsumToken(c) \in {"csum_xxhash", "csum_sha256", "csum_blake2", "csum_unknown"}
BY DEF CsumToken

(* Type correctness.                                                       *)
LEMMA InitTypeOK == Init => TypeOK
<1> SUFFICES ASSUME Init PROVE TypeOK
  OBVIOUS
<1>1. device \in [Copies -> CopyImage]
  BY CopyImagesAssumption DEF Init
<1>2. device_size_bytes \in Nat
  BY DeviceSizesAssumption DEF Init
<1>3. outcomes \in [Copies -> Outcomes]
  BY DEF Init, Outcomes
<1> QED
  BY <1>1, <1>2, <1>3 DEF Init, TypeOK, Pending, Err

(* Every iteration of the loop of load, and its end, keeps TypeOK.         *)
LEMMA NextTypeOK == TypeOK /\ [Next]_vars => TypeOK'
<1> SUFFICES ASSUME TypeOK, [Next]_vars PROVE TypeOK'
  OBVIOUS
<1>1. CASE SkipPastEnd
  BY <1>1 DEF SkipPastEnd, Trying, TypeOK, Outcomes
<1>2. CASE ReadFails
  BY <1>2 DEF ReadFails, Trying, TypeOK, Outcomes
<1>3. CASE TryCopy
  <2> DEFINE outcome == TryLoadOne(device[next])
  <2>1. outcome \in Outcomes
    BY TryLoadOneOutcome DEF Outcomes
  <2>2. outcomes' \in [Copies -> Outcomes]
    BY <1>3, <2>1 DEF TryCopy, TypeOK
  <2>3. best' \in Copies \cup {0}
    BY <1>3 DEF TryCopy, Trying, KeepBest, TypeOK
  <2>4. last_specific_reason' \in SpecificReasons \cup {"none"}
    BY <1>3 DEF TryCopy, GetOrInsert, TypeOK
  <2>5. unsupported_csum' \in {"none", "csum_xxhash", "csum_sha256", "csum_blake2", "csum_unknown"}
    BY <1>3, CsumTokenType DEF TryCopy, GetOrInsert, TypeOK
  <2>6. result'.kind \in {"pending", "UnsupportedFeature"}
    BY <1>3 DEF TryCopy, Trying, Pending, Err
  <2>7. next' \in Nat
    BY <1>3 DEF TryCopy, TypeOK
  <2> QED
    BY <1>3, <2>2, <2>3, <2>4, <2>5, <2>6, <2>7 DEF TryCopy, TypeOK
<1>4. CASE Conclude
  <2>1. result'.kind \in {"Ok", "UnsupportedChecksum", "BadSuperblock"}
    BY <1>4 DEF Conclude, Ok, Err
  <2> QED
    BY <1>4, <2>1 DEF Conclude, TypeOK
<1>5. CASE UNCHANGED vars
  BY <1>5 DEF vars, TypeOK
<1> QED
  BY <1>1, <1>2, <1>3, <1>4, <1>5 DEF Next

(* superblock::load: its locals and its outcome log stay well-formed for   *)
(* any device image.                                                       *)
THEOREM TypeCorrect == Spec => []TypeOK
BY InitTypeOK, NextTypeOK, PTL DEF Spec

-----------------------------------------------------------------------------
(* The copies are numbered from 1.                                         *)
LEMMA CopiesAreNat == Copies \subseteq Nat /\ 0 \notin Copies
BY DEF Copies

(* The loop invariant holds before the first copy is tried.                *)
LEMMA InitLoopInv == Init => LoopInv
<1> SUFFICES ASSUME Init PROVE LoopInv
  OBVIOUS
<1>1. \A i \in Copies : outcomes[i] = "Untried" /\ i >= next
  BY DEF Init, Copies
<1>2. best = 0 /\ result.kind = "pending" /\ next >= 1
  BY DEF Init, Pending, Err
<1> QED
  BY <1>1, <1>2 DEF LoopInv

(* A step that records an outcome which is neither valid nor a refusal.    *)
LEMMA RecordOther ==
  ASSUME TypeOK, LoopInv, Trying, NEW o \in Outcomes \ {"Untried", "Valid", "UnsupportedIncompat"},
         next' = next + 1, outcomes' = [outcomes EXCEPT ![next] = o],
         o \notin {"Skipped", "IoError"} => o = TryLoadOne(device[next]),
         o = "Skipped" => Offsets[next] >= device_size_bytes,
         UNCHANGED <<device, device_size_bytes, best, result>>
  PROVE  LoopInv'
<1>0. /\ next \in Copies /\ Copies \subseteq Nat /\ next \in Nat
      /\ result.kind = "pending" /\ o # "Untried" /\ o # "Valid" /\ o # "UnsupportedIncompat"
  BY CopiesAreNat DEF Trying, Pending, Err
<1>1. \A i \in Copies : outcomes'[i] = IF i = next THEN o ELSE outcomes[i]
  BY <1>0 DEF TypeOK
<1>2. \A i \in Copies : outcomes'[i] = "Untried" <=> i >= next'
  BY <1>0, <1>1 DEF LoopInv
<1>3. \A i \in Copies : outcomes'[i] \notin {"Untried", "Skipped", "IoError"} =>
        outcomes'[i] = TryLoadOne(device[i])
  BY <1>0, <1>1 DEF LoopInv
<1>4. \A i \in Copies : outcomes'[i] = "Skipped" => Offsets[i] >= device_size_bytes
  BY <1>0, <1>1 DEF LoopInv
<1>5. \A i \in Copies : outcomes'[i] = "Valid" <=> outcomes[i] = "Valid"
  BY <1>0, <1>1 DEF LoopInv
<1>6. best # 0 => best \in Copies
  BY DEF TypeOK
<1>7. best # 0 => IsNewest(best)'
  BY <1>5, <1>6 DEF LoopInv, IsNewest
<1>8. \A i \in Copies : outcomes'[i] # "UnsupportedIncompat"
  BY <1>0, <1>1 DEF LoopInv
<1> QED
  BY <1>0, <1>2, <1>3, <1>4, <1>5, <1>7, <1>8 DEF LoopInv

(* A step that records a valid copy: best becomes it exactly when its      *)
(* generation is strictly greater.                                         *)
LEMMA RecordValid ==
  ASSUME TypeOK, LoopInv, TryCopy, TryLoadOne(device[next]) = "Valid"
  PROVE  LoopInv'
<1>0. /\ next \in Copies /\ Copies \subseteq Nat /\ next \in Nat
      /\ result.kind = "pending" /\ result' = result /\ device' = device
      /\ next' = next + 1 /\ device_size_bytes' = device_size_bytes
      /\ best' = KeepBest(next)
  BY CopiesAreNat DEF TryCopy, Trying, Pending, Err
<1>1. \A i \in Copies : outcomes'[i] = IF i = next THEN "Valid" ELSE outcomes[i]
  BY <1>0 DEF TypeOK, TryCopy
<1>2. \A i \in Copies : outcomes'[i] = "Untried" <=> i >= next'
  BY <1>0, <1>1 DEF LoopInv
<1>3. \A i \in Copies : outcomes'[i] \notin {"Untried", "Skipped", "IoError"} =>
        outcomes'[i] = TryLoadOne(device[i])
  BY <1>0, <1>1 DEF LoopInv
<1>4. \A i \in Copies : outcomes'[i] = "Skipped" => Offsets[i] >= device_size_bytes
  BY <1>0, <1>1 DEF LoopInv
<1>5. \A i \in Copies : device[i].generation \in Nat
  BY DEF TypeOK, CopyImage
<1>6. \A i \in Copies : outcomes[i] = "Valid" => i < next
  BY <1>0 DEF LoopInv
<1>7. best' # 0 /\ IsNewest(best)'
  <2>1. CASE best = 0
    <3>1. best' = next /\ \A i \in Copies : outcomes[i] # "Valid"
      BY <2>1, <1>0 DEF KeepBest, LoopInv
    <3>2. \A i \in Copies : outcomes'[i] = "Valid" => i = next
      BY <3>1, <1>1
    <3>3. \A i \in Copies : outcomes'[i] = "Valid" =>
            device[i].generation = device[next].generation /\ next <= i
      BY <3>2, <1>0
    <3>4. outcomes'[next] = "Valid" /\ next # 0
      BY <1>0, <1>1, CopiesAreNat
    <3> QED
      BY <3>1, <3>3, <3>4, <1>0 DEF IsNewest
  <2>2. CASE best # 0 /\ device[next].generation > device[best].generation
    <3>1. best' = next /\ best \in Copies /\ IsNewest(best)
      BY <2>2, <1>0 DEF KeepBest, LoopInv, TypeOK
    <3>2. ASSUME NEW i \in Copies, outcomes'[i] = "Valid"
          PROVE  \/ device[i].generation < device[next].generation
                 \/ device[i].generation = device[next].generation /\ next <= i
      <4>1. CASE i = next
        BY <4>1, <1>0
      <4>2. CASE i # next
        <5>1. outcomes[i] = "Valid"
          BY <4>2, <3>2, <1>1
        <5>2. device[i].generation <= device[best].generation
          BY <5>1, <3>1, <1>5 DEF IsNewest
        <5>3. \A a, b, c \in Nat : a <= b /\ c > b => a < c
          OBVIOUS
        <5> QED
          BY <5>2, <5>3, <3>1, <2>2, <1>0, <1>5
      <4> QED
        BY <4>1, <4>2
    <3> QED
      BY <3>1, <3>2, <1>0, <1>1, CopiesAreNat DEF IsNewest
  <2>3. CASE best # 0 /\ ~(device[next].generation > device[best].generation)
    <3>1. best' = best /\ best \in Copies /\ IsNewest(best)
      BY <2>3, <1>0 DEF KeepBest, LoopInv, TypeOK
    <3>2. best < next
      BY <3>1, <1>6 DEF IsNewest
    <3>3. ASSUME NEW i \in Copies, outcomes'[i] = "Valid"
          PROVE  \/ device[i].generation < device[best].generation
                 \/ device[i].generation = device[best].generation /\ best <= i
      <4>1. CASE i = next
        BY <4>1, <3>1, <3>2, <2>3, <1>0, <1>5
      <4>2. CASE i # next
        BY <4>2, <3>1, <3>3, <1>1 DEF IsNewest
      <4> QED
        BY <4>1, <4>2
    <3> QED
      BY <3>1, <3>2, <3>3, <2>3, <1>0, <1>1 DEF IsNewest
  <2> QED
    BY <2>1, <2>2, <2>3
<1>8. \A i \in Copies : outcomes'[i] # "UnsupportedIncompat"
  BY <1>0, <1>1 DEF LoopInv
<1> QED
  BY <1>0, <1>2, <1>3, <1>4, <1>7, <1>8 DEF LoopInv

(* A step that records a refused feature bit ends the loop at that copy.   *)
LEMMA RecordRefusal ==
  ASSUME TypeOK, LoopInv, TryCopy, TryLoadOne(device[next]) = "UnsupportedIncompat"
  PROVE  LoopInv'
<1>0. /\ next \in Copies /\ Copies \subseteq Nat /\ next \in Nat
      /\ result'.kind = "UnsupportedFeature" /\ device' = device
      /\ next' = next + 1 /\ device_size_bytes' = device_size_bytes
      /\ best' = best
  BY CopiesAreNat DEF TryCopy, Trying, Err
<1>1. \A i \in Copies : outcomes'[i] = IF i = next THEN "UnsupportedIncompat" ELSE outcomes[i]
  BY <1>0 DEF TypeOK, TryCopy
<1>2. \A i \in Copies : outcomes'[i] = "Untried" <=> i >= next'
  BY <1>0, <1>1 DEF LoopInv
<1>3. \A i \in Copies : outcomes'[i] \notin {"Untried", "Skipped", "IoError"} =>
        outcomes'[i] = TryLoadOne(device[i])
  BY <1>0, <1>1 DEF LoopInv
<1>4. \A i \in Copies : outcomes'[i] = "Skipped" => Offsets[i] >= device_size_bytes
  BY <1>0, <1>1 DEF LoopInv
<1>5. \A i \in Copies : outcomes'[i] = "Valid" <=> outcomes[i] = "Valid"
  BY <1>0, <1>1 DEF LoopInv
<1>6. best # 0 => best \in Copies
  BY DEF TypeOK
<1>7. best # 0 => IsNewest(best)'
  BY <1>0, <1>5, <1>6 DEF LoopInv, IsNewest
<1> QED
  BY <1>0, <1>2, <1>3, <1>4, <1>5, <1>7 DEF LoopInv

(* Every step of load preserves the loop invariant.                        *)
LEMMA NextLoopInv == TypeOK /\ LoopInv /\ [Next]_vars => LoopInv'
<1> SUFFICES ASSUME TypeOK, LoopInv, [Next]_vars PROVE LoopInv'
  OBVIOUS
<1>1. CASE SkipPastEnd
  BY <1>1, RecordOther DEF SkipPastEnd, Outcomes
<1>2. CASE ReadFails
  BY <1>2, RecordOther DEF ReadFails, Outcomes
<1>3. CASE TryCopy
  <2> DEFINE o == TryLoadOne(device[next])
  <2>1. CASE o = "Valid"
    BY <1>3, <2>1, RecordValid
  <2>2. CASE o = "UnsupportedIncompat"
    BY <1>3, <2>2, RecordRefusal
  <2>3. CASE o \notin {"Valid", "UnsupportedIncompat"}
    <3>1. o \in Outcomes \ {"Untried", "Valid", "UnsupportedIncompat"}
      BY <2>3, TryLoadOneOutcome DEF Outcomes
    <3>2. /\ next' = next + 1 /\ outcomes' = [outcomes EXCEPT ![next] = o]
          /\ Trying /\ UNCHANGED <<device, device_size_bytes, best, result>>
      BY <1>3, <2>3 DEF TryCopy
    <3>3. o # "Skipped"
      BY TryLoadOneOutcome
    <3> HIDE DEF o
    <3>4. o \notin {"Skipped", "IoError"} => o = TryLoadOne(device[next])
      BY DEF o
    <3> QED
      BY <3>1, <3>2, <3>3, <3>4, RecordOther
  <2> QED
    BY <2>1, <2>2, <2>3
<1>4. CASE Conclude
  <2>1. /\ result.kind = "pending" /\ next \notin Copies
        /\ UNCHANGED <<device, device_size_bytes, next, best, outcomes>>
    BY <1>4 DEF Conclude, Pending, Err
  <2>2. CASE best # 0
    <3>1. result'.kind = "Ok" /\ result'.copy = best
      BY <1>4, <2>2 DEF Conclude, Ok
    <3> QED
      BY <2>1, <2>2, <3>1 DEF LoopInv, IsNewest
  <2>3. CASE best = 0
    <3>1. result'.kind \in {"UnsupportedChecksum", "BadSuperblock"}
      BY <1>4, <2>3 DEF Conclude, Err
    <3> QED
      BY <2>1, <2>3, <3>1 DEF LoopInv, IsNewest
  <2> QED
    BY <2>2, <2>3
<1>5. CASE UNCHANGED vars
  BY <1>5 DEF vars, LoopInv, IsNewest
<1> QED
  BY <1>1, <1>2, <1>3, <1>4, <1>5 DEF Next

(* A result other than a refusal is given only after every copy was tried. *)
LEMMA DoneMeansAllTried ==
  ASSUME TypeOK, LoopInv, result.kind \in {"Ok", "UnsupportedChecksum", "BadSuperblock"},
         NEW i \in Copies
  PROVE  outcomes[i] # "Untried"
<1>1. next \in Nat /\ next >= 1 /\ next \notin 1 .. Len(Offsets) /\ Len(Offsets) \in Nat
  BY OffsetsAssumption DEF TypeOK, LoopInv, Copies
<1>2. i < next
  BY <1>1 DEF Copies
<1> QED
  BY <1>1, <1>2 DEF LoopInv, Copies

(* The inductive invariant of the loop of load: every location before next *)
(* has an outcome and it is what the device holds there, best is the       *)
(* newest valid one, a refused feature has ended the call.                 *)
THEOREM LoopInvariant == Spec => [](TypeOK /\ LoopInv)
BY InitTypeOK, NextTypeOK, InitLoopInv, NextLoopInv, PTL DEF Spec

(* load returns the newest valid copy it could read, the earliest of       *)
(* equals, for any number of locations and any failures.                   *)
THEOREM NewestCopyIsChosen == Spec => []NewestValidCopyWins
<1>1. TypeOK /\ LoopInv => NewestValidCopyWins
  BY DEF LoopInv, IsNewest, NewestValidCopyWins
<1> QED
  BY <1>1, LoopInvariant, PTL

(* A refused feature bit in any copy that verifies keeps the filesystem    *)
(* from being opened through any other copy.                               *)
THEOREM RefusalIsFinal == Spec => []RefusedFeatureNeverOpens
<1>1. TypeOK /\ LoopInv => RefusedFeatureNeverOpens
  <2> SUFFICES ASSUME TypeOK, LoopInv, result.kind = "Ok",
                      NEW i \in Copies, outcomes[i] \notin {"Skipped", "IoError"},
                      device[i].magic, device[i].csum_type = "crc32c", device[i].csum
               PROVE  device[i].incompat_flags \subseteq {"tolerated"}
    BY DEF RefusedFeatureNeverOpens
  <2>1. outcomes[i] # "Untried"
    BY DoneMeansAllTried
  <2>2. outcomes[i] = TryLoadOne(device[i]) /\ outcomes[i] # "UnsupportedIncompat"
    BY <2>1 DEF LoopInv
  <2> QED
    BY <2>2 DEF TryLoadOne
<1> QED
  BY <1>1, LoopInvariant, PTL

(* One readable valid copy is enough to open a filesystem whose features   *)
(* are supported.                                                          *)
THEOREM AnyGoodCopyOpens == Spec => []OneGoodCopySuffices
<1>1. TypeOK /\ LoopInv => OneGoodCopySuffices
  <2> SUFFICES ASSUME TypeOK, LoopInv,
                      result.kind \in {"BadSuperblock", "UnsupportedChecksum"},
                      NEW i \in Copies, ~(Offsets[i] >= device_size_bytes),
                      outcomes[i] # "IoError"
               PROVE  TryLoadOne(device[i]) # "Valid"
    BY DEF OneGoodCopySuffices
  <2>1. outcomes[i] # "Untried" /\ outcomes[i] # "Skipped" /\ outcomes[i] # "Valid"
    BY DoneMeansAllTried DEF LoopInv
  <2> QED
    BY <2>1 DEF LoopInv
<1> QED
  BY <1>1, LoopInvariant, PTL

(* The token of a refusal names a bit the copy carries.                    *)
LEMMA FeatTokenNamesABit ==
  ASSUME NEW c, c.incompat_flags \subseteq IncompatBits, c.incompat_flags \ {"tolerated"} # {}
  PROVE  RefusedBit[FeatToken(c)] \in c.incompat_flags
BY DEF RefusedBit, FeatToken, IncompatBits

(* load refuses a filesystem for its features only on the word of a copy   *)
(* that was read and whose checksum it verified, and names a bit set in it. *)
THEOREM OnlyVerifiedCopiesRefuse == Spec => []RefusalIsVerified
<1>1. Init => RefusalIsVerified
  BY DEF Init, RefusalIsVerified, Pending, Err
<1>2. TypeOK /\ RefusalIsVerified /\ [Next]_vars => RefusalIsVerified'
  <2> SUFFICES ASSUME TypeOK, RefusalIsVerified, [Next]_vars, result'.kind = "UnsupportedFeature"
               PROVE  RefusalIsVerified'
    BY DEF RefusalIsVerified
  <2>1. CASE TryCopy
    <3>1. /\ next \in Copies /\ result.kind = "pending" /\ device' = device
          /\ Offsets[next] < device_size_bytes /\ device_size_bytes' = device_size_bytes
      BY <2>1 DEF TryCopy, Trying, Pending, Err
    <3>2. /\ TryLoadOne(device[next]) = "UnsupportedIncompat"
          /\ result'.token = FeatToken(device[next])
      BY <2>1, <3>1 DEF TryCopy, Err
    <3>3. outcomes'[next] = "UnsupportedIncompat"
      BY <2>1, <3>1, <3>2 DEF TryCopy, TypeOK
    <3>4. PICK c : c = device[next]
      OBVIOUS
    <3>5. /\ c.magic /\ c.csum_type = "crc32c" /\ c.csum
          /\ c.incompat_flags \ {"tolerated"} # {}
      BY <3>2, <3>4 DEF TryLoadOne
    <3>6. c.incompat_flags \subseteq IncompatBits
      BY <3>1, <3>4 DEF TypeOK, CopyImage
    <3>7. RefusedBit[FeatToken(c)] \in c.incompat_flags
      BY <3>5, <3>6, FeatTokenNamesABit
    <3> QED
      BY <3>1, <3>2, <3>3, <3>4, <3>5, <3>7 DEF RefusalIsVerified
  <2>2. CASE SkipPastEnd \/ ReadFails
    BY <2>2 DEF SkipPastEnd, ReadFails, Trying, Pending, Err
  <2>3. CASE Conclude
    BY <2>3 DEF Conclude, Ok, Err
  <2>4. CASE UNCHANGED vars
    BY <2>4 DEF vars, RefusalIsVerified
  <2> QED
    BY <2>1, <2>2, <2>3, <2>4 DEF Next
<1> QED
  BY <1>1, <1>2, TypeCorrect, PTL DEF Spec

-----------------------------------------------------------------------------
(* Copy i is the first whose outcome is in S.                              *)
FirstIs(oc, S, i) == oc[i] \in S /\ \A j \in 1 .. (i - 1) : oc[j] \notin S

(* What get_or_insert has kept so far: the reason of the first copy that   *)
(* had one, and the token of the first unsupported checksum.               *)
ReasonInv ==
  /\ last_specific_reason = "none" => \A i \in Copies : outcomes[i] \notin SpecificReasons
  /\ last_specific_reason # "none" =>
       \E i \in Copies : /\ FirstIs(outcomes, SpecificReasons, i)
                         /\ outcomes[i] = last_specific_reason
  /\ unsupported_csum = "none" => \A i \in Copies : outcomes[i] \notin {"UnsupportedCsumType"}
  /\ unsupported_csum # "none" =>
       \E i \in Copies : /\ FirstIs(outcomes, {"UnsupportedCsumType"}, i)
                         /\ CsumToken(device[i]) = unsupported_csum
  /\ ErrorIsTheEarliestReason

(* The outcomes oc2 are oc with o recorded for copy n.                     *)
Records(oc, oc2, n, o) == oc2 = [oc EXCEPT ![n] = o]

(* A first copy stays the first when a later one is tried, and the copy    *)
(* tried is the first when none before it was.                             *)
LEMMA FirstAfterRecord ==
  ASSUME NEW oc \in [Copies -> Outcomes], NEW n \in Copies, NEW o \in Outcomes, NEW S,
         NEW oc2, Records(oc, oc2, n, o)
  PROVE  /\ \A i \in Copies : i < n /\ FirstIs(oc, S, i) => FirstIs(oc2, S, i) /\ oc2[i] = oc[i]
         /\ (\A i \in Copies : oc[i] \notin S) /\ o \in S => FirstIs(oc2, S, n) /\ oc2[n] = o
         /\ (\A i \in Copies : oc[i] \notin S) /\ o \notin S => \A i \in Copies : oc2[i] \notin S
<1>1. /\ Copies \subseteq Nat /\ \A i \in Copies : \A j \in 1 .. (i - 1) : j \in Copies /\ j < i
  BY OffsetsAssumption DEF Copies
<1>2. \A i \in Copies : oc2[i] = IF i = n THEN o ELSE oc[i]
  BY DEF Records
<1>3. ASSUME NEW i \in Copies, i < n, FirstIs(oc, S, i)
      PROVE  FirstIs(oc2, S, i) /\ oc2[i] = oc[i]
  <2>1. i # n /\ \A j \in 1 .. (i - 1) : j \in Copies /\ j # n
    BY <1>1, <1>3
  <2> QED
    BY <1>2, <1>3, <2>1 DEF FirstIs
<1>4. ASSUME \A i \in Copies : oc[i] \notin S, o \in S
      PROVE  FirstIs(oc2, S, n) /\ oc2[n] = o
  <2>1. \A j \in 1 .. (n - 1) : j \in Copies /\ j # n
    BY <1>1
  <2> QED
    BY <1>2, <1>4, <2>1 DEF FirstIs
<1> QED
  BY <1>2, <1>3, <1>4

(* The reasons of an iteration that records outcome o.                     *)
LEMMA RecordReasons ==
  ASSUME TypeOK, LoopInv, ReasonInv, Trying, NEW o \in Outcomes,
         outcomes' = [outcomes EXCEPT ![next] = o], device' = device,
         last_specific_reason' = IF o \in SpecificReasons
                                 THEN GetOrInsert(last_specific_reason, o)
                                 ELSE last_specific_reason,
         unsupported_csum' = IF o = "UnsupportedCsumType"
                             THEN GetOrInsert(unsupported_csum, CsumToken(device[next]))
                             ELSE unsupported_csum,
         result'.kind \in {"pending", "UnsupportedFeature"}
  PROVE  ReasonInv'
<1>1. PICK oc, oc2, n, r, u : /\ oc = outcomes /\ oc2 = outcomes' /\ n = next
                              /\ r = last_specific_reason /\ u = unsupported_csum
  OBVIOUS
<1>2. /\ oc \in [Copies -> Outcomes] /\ n \in Copies /\ Records(oc, oc2, n, o)
      /\ Copies \subseteq Nat /\ r \in SpecificReasons \cup {"none"}
  BY <1>1, CopiesAreNat DEF TypeOK, Trying, Records
<1>3. \A i \in Copies : oc[i] # "Untried" => i < n
  BY <1>1, <1>2 DEF LoopInv
<1>a. ASSUME NEW S
      PROVE  /\ \A i \in Copies : i < n /\ FirstIs(oc, S, i) => FirstIs(oc2, S, i) /\ oc2[i] = oc[i]
             /\ (\A i \in Copies : oc[i] \notin S) /\ o \in S => FirstIs(oc2, S, n) /\ oc2[n] = o
             /\ (\A i \in Copies : oc[i] \notin S) /\ o \notin S => \A i \in Copies : oc2[i] \notin S
  BY <1>2, FirstAfterRecord, Zenon
<1>4. ASSUME NEW S \in {SpecificReasons, {"UnsupportedCsumType"}}, NEW i \in Copies, FirstIs(oc, S, i)
      PROVE  FirstIs(oc2, S, i) /\ oc2[i] = oc[i]
  <2>1. "Untried" \notin S
    BY DEF SpecificReasons
  <2>2. i < n
    BY <1>3, <1>4, <2>1 DEF FirstIs
  <2> QED
    BY <1>a, <1>4, <2>2, Zenon
<1>5. ASSUME NEW S \in {SpecificReasons, {"UnsupportedCsumType"}},
             \A i \in Copies : oc[i] \notin S
      PROVE  /\ o \in S => FirstIs(oc2, S, n) /\ oc2[n] = o
             /\ o \notin S => \A i \in Copies : oc2[i] \notin S
  BY <1>a, <1>5, Zenon
<1>6. /\ last_specific_reason' = "none" => \A i \in Copies : oc2[i] \notin SpecificReasons
      /\ last_specific_reason' # "none" =>
           \E i \in Copies : /\ FirstIs(oc2, SpecificReasons, i)
                             /\ oc2[i] = last_specific_reason'
  <2>1. CASE r = "none"
    <3>1. \A i \in Copies : oc[i] \notin SpecificReasons
      BY <1>1, <2>1 DEF ReasonInv
    <3>2. last_specific_reason' = IF o \in SpecificReasons THEN o ELSE "none"
      BY <1>1, <2>1 DEF GetOrInsert
    <3>3. "none" \notin SpecificReasons
      BY DEF SpecificReasons
    <3> QED
      BY <1>2, <1>5, <3>1, <3>2, <3>3
  <2>2. CASE r # "none"
    <3>1. last_specific_reason' = r
      BY <1>1, <2>2 DEF GetOrInsert
    <3>2. PICK i \in Copies : FirstIs(oc, SpecificReasons, i) /\ oc[i] = r
      BY <1>1, <2>2 DEF ReasonInv
    <3> QED
      BY <1>4, <2>2, <3>1, <3>2
  <2> QED
    BY <2>1, <2>2
<1>7. /\ unsupported_csum' = "none" => \A i \in Copies : oc2[i] \notin {"UnsupportedCsumType"}
      /\ unsupported_csum' # "none" =>
           \E i \in Copies : /\ FirstIs(oc2, {"UnsupportedCsumType"}, i)
                             /\ CsumToken(device[i]) = unsupported_csum'
  <2>1. CASE u = "none"
    <3>1. \A i \in Copies : oc[i] \notin {"UnsupportedCsumType"}
      BY <1>1, <2>1 DEF ReasonInv
    <3>2. unsupported_csum' = IF o \in {"UnsupportedCsumType"} THEN CsumToken(device[n]) ELSE "none"
      BY <1>1, <2>1 DEF GetOrInsert
    <3>3. CsumToken(device[n]) # "none"
      BY CsumTokenType
    <3> QED
      BY <1>2, <1>5, <3>1, <3>2, <3>3
  <2>2. CASE u # "none"
    <3>1. unsupported_csum' = u
      BY <1>1, <2>2 DEF GetOrInsert
    <3>2. PICK i \in Copies : /\ FirstIs(oc, {"UnsupportedCsumType"}, i)
                              /\ CsumToken(device[i]) = u
      BY <1>1, <2>2 DEF ReasonInv
    <3> QED
      BY <1>4, <2>2, <3>1, <3>2
  <2> QED
    BY <2>1, <2>2
<1>8. ErrorIsTheEarliestReason'
  BY DEF ErrorIsTheEarliestReason
<1> QED
  BY <1>1, <1>6, <1>7, <1>8 DEF ReasonInv

(* The end of the loop reports what was kept.                              *)
LEMMA ConcludeReasons ==
  ASSUME TypeOK, LoopInv, ReasonInv, Conclude
  PROVE  ReasonInv'
<1>1. /\ UNCHANGED <<device, last_specific_reason, unsupported_csum, outcomes>>
      /\ result = Pending /\ result.kind = "pending" /\ next \notin Copies
  BY DEF Conclude, Pending, Err
<1>2. CASE best # 0
  <2>1. result'.kind = "Ok"
    BY <1>2 DEF Conclude, Ok
  <2>2. ErrorIsTheEarliestReason'
    BY <2>1 DEF ErrorIsTheEarliestReason
  <2> QED
    BY <1>1, <2>2 DEF ReasonInv
<1>3. CASE best = 0 /\ unsupported_csum # "none"
  <2>1. result'.kind = "UnsupportedChecksum" /\ result'.token = unsupported_csum
    BY <1>3 DEF Conclude, Err
  <2>2. PICK i \in Copies : /\ FirstIs(outcomes, {"UnsupportedCsumType"}, i)
                            /\ CsumToken(device[i]) = unsupported_csum
    BY <1>3 DEF ReasonInv
  <2>3. ErrorIsTheEarliestReason'
    BY <1>1, <2>1, <2>2 DEF ErrorIsTheEarliestReason, FirstIs
  <2> QED
    BY <1>1, <2>3 DEF ReasonInv
<1>4. CASE best = 0 /\ unsupported_csum = "none" /\ last_specific_reason # "none"
  <2>1. result'.kind = "BadSuperblock" /\ result'.token = last_specific_reason
    BY <1>4 DEF Conclude, Err, GetOrInsert
  <2>2. PICK i \in Copies : /\ FirstIs(outcomes, SpecificReasons, i)
                            /\ outcomes[i] = last_specific_reason
    BY <1>4 DEF ReasonInv
  <2>3. last_specific_reason # "NoValidCopy"
    BY <2>2 DEF FirstIs, SpecificReasons
  <2>4. \A j \in Copies : outcomes[j] # "UnsupportedCsumType"
    BY <1>4 DEF ReasonInv
  <2>5. ErrorIsTheEarliestReason'
    BY <1>1, <2>1, <2>2, <2>3, <2>4 DEF ErrorIsTheEarliestReason, FirstIs
  <2> QED
    BY <1>1, <2>5 DEF ReasonInv
<1>5. CASE best = 0 /\ unsupported_csum = "none" /\ last_specific_reason = "none"
  <2>1. result'.kind = "BadSuperblock" /\ result'.token = "NoValidCopy"
    BY <1>5 DEF Conclude, Err, GetOrInsert
  <2>2. ASSUME NEW i \in Copies PROVE outcomes[i] \in {"Skipped", "IoError"}
    <3>1. outcomes[i] # "Untried"
      <4>1. next \in Nat /\ next >= 1 /\ next \notin 1 .. Len(Offsets) /\ Len(Offsets) \in Nat
        BY <1>1, OffsetsAssumption DEF TypeOK, LoopInv, Copies
      <4>2. i < next
        BY <4>1 DEF Copies
      <4> QED
        BY <4>1, <4>2 DEF LoopInv, Copies
    <3>2. outcomes[i] \notin SpecificReasons /\ outcomes[i] # "UnsupportedCsumType"
      BY <1>5 DEF ReasonInv
    <3>3. outcomes[i] # "Valid" /\ outcomes[i] # "UnsupportedIncompat"
      BY <1>1, <1>5 DEF LoopInv
    <3>4. outcomes[i] \in Outcomes
      BY DEF TypeOK
    <3> QED
      BY <3>1, <3>2, <3>3, <3>4 DEF Outcomes, SpecificReasons
  <2>3. ErrorIsTheEarliestReason'
    BY <1>1, <2>1, <2>2 DEF ErrorIsTheEarliestReason
  <2> QED
    BY <1>1, <2>3 DEF ReasonInv
<1> QED
  BY <1>2, <1>3, <1>4, <1>5

(* Every step of load keeps the reasons.                                   *)
LEMMA NextReasonInv == TypeOK /\ LoopInv /\ ReasonInv /\ [Next]_vars => ReasonInv'
<1> SUFFICES ASSUME TypeOK, LoopInv, ReasonInv, [Next]_vars PROVE ReasonInv'
  OBVIOUS
<1>1. ASSUME NEW o \in {"Skipped", "IoError"}, Trying,
             outcomes' = [outcomes EXCEPT ![next] = o],
             UNCHANGED <<device, last_specific_reason, unsupported_csum, result>>
      PROVE  ReasonInv'
  <2>1. /\ o \in Outcomes /\ o \notin SpecificReasons /\ o # "UnsupportedCsumType"
        /\ result'.kind = "pending"
    BY <1>1 DEF Outcomes, SpecificReasons, Trying, Pending, Err
  <2> QED
    BY <1>1, <2>1, RecordReasons
<1>2. CASE SkipPastEnd
  BY <1>1, <1>2 DEF SkipPastEnd
<1>3. CASE ReadFails
  BY <1>1, <1>3 DEF ReadFails
<1>4. CASE TryCopy
  <2>1. PICK o : o = TryLoadOne(device[next])
    OBVIOUS
  <2>2. o \in Outcomes
    BY <2>1, TryLoadOneOutcome DEF Outcomes
  <2>3. result'.kind \in {"pending", "UnsupportedFeature"}
    BY <1>4 DEF TryCopy, Trying, Pending, Err
  <2>4. /\ Trying /\ outcomes' = [outcomes EXCEPT ![next] = o] /\ device' = device
        /\ last_specific_reason' = IF o \in SpecificReasons
                                   THEN GetOrInsert(last_specific_reason, o)
                                   ELSE last_specific_reason
        /\ unsupported_csum' = IF o = "UnsupportedCsumType"
                               THEN GetOrInsert(unsupported_csum, CsumToken(device[next]))
                               ELSE unsupported_csum
    BY <1>4, <2>1 DEF TryCopy
  <2> QED
    BY <2>2, <2>3, <2>4, RecordReasons
<1>5. CASE Conclude
  BY <1>5, ConcludeReasons
<1>6. CASE UNCHANGED vars
  BY <1>6 DEF vars, ReasonInv, ErrorIsTheEarliestReason
<1> QED
  BY <1>2, <1>3, <1>4, <1>5, <1>6 DEF Next

(* The error load reports names something that really happened: an         *)
(* unsupported checksum before any other reason (BadSuperblock is never    *)
(* returned when a copy had one), else the reason of the first copy that   *)
(* had one, and NoValidCopy only when not one copy could be read.          *)
THEOREM ErrorsNameTheFirstReason == Spec => []ErrorIsTheEarliestReason
<1>1. Init => ReasonInv
  <2> SUFFICES ASSUME Init PROVE ReasonInv
    OBVIOUS
  <2>1. result.kind = "pending" /\ \A i \in Copies : outcomes[i] = "Untried"
    BY DEF Init, Pending, Err
  <2> QED
    BY <2>1 DEF Init, ReasonInv, ErrorIsTheEarliestReason, SpecificReasons
<1>2. ReasonInv => ErrorIsTheEarliestReason
  BY DEF ReasonInv
<1> QED
  BY <1>1, <1>2, NextReasonInv, LoopInvariant, PTL DEF Spec
=============================================================================
