--------------------------- MODULE SuperblockLoad ---------------------------
(***************************************************************************)
(* Superblock arbitration, src/src/superblock.rs: load tries the canonical *)
(* locations in order, classifies each copy (try_load_one), keeps the      *)
(* newest valid one and, when there is none, the reason to report.  Any of *)
(* the reads may fail, and each copy may be damaged on its own: the copies *)
(* on the device are an arbitrary choice of CopyImages.                    *)
(***************************************************************************)
EXTENDS Integers, Sequences

CONSTANTS
  Offsets,        \* SUPERBLOCK_OFFSETS, a sequence of byte offsets
  DeviceSizes,    \* values of the caller's device_size_bytes
  CopyImages,     \* the 4096-byte images a location may hold
  MinSectorSize, MaxSectorSize, MinNodeSize, MaxNodeSize

Copies == 1 .. Len(Offsets)

\* The bits of incompat_flags that matter: "tolerated" is any known bit that
\* is not rejected, "unassigned" any bit IncompatFlags does not list.
IncompatBits == {"tolerated", "unassigned", "zoned", "raid_stripe_tree", "remap_tree"}

CopyImage == [magic : BOOLEAN, csum_type : {"crc32c", "xxhash", "sha256", "blake2", "unknown"},
              csum : BOOLEAN, incompat_flags : SUBSET IncompatBits,
              sectorsize : Nat, nodesize : Nat, generation : Nat]

ASSUME OffsetsAssumption == Offsets \in Seq(Nat)
ASSUME DeviceSizesAssumption == DeviceSizes \subseteq Nat
ASSUME CopyImagesAssumption == CopyImages \subseteq CopyImage

VARIABLES
  device,                \* [Copies -> CopyImages]: what each location holds
  device_size_bytes,
  next,                  \* the location the for loop tries next
  best,                  \* where the Superblock held in `best` came from, 0 for None
  last_specific_reason,  \* "none" or a SuperblockReason
  unsupported_csum,      \* "none" or a token
  outcomes,              \* history: how each copy tried so far came out
  result                 \* "pending", or what load returned

vars == <<device, device_size_bytes, next, best, last_specific_reason,
          unsupported_csum, outcomes, result>>

-----------------------------------------------------------------------------
(* A u32 power of two; 2^31 is above every maximum the code passes.        *)
IsPow2InRange(v, lo, hi) == v >= lo /\ v <= hi /\ \E k \in 0 .. 30 : v = 2 ^ k

GeometryOK(c) ==
  /\ IsPow2InRange(c.sectorsize, MinSectorSize, MaxSectorSize)
  /\ IsPow2InRange(c.nodesize, MinNodeSize, MaxNodeSize)

CsumToken(c) == CASE c.csum_type = "xxhash" -> "csum_xxhash"
                  [] c.csum_type = "sha256" -> "csum_sha256"
                  [] c.csum_type = "blake2" -> "csum_blake2"
                  [] OTHER -> "csum_unknown"

(* The incompat refusals in the order they are tested.                     *)
FeatToken(c) ==
  IF "unassigned" \in c.incompat_flags THEN "feat_unknown_incompat"
  ELSE IF "zoned" \in c.incompat_flags THEN "feat_zoned"
  ELSE IF "raid_stripe_tree" \in c.incompat_flags THEN "feat_raid_stripe_tree"
  ELSE "feat_remap_tree"

(* Mutant of TryLoadOne: the feature bits are judged before the checksum   *)
(* has vouched for them.                                                   *)
TryLoadOneUnverified(c) ==
  IF ~c.magic THEN "BadMagic"
  ELSE IF c.incompat_flags \ {"tolerated"} # {} THEN "UnsupportedIncompat"
  ELSE IF c.csum_type # "crc32c" THEN "UnsupportedCsumType"
  ELSE IF ~c.csum THEN "BadCsum"
  ELSE IF ~GeometryOK(c) THEN "BadGeometry"
  ELSE "Valid"

(* try_load_one on a copy whose read succeeded.                            *)
TryLoadOne(c) ==
  IF ~c.magic THEN "BadMagic"
  ELSE IF c.csum_type # "crc32c" THEN "UnsupportedCsumType"
  ELSE IF ~c.csum THEN "BadCsum"
  ELSE IF c.incompat_flags \ {"tolerated"} # {} THEN "UnsupportedIncompat"
  ELSE IF ~GeometryOK(c) THEN "BadGeometry"
  ELSE "Valid"

Outcomes == {"Untried", "Skipped", "IoError", "BadMagic", "UnsupportedCsumType", "BadCsum",
             "UnsupportedIncompat", "BadGeometry", "Valid"}

SpecificReasons == {"BadMagic", "BadCsum", "BadGeometry"}

Ok(i)         == [kind |-> "Ok", copy |-> i, token |-> "none"]
Err(kind, t)  == [kind |-> kind, copy |-> 0, token |-> t]
Pending       == Err("pending", "none")

-----------------------------------------------------------------------------
Init ==
  /\ device \in [Copies -> CopyImages]
  /\ device_size_bytes \in DeviceSizes
  /\ next = 1
  /\ best = 0
  /\ last_specific_reason = "none"
  /\ unsupported_csum = "none"
  /\ outcomes = [i \in Copies |-> "Untried"]
  /\ result = Pending

Trying == result = Pending /\ next \in Copies

(* A location at or past the end of the device is not probed.              *)
SkipPastEnd ==
  /\ Trying
  /\ Offsets[next] >= device_size_bytes
  /\ next' = next + 1
  /\ outcomes' = [outcomes EXCEPT ![next] = "Skipped"]
  /\ UNCHANGED <<device, device_size_bytes, best, last_specific_reason,
                 unsupported_csum, result>>

(* Mutant of ReadFails: a failed read counts as the reason NoValidCopy.    *)
ReadFailsIsAReason ==
  /\ Trying
  /\ Offsets[next] < device_size_bytes
  /\ next' = next + 1
  /\ outcomes' = [outcomes EXCEPT ![next] = "IoError"]
  /\ last_specific_reason' = IF last_specific_reason = "none" THEN "NoValidCopy"
                             ELSE last_specific_reason
  /\ UNCHANGED <<device, device_size_bytes, best, unsupported_csum, result>>

(* The caller's read_at failed: on to the next copy.                       *)
ReadFails ==
  /\ Trying
  /\ Offsets[next] < device_size_bytes
  /\ next' = next + 1
  /\ outcomes' = [outcomes EXCEPT ![next] = "IoError"]
  /\ UNCHANGED <<device, device_size_bytes, best, last_specific_reason,
                 unsupported_csum, result>>

(* Mutant of KeepBest: the oldest copy is kept.                            *)
KeepBestOldest(i) ==
  IF best = 0 THEN i
  ELSE IF device[i].generation < device[best].generation THEN i
  ELSE best

(* A copy replaces the held one only when its generation is greater.       *)
KeepBest(i) ==
  IF best = 0 THEN i
  ELSE IF device[i].generation > device[best].generation THEN i
  ELSE best

(* Mutant of GetOrInsert: the last reason is kept.                         *)
GetOrInsertLast(old, new) == new

(* Option::get_or_insert: the first reason is kept.                        *)
GetOrInsert(old, new) == IF old = "none" THEN new ELSE old

(* Mutant of TryCopy: a refused feature only rules its own copy out.       *)
TryCopyGoesOn ==
  LET outcome == TryLoadOne(device[next]) IN
  /\ Trying
  /\ Offsets[next] < device_size_bytes
  /\ next' = next + 1
  /\ outcomes' = [outcomes EXCEPT ![next] = outcome]
  /\ best' = IF outcome = "Valid" THEN KeepBest(next) ELSE best
  /\ UNCHANGED <<device, device_size_bytes, last_specific_reason, unsupported_csum, result>>

(* The read succeeded: the loop body's match on the copy's outcome.        *)
TryCopy ==
  LET outcome == TryLoadOne(device[next]) IN
  /\ Trying
  /\ Offsets[next] < device_size_bytes
  /\ next' = next + 1
  /\ outcomes' = [outcomes EXCEPT ![next] = outcome]
  /\ best' = IF outcome = "Valid" THEN KeepBest(next) ELSE best
  /\ last_specific_reason' = IF outcome \in SpecificReasons
                             THEN GetOrInsert(last_specific_reason, outcome)
                             ELSE last_specific_reason
  /\ unsupported_csum' = IF outcome = "UnsupportedCsumType"
                         THEN GetOrInsert(unsupported_csum, CsumToken(device[next]))
                         ELSE unsupported_csum
  /\ result' = IF outcome = "UnsupportedIncompat"
               THEN Err("UnsupportedFeature", FeatToken(device[next]))
               ELSE result
  /\ UNCHANGED <<device, device_size_bytes>>

(* Mutant of Conclude: damage to one copy hides an unsupported checksum.   *)
ConcludeDamageFirst ==
  /\ result = Pending
  /\ next \notin Copies
  /\ result' = IF best # 0 THEN Ok(best)
               ELSE IF unsupported_csum # "none" /\ last_specific_reason = "none"
                    THEN Err("UnsupportedChecksum", unsupported_csum)
               ELSE Err("BadSuperblock", GetOrInsert(last_specific_reason, "NoValidCopy"))
  /\ UNCHANGED <<device, device_size_bytes, next, best, last_specific_reason,
                 unsupported_csum, outcomes>>

(* Mutant of Conclude: an unsupported checksum outweighs a good copy.      *)
ConcludeErrorFirst ==
  /\ result = Pending
  /\ next \notin Copies
  /\ result' = IF unsupported_csum # "none"
               THEN Err("UnsupportedChecksum", unsupported_csum)
               ELSE IF best # 0 THEN Ok(best)
               ELSE Err("BadSuperblock", GetOrInsert(last_specific_reason, "NoValidCopy"))
  /\ UNCHANGED <<device, device_size_bytes, next, best, last_specific_reason,
                 unsupported_csum, outcomes>>

(* After the loop: the best copy, else the most telling error.             *)
Conclude ==
  /\ result = Pending
  /\ next \notin Copies
  /\ result' = IF best # 0 THEN Ok(best)
               ELSE IF unsupported_csum # "none"
                    THEN Err("UnsupportedChecksum", unsupported_csum)
               ELSE Err("BadSuperblock", GetOrInsert(last_specific_reason, "NoValidCopy"))
  /\ UNCHANGED <<device, device_size_bytes, next, best, last_specific_reason,
                 unsupported_csum, outcomes>>

Next == SkipPastEnd \/ ReadFails \/ TryCopy \/ Conclude

Spec == Init /\ [][Next]_vars

-----------------------------------------------------------------------------
(* Every variable keeps its shape.  In particular last_specific_reason is  *)
(* never the fallback NoValidCopy, which get_or_insert would then keep in  *)
(* place of what a later copy has to say.                                  *)
TypeOK ==
  /\ device \in [Copies -> CopyImage]
  /\ device_size_bytes \in Nat
  /\ next \in Nat
  /\ best \in Copies \cup {0}
  /\ last_specific_reason \in SpecificReasons \cup {"none"}
  /\ unsupported_csum \in {"none", "csum_xxhash", "csum_sha256", "csum_blake2", "csum_unknown"}
  /\ outcomes \in [Copies -> Outcomes]
  /\ result.kind \in {"pending", "Ok", "UnsupportedFeature", "UnsupportedChecksum", "BadSuperblock"}

(* load returns the newest of the copies that were read and found valid,   *)
(* and of several equally new ones the earliest, whichever copies were     *)
(* damaged or unreadable in between.                                       *)
NewestValidCopyWins ==
  result.kind = "Ok" =>
    /\ outcomes[result.copy] = "Valid"
    /\ \A i \in Copies : outcomes[i] = "Valid" =>
         \/ device[i].generation < device[result.copy].generation
         \/ device[i].generation = device[result.copy].generation /\ result.copy <= i

(* A filesystem using a feature the reader refuses is never opened through *)
(* another of its copies: if any copy that was read with a good checksum   *)
(* carries a refused bit, load does not succeed.                           *)
RefusedFeatureNeverOpens ==
  result.kind = "Ok" =>
    \A i \in Copies : outcomes[i] \notin {"Skipped", "IoError"} =>
      LET c == device[i] IN
      c.magic /\ c.csum_type = "crc32c" /\ c.csum =>
        c.incompat_flags \subseteq {"tolerated"}

(* One good copy is enough: unless a feature is refused, load fails only   *)
(* when no copy that could be read was valid.                              *)
OneGoodCopySuffices ==
  result.kind \in {"BadSuperblock", "UnsupportedChecksum"} =>
    \A i \in Copies : \/ Offsets[i] >= device_size_bytes
                      \/ outcomes[i] = "IoError"
                      \/ TryLoadOne(device[i]) # "Valid"

(* A refusal of the whole filesystem rests on a copy whose checksum was    *)
(* verified and which carries the bit the error names: damage to the flags *)
(* of one copy never keeps the other copies from being tried.              *)
RefusedBit == [feat_unknown_incompat |-> "unassigned", feat_zoned |-> "zoned",
               feat_raid_stripe_tree |-> "raid_stripe_tree", feat_remap_tree |-> "remap_tree"]

RefusalIsVerified ==
  result.kind = "UnsupportedFeature" =>
    \E i \in Copies :
      LET c == device[i] IN
      /\ Offsets[i] < device_size_bytes
      /\ outcomes[i] # "IoError"
      /\ c.magic /\ c.csum_type = "crc32c" /\ c.csum
      /\ RefusedBit[result.token] \in c.incompat_flags

(* The error names something that really happened: an unsupported checksum *)
(* before any other reason, even one met in an earlier copy, then the      *)
(* earliest copy's reason, and NoValidCopy only when not one copy could be *)
(* read.                                                                   *)
ErrorIsTheEarliestReason ==
  /\ result.kind = "UnsupportedChecksum" =>
       \E i \in Copies : /\ outcomes[i] = "UnsupportedCsumType"
                         /\ result.token = CsumToken(device[i])
                         /\ \A j \in 1 .. (i - 1) : outcomes[j] # "UnsupportedCsumType"
  /\ result.kind = "BadSuperblock" => \A i \in Copies : outcomes[i] # "UnsupportedCsumType"
  /\ (result.kind = "BadSuperblock" /\ result.token # "NoValidCopy") =>
       \E i \in Copies : /\ outcomes[i] = result.token
                         /\ \A j \in 1 .. (i - 1) : outcomes[j] \notin SpecificReasons
  /\ (result.kind = "BadSuperblock" /\ result.token = "NoValidCopy") =>
       \A i \in Copies : outcomes[i] \in {"Skipped", "IoError"}

(* The loop invariant behind the properties above: every location before   *)
(* `next` has been tried and its outcome is what the device holds there,   *)
(* `best` is the newest valid copy among them, and a refused feature or    *)
(* the end of the loop is the only way to a result.                        *)
IsNewest(b) ==
  /\ outcomes[b] = "Valid"
  /\ \A i \in Copies : outcomes[i] = "Valid" =>
       \/ device[i].generation < device[b].generation
       \/ device[i].generation = device[b].generation /\ b <= i

LoopInv ==
  /\ next >= 1
  /\ \A i \in Copies : outcomes[i] = "Untried" <=> i >= next
  /\ \A i \in Copies : outcomes[i] \notin {"Untried", "Skipped", "IoError"} =>
       outcomes[i] = TryLoadOne(device[i])
  /\ \A i \in Copies : outcomes[i] = "Skipped" => Offsets[i] >= device_size_bytes
  /\ best = 0 => \A i \in Copies : outcomes[i] # "Valid"
  /\ best # 0 => IsNewest(best)
  /\ \A i \in Copies : outcomes[i] = "UnsupportedIncompat" => result.kind = "UnsupportedFeature"
  /\ result.kind \in {"Ok", "UnsupportedChecksum", "BadSuperblock"} => next \notin Copies
  /\ result.kind = "Ok" => best # 0 /\ result.copy = best
  /\ result.kind \in {"UnsupportedChecksum", "BadSuperblock"} => best = 0
=============================================================================
