----------------------------- MODULE ChunkTree ------------------------------
(***************************************************************************)
(* Building the chunk map at mount, src/src/chunk_tree.rs as Btrfs::mount  *)
(* (src/src/lib.rs) calls it: record the device, parse the system chunk    *)
(* array of the superblock, then walk the chunk tree and add its chunks to *)
(* the map, the very map through which the walk reads the tree's blocks.   *)
(*                                                                         *)
(* Composes ChunkMap (the table) and TreeWalk (the walk): the blocks the   *)
(* walk can read are those the table, as it is at that moment, sends to    *)
(* their place on the device.                                              *)
(***************************************************************************)
EXTENDS Integers, Sequences, FiniteSets

CONSTANTS
  MaxU64, Devids, NoDevid, Chunks,                          \* as in ChunkMap
  Keys, Blocks, Root, Disks, MaxTreeDepth, U8Max, NoKey,    \* as in BTree
  FirstTarget, LastWanted,                                  \* as in TreeWalk
  LocalDevid,       \* dev_item.devid of the superblock
  SysArrays,        \* what the system chunk array may hold
  UsedSizes,        \* values of sys_chunk_array_size
  ArrayLen,         \* bytes in the array (2048)
  KeySize, HeaderSize, StripeSize,   \* DiskKey::SIZE, ChunkItem::HEADER_SIZE, Stripe::SIZE
  Payload,          \* the chunk each CHUNK_ITEM key's item holds
  MalformedItems,   \* CHUNK_ITEM keys whose data is not all there
  Home              \* where on the local device each tree block really is

(* An entry of the array: a key, a chunk header and its stripes.           *)
SysEntry == [is_chunk_key : BOOLEAN, chunk : Chunks]

ASSUME SysArraysAssumption == SysArrays \subseteq Seq(SysEntry)
ASSUME SizesAssumption ==
  /\ ArrayLen \in Nat /\ UsedSizes \subseteq Nat
  /\ KeySize \in Nat \ {0} /\ HeaderSize \in Nat /\ StripeSize \in Nat
(* A chunk starts at its key's offset, and the chunks' keys are those of   *)
(* one objectid: no two have the same offset.                              *)
ASSUME PayloadAssumption ==
  /\ DOMAIN Payload \subseteq Keys \cap (FirstTarget .. LastWanted)
  /\ \A k \in DOMAIN Payload : /\ Payload[k] \in Chunks
                               /\ Payload[k].logical = k % (MaxU64 + 1)
  /\ \A j, k \in DOMAIN Payload : Payload[j].logical = Payload[k].logical => j = k

VARIABLES
  mappings, local_devid, alive, answer,                       \* ChunkMap
  disk, pc, op, target, key, current, depth, next_key, lo, hi, result,  \* BTree
  walk, next_target, leaf, idx, last_key, delivered,          \* TreeWalk
  phase,       \* "new", "sys_array", "walk", "mounted", "failed" or "panicked"
  sys_array,   \* the entries, packed from byte 0 and followed by zeros
  used,        \* sys_chunk_array_size
  p,           \* the parser's byte cursor
  entry,       \* the number of the entry at p
  token        \* why the mount failed

mapVars  == <<mappings, local_devid, alive, answer>>
treeVars == <<disk, pc, op, target, key, current, depth, next_key, lo, hi, result,
              walk, next_target, leaf, idx, last_key, delivered>>
arrayVars == <<sys_array, used, p, entry>>
vars == <<mapVars, treeVars, arrayVars, phase, token>>

M == INSTANCE ChunkMap

(* A block is read correctly when the table resolves its address to its    *)
(* place on the device; elsewhere there is no such block, and the address, *)
(* checksum or bytenr check fails.                                         *)
Readable(s, d) ==
  {b \in Blocks : \E n \in 1 .. MaxU64 :
      M!IsResolution(s, d, b, M!ResolvedAt(b, LocalDevid, Home[b], n))}

W == INSTANCE TreeWalk WITH
  mapped <- Readable(mappings, local_devid),
  OffsetSpan <- MaxU64 + 1,
  StopsAtOther <- FALSE

(* What the two components assume of the constants they are given.         *)
ASSUME MapAssumption ==
  MaxU64 \in Nat /\ NoDevid \notin Devids /\ Chunks \subseteq M!ChunkMapping
ASSUME TreeAssumption ==
  /\ Keys \subseteq Nat /\ NoKey \notin Keys /\ Root \in Blocks
  /\ Disks \subseteq {d \in [Blocks -> W!Node] :
                     \A b \in Blocks :
                       /\ d[b].level > 0 => Len(d[b].ptrs) = Len(d[b].keys)
                       /\ d[b].nritems > 0 => Len(d[b].keys) > 0}
  /\ MaxTreeDepth \in Nat /\ U8Max \in Nat /\ MaxTreeDepth < U8Max
  /\ FirstTarget \in Keys /\ LastWanted \in Keys /\ FirstTarget <= LastWanted
  /\ \A k \in Keys : (k + 1) % (MaxU64 + 1) # 0 => k + 1 \in Keys

ASSUME DeviceAssumption ==
  LocalDevid \in Devids /\ Blocks \subseteq M!U64 /\ Home \in [Blocks -> M!U64]

(* A tree as its driver writes it holds no item of offset u64::MAX between *)
(* the walk's first target and the last CHUNK_ITEM key.                    *)
ASSUME ChunkRunAssumption ==
  \A d \in Disks : W!WellFormed(d) =>
    \A k \in W!LeafKeys(d, Root) :
      FirstTarget <= k /\ k < LastWanted => ~W!OffsetOverflows(k)

-----------------------------------------------------------------------------
Init ==
  /\ M!Init
  /\ W!WalkInit
  /\ phase = "new"
  /\ sys_array \in SysArrays
  /\ used \in UsedSizes
  /\ p = 0
  /\ entry = 1
  /\ token = "none"

Fail(why) == phase' = "failed" /\ token' = why

(* mount records the device the superblock was read from.                  *)
RecordDevice ==
  /\ phase = "new"
  /\ M!SetLocalDevid(LocalDevid)
  /\ phase' = "sys_array"
  /\ UNCHANGED <<treeVars, arrayVars, token>>

ParsingArray == phase = "sys_array" /\ p < used

(* Bytes past the entries are zeros, which are no CHUNK_ITEM key.          *)
IsChunkKey == entry <= Len(sys_array) /\ sys_array[entry].is_chunk_key

(* ChunkItem::total_size of an entry's chunk.                              *)
EntryBytes(e) == HeaderSize + StripeSize * Len(e.chunk.stripes)

EntrySize == EntryBytes(sys_array[entry])

(* What one turn of parse_system_chunk_array's loop meets before insert,   *)
(* in the code's order.  A field past the end of the array itself is an    *)
(* out-of-bounds index, unless a check of the code stops it first.         *)
EntryVerdict ==
  IF p + KeySize > used THEN "sys_chunk_short_key"
  ELSE IF p + KeySize > ArrayLen THEN "panic"
  ELSE IF ~IsChunkKey THEN "sys_chunk_unexpected_key_type"
  ELSE IF p + KeySize + HeaderSize > ArrayLen THEN "sys_chunk_short_chunk"
  ELSE IF p + KeySize + EntrySize > used THEN "sys_chunk_short_stripes"
  ELSE IF p + KeySize + EntrySize > ArrayLen THEN "panic"
  ELSE "ok"

ParseEntry ==
  /\ ParsingArray
  /\ EntryVerdict = "ok"
  /\ M!Insert(sys_array[entry].chunk)
  /\ IF alive'
     THEN /\ p' = p + KeySize + EntrySize
          /\ entry' = entry + 1
          /\ UNCHANGED <<phase, token>>
     ELSE /\ Fail(answer'.verdict)
          /\ UNCHANGED <<p, entry>>
  /\ UNCHANGED <<treeVars, sys_array, used>>

(* Mutant of RefuseEntry: an entry that cannot be used is skipped, but the *)
(* cursor stays on it.                                                     *)
RefuseEntrySkips ==
  /\ ParsingArray
  /\ EntryVerdict \notin {"ok", "panic"}
  /\ UNCHANGED vars

(* An entry the parser refuses ends the mount.                             *)
RefuseEntry ==
  /\ ParsingArray
  /\ EntryVerdict \notin {"ok", "panic"}
  /\ Fail(EntryVerdict)
  /\ UNCHANGED <<mapVars, treeVars, arrayVars>>

EntryPanics ==
  /\ ParsingArray
  /\ EntryVerdict = "panic"
  /\ phase' = "panicked"
  /\ UNCHANGED <<mapVars, treeVars, arrayVars, token>>

(* The array is used up: populate_from_chunk_tree begins.                  *)
ArrayDone ==
  /\ phase = "sys_array"
  /\ p >= used
  /\ phase' = "walk"
  /\ UNCHANGED <<mapVars, treeVars, arrayVars, token>>

(* A step of the walk that touches no item.                                *)
WalkOn ==
  /\ phase = "walk"
  /\ UNCHANGED <<mapVars, arrayVars>>
  /\ W!Searching \/ W!GotLocation \/ W!EndOfLeaf
  /\ CASE walk' = "complete" -> phase' = "mounted" /\ UNCHANGED token
       [] walk' = "failed"   -> Fail(result.token)
       [] OTHER              -> UNCHANGED <<phase, token>>

(* An item of the chunk tree that is not a CHUNK_ITEM is passed over.      *)
PassOverItem ==
  /\ phase = "walk"
  /\ UNCHANGED <<mapVars, arrayVars, phase, token>>
  /\ W!MoreItems
  /\ W!ScanKey \notin DOMAIN Payload
  /\ W!TakeItem

(* How a CHUNK_ITEM's data can fall short: it leaves its block, it has no  *)
(* room for the fixed part, or none for the stripes it announces.          *)
ItemFlaws == {"item_overflow", "item_oob", "chunk_item_short", "chunk_item_truncated"}

(* A CHUNK_ITEM whose data is too short ends the mount, even one whose     *)
(* chunk is in the table already: it is parsed before contains is asked.   *)
RefuseItem ==
  /\ phase = "walk"
  /\ UNCHANGED <<mapVars, arrayVars>>
  /\ W!MoreItems
  /\ W!ScanKey \in MalformedItems
  /\ W!RefuseItem
  /\ \E flaw \in ItemFlaws : Fail(flaw)

(* Any other CHUNK_ITEM is inserted unless its start is present.           *)
AddChunkItem ==
  /\ phase = "walk"
  /\ W!MoreItems
  /\ W!ScanKey \in DOMAIN Payload \ MalformedItems
  /\ M!InsertIfAbsent(Payload[W!ScanKey])
  /\ IF alive'
     THEN W!TakeItem /\ UNCHANGED <<phase, token>>
     ELSE W!RefuseItem /\ Fail(answer'.verdict)
  /\ UNCHANGED arrayVars

Done == phase \in {"mounted", "failed", "panicked"} /\ UNCHANGED vars

Next ==
  \/ RecordDevice
  \/ ParseEntry \/ RefuseEntry \/ EntryPanics \/ ArrayDone
  \/ WalkOn \/ PassOverItem \/ RefuseItem \/ AddChunkItem
  \/ Done

(* mount is one sequential call: it runs until it returns.                 *)
Spec == Init /\ [][Next]_vars /\ WF_vars(Next)

-----------------------------------------------------------------------------
(* The chunks of the tree, of the array, and of the entries parsed so far. *)
TreeChunks == {Payload[k] : k \in W!LeafKeys(disk, Root) \cap DOMAIN Payload}
SysChunks  == {sys_array[i].chunk : i \in DOMAIN sys_array}
Parsed     == {sys_array[i].chunk : i \in 1 .. (entry - 1)}
InTable    == {mappings[i] : i \in DOMAIN mappings}

(* The bytes the first n entries of array s take, for each n.              *)
PackedSize(s) ==
  LET size[n \in 0 .. Len(s)] ==
        IF n = 0 THEN 0 ELSE size[n - 1] + KeySize + EntryBytes(s[n])
  IN size

(* A filesystem as its driver writes it: a well-formed chunk tree of       *)
(* disjoint chunks inside the address space, and an array that repeats,    *)
(* exactly, the chunks the tree's own blocks live in.                      *)
SoundFilesystem ==
  /\ W!WellFormed(disk)
  /\ W!LeafKeys(disk, Root) \cap MalformedItems = {}
  /\ \A c \in TreeChunks : M!End(c) <= MaxU64 /\ c.length > 0
  /\ \A c, e \in TreeChunks :
       c # e => M!End(c) <= e.logical \/ M!End(e) <= c.logical
  /\ SysChunks \subseteq TreeChunks
  /\ Cardinality(SysChunks) = Len(sys_array)
  /\ \A i \in DOMAIN sys_array : sys_array[i].is_chunk_key
  /\ used = PackedSize(sys_array)[Len(sys_array)] /\ used <= ArrayLen
  /\ \A b \in W!Below(disk, Root) : \E c \in SysChunks :
       /\ M!Covers(c, b) /\ c.profile \in M!ReadableProfiles
       /\ \E i \in DOMAIN c.stripes :
            /\ c.stripes[i] = [devid |-> LocalDevid, offset |-> Home[b] - (b - c.logical)]
            /\ \A j \in 1 .. (i - 1) : c.stripes[j].devid # LocalDevid

(* A sound filesystem mounts: the bootstrap through the system array and   *)
(* the duplicates it shares with the tree raise no error, so only a failed *)
(* read can stop the mount.                                                *)
SoundFilesystemMounts ==
  SoundFilesystem => /\ phase # "panicked"
                     /\ phase = "failed" => token = "tree_block_read"

(* When the mount of a well-formed tree succeeds, the table holds every    *)
(* chunk of the tree, the array's version where the array has that start,  *)
(* and nothing else: no chunk is lost between two leaves of the walk.      *)
MountedTableIsComplete ==
  (phase = "mounted" /\ W!WellFormed(disk)) =>
    InTable = Parsed \cup
      {c \in TreeChunks : \A e \in Parsed : e.logical # c.logical}

(* While the walk extends the table it reads through, a block that could   *)
(* be read stays readable at the same place.                               *)
ReadableOnlyGrows ==
  [][phase # "new" => Readable(mappings, local_devid) \subseteq Readable(mappings', local_devid')]_vars

(* The mount returns, on every disk and every array.                       *)
MountReturns == <>(phase \in {"mounted", "failed", "panicked"})

(* "Refuse malformed inputs without panicking": no array and no            *)
(* sys_chunk_array_size makes the parser index past the array.             *)
ParserNeverPanics == phase # "panicked"
=============================================================================
