# A verification of lambutter's read path

lambutter is a read-only btrfs reader: a `no_std` Rust library that a boot
loader links to open a volume, resolve paths and read files. It keeps almost
no state of its own. What makes it hard is the device it reads: superblock
copies that disagree, trees that cycle or lie about their keys, chunk tables
that overlap, extents that do not add up, snapshots whose directories name
subvolumes they do not contain, and reads that fail between any two steps. The
modules here model the algorithms that have to survive that device. TLC checks
them on small instances and TLAPS proves the parts that hold for every one.

Paths below are relative to the directory that holds `src/` and `tla/`; the
crate itself is `src/src/`.

## 1. Inventory

| Part | Source | State | Operations | What makes it correct |
|---|---|---|---|---|
| superblock selection | `superblock.rs`, `format/flags.rs` | `best`, `last_specific_reason`, `unsupported_csum`, locals of one loop | `load`, `try_load_one` | the newest valid copy is chosen; a refusal is verified and final; an unsupported checksum is reported before damage, and of each the earliest |
| chunk map | `chunk_tree.rs` | sorted `Vec<ChunkMapping>`, `local_devid` | `insert`, `contains`, `resolve`, `pick_stripe`, `set_local_devid` | sorted and disjoint, exact lookups, never another device's offset, mapped addresses never move |
| mount bootstrap | `chunk_tree.rs`, `lib.rs` | the map under construction, the array cursor, the walk's target | `parse_system_chunk_array`, `populate_from_chunk_tree`, `mount` | sound filesystems mount; a mounted table has every chunk |
| B-tree search | `btree.rs` | locals of one or two descents | `read_tree_block`, `validate_keys_strictly_ascending`, `find_exact`, `find_first_ge`, `descend_to_leaf`, `binary_search_interior`, `binary_search_leaf` | ends on any blocks; never a wrong item; exact on well-formed trees |
| tree walk | `dir.rs`, `chunk_tree.rs`, `file.rs` | next target, last key seen | the loops "search, scan the leaf, search for the next key" | every wanted item once, in order |
| file content | `file.rs` | the output buffer and the next target | `read_file`, `read_file_at`, `apply_extent`, `copy_extent_slice`, `read_through_chunks`, `read_metadata`, `read_link` | returned bytes are the file's; a link is its target; legal files read; buffers bounded; loops end |
| subvolumes, root tree | `root_tree.rs` | none | `resolve_default_subvol`, `subvol_root`, `lookup_root_item`, `root_ref_links` | the default subvolume and its tree root belong together |
| paths and directories | `resolve.rs`, `path.rs`, `dir.rs`, `inode.rs` | the current inode of a walk | `Components`, `resolve`, `lookup_in_dir`, `entry_target`, `read_dir` | the same name means the same inode however it is reached |
| `Btrfs` instance | `lib.rs` | root inode, chunk map, sizes | `open`, `open_subvol_id`, `open_subvol_path`, `resolve`, `read_dir`, `metadata`, `read_file`, `read_file_at`, `read_link` | as the parts |
| compression | `compression/` | framing cursors | `decode` for zlib, LZO, zstd | what was written comes back; output bounded; never outside the input; ends |
| on-disk formats | `format/`, `le.rs` | none | fixed-offset parsers | each field from its offset |
| checksums | `checksum.rs` | none | `crc32c`, `crc32c_with_seed`, `verify_crc32c` | (functions) |
| block reader | `block_read.rs` | the caller's device | `read_at` | all of the range or an error |
| errors | `error.rs` | none | tokens and kinds | |
| examples, fuzz targets | `../examples/`, `../fuzz/` | none | callers of the library | |

How they interact: `mount` loads the superblock, records the device id in an
empty chunk map, parses the superblock's system chunk array into it and then
walks the chunk tree, reading its blocks *through the map the walk is
extending*. Every later operation is a chain of B-tree searches whose block
reads go through that map. `open*` picks a subvolume from the root tree;
`resolve` walks path components with `lookup_in_dir` and changes subvolume at
entries the root tree backs; `read_file*` walks the EXTENT_DATA items of an
inode; `read_dir` walks its DIR_INDEX items.

What is hard here. There are no threads, and nothing is written to the device,
so neither thread interleavings nor crash recovery arise. The hazards, each
listed at its line in `PROJECT.json`, are damaged structures that no checksum
catches; a read failing at any step; state used while it grows (the chunk map)
or after the place it describes was left (the separator key of
`find_first_ge`); sequences of calls (sessions of opens and resolves,
sequences of inserts); termination on cyclic input; the edges of `u64`, `usize` and
`u8` arithmetic; and lengths read from disk that index a buffer.

## 2. Modules

| Module | Models | Built from |
|---|---|---|
| `SuperblockLoad` | the superblock loop | – |
| `ChunkMap` | the table | – |
| `ChunkedRead` | the loops that read a range through the table | extends `ChunkMap` |
| `BTree` | one search, one block read or one probe per step | – |
| `OrderedScan` | abstract: what a walk promises its caller | – |
| `TreeWalk` | the walk loop | extends `BTree`, implements `OrderedScan` |
| `ChunkTree` | the bootstrap of a mount | composes `ChunkMap` and `TreeWalk` |
| `Decompress` | decoding of one compressed extent | – |
| `FileRead` | `metadata`, `read_link`, `read_file`, `read_file_at` | relies on what `BTree` shows of a search, `ChunkedRead` of a read and `Decompress` of a decoder |
| `Namespace` | sessions of opens, path walks, listings | relies on what `BTree` and `TreeWalk` show |
| `SuperblockLoadProofs`, `ChunkMapProofs`, `ChunkedReadProofs`, `TreeWalkProofs`, `ChunkTreeProofs`, `DecompressProofs`, `FileReadProofs`, `NamespaceProofs` | theorems | the module they are named for; `TreeWalkProofs` also proves those of `BTree`; `ChunkedReadProofs` extends `ChunkMapProofs`; `ChunkTreeProofs` instantiates `ChunkMapProofs` and `TreeWalkProofs` |
| `MC*` | instances for TLC | the module they extend |

Every module that holds a mapped definition also holds altered copies of some
of them, each with a comment that begins "Mutant of". Nothing refers to them;
substituting one for its original must make the property `PROJECT.json` pairs
it with fail, which shows that the property depends on that line of code.

### How state and actions correspond to the code

**SuperblockLoad.** The variables are the locals of `load`; `next` is the loop
counter and `outcomes` a history of how each copy came out. One action per way
through an iteration: `SkipPastEnd` (location past the device's end),
`ReadFails`, `TryCopy` (`try_load_one` classifies the copy, in the code's
order: magic, checksum type, checksum, features, geometry), and `Conclude`, the code
after the loop. A refused feature returns from inside the loop. The contents
of each location are any image, so a copy can be damaged, stale or refused
independently of the others.

**ChunkMap.** `mappings` is the Vec, `alive` whether the map still exists: all
callers drop it with `?` when an insert fails. `partition_point` is modelled by
the position it returns. Sums are unbounded and compared with `MaxU64` where
the code uses `checked_add`. `answer` is what the last call returned, so that
properties can speak about `resolve`.

**ChunkedRead.** The state of `ChunkMap` and the locals of one read:
`BeginRead` is the first turn of the loop, `ReadOn` a further one, `ReadFails` a
turn whose `read_at` fails. One pair of actions serves both loops, which differ
in two lines: `Take` (`read_tree_block` takes the minimum as `u64`,
`read_through_chunks` casts to `usize` first, `UsizeSpan` values) and `IoToken`. A
byte of the buffer is the place on a device it was read from. The table may
grow between reads (`Extend`) and not during one, which borrows it.

**BTree.** `pc` says which descent is under way; `Call` reads the root block,
`Bisect` is one probe of the binary search in the current block (`lo`, `hi`;
`<=` in an interior node, `<` in a leaf), `DescendStep` notes the separator to
the right and reads the child, and the `Finish` actions are the code after a
descent. A key is a number (only the order of keys matters to a search).
The `find_first_ge` answer in a later leaf takes a second descent for the
separator noted during the first, as in the code. Any read may fail.

**TreeWalk.** `walk` is the loop's phase; `Searching` runs a `BTree` search,
`GotLocation` takes its answer, `TakeItem`, `RefuseItem` and `PastLastWanted`
are what the caller does with an item, `EndOfLeaf` computes the next target
with `checked_add`. `StopsAtOther` tells `read_dir`, which returns at the first
foreign key, from the chunk walk, which passes over it. `delivered` is history.

**ChunkTree.** `ParseEntry`/`RefuseEntry`/`EntryPanics` is one iteration of the
system-array loop, in bytes (`p`, `used`, the sizes of a key, header and
stripe); `WalkOn`, `PassOverItem`, `RefuseItem` and `AddChunkItem` are the
chunk-tree loop. The blocks the walk can read are
`Readable(mappings, local_devid)`: those the table, as it is at that step,
resolves to the place on the device where the block really lies.

**Decompress.** `extent` is what the disk holds together with what was
compressed into it, `build` the enabled codec features. The bytes of an LZO
extent are the start of a length word, a byte of a compressed sector, or
anything else; a length read where the writer put none is any of `Words`, and a
payload that is not exactly one compressed sector makes the codec fail or give
junk. One action per way through an iteration of the LZO loop (`LzoDone`,
`LzoShortHeader`, `LzoSegment`), one for a turn of each zstd loop (`ZstdFrame`,
`ZstdRead`), one for the limited inflate. An index or slice past the input is
the outcome `panic`. What a compressor wrote is stated as a relation
(`LzoWritten`, `ZstdWritten`): each segment or frame lies where the one before
it ended, padding left out, and its plaintext where the one before it ended in
the plain bytes. A written extent carries those ends, so that nothing in the
relation is recursive. `LayOut` in `MCDecompress` is a writer: that of the
kernel, which pads after a sector and counts the padding, or that of the tests in
`lzo.rs`, which pads before the next header. TLC finds what it writes to satisfy
the relation (`WrittenAssumption`).

**FileRead.** A byte is the place it came from (`Zero`, `Raw`, `Decoded`,
`Inline`), so a read that returns the right number of wrong bytes is visible.
`ReadMetadata` begins every call but that with an empty buffer; `ReturnMetadata`,
`ReadLink` (one search, one inline extent, cut to the inode's size), `Refuse`
and `Begin` follow it. `Search` is one
`find_first_ge`, `AtItem` one item of a leaf, `Finish` the trailing zero fill.
`read_file` appends extents (`AppendExtent`, with `PlaceVerdict` for gaps,
overlaps and ends); `read_file_at` skips, fills and copies (`SkipExtent`,
`FillFromGap`, `CopyExtent`). A decoder is abstracted to whether it decodes and
how many bytes it gives. The unchecked addition in `copy_extent_slice` depends on
the build: with overflow checks (`OverflowChecks`, the debug profile) it is a
`Panic` outcome, without them (the release profile; `Cargo.toml` sets neither) it
wraps, and the bytes come from wherever the wrapped offset points.

**Namespace.** A caller opens a volume in one of the three ways, resolves
paths, lists directories and drops the instance, up to `MaxCalls` calls. A
walk takes one token of the path per step (`SkipToken`, `LookupComponent`).
`lookup_in_dir`, `entry_target`, `root_ref_links`, `subvol_root`,
`resolve_default_subvol` have the names and the order of checks of the code.
Names may share a hash and then a bucket. A volume holds its DIR_ITEM buckets
(`trees`) and its DIR_INDEX items (`index`) apart, so on a damaged one a listing
and a lookup can disagree, and `dirs` says which inodes are directories. `asked`
keeps the path as the caller spelled it, and what a call finds is recorded under
`ComponentsOf(asked)`, the names between slashes that are not dots: a
definition of a path's meaning that does not go through the walk. A listing is the set of entries not
handed out yet, taken in any order: what `read_dir` promises of order is the
business of `TreeWalk`. Any search may fail.

## 3. Runs

Distinct states are given so that a change in a model is noticed.

| Run | Instance | Shows |
|---|---|---|
| `superblock_load` (776,472) | 4 locations, a device that ends where the first begins, just past the start of the second, or past the last, 11 images | choice of the copy, refusals verified and final, the reported reason |
| `chunked_read` (160,692) | `MaxU64` = 7, 2 devices, up to 3 mappings, reads of 1, 2, 4 and 6 bytes from every address, a device of 7 bytes | table disjoint, lookups exact, device, run lengths, stability of addresses; every byte of a range from its place, refusals justified, termination |
| `chunked_read_32bit` | `UsizeSpan` = 4, chunks of 3, 4 and 7 bytes | finding 4 |
| `btree` (331,481) | 7 blocks: every mixture of three leaves, cyclic interiors and damaged blocks, and well-formed trees to 3 levels, 5 leaves and 5 keys in a leaf | soundness of answers, exactness on well-formed trees, termination |
| `tree_walk` (41,814) | the same disks, `OffsetSpan` = 4 so offsets overflow | ascending keys, termination, refinement of `OrderedScan` |
| `chunk_tree` (95,205) | 8 chunks, trees of 1–2 levels in two chunks, 7 arrays, 7 array sizes | sound filesystems mount, mounted tables complete, readable blocks stay readable, termination |
| `chunk_tree_panic` | the same | finding 1 |
| `file_read` (165,457) | `MaxU64` = 15, a build without overflow checks, files of up to 4 extents of 17 forms in one leaf or several, symlinks, directories, missing and short inode items, 4 windows | contents, link targets, legal files read, bounded buffers, termination |
| `file_read_overflow`, `file_read_prealloc` | the same | findings 2 and 3 |
| `decode` (8,876) | sectors of 8 bytes, compressed sectors of 1 to 9, up to three per extent, two layouts, a cap of 24 bytes; forged totals and lengths; up to 3 zstd frames | written extents decode, output bounded, no index past the input, termination |
| `namespace` (796,398) | 3 subvolumes, 3 names (two of one hash), 29 volumes (with hard links, damaged entries, damaged indexes), 8 paths, 4 calls | live handles, one meaning for a name however spelled, no directory or subvolume under two names |

### The bounds, and why they are enough

- `MaxU64` = 7 and 15: the arithmetic only adds two values and compares the sum
  with the maximum, so a small maximum reaches the same cases: a sum below, at
  and above it, next to neighbours that touch, overlap or leave a gap.
- Three mappings: an insert compares with two neighbours, a lookup with one.
  The proofs remove this bound.
- Four superblock locations are what the code has (`constants.rs:39-47`; the
  offsets are scaled to TLC's integers, in their order); two generations give
  newer, equal and older; the proofs cover any number.
- `OverflowChecks` is FALSE in `file_read`: the extent `SkipOverflows`, whose
  offset of 15 wraps to 0, returns `Ok` there, and a panic would hide it. What
  the other value changes is that outcome alone.
- Three blocks of a damaged tree, `MaxTreeDepth` = 3, `U8Max` = 5: shortest cycles of length one,
  two and three, a limit below the saturation point as in the code (16 and 255).
- Three levels and five leaves: the answer in the same leaf, in the next leaf,
  and in the next leaf under another parent, which is where a separator has to
  survive a level below it. Nodes of up to five slots give binary searches of
  up to three probes, with odd and even halves.
- Six bytes over chunks of at most three: a read that meets three chunks, the
  gap after any of them, and the device's end. `UsizeSpan` is as large as the
  space in the passing run (64-bit) and smaller in the other (32-bit).
- Sectors of 8 bytes with headers of 4: compressed lengths 1 to 9 put the next
  header at every distance from a boundary, on it, and in the next sector.
- Four calls: open, resolve, drop and open another way, resolve again. The
  history of resolved names persists across them, so two ways are compared.

### Fairness

The crate is sequential: a function that has been called runs to its end unless
its process stops, and the device answers every read or fails it. Weak fairness
of the next-state relation (of `Search` in `BTree`: the caller need not call)
states exactly this. It never favours one outcome of a read. In `ChunkedRead` it is asked of the turns
of the loop: a turn that reads, or one whose read must fail because it lies past
the device; an optional failure is never relied on to end a loop. `Namespace`
describes a caller who may stop at any time; it has no fairness
and no liveness property, and may stop (`CHECK_DEADLOCK FALSE`), as may
`ChunkedRead` when the map was dropped after a refused insert, and
`FileRead`, `Decompress` and `SuperblockLoad` when the one call they model has returned. The
other runs check for deadlock. Refinement of `OrderedScan` is
a safety property: a walk may fail at any time.

## 4. Proofs

Each component with a state machine has a proof module (`TreeWalkProofs` serves
`BTree` and `TreeWalk`). A theorem there holds for every value of the constants
under the named `ASSUME`s of the modules, which TLC evaluates on each instance. The
assumptions say what a type can hold (widths, sizes, what a slot of a node or an
item of a leaf is) and nothing about the disk being sound: "any disk", "any
volume" and "any layout" below include the damaged ones. Where soundness is meant
it is a hypothesis of the property itself (`WellFormed`, `SoundFilesystem`,
`Legal`, `LegalLink`, `written`). Three say more than a type. `ChunkRunAssumption`:
a well-formed chunk tree holds no item of offset `u64::MAX`, at which
`checked_add(1)` ends the walk, between the walk's first target and the last
CHUNK_ITEM key; an item there has a chunk's logical address for its offset.
`SizesAssumption` of `Decompress`: the cap is a whole number of sectors (16 MiB,
and a sector size is a power of two of at most 64 KiB). `WrittenAssumption`: an
extent marked `written` is one.

| Module | Theorem | Property | For every |
|---|---|---|---|
| `SuperblockLoadProofs` | `TypeCorrect` | `TypeOK` | device, number of locations |
| | `LoopInvariant` | | |
| | `OnlyVerifiedCopiesRefuse` | `RefusalIsVerified` | |
| | `NewestCopyIsChosen`, `RefusalIsFinal`, `AnyGoodCopyOpens` | `NewestValidCopyWins`, `RefusedFeatureNeverOpens`, `OneGoodCopySuffices` | |
| | `ErrorsNameTheFirstReason` | `ErrorIsTheEarliestReason` | |
| `ChunkMapProofs` | `TypeCorrect`, `TableNeverOverlaps` | `TypeOK`, `NonOverlapping` | set of chunks, order of inserts, address width |
| | `ResolveIsAlwaysExact`, `RunsAreAlwaysLinear`, `DeviceIsAlwaysLocal` | `ResolveIsExact`, `RunIsLinear`, `ReadsLocalDevice` | |
| | `AddressesNeverMove` | `AddressesAreStable` (action) | |
| `ChunkedReadProofs` | `ReadInvariant`, `ReadersUseTheMap` | | table, device, range, `usize` width |
| | `ReadsAreExact`, `RefusalsHaveACause` | `ReadIsExact`, `RefusedForCause` | |
| | `ReadsAreBounded` | | table, range; `read_through_chunks` with a 64-bit `usize` |
| `TreeWalkProofs` | `SearchInvariant`, `TypeCorrect`, `AnswersAreSound` | `TypeOK`, `AnswerIsSound` | disk |
| | `SearchesAreBounded` | | disk |
| | `SearchesAreExact` | `SearchIsExact` | well-formed tree, any width, any depth up to the limit |
| | `WalkInvariant`, `WalksAscend`, `WalksAreBounded` | `KeysAscend` | disk |
| | `WalkIsAnOrderedScan` | `ScanSpec` (refinement) | well-formed tree |
| | `CompleteWalkOwesNothing` | | well-formed tree, walks that pass over foreign keys too |
| `ChunkTreeProofs` | `MountInvariant`, `ReadableNeverShrinks` | `ReadableOnlyGrows` (action) | disk, system array |
| | `MountedTablesAreComplete` | `MountedTableIsComplete` | disk with a well-formed chunk tree, system array |
| | `SoundFilesystemsMount` | `SoundFilesystemMounts` | sound filesystem |
| `DecompressProofs` | `DecodeInvariant`, `OutputStaysBounded`, `DecodersStayInInput` | `OutputIsBounded`, `StaysInInput` | extent, sector size, cap |
| | `WrittenExtentsDecode` | `WrittenExtentDecodes` | written extent: any number of segments or frames, any lengths |
| | `DecodersAreBounded` | | extent |
| `FileReadProofs` | `FileInvariant`, `TypeCorrect`, `AnswersAreContent`, `BuffersStayBounded` | `TypeOK`, `AnswerIsContent`, `BufferIsBounded` | layout of extents, window, build |
| | `LegalFilesRead`, `LinksReadAsTheirTarget` | `LegalFileReads`, `LinkIsTarget` | legal file or symlink |
| `NamespaceProofs` | `NameInvariant`, `InodesStayLive`, `OpensAgree` | `InodesAreLive`, `OpenedAtASubvolume` | volume, session |
| | `NamesMeanOneThing`, `NamesFormATree` | `NamesAreConsistent`, `NamespaceIsATree` | legal volume |

### The arguments

**SuperblockLoad.** `LoopInv` says of every copy tried how it came out, that
`best` is a newest valid copy among those tried, and that no refused copy has
been passed. None of the properties is inductive alone: they speak of the
result, and the result is decided by what the loop has kept. `ReasonInv` adds
what `get_or_insert` keeps: the reason of the *first* copy that had one, and
that `unsupported_csum` is empty only when no copy tried had such a checksum,
from which its precedence over damage follows.

**ChunkMap.** The inductive invariant is `TypeOK /\ NonOverlapping`.
`NonOverlapping` speaks of *all* pairs; `insert` compares with two neighbours
only. The lemma between them is that in a disjoint table a mapping that starts
at or after the end of its predecessor and ends at or before the start of its
successor is disjoint from every other, empty mappings included. Then the
predecessor that the partition point gives is the only mapping that can cover
an address, and an insertion covers no address that was covered. This is what
makes it safe for the chunk-tree walk to read through the live map.

**ChunkedRead.** `ReadersUseTheMap` shows that every step of a read is a
`Resolve` of the table or leaves it alone, so the theorems of `ChunkMap` carry
over. `ReadInv`: the bytes so far are where the table puts their addresses, a
running reader has room left, an idle one holds nothing (which is why the table
may grow between reads). A turn takes no more than `RunsAreAlwaysLinear` covers,
whatever the cast to `usize` makes of the length; so exactness holds for a
32-bit `usize` too, and finding 4 costs termination only.

**BTree.** `SearchInv` is the invariant of the binary search (every slot before
`lo` goes right, none from `hi` on does) in a block that was accepted; it gives
soundness on any disk. `ExactInv` is about well-formed trees: the leaf keys are
those below the current block, those too small to matter, and those from the
noted separator on (`OnPath`); the second descent of `find_first_ge` looks for
that separator (`SecondPath`), and levels and depth together stay within the
limit, so a tree no deeper than the limit is never refused. `Below`,
the blocks reachable from a block, is defined as the least closed set and not by
recursion, which is what lets it be reasoned about.

**TreeWalk.** `WalkInv` keeps everything delivered below the next target;
`NoneSkipped` says that a wanted key is delivered, still ahead in the leaf, or past
the leaf. With `ExactInv` these give the refinement: a step of the walk is a
step of `OrderedScan` or a stutter. The theorem has a hypothesis, `OneRun`: the
walk is that of `read_dir` (it stops at the first foreign key), and of the keys
of one (objectid, type) only the last has the offset at which `checked_add`
gives up. For the walk that passes over foreign keys, `CompleteWalkOwesNothing`:
when it says it is complete, nothing up to the last wanted key is missing. Its
invariant, `WalkExact`, holds for any set of readable blocks and while that set
grows, which is what the mount needs.

**ChunkTree.** The mount is proved from the proofs of its parts, instantiated
with its own state: `MP` is `ChunkMapProofs`, `WP` is `TreeWalkProofs` with
`mapped` replaced by what the table makes readable. The inductive invariant is
`Ind`, three parts: `MountInv` (the table is disjoint, the parser's and the walk's
phases fit together), `TableInv` (the table holds exactly the chunks of the
entries parsed and those of the items handed over whose start was not there
before), and `WP!WalkExact`. The parts need each other. An insert keeps every
resolution that existed (`InsertKeepsResolution`), so the set of readable blocks grows and
`WalkExact` survives; `WalkExact` says which items have been handed over, so the
table of a completed walk has all of them. For a sound filesystem `SoundInv` adds
where the parser stands: its cursor is `PackedSize`, the bytes of the entries
before it, so the last entry ends at `used`; two entries are two chunks (the
array's cardinality is its length), so no insert meets itself; and the chunks of
the array make every block of the tree readable, so the walk meets no error of
its own. `PackedSize` is a recursive function; that it has the values its
equations say is itself proved, by the least number of entries for which it
would not.

**Decompress.** `DecodeInv`: the output is within the cap after every step, the
LZO loop runs only with a total inside the input, a zstd loop only on a frame
that is there. Every length a segment header gives is compared before it is
used, and the invariant shows that the comparisons suffice. For an extent that
was written, `WrittenInv` says how far the output is: the LZO cursor stands at
the end of some segment and the output is the plaintext of the sectors up to it;
a zstd cursor stands at a frame and the output is the plaintext of the frames
before it and of the bytes read from it. The padding the loop skips is the
padding the writer leaves (`HeaderAfterPadding`), a whole sector fits under the cap
wherever a sector starts (`RoomForSector`), and after the last segment there is
no room for a header that would be read.

**Termination.** Liveness under fairness is not for the prover, but what makes
the loops end is. `SearchesAreBounded` and `DecodersAreBounded` say that every
step returns or makes a triple of naturals smaller in lexicographic order
(descents, levels and slots left for a search; loop, input and frame left for a
decoder). `ReadsAreBounded` says that a turn of a read takes at least a byte, and
`WalksAreBounded` that a walk searches again only from farther on, past a key the
disk holds. They hold on every disk; fairness then only has to say
that the steps are taken.

**FileRead.** `FileInv`: what has been read is the file's slice from the first
byte asked for; while bytes are missing, no extent before the search key
reaches past them (`Reached`); the items in hand are the rest of the extents, in
order, none missing (`Rest`, which the answer of `find_first_ge` establishes and
every item handled preserves). A gap is then a hole because no extent before
the key reaches into it and none after it starts before the next item; an
extent's bytes are the file's because the first extent that covers a byte is
the one the file shows there. For legal files `Behind` is added: what `read_file`
holds ends inside an extent it is done with, so that an overlap refused would be
one of the layout. `AnswersAreContent` needs no legality: where extents overlap,
`read_file` refuses, and `read_file_at` takes the bytes of the first extent that
covers them, which are the ones `ByteAt` gives the file. It has one exception,
which the property states: in a build without overflow checks, the bytes
`read_file_at` takes from a compressed extent at places whose sum with the
extent's offset does not fit a `u64`. `CallByte` is what a call returns for a
byte: at `Place`, the sum wrapped or not; `WrapsOnce` and `PlaceRuns` say that a
slice accepted by the bound check is a run of such places, so that a wrap
spoils the bytes past the maximum and no others. `read_file` has no exception.

**Namespace.** `Leads(v, f, path, x)` says that the volume has a trace of
inodes from the root of subvolume `f` to `x`, one directory entry for each
name. `NameInv`: whatever a call holds, and whatever was resolved or listed, is
at the end of such a trace. That one path leads to one inode is then a fact about
traces of a legal volume; that a walk by any spelling of a path goes along its
components is part of `NameInv` (`AskedOk`: what was walked are the components of
the part of `asked` that has been consumed). That a directory or a subvolume
has one path is shown by going backwards along two traces, which must agree as far as the shorter one goes, and
the rest of the longer one would be a loop. The attempt found that `Legal` had
to say that subvolumes do not contain one another in a circle: the other
clauses allow a circle that hangs from nothing, opened by id. `Legal` says so now.

Where a proof needs induction (over the slots of a node, the inodes of a trace,
the items of a leaf) it uses the least-number principle on a set of naturals,
`LeastNumber`, which follows from the well-foundedness of `<`.

### Only model-checked, and why

- Liveness (`ReadReturns`, `SearchReturns`, `WalkReturns`,
  `MountReturns`, `DecodeReturns`): fairness is out of the prover's reach. The
  measures that decrease are proved for searches, walks, reads and decoders, and
  not for `ChunkTree` and `FileRead`. `SuperblockLoad` has no liveness property:
  its loop runs over a constant array.

Every other property of a passing run is a theorem.

No run checks the strengthened invariants: they stand in the proof modules,
where their inductive steps are proved. Several (`NameInv`, `FileInv`) quantify
over traces or lengths without bound, which TLC could not evaluate. `Ind`,
`SoundInv` and `WrittenInv` were checked on the instances of their runs before
they were proved.

## 5. Findings

1. `chunk_tree.rs:137`: the system-array parser bounds its cursor by
   `sys_chunk_array_size` and never compares it with the 2048 bytes it indexes.
   A larger size makes it index out of bounds, a panic, where
   `docs/TESTING-AND-FUZZING-PLAN.md:22` requires malformed input to be refused without one.
   Run `chunk_tree_panic`.
2. `file.rs:495`: `regular.offset + in_extent_offset` is unchecked in the
   compressed branch of `copy_extent_slice` and checked in the other. A damaged
   extent overflows it. A build without overflow checks (the release profile)
   wraps: a wrapped offset that falls inside the plaintext passes the comparison
   at `file.rs:504`, and `read_file_at` returns `Ok` with bytes of another place,
   where `read_file` refuses the extent. A build with them panics. The same line
   of the plan asks for a refusal. Run `file_read_overflow`, for the release
   profile; with `OverflowChecks` = TRUE TLC shows the panic.
3. `file.rs:222`: `read_file` refuses (`extent_past_eof`) a legal file that
   ends in a hole and has a preallocated extent past its end; `read_file_at`
   reads the same file, and `docs/FEATURES.md:90` lists preallocated extents as
   supported. Run `file_read_prealloc`.
4. `file.rs:672`: `read_through_chunks` casts the length of a run to `usize`
   before it takes the minimum with the buffer. Where `usize` has 32 bits (the
   workflow builds for `thumbv7em-none-eabihf`), a cursor with an exact multiple
   of 4 GiB left in its chunk reads nothing, for ever. `btree.rs:119` takes the
   minimum first. Run `chunked_read_32bit`: the turn that changes nothing shows
   as stuttering at the end of the counterexample.

Observations without a run. `file.rs:342` and `:353` have the same cast, of
a gap and of an extent's remainder: with 32 bits, a gap of a multiple of 4 GiB
fills nothing and the subtraction after it wraps, and such a remainder skips the
extent, whose bytes then read as zeros; `FileRead` keeps `usize` as wide as
`u64`. The comment at `path.rs:49-52` says that a path without a leading slash
yields no components; `Components::next` (70-92) skips slashes only if there are
any and yields them, and so does the model: `NamesAreConsistent` takes such a path
for a spelling of the absolute one. The comment at `chunk_tree.rs:295` speaks of a snapshot of
the map; the code passes the live map, which `AddressesAreStable` and
`ReadableOnlyGrows` show to be harmless.

## 6. Not modelled

- Byte layouts of the formats and error texts: an item
  carries the fields the algorithms tell apart, "too short" being a value.
- Checksums as functions: `crc32c` delegates to an external crate and the name
  hash is table arithmetic on bytes. A checksum is right or wrong; `name_hash` is any
  function, with collisions.
- The codecs (lzokay, ruzstd, miniz_oxide) are external: given what a
  compressor wrote they return its plaintext, given anything else they fail or
  return some bytes. `decode`'s COMPRESS_NONE arm is not reached by any caller.
- A `usize` narrower than `u64`, except in `ChunkedRead`.
- Of an inode's metadata, everything but its type and size.
- `../examples/inspect.rs` and the fuzz targets: callers without logic of their own.
- The device (`BlockRead`): external, any read may fail; a successful read
  returns what the disk holds, the same at every time.

## 7. Plan

Done, in this order: `ChunkMap` and its proofs, `SuperblockLoad` and its
proofs, `BTree`, `TreeWalk` with `OrderedScan`, `ChunkTree`, `FileRead`,
`Namespace`; then `ChunkedRead`, the binary searches of `BTree` as loops,
`Decompress`, and `metadata` and `read_link` in `FileRead`;
then the theorems of section 4, the mount's last.

Next:

1. Measures for the loops of `FileRead` and of the mount, as for the other
   components.
2. `FileRead` with a `usize` narrower than `u64`, which would show the casts of
   `file.rs:342` and `:353` in a run.
