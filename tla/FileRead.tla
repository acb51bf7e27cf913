------------------------------ MODULE FileRead ------------------------------
(***************************************************************************)
(* Reading one inode: read_metadata, read_file (the whole file at once),   *)
(* read_file_at (a window of it) and read_link of src/src/file.rs, over    *)
(* the INODE_ITEM and the EXTENT_DATA items of the inode.                  *)
(*                                                                         *)
(* A byte is abstracted to where it came from, so that a read that returns *)
(* the right number of wrong bytes is visible.  The descent of the tree is *)
(* abstracted to what find_first_ge promises (BTree: SearchIsExact), and   *)
(* the copy through the chunk map (ChunkedRead) and the decompressor       *)
(* (Decompress) to an answer or an error.  The leaves hold the inode's     *)
(* extents in key order, then whatever item follows them.                  *)
(***************************************************************************)
EXTENDS Integers, SequencesExt

CONSTANTS
    MaxU64,       \* the largest u64 (and usize: the targets are 64-bit)
    MaxAlloc,     \* the largest buffer the allocator grants
    MaxDecompressedExtentBytes,   \* MAX_DECOMPRESSED_EXTENT_BYTES
    OverflowChecks,               \* whether the build panics on overflow: the
                                  \* debug profile does, the release one wraps
    Files,        \* the inodes: [inode, mode, size, leaves]
    Windows       \* the [offset, len] the caller asks read_file_at for

ASSUME WidthAssumption ==
    /\ MaxU64 \in Nat \ {0} /\ MaxAlloc \in 0 .. (MaxU64 \div 2)
    /\ MaxDecompressedExtentBytes \in Nat
    /\ OverflowChecks \in BOOLEAN

Kinds == {"inline", "reg", "prealloc", "unknown"}
Flaws == {"none", "extent_header_short", "feat_encryption", "extent_tail_short"}

\* One EXTENT_DATA item.  `num` is ram_bytes of an inline extent, num_bytes of
\* the others; a `flaw` is what the parse of the item refuses (a payload outside
\* its leaf is refused at the same point as a short header); `got` is the length
\* of the inline payload, or of what the decompressor makes of a compressed
\* extent (`decodes` when it makes anything).
Extent == [offset : 0 .. MaxU64, kind : Kinds, flaw : Flaws, num : 0 .. MaxU64,
           comp : BOOLEAN, decodes : BOOLEAN, got : 0 .. MaxU64,
           disk : 0 .. MaxU64, skip : 0 .. MaxU64, disk_num : 0 .. MaxU64]

\* The item that follows the inode's extents: another inode's, or another type.
OtherItem == [kind |-> "other"]
Mine(item) == item # OtherItem

\* What the search for the INODE_ITEM finds; the placeholder directory of a
\* subvolume that is not there (EMPTY_SUBVOL_DIR_OBJECTID) has none and needs none.
InodeItems == {"present", "absent", "short", "empty_subvol"}

\* The order of the keys, within a leaf and from leaf to leaf: the inode's
\* extents by their offsets, then what follows them.
Before(l, i, k, j) == l < k \/ (l = k /\ i < j)
InKeyOrder(leaves) ==
    \A l, k \in DOMAIN leaves : \A i \in DOMAIN leaves[l], j \in DOMAIN leaves[k] :
        Before(l, i, k, j) /\ Mine(leaves[k][j]) =>
            Mine(leaves[l][i]) /\ leaves[l][i].offset < leaves[k][j].offset

ASSUME FilesAssumption ==
    /\ Files \subseteq [inode : InodeItems, mode : {"file", "dir", "symlink"}, size : 0 .. MaxU64,
                        leaves : Seq(Seq(Extent \cup {OtherItem}))]
    /\ \A f \in Files : InKeyOrder(f.leaves)
ASSUME WindowsAssumption ==
    Windows \subseteq [offset : 0 .. MaxU64, len : 0 .. MaxU64]

VARIABLES
    file,         \* the inode read, as the disk holds it
    call,         \* the call in progress: [op, offset, len]
    pc,           \* "start", "opened", "search", "items", "done"
    next_target,  \* offset of the EXTENT_DATA key to search for next
    leaf,         \* the items of the current leaf not looked at yet
    out,          \* the bytes produced: `out`, or `buf[..written]`
    result        \* the call's answer
vars == <<file, call, pc, next_target, leaf, out, result>>

Zero == <<"zero">>
Raw(address) == <<"disk", address>>
Decoded(e, at) == <<"decoded", e.disk, at>>
Inline(e, at) == <<"inline", e.offset, at>>

Err(token) == [tag |-> "err", token |-> token]
Ok(bytes) == [tag |-> "ok", bytes |-> bytes]
Panic == [tag |-> "panic"]
NoAnswer == [tag |-> "none"]

Least(a, b) == IF a < b THEN a ELSE b
Bytes(n, Byte(_)) == [i \in 1 .. n |-> Byte(i - 1)]
Zeros(n) == Bytes(n, LAMBDA i : Zero)
SaturatingAdd(a, b) == Least(a + b, MaxU64)

\* A sum of two u64 as the release profile computes it.
WrappingAdd(a, b) == (a + b) % (MaxU64 + 1)

-----------------------------------------------------------------------------
(* One extent.                                                             *)

\* extent_header, and the parse of a regular extent's tail.
ParseVerdict(e) ==
    IF e.flaw # "none" THEN e.flaw
    ELSE IF e.kind = "unknown" THEN "extent_type_unknown" ELSE "ok"

IsHole(e) == e.disk = 0 \/ e.kind = "prealloc"

\* The bytes [at, at + n) of a compressed extent's plaintext.
DecodedSlice(e, at, n) ==
    IF e.disk_num > MaxDecompressedExtentBytes THEN Err("comp_oversized")
    ELSE IF ~e.decodes THEN Err("comp_decode")
    ELSE IF at + n > MaxU64 THEN Err("extent_overflow")
    ELSE IF at + n > e.got THEN Err("extent_underdecoded")
    ELSE Ok(Bytes(n, LAMBDA i : Decoded(e, at + i)))

\* The bytes [at, at + n) of the disk extent stored at e.disk.
RawSlice(e, at, n) ==
    IF e.disk + at > MaxU64 THEN Err("extent_overflow")
    ELSE IF e.disk + at + n > MaxU64 THEN Err("chunk_unmapped")
    ELSE Ok(Bytes(n, LAMBDA i : Raw(e.disk + at + i)))

InlineSlice(e, at, n) == Bytes(n, LAMBDA i : Inline(e, at + i))

\* Mutant of apply_extent: an extent's bytes are not capped at the file's end.
apply_extent_uncapped(e, have) ==
    IF ParseVerdict(e) # "ok" THEN Err(ParseVerdict(e))
    ELSE IF e.kind = "inline"
         THEN IF e.comp /\ ~e.decodes THEN Err("comp_decode")
              ELSE Ok(InlineSlice(e, 0, Least(e.num, e.got)))
    ELSE IF IsHole(e) THEN Ok(Zeros(e.num))
    ELSE IF ~e.comp THEN RawSlice(e, e.skip, e.num)
    ELSE DecodedSlice(e, e.skip, e.num)

\* What read_file appends for extent e when `have` bytes are already there.
apply_extent(e, have) ==
    LET emit == Least(e.num, IF file.size > have THEN file.size - have ELSE 0)
    IN  IF ParseVerdict(e) # "ok" THEN Err(ParseVerdict(e))
        ELSE IF e.kind = "inline"
             THEN IF e.comp /\ ~e.decodes THEN Err("comp_decode")
                  ELSE Ok(InlineSlice(e, 0, Least(e.num, e.got)))
        ELSE IF emit = 0 THEN Ok(<<>>)
        ELSE IF IsHole(e) THEN Ok(Zeros(emit))
        ELSE IF ~e.comp THEN RawSlice(e, e.skip, emit)
        ELSE DecodedSlice(e, e.skip, emit)

\* Mutant of copy_extent_slice: the extent's offset into its decompressed
\* data is forgotten.
copy_extent_slice_no_offset(e, at, n) ==
    IF e.kind = "inline" THEN Ok(InlineSlice(e, at, n))
    ELSE IF IsHole(e) THEN Ok(Zeros(n))
    ELSE IF ~e.comp THEN RawSlice(e, e.skip + at, n)
    ELSE DecodedSlice(e, at, n)

\* What read_file_at copies: the bytes [at, at + n) of extent e.  The sum
\* regular.offset + in_extent_offset of the compressed branch is unchecked: it
\* panics or wraps as the build has it, and a wrapped sum that lands in the
\* plaintext is read from there.
copy_extent_slice(e, at, n) ==
    IF e.kind = "inline"
    THEN IF e.comp /\ ~e.decodes THEN Err("comp_decode")
         ELSE IF at + n > MaxU64 THEN Err("extent_overflow")
         ELSE IF at + n > e.got THEN Err("extent_underdecoded")
         ELSE Ok(InlineSlice(e, at, n))
    ELSE IF IsHole(e) THEN Ok(Zeros(n))
    ELSE IF ~e.comp THEN RawSlice(e, e.skip + at, n)
    ELSE IF /\ OverflowChecks /\ e.skip + at > MaxU64
            /\ e.disk_num <= MaxDecompressedExtentBytes /\ e.decodes
         THEN Panic
    ELSE DecodedSlice(e, WrappingAdd(e.skip, at), n)

-----------------------------------------------------------------------------
(* The tree.                                                               *)

\* What find_first_ge answers for the key (inode, EXTENT_DATA, target): the
\* items from the found one to the end of its leaf, none when there is none.
FindFirstGe(target) ==
    LET hits(l) == {i \in DOMAIN file.leaves[l] :
                      LET item == file.leaves[l][i]
                      IN  Mine(item) => item.offset >= target}
        leaves == {l \in DOMAIN file.leaves : hits(l) # {}}
        first == CHOOSE l \in leaves : \A k \in leaves : l <= k
        idx == CHOOSE i \in hits(first) : \A k \in hits(first) : i <= k
    IN  IF leaves = {} THEN <<>>
        ELSE SubSeq(file.leaves[first], idx, Len(file.leaves[first]))

-----------------------------------------------------------------------------
(* The calls.                                                              *)

Init ==
    /\ file \in Files
    /\ call \in [op : {"metadata", "read_link", "read_file"}, offset : {0}, len : {0}]
              \cup {[op |-> "read_file_at", offset |-> w.offset, len |-> w.len] : w \in Windows}
    /\ pc = "start"
    /\ next_target = 0
    /\ leaf = <<>>
    /\ out = <<>>
    /\ result = NoAnswer

Whole == call.op = "read_file"
Window == call.op = "read_file_at"

\* Whether read_through_chunks runs before `piece` is known: it may fail.
\* read_file_at decodes a compressed extent even when it wants no byte of it.
ReadsDisk(e, piece) ==
    /\ e.kind = "reg" /\ ~IsHole(e)
    /\ ParseVerdict(e) = "ok"
    /\ piece # Ok(<<>>) \/ (Window /\ e.comp)
    /\ piece # Err("comp_oversized")
    /\ e.comp \/ piece # Err("extent_overflow")

\* How many bytes the call has to produce.
Want == IF Whole THEN file.size
        ELSE Least(call.len, file.size - call.offset)

Return(answer) ==
    /\ pc' = "done"
    /\ result' = answer
    /\ UNCHANGED <<file, call, next_target, leaf, out>>

\* Zero-fill up to the wanted length or trim to it: finalize, and the tail of
\* read_file_at.
Finish ==
    Return(Ok(IF Len(out) < Want THEN out \o Zeros(Want - Len(out))
              ELSE SubSeq(out, 1, Want)))

\* An empty buffer is answered before anything is read.
EmptyWindow ==
    /\ pc = "start"
    /\ Window /\ call.len = 0
    /\ Return(Ok(<<>>))

\* read_metadata, which every call begins with.  The placeholder directory is
\* answered without a search.
ReadMetadata ==
    /\ pc = "start"
    /\ ~(Window /\ call.len = 0)
    /\ \/ file.inode # "empty_subvol" /\ Return(Err("find_first_ge"))
       \/ file.inode = "absent" /\ Return(Err("NotFound"))
       \/ file.inode = "short" /\ Return(Err("inode_item_short"))
       \/ /\ file.inode \in {"present", "empty_subvol"}
          /\ pc' = "opened"
          /\ UNCHANGED <<file, call, next_target, leaf, out, result>>

\* The mode and size read_metadata gives.
Mode == IF file.inode = "empty_subvol" THEN "dir" ELSE file.mode
Size == IF file.inode = "empty_subvol" THEN 0 ELSE file.size

ReturnMetadata ==
    /\ pc = "opened"
    /\ call.op = "metadata"
    /\ Return([tag |-> "metadata", mode |-> Mode, size |-> Size])

\* The answers a file read gives before its first search for extents.
Refuse ==
    /\ pc = "opened"
    /\ Whole \/ Window
    /\ \/ Mode # "file" /\ Return(Err("NotARegularFile"))
       \/ Mode = "file" /\ Whole /\ file.size > MaxAlloc /\ Return(Err("file_buffer"))
       \/ Mode = "file" /\ Window /\ call.offset >= file.size /\ Return(Ok(<<>>))

Begin ==
    /\ pc = "opened"
    /\ Mode = "file"
    /\ \/ Whole /\ file.size <= MaxAlloc
       \/ Window /\ call.offset < file.size
    /\ pc' = "search"
    /\ UNCHANGED <<file, call, next_target, leaf, out, result>>

\* Mutant of LinkTarget: the payload is the target, padding included.
LinkTargetUntrimmed(e) == Ok(InlineSlice(e, 0, e.got))

\* The payload, decompressed if need be, up to the length the inode gives.
LinkTarget(e) == Ok(InlineSlice(e, 0, Least(Size, e.got)))

\* What read_link makes of the first item at or past the inode's first extent.
LinkVerdict(item) ==
    IF ~Mine(item) THEN Err("symlink_no_extent_data")
    ELSE IF item.flaw \in {"extent_header_short", "feat_encryption"} THEN Err(item.flaw)
    ELSE IF item.kind # "inline" THEN Err("symlink_long")
    ELSE IF item.comp /\ ~item.decodes THEN Err("comp_decode")
    ELSE LinkTarget(item)

\* read_link: one search, one inline extent.
ReadLink ==
    /\ pc = "opened"
    /\ call.op = "read_link"
    /\ \/ Mode # "symlink" /\ Return(Err("NotASymlink"))
       \/ Mode = "symlink" /\ Return(Err("find_first_ge"))
       \/ /\ Mode = "symlink"
          /\ LET found == FindFirstGe(0)
             IN  Return(IF found = <<>> THEN Err("NotFound") ELSE LinkVerdict(found[1]))

\* while out.len() < file_size / while written < buf.len()
Search ==
    /\ pc = "search"
    /\ Len(out) < Want
    /\ LET found == FindFirstGe(next_target)
       IN  \/ Return(Err("find_first_ge"))
           \/ found = <<>> /\ Finish
           \/ /\ found # <<>>
              /\ leaf' = found
              /\ pc' = "items"
              /\ UNCHANGED <<file, call, next_target, out, result>>

LoopDone ==
    /\ pc = "search"
    /\ Len(out) >= Want
    /\ Finish

PastExtents ==
    /\ pc = "items"
    /\ leaf # <<>>
    /\ ~Mine(Head(leaf))
    /\ Finish

EndOfLeaf ==
    /\ pc = "items"
    /\ leaf = <<>>
    /\ pc' = "search"
    /\ UNCHANGED <<file, call, next_target, leaf, out, result>>

\* Mutant of Advance: the next search starts at this extent, not past it.
AdvanceSame(e, bytes) ==
    /\ out' = out \o bytes
    /\ next_target' = e.offset
    /\ leaf' = Tail(leaf)
    /\ pc' = IF Len(out') >= Want THEN "search" ELSE "items"
    /\ UNCHANGED <<file, call, result>>

\* The bookkeeping that ends an iteration over one item: `bytes` are appended,
\* the next search starts one past this extent, and a full buffer ends the loop.
Advance(e, bytes) ==
    /\ out' = out \o bytes
    /\ next_target' = e.offset + 1
    /\ leaf' = Tail(leaf)
    /\ pc' = IF Len(out') >= Want THEN "search" ELSE "items"
    /\ UNCHANGED <<file, call, result>>

AtExtent(e) ==
    /\ pc = "items"
    /\ leaf # <<>>
    /\ Mine(Head(leaf))
    /\ e = Head(leaf)

\* Mutants of PlaceVerdict: adjacent extents count as overlapping; extents
\* past the end of the file are let through.
PlaceVerdictAdjacent(e) ==
    IF e.offset <= Len(out) /\ out # <<>> THEN "extent_overlap"
    ELSE IF e.offset > file.size THEN "extent_past_eof" ELSE "ok"

PlaceVerdictNoEof(e) == IF e.offset < Len(out) THEN "extent_overlap" ELSE "ok"

\* read_file: the checks on an extent's place in the file.
PlaceVerdict(e) ==
    IF e.offset < Len(out) THEN "extent_overlap"
    ELSE IF e.offset > file.size THEN "extent_past_eof" ELSE "ok"

RefuseExtent(e) ==
    /\ Whole
    /\ AtExtent(e)
    /\ PlaceVerdict(e) # "ok"
    /\ Return(Err(PlaceVerdict(e)))

\* read_file: fill the gap before the extent, then append the extent.
AppendExtent(e) ==
    /\ Whole
    /\ AtExtent(e)
    /\ PlaceVerdict(e) = "ok"
    /\ LET gap == Zeros(e.offset - Len(out))
           piece == apply_extent(e, e.offset)
       IN  \/ piece.tag = "ok" /\ Advance(e, gap \o piece.bytes)
           \/ piece.tag # "ok" /\ Return(piece)
           \/ ReadsDisk(e, piece) /\ Return(Err("extent_read"))

\* extent_logical_length refuses the items it cannot parse, wanted or not.
RefuseItem(e) ==
    /\ Window
    /\ AtExtent(e)
    /\ ParseVerdict(e) # "ok"
    /\ Return(Err(ParseVerdict(e)))

ExtentEnd(e) == SaturatingAdd(e.offset, e.num)
RequestStart == call.offset + Len(out)

\* read_file_at: an extent that ends before the request.
SkipExtent(e) ==
    /\ Window
    /\ AtExtent(e)
    /\ ParseVerdict(e) = "ok"
    /\ ExtentEnd(e) <= RequestStart
    /\ Advance(e, <<>>)

\* read_file_at: a gap before the extent that fills the buffer.
FillFromGap(e) ==
    /\ Window
    /\ AtExtent(e)
    /\ ParseVerdict(e) = "ok"
    /\ ExtentEnd(e) > RequestStart
    /\ e.offset >= RequestStart + (Want - Len(out))
    /\ Return(Ok(out \o Zeros(Want - Len(out))))

\* read_file_at: zero the gap if there is one, then copy from the extent.
CopyExtent(e) ==
    /\ Window
    /\ AtExtent(e)
    /\ ParseVerdict(e) = "ok"
    /\ ExtentEnd(e) > RequestStart
    /\ e.offset < RequestStart + (Want - Len(out))
    /\ LET gap == IF e.offset > RequestStart THEN e.offset - RequestStart ELSE 0
           start == RequestStart + gap
           here == Least(ExtentEnd(e) - start, Want - Len(out) - gap)
           piece == copy_extent_slice(e, start - e.offset, here)
       IN  \/ piece.tag = "ok" /\ Advance(e, Zeros(gap) \o piece.bytes)
           \/ piece.tag # "ok" /\ Return(piece)
           \/ ReadsDisk(e, piece) /\ Return(Err("extent_read"))

AtItem ==
    \E e \in {Head(leaf)} :
        \/ RefuseExtent(e)
        \/ AppendExtent(e)
        \/ RefuseItem(e)
        \/ SkipExtent(e)
        \/ FillFromGap(e)
        \/ CopyExtent(e)

Next ==
    \/ EmptyWindow
    \/ ReadMetadata
    \/ ReturnMetadata
    \/ ReadLink
    \/ Refuse
    \/ Begin
    \/ Search
    \/ LoopDone
    \/ PastExtents
    \/ EndOfLeaf
    \/ leaf # <<>> /\ AtItem

Spec == Init /\ [][Next]_vars

\* The call is a straight-line loop: the thread that runs it keeps running.
FairSpec == Spec /\ WF_vars(Next)

-----------------------------------------------------------------------------
(* What a file holds.                                                      *)

ExtentsOf(f) == {e \in UNION {ToSet(f.leaves[l]) : l \in DOMAIN f.leaves} : Mine(e)}

\* The bytes of the file an extent stands for.
Reach(e) == IF e.kind = "inline" THEN Least(e.num, e.got) ELSE e.num

Covering(f, i) == {e \in ExtentsOf(f) : e.offset <= i /\ i < e.offset + Reach(e)}
FirstCovering(f, i) == CHOOSE e \in Covering(f, i) : \A d \in Covering(f, i) : e.offset <= d.offset

\* Byte i of the file: that of the first extent that covers it, zero in a hole.
ByteAt(f, i) ==
    LET e == FirstCovering(f, i)
        at == i - e.offset
    IN  IF Covering(f, i) = {} THEN Zero
        ELSE IF e.kind = "inline" THEN Inline(e, at)
        ELSE IF IsHole(e) THEN Zero
        ELSE IF e.comp THEN Decoded(e, e.skip + at)
        ELSE Raw(e.disk + e.skip + at)

\* Byte i of the file is in a compressed extent, and its place in the plaintext
\* does not fit a u64.
SumOverflows(f, i) ==
    LET e == FirstCovering(f, i)
    IN  /\ Covering(f, i) # {}
        /\ e.kind # "inline" /\ ~IsHole(e) /\ e.comp
        /\ e.skip + (i - e.offset) > MaxU64

\* A file as btrfs lays one out: every extent parses and decodes in full,
\* extents do not overlap, and only preallocation goes past the end.
SectorsOverlap(d, e) == d.offset < e.offset + e.num /\ e.offset < d.offset + d.num
Legal(f) ==
    /\ f.inode = "present" /\ f.mode = "file"
    /\ f.size <= MaxAlloc
    /\ \A e \in ExtentsOf(f) :
          /\ ParseVerdict(e) = "ok"
          /\ e.kind = "inline" => e.got = e.num
          /\ e.comp => e.decodes /\ e.disk_num <= MaxDecompressedExtentBytes
          /\ e.comp /\ e.kind = "reg" => e.skip + e.num <= e.got
          /\ e.disk + e.skip + e.num <= MaxU64
          /\ e.offset >= f.size => e.kind = "prealloc"
          /\ \A d \in ExtentsOf(f) \ {e} : ~SectorsOverlap(d, e)

\* A symlink as btrfs writes one: its target inline, possibly padded.
LegalLink(f) ==
    /\ f.inode = "present" /\ f.mode = "symlink"
    /\ \E e \in ExtentsOf(f) :
          /\ ExtentsOf(f) = {e}
          /\ e.offset = 0 /\ e.kind = "inline" /\ e.flaw = "none"
          /\ e.comp => e.decodes
          /\ e.got >= f.size

TransientErrors == {"find_first_ge", "extent_read"}
Answered == result.tag = "ok" \/ (result.tag = "err" /\ result.token \in TransientErrors)

-----------------------------------------------------------------------------
(* Properties.                                                             *)

\* The variables keep their types, and the two loops never build a key whose
\* offset does not fit a u64 (`extent_start + 1` is unchecked).
TypeOK ==
    /\ pc \in {"start", "opened", "search", "items", "done"}
    /\ next_target \in 0 .. MaxU64
    /\ leaf \in Seq(Extent \cup {OtherItem})
    /\ result.tag \in {"ok", "err", "metadata", "panic", "none"}

\* The place in the file of the bytes a call asks for, and their number.
Base == IF Whole THEN 0 ELSE call.offset
Total == IF Whole THEN file.size
         ELSE IF call.offset >= file.size THEN 0
         ELSE Least(call.len, file.size - call.offset)

\* Whatever the layout (overlapping, short, past the end), bytes that
\* read_file or read_file_at return are the file's bytes, in place and in
\* number: a window of the file reads as the same bytes of the whole.  The one
\* exception is the unchecked sum of copy_extent_slice in a build without
\* overflow checks: a byte whose place in the plaintext does not fit a u64
\* (see OverflowIsRefused).  read_file has no such sum and no exception.
AnswerIsContent ==
    result.tag = "ok" /\ call.op # "read_link" =>
        /\ Len(result.bytes) = Total
        /\ \A i \in 1 .. Total :
              \/ result.bytes[i] = ByteAt(file, Base + i - 1)
              \/ Window /\ ~OverflowChecks /\ SumOverflows(file, Base + i - 1)

\* A file laid out as btrfs lays files out reads in full when the device does
\* not fail, in whole or through any window.  read_file is held to it for
\* files with no extent beyond their end only (see PreallocReadsAsZeros).
LegalFileReads ==
    /\ pc = "done" /\ (Whole \/ Window)
    /\ Legal(file)
    /\ Whole => \A e \in ExtentsOf(file) : e.offset <= file.size
    => Answered

\* A symlink reads as its target and nothing else: as many bytes as the inode
\* says, from the start of the payload, not the padding after them; and no
\* item makes read_link return more than the inode's size.
LinkIsTarget ==
    pc = "done" /\ call.op = "read_link" =>
        /\ result.tag = "ok" => Len(result.bytes) <= file.size
        /\ LegalLink(file) =>
              /\ Answered
              /\ result.tag = "ok" =>
                    /\ Len(result.bytes) = file.size
                    /\ \A i \in 1 .. file.size :
                          \E e \in ExtentsOf(file) : result.bytes[i] = Inline(e, i - 1)

\* What the buffer holds is bounded whatever the items claim: a window never
\* outgrows the caller's slice, and the whole-file buffer outgrows the file by
\* no more than one inline payload, the one thing apply_extent does not cap at
\* the file's size.  No gap, however far its extent, is filled past the end.
BufferIsBounded ==
    pc \in {"search", "items", "done"} /\ out # <<>> =>
        \/ Len(out) <= Want
        \/ Whole /\ \E e \in ExtentsOf(file) :
              e.kind = "inline" /\ Len(out) <= file.size + e.got

\* read_file and read_file_at return whatever the extents say: the search key
\* grows with every item, so no layout makes them loop.
ReadReturns == <>(pc = "done")

\* docs/FEATURES.md: "Prealloc extents (zero-fill)", "fallocate(2)-style
\* preallocated ranges".  A preallocated extent never makes a file unreadable.
PreallocReadsAsZeros ==
    pc = "done" /\ (Whole \/ Window) /\ Legal(file) => Answered

\* docs/TESTING-AND-FUZZING-PLAN.md: malformed input is refused without a
\* panic.  An extent whose offset into its plaintext overflows neither panics
\* (a build with overflow checks) nor is read from (one without): no answer
\* has a byte that would lie past the end of any u64.
OverflowIsRefused ==
    /\ result.tag # "panic"
    /\ result.tag = "ok" /\ Window => \A i \in 1 .. Total : ~SumOverflows(file, Base + i - 1)
=============================================================================
