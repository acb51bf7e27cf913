----------------------------- MODULE MCFileRead -----------------------------
(* Small files for FileRead: every kind of extent at the start of the file, *)
(* in its middle and past its end, in one leaf or one leaf per extent.      *)
EXTENDS FileRead, FiniteSets

Plain(kind, num) ==
    [kind |-> kind, flaw |-> "none", num |-> num, comp |-> FALSE, decodes |-> TRUE,
     got |-> num, disk |-> 5, skip |-> 0, disk_num |-> num]

Reg == [Plain("reg", 2) EXCEPT !.skip = 1]
Hole == [Plain("reg", 2) EXCEPT !.disk = 0]
Prealloc == Plain("prealloc", 2)
InlineData == Plain("inline", 2)
InlineCompressed == [InlineData EXCEPT !.comp = TRUE]
Compressed == [Plain("reg", 2) EXCEPT !.comp = TRUE, !.skip = 1, !.got = 3, !.disk_num = 1]

\* Extents no btrfs writes, or whose data is damaged.
InlineShort == [InlineData EXCEPT !.num = 3]
Long == [Reg EXCEPT !.num = 3]
Empty == [Reg EXCEPT !.num = 0]
EmptyCompressed == [Compressed EXCEPT !.num = 0]
Underdecoded == [Compressed EXCEPT !.got = 2]
Undecodable == [Compressed EXCEPT !.decodes = FALSE]
Oversized == [Compressed EXCEPT !.disk_num = 15]
SkipOverflows == [Compressed EXCEPT !.skip = 15]
AddressOverflows == [Reg EXCEPT !.disk = 15]
Unknown == Plain("unknown", 2)
Encrypted == [Reg EXCEPT !.flaw = "feat_encryption"]

At(offset, bodies) == {b @@ ("offset" :> offset) : b \in bodies}

Start == At(0, {Reg, Hole, Prealloc, InlineData, InlineCompressed, Compressed, InlineShort,
                Long, Empty, Underdecoded, Undecodable, Oversized, SkipOverflows,
                AddressOverflows, Unknown, Encrypted})
Middle == At(2, {Reg, Prealloc, InlineData, Compressed, Long, EmptyCompressed})
Late == At(4, {Reg, Prealloc, Compressed})
Beyond == At(15, {Prealloc})

AtMostOne(S) == {<<>>} \cup {<<e>> : e \in S}
Layouts == {a \o b \o c \o d : a \in AtMostOne(Start), b \in AtMostOne(Middle),
                               c \in AtMostOne(Late), d \in AtMostOne(Beyond)}

\* One leaf that another inode's item ends, or one leaf per extent.
Leaves(items) == {<<items \o <<OtherItem>> >>, [i \in DOMAIN items |-> <<items[i]>>]}

Inode(item, mode, size, leaves) ==
    [inode |-> item, mode |-> mode, size |-> size, leaves |-> leaves]

\* Symlinks: the target alone, padded, short, compressed, in no inline extent.
Links == {Inode("present", "symlink", s, l) :
            s \in {0, 2, 3},
            l \in UNION {Leaves(i) : i \in AtMostOne(At(0, {InlineData, InlineCompressed, InlineShort,
                            [InlineData EXCEPT !.got = 5], [InlineCompressed EXCEPT !.decodes = FALSE],
                            [InlineData EXCEPT !.flaw = "feat_encryption"], Reg}))}}

MCFiles == {Inode("present", "file", s, l) : s \in {3, 5}, l \in UNION {Leaves(i) : i \in Layouts}}
           \cup Links
           \cup {Inode("present", "dir", 3, <<>>), Inode("present", "file", 0, <<>>),
                 Inode("present", "file", 15, <<>>)}
           \cup {Inode(i, m, 3, <<>>) : i \in {"absent", "short"}, m \in {"file", "symlink"}}
           \cup {Inode("empty_subvol", "dir", 0, <<>>)}

MCWindows == {[offset |-> 0, len |-> 0], [offset |-> 0, len |-> 4],
              [offset |-> 1, len |-> 2], [offset |-> 3, len |-> 15]}
=============================================================================
