--------------------------- MODULE FileReadProofs ---------------------------
(***************************************************************************)
(* Proofs about FileRead: for any layout of extents, any sizes and any     *)
(* window, with overflow checks or without, the bytes read are the file's  *)
(* but for those whose place in a compressed extent overflows and wraps,   *)
(* the buffer is bounded and the search key fits; a file or a symlink as   *)
(* btrfs lays one out reads.                                               *)
(*                                                                         *)
(* The argument: the items of the leaf in hand begin with the first extent *)
(* at or past the search key (Rest), no extent before the key reaches past *)
(* what has been read (Reached), and what has been read is a slice of the  *)
(* file as the call sees it (Content): CallByte takes a byte of a          *)
(* compressed extent from where the sum of copy_extent_slice points, which *)
(* is the file's byte wherever the sum fits a u64.                         *)
(***************************************************************************)
EXTENDS FileRead, SequenceTheorems, WellFoundedInduction, TLAPS

(* The least-number principle, for sets.                                   *)
LEMMA LeastNumber ==
  ASSUME NEW T \in SUBSET Nat, T # {}
  PROVE  \E x \in T : \A y \in T : x <= y
<1> DEFINE R == OpToRel(<, Nat)
<1>1. R = {ss \in Nat \X Nat : ss[1] < ss[2]}
  BY Zenon DEF OpToRel
<1>2. IsWellFoundedOn(R, Nat)
  BY NatLessThanWellFounded, Zenon
<1> HIDE DEF R
<1>3. PICK x \in T : \A y \in T : ~(<<y, x>> \in R)
  BY <1>2, WFMin
<1>4. ASSUME NEW y \in T PROVE x <= y
  <2>1. ~(<<y, x>> \in R)
    BY <1>3
  <2>2. x \in Nat /\ y \in Nat
    OBVIOUS
  <2> QED
    BY <2>1, <2>2, <1>1
<1> QED
  BY <1>4

-----------------------------------------------------------------------------
(* The extents of a file, and what is left of them.                        *)

Item == Extent \cup {OtherItem}

\* The extents at or past offset t, as a leaf in hand gives them: in order,
\* and none is missing before the end of the leaf.
Rest(f, t, lf) ==
  /\ lf \in Seq(Item)
  /\ \A i \in 1 .. Len(lf) : Mine(lf[i]) => lf[i] \in ExtentsOf(f) /\ lf[i].offset >= t
  /\ \A i, j \in 1 .. Len(lf) : i < j /\ Mine(lf[j]) =>
        Mine(lf[i]) /\ lf[i].offset < lf[j].offset
  /\ \A e \in ExtentsOf(f) : e.offset >= t => \A i \in 1 .. Len(lf) :
        \/ \E j \in 1 .. Len(lf) : j < i /\ lf[j] = e
        \/ Mine(lf[i]) /\ lf[i].offset <= e.offset

\* The types of a file's fields.
LEMMA FileTypes ==
  ASSUME NEW f \in Files
  PROVE  /\ f.size \in Nat /\ f.size <= MaxU64 /\ MaxU64 \in Nat /\ MaxAlloc \in Nat
         /\ f.leaves \in Seq(Seq(Item)) /\ InKeyOrder(f.leaves)
<1>1. f \in [inode : InodeItems, mode : {"file", "dir", "symlink"}, size : 0 .. MaxU64,
             leaves : Seq(Seq(Item))]
  BY FilesAssumption DEF Item
<1>2. MaxU64 \in Nat /\ MaxAlloc \in Nat
  BY WidthAssumption
<1> QED
  BY <1>1, <1>2, FilesAssumption

\* A leaf of a file is a sequence of items.
LEMMA LeafTypes ==
  ASSUME NEW f \in Files, NEW l \in DOMAIN f.leaves
  PROVE  f.leaves[l] \in Seq(Item) /\ l \in Nat
BY FileTypes

\* Where an extent of a file lies.
LEMMA ExtentPlace ==
  ASSUME NEW f \in Files, NEW e \in ExtentsOf(f)
  PROVE  /\ e \in Extent /\ Mine(e)
         /\ \E l \in DOMAIN f.leaves : \E i \in DOMAIN f.leaves[l] : e = f.leaves[l][i]
<1>1. PICK l \in DOMAIN f.leaves : e \in ToSet(f.leaves[l])
  BY DEF ExtentsOf
<1>2. PICK i \in DOMAIN f.leaves[l] : e = f.leaves[l][i]
  BY <1>1 DEF ToSet
<1>3. Mine(e)
  BY DEF ExtentsOf
<1>4. e \in Item
  BY <1>2, LeafTypes
<1>5. e \in Extent
  BY <1>3, <1>4 DEF Item, Mine
<1> QED
  BY <1>2, <1>3, <1>5

\* And what lies there is an extent of the file.
LEMMA PlaceExtent ==
  ASSUME NEW f \in Files, NEW l \in DOMAIN f.leaves, NEW i \in DOMAIN f.leaves[l],
         Mine(f.leaves[l][i])
  PROVE  f.leaves[l][i] \in ExtentsOf(f)
<1>1. f.leaves[l][i] \in ToSet(f.leaves[l])
  BY DEF ToSet
<1> QED
  BY <1>1, Zenon DEF ExtentsOf

\* The fields of an extent are numbers, and those of a u64 fit it.
LEMMA ExtentTypes ==
  ASSUME NEW e \in Extent
  PROVE  /\ e.offset \in Nat /\ e.offset <= MaxU64 /\ e.num \in Nat /\ e.num <= MaxU64
         /\ e.got \in Nat /\ e.disk \in Nat /\ e.skip \in Nat /\ e.disk_num \in Nat
         /\ e.comp \in BOOLEAN /\ e.decodes \in BOOLEAN /\ e.kind \in Kinds /\ e.flaw \in Flaws
         /\ Reach(e) \in Nat /\ Reach(e) <= e.num
<1>1. MaxU64 \in Nat
  BY WidthAssumption
<1> QED
  BY <1>1 DEF Extent, Reach, Least

\* Two extents of a file do not start at one offset.
LEMMA OffsetsDiffer ==
  ASSUME NEW f \in Files, NEW d \in ExtentsOf(f), NEW e \in ExtentsOf(f), d.offset = e.offset
  PROVE  d = e
<1>1. PICK l \in DOMAIN f.leaves : \E i \in DOMAIN f.leaves[l] : d = f.leaves[l][i]
  BY ExtentPlace
<1>2. PICK i \in DOMAIN f.leaves[l] : d = f.leaves[l][i]
  BY <1>1
<1>3. PICK k \in DOMAIN f.leaves : \E j \in DOMAIN f.leaves[k] : e = f.leaves[k][j]
  BY ExtentPlace
<1>4. PICK j \in DOMAIN f.leaves[k] : e = f.leaves[k][j]
  BY <1>3
<1>5. l \in Nat /\ k \in Nat /\ i \in Nat /\ j \in Nat
  BY LeafTypes
<1>6. Mine(d) /\ Mine(e) /\ d.offset \in Nat /\ e.offset \in Nat
  BY ExtentPlace, ExtentTypes
<1>7. InKeyOrder(f.leaves)
  BY FileTypes
<1>8. ~Before(l, i, k, j)
  <2> SUFFICES ASSUME Before(l, i, k, j) PROVE FALSE
    OBVIOUS
  <2>1. d.offset < e.offset
    BY <1>2, <1>4, <1>6, <1>7, Zenon DEF InKeyOrder
  <2> QED
    BY <1>6, <2>1
<1>9. ~Before(k, j, l, i)
  <2> SUFFICES ASSUME Before(k, j, l, i) PROVE FALSE
    OBVIOUS
  <2>1. e.offset < d.offset
    BY <1>2, <1>4, <1>6, <1>7, Zenon DEF InKeyOrder
  <2> QED
    BY <1>6, <2>1
<1>10. l = k /\ i = j
  BY <1>5, <1>8, <1>9 DEF Before
<1> QED
  BY <1>2, <1>4, <1>10

\* What find_first_ge finds: the rest of the extents, or that there is none.
LEMMA FindRest ==
  ASSUME file \in Files, NEW t \in Nat
  PROVE  /\ FindFirstGe(t) = <<>> => \A e \in ExtentsOf(file) : e.offset < t
         /\ FindFirstGe(t) # <<>> => Rest(file, t, FindFirstGe(t))
<1>1. PICK f \in Files : f = file
  OBVIOUS
<1> DEFINE Hit(l, i) == Mine(f.leaves[l][i]) => f.leaves[l][i].offset >= t
           hits(l) == {i \in DOMAIN f.leaves[l] : Hit(l, i)}
           leaves == {l \in DOMAIN f.leaves : hits(l) # {}}
           first == CHOOSE l \in leaves : \A k \in leaves : l <= k
           idx == CHOOSE i \in hits(first) : \A k \in hits(first) : i <= k
           L == f.leaves[first]
           lf == SubSeq(L, idx, Len(L))
<1>2. FindFirstGe(t) = IF leaves = {} THEN <<>> ELSE lf
  BY <1>1 DEF FindFirstGe
<1>3. leaves \in SUBSET Nat /\ \A l \in leaves : hits(l) \in SUBSET Nat
  BY LeafTypes
<1>4. CASE leaves = {}
  <2>1. ASSUME NEW e \in ExtentsOf(f) PROVE e.offset < t
    <3>1. PICK l \in DOMAIN f.leaves : \E i \in DOMAIN f.leaves[l] : e = f.leaves[l][i]
      BY ExtentPlace
    <3>2. PICK i \in DOMAIN f.leaves[l] : e = f.leaves[l][i]
      BY <3>1
    <3>3. ~Hit(l, i)
      BY <1>4
    <3>4. e.offset \in Nat
      BY ExtentPlace, ExtentTypes
    <3> QED
      BY <3>2, <3>3, <3>4
  <2> QED
    BY <1>1, <1>2, <1>4, <2>1
<1>5. CASE leaves # {}
  <2>1. first \in leaves /\ \A k \in leaves : first <= k
    <3> HIDE DEF leaves
    <3>1. \E l \in leaves : \A k \in leaves : l <= k
      BY <1>3, <1>5, LeastNumber
    <3> QED
      BY <3>1
  <2>2. first \in DOMAIN f.leaves /\ hits(first) # {} /\ hits(first) \in SUBSET Nat
    BY <1>3, <2>1
  <2> HIDE DEF first
  <2>3. idx \in hits(first) /\ \A k \in hits(first) : idx <= k
    <3> HIDE DEF hits
    <3>1. \E i \in hits(first) : \A k \in hits(first) : i <= k
      BY <2>2, LeastNumber
    <3> QED
      BY <3>1
  <2>4. idx \in DOMAIN L /\ Hit(first, idx)
    BY <2>3
  <2> HIDE DEF idx
  <2>5. /\ L \in Seq(Item) /\ Len(L) \in Nat /\ DOMAIN L = 1 .. Len(L) /\ first \in Nat
        /\ \A i \in 1 .. Len(L) : L[i] \in Item
    BY <2>2, LeafTypes
  <2>6. idx \in 1 .. Len(L)
    BY <2>4, <2>5
  <2> HIDE DEF L
  <2>7. /\ lf \in Seq(Item) /\ Len(lf) = Len(L) - idx + 1
        /\ \A i \in 1 .. Len(lf) : lf[i] = L[idx + i - 1] /\ idx + i - 1 \in 1 .. Len(L)
    BY <2>5, <2>6, SubSeqProperties
  <2>8. lf # <<>>
    <3> HIDE DEF lf
    <3>1. Len(lf) # 0
      BY <2>5, <2>6, <2>7
    <3> QED
      BY <3>1
  <2> HIDE DEF lf
  <2>9. ASSUME NEW i \in 1 .. Len(L), NEW j \in 1 .. Len(L), i < j, Mine(L[j])
        PROVE  Mine(L[i]) /\ L[i].offset < L[j].offset
    <3>1. Before(first, i, first, j)
      BY <2>9 DEF Before
    <3>2. InKeyOrder(f.leaves)
      BY FileTypes
    <3> QED
      BY <2>2, <2>5, <2>9, <3>1, <3>2, Zenon DEF InKeyOrder, L
  <2>10. ASSUME NEW i \in 1 .. Len(L), Mine(L[i])
         PROVE  L[i] \in ExtentsOf(f) /\ L[i].offset \in Nat
    <3>1. L[i] \in ExtentsOf(f)
      BY <2>2, <2>5, <2>10, PlaceExtent DEF L
    <3> QED
      BY <3>1, ExtentPlace, ExtentTypes
  <2>11. ASSUME NEW i \in 1 .. Len(lf), Mine(lf[i])
         PROVE  lf[i] \in ExtentsOf(f) /\ lf[i].offset >= t
    <3>1. PICK k \in 1 .. Len(L) : k = idx + i - 1
      BY <2>7
    <3>2. lf[i] = L[k] /\ L[k] \in ExtentsOf(f) /\ L[k].offset \in Nat
      BY <2>7, <2>10, <2>11, <3>1
    <3>3. CASE k = idx
      BY <2>4, <2>11, <3>2, <3>3 DEF L
    <3>4. CASE k # idx
      <4>1. idx < k
        BY <2>6, <3>1, <3>4
      <4>2. Mine(L[idx]) /\ L[idx].offset < L[k].offset
        BY <2>6, <2>9, <2>11, <3>2, <4>1
      <4>3. L[idx].offset >= t /\ L[idx].offset \in Nat
        BY <2>4, <2>6, <2>10, <4>2 DEF L
      <4> QED
        BY <3>2, <4>2, <4>3
    <3> QED
      BY <3>3, <3>4
  <2>12. ASSUME NEW i \in 1 .. Len(lf), NEW j \in 1 .. Len(lf), i < j, Mine(lf[j])
         PROVE  Mine(lf[i]) /\ lf[i].offset < lf[j].offset
    <3>1. idx + i - 1 < idx + j - 1
      BY <2>6, <2>12
    <3> QED
      BY <2>7, <2>9, <2>12, <3>1
  <2>13. ASSUME NEW e \in ExtentsOf(f), e.offset >= t, NEW i \in 1 .. Len(lf)
         PROVE  \/ \E j \in 1 .. Len(lf) : j < i /\ lf[j] = e
                \/ Mine(lf[i]) /\ lf[i].offset <= e.offset
    <3>1. PICK k \in DOMAIN f.leaves : \E j \in DOMAIN f.leaves[k] : e = f.leaves[k][j]
      BY ExtentPlace
    <3>2. PICK j \in DOMAIN f.leaves[k] : e = f.leaves[k][j]
      BY <3>1
    <3>3. e.offset \in Nat /\ Mine(e) /\ k \in Nat
      BY ExtentPlace, ExtentTypes, LeafTypes
    <3>4. j \in hits(k)
      BY <2>13, <3>2
    <3>5. first <= k
      BY <2>1, <3>4
    <3>6. CASE k = first
      <4>1. j \in 1 .. Len(L) /\ idx <= j /\ e = L[j]
        BY <2>3, <2>5, <3>2, <3>4, <3>6 DEF L
      <4>2. PICK q \in 1 .. Len(lf) : q = j - idx + 1
        <5>1. j - idx + 1 \in 1 .. Len(lf)
          BY <2>6, <2>7, <4>1
        <5> QED
          BY <5>1
      <4>3. idx + q - 1 = j
        BY <2>6, <4>1, <4>2
      <4>4. lf[q] = e
        BY <2>7, <4>1, <4>2, <4>3
      <4>5. CASE q < i
        BY <4>4, <4>5
      <4>6. CASE q = i
        BY <3>3, <4>4, <4>6
      <4>7. CASE i < q
        <5>1. Mine(lf[i]) /\ lf[i].offset < e.offset
          BY <2>12, <3>3, <4>4, <4>7
        <5>2. lf[i].offset \in Nat
          BY <2>11, <5>1, ExtentPlace, ExtentTypes
        <5> QED
          BY <3>3, <5>1, <5>2
      <4> QED
        BY <4>5, <4>6, <4>7
    <3>7. CASE k # first
      <4>1. PICK q \in 1 .. Len(L) : lf[i] = L[q]
        BY <2>7
      <4>2. Before(first, q, k, j)
        BY <2>5, <3>3, <3>5, <3>7 DEF Before
      <4>3. q \in DOMAIN f.leaves[first]
        BY <2>5 DEF L
      <4>4. InKeyOrder(f.leaves)
        BY FileTypes
      <4>5. Mine(L[q]) /\ L[q].offset < e.offset
        BY <2>2, <3>2, <3>3, <4>2, <4>3, <4>4, Zenon DEF InKeyOrder, L
      <4>6. L[q].offset \in Nat
        BY <2>10, <4>5
      <4> QED
        BY <3>3, <4>1, <4>5, <4>6
    <3> QED
      BY <3>6, <3>7
  <2>14. Rest(f, t, lf)
    BY <2>7, <2>11, <2>12, <2>13 DEF Rest
  <2>15. FindFirstGe(t) = lf
    BY <1>2, <1>5
  <2> QED
    BY <1>1, <2>8, <2>14, <2>15
<1> QED
  BY <1>4, <1>5

\* The first item of the rest is the next extent, or there is none.
LEMMA RestHead ==
  ASSUME NEW f \in Files, NEW t \in Nat, NEW lf, Rest(f, t, lf), lf # <<>>
  PROVE  /\ Mine(Head(lf)) => Head(lf) \in ExtentsOf(f) /\ Head(lf).offset >= t
         /\ \A e \in ExtentsOf(f) : e.offset >= t => Mine(Head(lf)) /\ Head(lf).offset <= e.offset
<1>1. lf \in Seq(Item) /\ Len(lf) \in Nat /\ 1 \in 1 .. Len(lf) /\ Head(lf) = lf[1]
  BY DEF Rest
<1>2. \A j \in 1 .. Len(lf) : ~(j < 1)
  OBVIOUS
<1> QED
  BY <1>1, <1>2 DEF Rest

\* Past it, the items after it are the rest.
LEMMA RestTail ==
  ASSUME NEW f \in Files, NEW t \in Nat, NEW lf, Rest(f, t, lf), lf # <<>>, Mine(Head(lf))
  PROVE  Rest(f, Head(lf).offset + 1, Tail(lf))
<1>1. /\ lf \in Seq(Item) /\ Len(lf) \in Nat /\ 1 \in 1 .. Len(lf) /\ Head(lf) = lf[1]
  BY DEF Rest
<1> DEFINE n == Len(lf)
           tl == Tail(lf)
           u == lf[1].offset + 1
<1>2. tl \in Seq(Item) /\ Len(tl) = n - 1 /\ \A i \in 1 .. n - 1 : tl[i] = lf[i + 1] /\ i + 1 \in 1 .. n
  BY <1>1
<1>3. lf[1].offset \in Nat
  BY <1>1, RestHead, ExtentPlace, ExtentTypes
<1> HIDE DEF tl
<1>4. ASSUME NEW i \in 1 .. Len(tl), Mine(tl[i])
      PROVE  tl[i] \in ExtentsOf(f) /\ tl[i].offset >= u
  <2>1. i + 1 \in 1 .. n /\ 1 < i + 1 /\ tl[i] = lf[i + 1]
    BY <1>2
  <2>2. lf[i + 1] \in ExtentsOf(f) /\ lf[1].offset < lf[i + 1].offset
    BY <1>1, <1>4, <2>1 DEF Rest
  <2>3. lf[i + 1].offset \in Nat
    BY <2>2, ExtentPlace, ExtentTypes
  <2> QED
    BY <1>3, <2>1, <2>2, <2>3
<1>5. ASSUME NEW i \in 1 .. Len(tl), NEW j \in 1 .. Len(tl), i < j, Mine(tl[j])
      PROVE  Mine(tl[i]) /\ tl[i].offset < tl[j].offset
  <2>1. i + 1 \in 1 .. n /\ j + 1 \in 1 .. n /\ i + 1 < j + 1 /\ tl[i] = lf[i + 1] /\ tl[j] = lf[j + 1]
    BY <1>2, <1>5
  <2> QED
    BY <1>5, <2>1 DEF Rest
<1>6. ASSUME NEW e \in ExtentsOf(f), e.offset >= u, NEW i \in 1 .. Len(tl)
      PROVE  \/ \E j \in 1 .. Len(tl) : j < i /\ tl[j] = e
             \/ Mine(tl[i]) /\ tl[i].offset <= e.offset
  <2>0. e.offset \in Nat /\ lf[1].offset >= t
    BY <1>1, RestHead, ExtentPlace, ExtentTypes
  <2>1. i + 1 \in 1 .. n /\ tl[i] = lf[i + 1] /\ e.offset >= t
    BY <1>2, <1>3, <1>6, <2>0
  <2>2. \/ \E j \in 1 .. n : j < i + 1 /\ lf[j] = e
        \/ Mine(lf[i + 1]) /\ lf[i + 1].offset <= e.offset
    BY <2>1 DEF Rest
  <2>3. CASE \E j \in 1 .. n : j < i + 1 /\ lf[j] = e
    <3>1. PICK j \in 1 .. n : j < i + 1 /\ lf[j] = e
      BY <2>3
    <3>2. j # 1
      BY <1>3, <1>6, <2>0, <3>1
    <3>3. PICK q \in 1 .. Len(tl) : q + 1 = j
      <4>1. j - 1 \in 1 .. Len(tl) /\ (j - 1) + 1 = j
        BY <1>2, <3>2
      <4> QED
        BY <4>1
    <3>4. q < i /\ tl[q] = e
      BY <1>2, <3>1, <3>3
    <3> QED
      BY <3>4
  <2> QED
    BY <2>1, <2>2, <2>3
<1>7. Rest(f, u, tl)
  BY <1>2, <1>4, <1>5, <1>6 DEF Rest
<1> QED
  BY <1>1, <1>7 DEF tl

-----------------------------------------------------------------------------
(* Slices of a file.                                                       *)

IsWhole(c) == c.op = "read_file"
IsWindow(c) == c.op = "read_file_at"

\* Where in its plaintext a call looks for byte x of a compressed extent: a
\* window of a file wraps in a build without overflow checks.
Place(c, x) == IF IsWindow(c) /\ ~OverflowChecks THEN x % (MaxU64 + 1) ELSE x

\* Byte `at` of what extent e stands for, as the call reads it.
ByteOf(c, e, at) ==
  IF e.kind = "inline" THEN Inline(e, at)
  ELSE IF IsHole(e) THEN Zero
  ELSE IF e.comp THEN Decoded(e, Place(c, e.skip + at))
  ELSE Raw(e.disk + e.skip + at)

\* Byte i of the file, as the call reads it.
CallByte(f, c, i) ==
  IF Covering(f, i) = {} THEN Zero
  ELSE ByteOf(c, FirstCovering(f, i), i - FirstCovering(f, i).offset)

\* The n bytes of the file from b on.
Content(f, c, b, n) == [i \in 1 .. n |-> CallByte(f, c, b + i - 1)]

FileBytes(f, c) == {CallByte(f, c, i) : i \in Nat}

\* A slice is a sequence of bytes of the file.
LEMMA ContentTypes ==
  ASSUME NEW f, NEW c, NEW b \in Nat, NEW n \in Nat
  PROVE  /\ Content(f, c, b, n) \in Seq(FileBytes(f, c)) /\ Len(Content(f, c, b, n)) = n
         /\ \A i \in 1 .. n : Content(f, c, b, n)[i] = CallByte(f, c, b + i - 1)
<1>1. \A i \in 1 .. n : CallByte(f, c, b + i - 1) \in FileBytes(f, c)
  <2> SUFFICES ASSUME NEW i \in 1 .. n PROVE CallByte(f, c, b + i - 1) \in FileBytes(f, c)
    OBVIOUS
  <2>1. b + i - 1 \in Nat
    OBVIOUS
  <2> QED
    BY <2>1, Zenon DEF FileBytes
<1> QED
  BY <1>1 DEF Content

\* The same as a relation.
IsSlice(f, c, b, n, s) ==
  s \in Seq(FileBytes(f, c)) /\ Len(s) = n /\ \A i \in 1 .. n : s[i] = CallByte(f, c, b + i - 1)

\* A slice is one.
LEMMA ContentIsSlice ==
  ASSUME NEW f, NEW c, NEW b \in Nat, NEW n \in Nat
  PROVE  IsSlice(f, c, b, n, Content(f, c, b, n))
BY ContentTypes, ZenonT(30) DEF IsSlice

\* Two slices that adjoin, as a relation of the four.
Joins(f, c, b, n, m) == Content(f, c, b, n) \o Content(f, c, b + n, m) = Content(f, c, b, n + m)

\* Slices that follow one another make one.
LEMMA ContentJoin ==
  ASSUME NEW f, NEW c, NEW b \in Nat, NEW n \in Nat, NEW m \in Nat
  PROVE  Joins(f, c, b, n, m)
<1> DEFINE s == Content(f, c, b, n)
           t == Content(f, c, b + n, m)
           j == Content(f, c, b, n + m)
<1>1. s \in Seq(FileBytes(f, c)) /\ Len(s) = n /\ \A i \in 1 .. n : s[i] = CallByte(f, c, b + i - 1)
  BY ContentTypes
<1>2. t \in Seq(FileBytes(f, c)) /\ Len(t) = m /\ \A i \in 1 .. m : t[i] = CallByte(f, c, b + n + i - 1)
  <2>1. PICK k \in Nat : k = b + n
    OBVIOUS
  <2>2. IsSlice(f, c, k, m, Content(f, c, k, m))
    BY ContentIsSlice
  <2> QED
    BY <2>1, <2>2 DEF IsSlice
<1>3. /\ j \in Seq(FileBytes(f, c)) /\ Len(j) = n + m
      /\ \A i \in 1 .. n + m : j[i] = CallByte(f, c, b + i - 1)
  <2>1. PICK k \in Nat : k = n + m
    OBVIOUS
  <2>2. IsSlice(f, c, b, k, Content(f, c, b, k))
    BY ContentIsSlice
  <2> QED
    BY <2>1, <2>2 DEF IsSlice
<1> HIDE DEF s, t, j
<1>4. /\ s \o t \in Seq(FileBytes(f, c)) /\ Len(s \o t) = n + m
      /\ \A i \in 1 .. n + m : (s \o t)[i] = IF i <= n THEN s[i] ELSE t[i - n]
  BY <1>1, <1>2, ConcatProperties
<1>5. ASSUME NEW i \in 1 .. n + m PROVE (s \o t)[i] = j[i]
  <2>1. CASE i <= n
    BY <1>1, <1>3, <1>4, <2>1
  <2>2. CASE ~(i <= n)
    <3>1. i - n \in 1 .. m /\ b + n + (i - n) - 1 = b + i - 1
      BY <2>2
    <3>2. (s \o t)[i] = t[i - n]
      BY <1>4, <2>2
    <3>3. t[i - n] = CallByte(f, c, b + n + (i - n) - 1)
      BY <1>2, <3>1
    <3> QED
      BY <1>3, <3>1, <3>2, <3>3
  <2> QED
    BY <2>1, <2>2
<1>6. s \o t = j
  BY <1>3, <1>4, <1>5, SeqEqual
<1> QED
  BY <1>6 DEF s, t, j, Joins

\* A slice cut short is a slice.
LEMMA ContentCut ==
  ASSUME NEW f, NEW c, NEW b \in Nat, NEW n \in Nat, NEW w \in Nat, w <= n
  PROVE  SubSeq(Content(f, c, b, n), 1, w) = Content(f, c, b, w)
<1> DEFINE s == Content(f, c, b, n)
           j == Content(f, c, b, w)
<1>1. s \in Seq(FileBytes(f, c)) /\ Len(s) = n /\ \A i \in 1 .. n : s[i] = CallByte(f, c, b + i - 1)
  BY ContentTypes
<1>2. j \in Seq(FileBytes(f, c)) /\ Len(j) = w /\ \A i \in 1 .. w : j[i] = CallByte(f, c, b + i - 1)
  BY ContentTypes
<1> HIDE DEF s, j
<1>3. \A i \in 1 .. w : s[i] \in FileBytes(f, c)
  BY <1>1
<1>4. /\ SubSeq(s, 1, w) \in Seq(FileBytes(f, c)) /\ Len(SubSeq(s, 1, w)) = w
      /\ \A i \in 1 .. w : SubSeq(s, 1, w)[i] = s[i]
  BY <1>1
<1>5. SubSeq(s, 1, w) = j
  BY <1>1, <1>2, <1>4, SeqEqual
<1> QED
  BY <1>5 DEF s, j

\* The empty slice.
LEMMA ContentNil ==
  ASSUME NEW f, NEW c, NEW b \in Nat
  PROVE  Content(f, c, b, 0) = <<>>
BY DEF Content

\* Of the extents that hold a byte, one comes first.
LEMMA LeastCovering ==
  ASSUME NEW f \in Files, NEW i, Covering(f, i) # {}
  PROVE  \E d \in Covering(f, i) : \A x \in Covering(f, i) : d.offset <= x.offset
<1>1. \A x \in Covering(f, i) : x.offset \in Nat
  BY ExtentPlace, ExtentTypes DEF Covering
<1> DEFINE S == {x.offset : x \in Covering(f, i)}
<1>2. S \subseteq Nat /\ S # {}
  BY <1>1
<1>3. PICK k \in S : \A y \in S : k <= y
  <2> HIDE DEF S
  <2> QED
    BY <1>2, LeastNumber
<1> QED
  BY <1>3

\* Extent d holds byte i of its file.
Covers(d, i) == d.offset <= i /\ i < d.offset + Reach(d)

\* What no extent holds is zero.
LEMMA HoleByte ==
  ASSUME NEW f, NEW c, NEW i, \A d \in ExtentsOf(f) : ~Covers(d, i)
  PROVE  CallByte(f, c, i) = Zero
<1>1. Covering(f, i) = {}
  BY DEF Covers, Covering
<1> QED
  BY <1>1 DEF CallByte

\* What some extent holds is that of the first that does.
LEMMA ExtentByte ==
  ASSUME NEW f \in Files, NEW c, NEW i \in Nat, NEW e \in ExtentsOf(f), Covers(e, i),
         \A d \in ExtentsOf(f) : Covers(d, i) => e.offset <= d.offset
  PROVE  CallByte(f, c, i) = ByteOf(c, e, i - e.offset)
<1> DEFINE d == FirstCovering(f, i)
<1>1. e \in Covering(f, i) /\ \A x \in Covering(f, i) : e.offset <= x.offset
  BY DEF Covers, Covering
<1>2. d \in Covering(f, i) /\ \A x \in Covering(f, i) : d.offset <= x.offset
  BY <1>1, Zenon DEF FirstCovering
<1>3. d \in ExtentsOf(f) /\ d.offset <= e.offset /\ e.offset <= d.offset
  BY <1>1, <1>2 DEF Covering
<1> HIDE DEF d
<1>4. d.offset \in Nat /\ e.offset \in Nat
  BY <1>3, ExtentPlace, ExtentTypes
<1>5. d = e
  <2>1. d.offset = e.offset
    BY <1>3, <1>4
  <2> QED
    BY <1>3, <2>1, OffsetsDiffer
<1>6. Covering(f, i) # {}
  BY <1>1
<1> QED
  BY <1>5, <1>6, Zenon DEF CallByte, d

\* No extent before offset t reaches past byte p.
Reached(f, t, p) == \A d \in ExtentsOf(f) : d.offset < t => d.offset + Reach(d) <= p

\* No extent at or past t starts before q.
NoneBefore(f, t, q) == \A d \in ExtentsOf(f) : d.offset >= t => d.offset >= q

\* The zeros of a gap are the file's.
LEMMA GapIsContent ==
  ASSUME NEW f \in Files, NEW c, NEW t \in Nat, NEW p \in Nat, NEW q \in Nat, NEW m \in Nat,
         Reached(f, t, p), NoneBefore(f, t, q), m = 0 \/ p + m <= q
  PROVE  Zeros(m) = Content(f, c, p, m)
<1>1. ASSUME NEW i \in 1 .. m PROVE CallByte(f, c, p + i - 1) = Zero
  <2>1. PICK k \in Nat : k = p + i - 1
    OBVIOUS
  <2>2. p <= k /\ k < q
    BY <2>1
  <2>3. ASSUME NEW d \in ExtentsOf(f) PROVE ~Covers(d, k)
    <3>1. d.offset \in Nat /\ Reach(d) \in Nat
      BY ExtentPlace, ExtentTypes
    <3>2. d.offset + Reach(d) <= p \/ d.offset >= q
      BY <3>1 DEF Reached, NoneBefore
    <3> QED
      BY <2>2, <3>1, <3>2 DEF Covers
  <2> QED
    BY <2>1, <2>3, HoleByte
<1>2. Zeros(m) = [i \in 1 .. m |-> Zero]
  BY DEF Zeros, Bytes
<1> QED
  BY <1>1, <1>2 DEF Content

\* The bytes [at, at + n) of what extent e stands for.
Piece(c, e, at, n) == [i \in 1 .. n |-> ByteOf(c, e, at + (i - 1))]

\* Those of the next extent are the file's, from what has been read on.
LEMMA PieceIsContent ==
  ASSUME NEW f \in Files, NEW c, NEW e \in ExtentsOf(f), NEW t \in Nat, NEW p \in Nat, NEW n \in Nat,
         NEW at \in Nat, p = e.offset + at, Reached(f, t, p), NoneBefore(f, t, e.offset),
         at + n <= Reach(e)
  PROVE  Piece(c, e, at, n) = Content(f, c, p, n)
<1>1. ASSUME NEW i \in 1 .. n PROVE CallByte(f, c, p + i - 1) = ByteOf(c, e, at + (i - 1))
  <2>1. PICK k \in Nat : k = p + i - 1
    OBVIOUS
  <2>2. e.offset \in Nat /\ Reach(e) \in Nat
    BY ExtentPlace, ExtentTypes
  <2>3. Covers(e, k) /\ k - e.offset = at + (i - 1) /\ p <= k
    BY <2>1, <2>2 DEF Covers
  <2>4. ASSUME NEW d \in ExtentsOf(f), Covers(d, k) PROVE e.offset <= d.offset
    <3>1. d.offset \in Nat /\ Reach(d) \in Nat
      BY ExtentPlace, ExtentTypes
    <3>2. d.offset + Reach(d) <= p \/ d.offset >= e.offset
      BY <3>1 DEF Reached, NoneBefore
    <3> QED
      BY <2>2, <2>3, <2>4, <3>1, <3>2 DEF Covers
  <2>5. CallByte(f, c, k) = ByteOf(c, e, k - e.offset)
    BY <2>3, <2>4, ExtentByte
  <2> QED
    BY <2>1, <2>3, <2>5
<1> QED
  BY <1>1 DEF Piece, Content

-----------------------------------------------------------------------------
(* What the two readers make of one extent.                                *)

\* An extent that parses is of a known kind.
LEMMA ParsedKind ==
  ASSUME NEW e \in Extent, ParseVerdict(e) = "ok"
  PROVE  e.flaw = "none" /\ e.kind \in {"inline", "reg", "prealloc"}
BY DEF ParseVerdict, Extent, Kinds, Flaws

\* A sum of two u64 wraps at most once.
LEMMA WrapsOnce ==
  ASSUME NEW m \in Nat, NEW x \in Nat, x <= m + m + 1
  PROVE  x % (m + 1) = IF x <= m THEN x ELSE x - (m + 1)
<1>1. m + 1 \in Nat /\ m + 1 > 0
  OBVIOUS
<1>2. CASE x <= m
  BY <1>1, <1>2
<1>3. CASE ~(x <= m)
  <2>1. PICK y \in Nat : x = y + (m + 1) /\ y <= m
    <3>1. x - (m + 1) \in Nat /\ x = (x - (m + 1)) + (m + 1) /\ x - (m + 1) <= m
      BY <1>3
    <3> QED
      BY <3>1
  <2>2. (y + (m + 1)) % (m + 1) = y
    BY <1>1, <2>1
  <2> QED
    BY <1>3, <2>1, <2>2
<1> QED
  BY <1>2, <1>3

\* Byte i - 1 after byte `at` of extent e is read i - 1 places after x.
RunsOn(c, e, at, x, i) == Place(c, e.skip + (at + (i - 1))) = x + (i - 1)

\* The bytes after one that does not overflow, or that has wrapped, follow it.
LEMMA PlaceRuns ==
  ASSUME NEW c, NEW e \in Extent, NEW at \in Nat, NEW n \in Nat, at + n <= e.num,
         NEW x, x = Place(c, e.skip + at), x + n <= MaxU64, NEW i \in 1 .. n
  PROVE  RunsOn(c, e, at, x, i)
<1>1. /\ e.skip \in Nat /\ e.skip <= MaxU64 /\ e.num \in Nat /\ e.num <= MaxU64 /\ MaxU64 \in Nat
  BY WidthAssumption DEF Extent
<1>2. PICK y \in Nat, z \in Nat : y = e.skip + at /\ z = e.skip + (at + (i - 1))
  BY <1>1
<1>3. z = y + (i - 1) /\ z <= MaxU64 + MaxU64 + 1 /\ y <= MaxU64 + MaxU64 + 1
  BY <1>1, <1>2
<1>4. CASE IsWindow(c) /\ ~OverflowChecks
  <2>1. x = y % (MaxU64 + 1) /\ Place(c, z) = z % (MaxU64 + 1)
    BY <1>2, <1>4 DEF Place
  <2>2. x = IF y <= MaxU64 THEN y ELSE y - (MaxU64 + 1)
    BY <1>1, <1>3, <2>1, WrapsOnce
  <2>3. Place(c, z) = IF z <= MaxU64 THEN z ELSE z - (MaxU64 + 1)
    BY <1>1, <1>3, <2>1, WrapsOnce
  <2> QED
    BY <1>1, <1>2, <1>3, <2>2, <2>3 DEF RunsOn
<1>5. CASE ~(IsWindow(c) /\ ~OverflowChecks)
  BY <1>1, <1>2, <1>3, <1>5 DEF Place, RunsOn
<1> QED
  BY <1>4, <1>5

\* A decoded slice as bytes of the extent.
LEMMA DecodedPiece ==
  ASSUME NEW c, NEW e \in Extent, NEW at \in Nat, NEW n \in Nat, at + n <= e.num,
         e.kind # "inline", ~IsHole(e), e.comp,
         NEW x, x = Place(c, e.skip + at), DecodedSlice(e, x, n).tag = "ok"
  PROVE  DecodedSlice(e, x, n).bytes = Piece(c, e, at, n)
<1>0. e.skip \in Nat /\ MaxU64 \in Nat
  BY ExtentTypes, WidthAssumption
<1>1. x \in Nat /\ x + n <= MaxU64
  <2>1. x \in Nat
    <3>1. e.skip + at \in Nat /\ MaxU64 + 1 \in Nat /\ MaxU64 + 1 > 0
      BY <1>0
    <3> QED
      BY <3>1 DEF Place
  <2>2. ~(x + n > MaxU64)
    BY DEF DecodedSlice, Err
  <2> QED
    BY <1>0, <2>1, <2>2
<1>2. ASSUME NEW i \in 1 .. n PROVE RunsOn(c, e, at, x, i)
  BY <1>1, PlaceRuns
<1>3. \A i \in 1 .. n : ByteOf(c, e, at + (i - 1)) = Decoded(e, x + (i - 1))
  BY <1>2 DEF ByteOf, RunsOn
<1>4. DecodedSlice(e, x, n) = Ok(Bytes(n, LAMBDA i : Decoded(e, x + i)))
  BY DEF DecodedSlice, Err
<1>5. DecodedSlice(e, x, n).bytes = [i \in 1 .. n |-> Decoded(e, x + (i - 1))]
  <2>1. \A y : Ok(y).bytes = y
    BY DEF Ok
  <2>2. DecodedSlice(e, x, n).bytes = Bytes(n, LAMBDA i : Decoded(e, x + i))
    BY <1>4, <2>1
  <2> QED
    BY <2>2, Zenon DEF Bytes
<1> QED
  BY <1>3, <1>5, Zenon DEF Piece

\* The other slices as bytes of the extent.
LEMMA Slices ==
  ASSUME NEW c, NEW e \in Extent, NEW at \in Nat, NEW n \in Nat
  PROVE  /\ e.kind = "inline" => InlineSlice(e, at, n) = Piece(c, e, at, n)
         /\ e.kind # "inline" /\ IsHole(e) => Zeros(n) = Piece(c, e, at, n)
         /\ e.kind # "inline" /\ ~IsHole(e) /\ ~e.comp /\ RawSlice(e, e.skip + at, n).tag = "ok"
               => RawSlice(e, e.skip + at, n).bytes = Piece(c, e, at, n)
<1>0. e.disk \in Nat /\ e.skip \in Nat
  BY ExtentTypes
<1>1. e.kind = "inline" => InlineSlice(e, at, n) = Piece(c, e, at, n)
  BY DEF InlineSlice, Bytes, Piece, ByteOf
<1>2. e.kind # "inline" /\ IsHole(e) => Zeros(n) = Piece(c, e, at, n)
  BY DEF Zeros, Bytes, Piece, ByteOf
<1>3. ASSUME e.kind # "inline", ~IsHole(e), ~e.comp, RawSlice(e, e.skip + at, n).tag = "ok"
      PROVE  RawSlice(e, e.skip + at, n).bytes = Piece(c, e, at, n)
  <2>1. \A i \in 1 .. n : e.disk + (e.skip + at) + (i - 1) = e.disk + e.skip + (at + (i - 1))
    BY <1>0
  <2>2. \A i \in 1 .. n : ByteOf(c, e, at + (i - 1)) = Raw(e.disk + (e.skip + at) + (i - 1))
    BY <1>3, <2>1 DEF ByteOf
  <2>3. RawSlice(e, e.skip + at, n) = Ok(Bytes(n, LAMBDA i : Raw(e.disk + (e.skip + at) + i)))
    BY <1>3 DEF RawSlice, Err
  <2>4. RawSlice(e, e.skip + at, n).bytes = [i \in 1 .. n |-> Raw(e.disk + (e.skip + at) + (i - 1))]
    <3>1. \A x : Ok(x).bytes = x
      BY DEF Ok
    <3>2. RawSlice(e, e.skip + at, n).bytes = Bytes(n, LAMBDA i : Raw(e.disk + (e.skip + at) + i))
      BY <2>3, <3>1
    <3> QED
      BY <3>2, Zenon DEF Bytes
  <2> QED
    BY <2>2, <2>4, Zenon DEF Piece
<1> QED
  BY <1>1, <1>2, <1>3

\* How much of extent e read_file appends.
Emitted(size, e) ==
  IF e.kind = "inline" THEN Reach(e) ELSE Least(e.num, IF size > e.offset THEN size - e.offset ELSE 0)

\* apply_extent gives the first bytes of the extent.
LEMMA ApplyExtent ==
  ASSUME file \in Files, NEW c, IsWhole(c), NEW e \in Extent, apply_extent(e, e.offset).tag = "ok"
  PROVE  /\ apply_extent(e, e.offset).bytes = Piece(c, e, 0, Emitted(file.size, e))
         /\ Emitted(file.size, e) \in Nat /\ Emitted(file.size, e) <= Reach(e)
         /\ ParseVerdict(e) = "ok"
<1>0. /\ file.size \in Nat /\ e.offset \in Nat /\ e.num \in Nat /\ e.got \in Nat /\ e.skip \in Nat
      /\ e.comp \in BOOLEAN
  BY FileTypes, ExtentTypes
<1>1. PICK n \in Nat : n = Emitted(file.size, e)
  BY <1>0 DEF Emitted, Reach, Least
<1>2. n <= Reach(e)
  BY <1>0, <1>1 DEF Emitted, Reach, Least
<1>3. ParseVerdict(e) = "ok"
  BY DEF apply_extent, Err
<1>4. CASE e.kind = "inline"
  <2>1. apply_extent(e, e.offset) = Ok(InlineSlice(e, 0, n))
    BY <1>1, <1>3, <1>4 DEF apply_extent, Err, Emitted, Reach
  <2>2. InlineSlice(e, 0, n) = Piece(c, e, 0, n)
    BY <1>4, Slices
  <2> QED
    BY <1>1, <1>2, <1>3, <2>1, <2>2 DEF Ok
<1>5. CASE e.kind # "inline"
  <2>1. n = Least(e.num, IF file.size > e.offset THEN file.size - e.offset ELSE 0)
    BY <1>1, <1>5 DEF Emitted
  <2>2. apply_extent(e, e.offset) = IF n = 0 THEN Ok(<<>>)
                                    ELSE IF IsHole(e) THEN Ok(Zeros(n))
                                    ELSE IF ~e.comp THEN RawSlice(e, e.skip, n)
                                    ELSE DecodedSlice(e, e.skip, n)
    BY <1>3, <1>5, <2>1 DEF apply_extent
  <2>3. e.skip + 0 = e.skip /\ Place(c, e.skip + 0) = e.skip /\ 0 + n <= e.num
    BY <1>0, <1>1, <1>2, ExtentTypes DEF Place, IsWhole, IsWindow
  <2>4. CASE n = 0
    <3>1. Piece(c, e, 0, 0) = <<>>
      BY DEF Piece
    <3> QED
      BY <1>1, <1>2, <1>3, <2>2, <2>4, <3>1 DEF Ok
  <2>5. CASE n # 0 /\ ~IsHole(e) /\ e.comp
    <3>1. DecodedSlice(e, e.skip, n).bytes = Piece(c, e, 0, n)
      BY <1>5, <2>2, <2>3, <2>5, DecodedPiece
    <3> QED
      BY <1>1, <1>2, <1>3, <1>5, <2>2, <2>5, <3>1
  <2>6. CASE n # 0 /\ (IsHole(e) \/ ~e.comp)
    BY <1>0, <1>1, <1>2, <1>3, <1>5, <2>2, <2>3, <2>6, Slices DEF Ok
  <2> QED
    BY <1>0, <2>4, <2>5, <2>6
<1> QED
  BY <1>4, <1>5

\* copy_extent_slice gives the bytes asked for, and an inline extent has them.
LEMMA CopyExtentSlice ==
  ASSUME NEW c, IsWindow(c), NEW e \in Extent, NEW at \in Nat, NEW n \in Nat, at + n <= e.num,
         copy_extent_slice(e, at, n).tag = "ok"
  PROVE  /\ copy_extent_slice(e, at, n).bytes = Piece(c, e, at, n)
         /\ e.kind = "inline" => at + n <= e.got
<1>0. e.got \in Nat /\ e.comp \in BOOLEAN
  BY ExtentTypes
<1>1. CASE e.kind = "inline"
  <2>1. copy_extent_slice(e, at, n) = Ok(InlineSlice(e, at, n)) /\ ~(at + n > e.got)
    BY <1>1 DEF copy_extent_slice, Err
  <2> QED
    BY <1>0, <1>1, <2>1, Slices DEF Ok
<1>2. CASE e.kind # "inline"
  <2>1. CASE IsHole(e)
    BY <1>2, <2>1, Slices DEF copy_extent_slice, Ok
  <2>2. CASE ~IsHole(e) /\ ~e.comp
    BY <1>2, <2>2, Slices DEF copy_extent_slice
  <2>3. CASE ~IsHole(e) /\ e.comp
    <3>1. copy_extent_slice(e, at, n) = DecodedSlice(e, WrappingAdd(e.skip, at), n)
      BY <1>2, <2>3 DEF copy_extent_slice, Panic
    <3>2. WrappingAdd(e.skip, at) = Place(c, e.skip + at)
      <4>1. /\ e.skip \in Nat /\ e.skip <= MaxU64 /\ e.num <= MaxU64 /\ e.num \in Nat
            /\ MaxU64 \in Nat
        BY WidthAssumption DEF Extent
      <4>2. CASE ~OverflowChecks
        BY <4>2 DEF WrappingAdd, Place
      <4>3. CASE OverflowChecks
        <5>1. e.skip + at <= MaxU64
          <6>1. e.disk_num <= MaxDecompressedExtentBytes /\ e.decodes
            <7>1. e.disk_num \in Nat /\ MaxDecompressedExtentBytes \in Nat
              BY ExtentTypes, WidthAssumption
            <7> QED
              BY <3>1, <7>1 DEF DecodedSlice, Err
          <6>2. ~(e.skip + at > MaxU64)
            BY <1>2, <2>3, <4>3, <6>1 DEF copy_extent_slice, Panic
          <6> QED
            BY <4>1, <6>2
        <5>2. (e.skip + at) % (MaxU64 + 1) = e.skip + at
          <6>1. PICK y \in Nat : y = e.skip + at
            BY <4>1
          <6>2. y <= MaxU64 /\ y <= MaxU64 + MaxU64 + 1
            BY <4>1, <5>1, <6>1
          <6> QED
            BY <4>1, <6>1, <6>2, WrapsOnce
        <5> QED
          BY <4>3, <5>2 DEF WrappingAdd, Place
      <4> QED
        BY <4>2, <4>3
    <3> QED
      BY <1>2, <2>3, <3>1, <3>2, DecodedPiece
  <2> QED
    BY <1>0, <2>1, <2>2, <2>3
<1> QED
  BY <1>1, <1>2

-----------------------------------------------------------------------------
(* The invariant.                                                          *)

Calls == [op : {"metadata", "read_link", "read_file", "read_file_at"},
          offset : 0 .. MaxU64, len : 0 .. MaxU64]
\* Where the bytes the call asks for begin, and how many of them there are.
BaseOf(c) == IF IsWhole(c) THEN 0 ELSE c.offset
WantOf(f, c) == IF IsWhole(c) THEN f.size ELSE Least(c.len, f.size - c.offset)
TotalOf(f, c) == IF ~IsWhole(c) /\ c.offset >= f.size THEN 0 ELSE WantOf(f, c)

\* A file read has begun.
Started(f, c) ==
  /\ IsWhole(c) \/ IsWindow(c)
  /\ IsWhole(c) => f.size <= MaxAlloc
  /\ IsWindow(c) => c.offset < f.size

\* n bytes have been read, and the extents before t are done with.
Read(f, c, t, o, n) ==
  /\ n \in Nat
  /\ o = Content(f, c, BaseOf(c), n)
  /\ n < WantOf(f, c) => Reached(f, t, BaseOf(c) + n)

\* The loop of read_file or read_file_at, between its steps.
Reading(f, c, p, t, lf, o) ==
  /\ Started(f, c)
  /\ \E n : /\ Read(f, c, t, o, n)
            /\ p = "items" => n < WantOf(f, c) /\ Rest(f, t, lf)

\* The buffer is no longer than the window, and than the file by no more than
\* one inline payload.
Bounded(f, c, o) ==
  o # <<>> =>
    \/ Len(o) <= WantOf(f, c)
    \/ IsWhole(c) /\ \E e \in ExtentsOf(f) : e.kind = "inline" /\ Len(o) <= f.size + e.got

\* What the call returned is what the file holds.
ResultOk(f, c, r) ==
  /\ r.tag \in {"ok", "err", "metadata", "panic", "none"}
  /\ r.tag = "ok" /\ c.op # "read_link" => r.bytes = Content(f, c, BaseOf(c), TotalOf(f, c))

FileInv ==
  /\ file \in Files
  /\ call \in Calls
  /\ pc \in {"start", "opened", "search", "items", "done"}
  /\ next_target \in 0 .. MaxU64
  /\ leaf \in Seq(Item)
  /\ pc \in {"start", "opened"} => out = <<>> /\ next_target = 0
  /\ pc \in {"search", "items"} => Reading(file, call, pc, next_target, leaf, out)
  /\ Bounded(file, call, out)
  /\ ResultOk(file, call, result)

\* The state's names for the same things.
LEMMA SameNames ==
  /\ Whole <=> IsWhole(call)
  /\ Window <=> IsWindow(call)
  /\ Want = WantOf(file, call)
BY DEF Whole, Window, Want, IsWhole, IsWindow, WantOf

\* The bytes wanted lie in the file, whose size fits a u64.
LEMMA WantTypes ==
  ASSUME NEW f \in Files, NEW c \in Calls, Started(f, c)
  PROVE  /\ WantOf(f, c) \in Nat /\ BaseOf(c) \in Nat /\ TotalOf(f, c) = WantOf(f, c)
         /\ BaseOf(c) + WantOf(f, c) <= f.size /\ f.size <= MaxU64
         /\ f.size \in Nat /\ MaxU64 \in Nat
         /\ IsWhole(c) => f.size < MaxU64 /\ BaseOf(c) = 0 /\ WantOf(f, c) = f.size
<1>1. /\ f.size \in Nat /\ f.size <= MaxU64 /\ MaxU64 \in Nat
      /\ MaxAlloc \in 0 .. (MaxU64 \div 2) /\ MaxU64 # 0
  BY FileTypes, WidthAssumption
<1>2. MaxAlloc < MaxU64
  BY <1>1
<1>3. c.offset \in Nat /\ c.len \in Nat /\ c.offset <= MaxU64
  BY <1>1 DEF Calls
<1>4. MaxAlloc \in Nat
  BY <1>1
<1> QED
  BY <1>1, <1>2, <1>3, <1>4 DEF Started, BaseOf, WantOf, TotalOf, IsWhole, IsWindow, Least

\* How long what has been read is.
LEMMA ReadLength ==
  ASSUME NEW f \in Files, NEW c \in Calls, Started(f, c), NEW t, NEW o, NEW n, Read(f, c, t, o, n)
  PROVE  Len(o) = n /\ n \in Nat
<1>1. BaseOf(c) \in Nat
  BY WantTypes
<1> QED
  BY <1>1, ContentTypes DEF Read

\* A call returns.
LEMMA ReturnKeeps ==
  ASSUME FileInv, NEW answer, Return(answer), ResultOk(file, call, answer)
  PROVE  FileInv'
<1>1. pc' = "done" /\ result' = answer /\ UNCHANGED <<file, call, next_target, leaf, out>>
  BY DEF Return
<1> QED
  BY <1>1 DEF FileInv

\* Nothing is said of the bytes of an error.
LEMMA ErrIsOk ==
  ASSUME NEW token
  PROVE  ResultOk(file, call, Err(token))
BY DEF ResultOk, Err

\* finalize and the tail of read_file_at: what is missing is a hole.
LEMMA FinishKeeps ==
  ASSUME FileInv, pc \in {"search", "items"}, Finish,
         Len(out) < Want => NoneBefore(file, next_target, BaseOf(call) + WantOf(file, call))
  PROVE  FileInv'
<1>1. PICK f \in Files, c \in Calls : f = file /\ c = call
  BY DEF FileInv
<1>2. PICK t \in Nat : t = next_target
  BY WidthAssumption DEF FileInv
<1>3. Started(f, c) /\ \E n : Read(f, c, t, out, n)
  <2>1. Reading(f, c, pc, t, leaf, out)
    BY <1>1, <1>2 DEF FileInv
  <2> QED
    BY <2>1, Zenon DEF Reading
<1>4. PICK n : Read(f, c, t, out, n)
  BY <1>3
<1>5. PICK w \in Nat, b \in Nat : w = WantOf(f, c) /\ b = BaseOf(c)
  BY <1>3, WantTypes
<1>6. /\ n \in Nat /\ Len(out) = n /\ out = Content(f, c, b, n)
      /\ n < w => Reached(f, t, b + n)
  BY <1>3, <1>4, <1>5, ReadLength DEF Read
<1> DEFINE bytes == IF n < w THEN out \o Zeros(w - n) ELSE SubSeq(out, 1, w)
<1>7. Return(Ok(bytes))
  BY <1>1, <1>5, <1>6, SameNames DEF Finish
<1>8. bytes = Content(f, c, b, w)
  <2>1. CASE n < w
    <3>1. PICK m \in Nat : m = w - n
      BY <1>6, <2>1
    <3>2. Reached(f, t, b + n) /\ NoneBefore(f, t, b + w)
      BY <1>1, <1>2, <1>5, <1>6, <2>1, SameNames
    <3>3. b + n \in Nat /\ b + w \in Nat /\ b + n + m <= b + w /\ n + m = w
      BY <1>6, <3>1
    <3>4. Zeros(m) = Content(f, c, b + n, m)
      BY <3>2, <3>3, GapIsContent
    <3>5. out \o Zeros(m) = Content(f, c, b, n + m)
      <4>1. Content(f, c, b, n) \o Content(f, c, b + n, m) = Content(f, c, b, n + m)
        <5>1. n \in Nat
          BY <1>6
        <5>2. Joins(f, c, b, n, m)
          BY <5>1, ContentJoin
        <5> QED
          BY <5>2, Zenon DEF Joins
      <4> QED
        BY <1>6, <3>4, <4>1
    <3> QED
      BY <2>1, <3>1, <3>3, <3>5
  <2>2. CASE ~(n < w)
    <3>1. w <= n
      BY <1>6, <2>2
    <3>2. SubSeq(Content(f, c, b, n), 1, w) = Content(f, c, b, w)
      BY <1>6, <3>1, ContentCut
    <3> QED
      BY <1>6, <2>2, <3>2
  <2> QED
    BY <2>1, <2>2
<1> HIDE DEF bytes
<1>9. ResultOk(file, call, Ok(bytes))
  <2>1. TotalOf(f, c) = w
    BY <1>3, <1>5, WantTypes
  <2> QED
    BY <1>1, <1>5, <1>8, <2>1 DEF ResultOk, Ok
<1> QED
  BY <1>7, <1>9, ReturnKeeps

\* The end of an iteration: m more bytes of the file, and extent e done with.
LEMMA AdvanceKeeps ==
  ASSUME FileInv, pc = "items", leaf # <<>>, NEW e, e = Head(leaf), Mine(e),
         NEW bytes, Advance(e, bytes),
         NEW m \in Nat, bytes = Content(file, call, BaseOf(call) + Len(out), m),
         e.offset < MaxU64,
         Len(out) + m < WantOf(file, call) =>
            e.offset + Reach(e) <= BaseOf(call) + Len(out) + m,
         \/ Len(out) + m <= WantOf(file, call)
         \/ IsWhole(call) /\ e.kind = "inline" /\ Len(out) + m <= file.size + e.got
  PROVE  FileInv'
<1>1. PICK f \in Files, c \in Calls : f = file /\ c = call
  BY DEF FileInv
<1>2. PICK t \in Nat : t = next_target
  BY WidthAssumption DEF FileInv
<1>3. Started(f, c) /\ \E n : Read(f, c, t, out, n) /\ n < WantOf(f, c) /\ Rest(f, t, leaf)
  <2>1. Reading(f, c, pc, t, leaf, out)
    BY <1>1, <1>2 DEF FileInv
  <2> QED
    BY <2>1, Zenon DEF Reading
<1>4. PICK n : Read(f, c, t, out, n) /\ n < WantOf(f, c) /\ Rest(f, t, leaf)
  BY <1>3
<1>5. PICK w \in Nat, b \in Nat : w = WantOf(f, c) /\ b = BaseOf(c)
  BY <1>3, WantTypes
<1>6. /\ n \in Nat /\ Len(out) = n /\ out = Content(f, c, b, n) /\ n < w
      /\ Reached(f, t, b + n) /\ Rest(f, t, leaf)
  BY <1>3, <1>4, <1>5, ReadLength DEF Read
<1>7. /\ e \in ExtentsOf(f) /\ e.offset >= t
      /\ \A d \in ExtentsOf(f) : d.offset >= t => e.offset <= d.offset
  BY <1>6, RestHead
<1>8. e.offset \in Nat /\ Reach(e) \in Nat
  BY <1>7, ExtentPlace, ExtentTypes
<1>9. /\ out' = out \o bytes /\ next_target' = e.offset + 1 /\ leaf' = Tail(leaf)
      /\ pc' = IF Len(out') >= Want THEN "search" ELSE "items"
      /\ UNCHANGED <<file, call, result>>
  BY DEF Advance
<1>10. out' = Content(f, c, b, n + m)
  <2>1. Content(f, c, b, n) \o Content(f, c, b + n, m) = Content(f, c, b, n + m)
    <3>1. n \in Nat
      BY <1>6
    <3>2. Joins(f, c, b, n, m)
      BY <3>1, ContentJoin
    <3> QED
      BY <3>2, Zenon DEF Joins
  <2>2. bytes = Content(f, c, b + n, m)
    BY <1>1, <1>5, <1>6
  <2> QED
    BY <1>6, <1>9, <2>1, <2>2
<1>11. n + m < w => Reached(f, e.offset + 1, b + (n + m))
  <2> SUFFICES ASSUME n + m < w, NEW d \in ExtentsOf(f), d.offset < e.offset + 1
               PROVE  d.offset + Reach(d) <= b + (n + m)
    BY DEF Reached
  <2>1. d.offset \in Nat /\ Reach(d) \in Nat
    BY ExtentPlace, ExtentTypes
  <2>2. CASE d.offset < t
    BY <1>6, <2>1, <2>2 DEF Reached
  <2>3. CASE ~(d.offset < t)
    <3>1. d.offset = e.offset
      BY <1>7, <1>8, <2>1, <2>3
    <3>2. d = e
      BY <1>7, <3>1, OffsetsDiffer
    <3> QED
      BY <1>1, <1>5, <1>6, <1>8, <3>2
  <2> QED
    BY <2>2, <2>3
<1>12. Read(f, c, e.offset + 1, out', n + m)
  BY <1>5, <1>6, <1>10, <1>11 DEF Read
<1>13. PICK o : o = out'
  OBVIOUS
<1>14. Len(o) = n + m
  BY <1>3, <1>12, <1>13, ReadLength
<1>15. Rest(f, e.offset + 1, Tail(leaf))
  BY <1>6, RestTail
<1>16. pc' = "items" => n + m < w
  BY <1>1, <1>5, <1>6, <1>9, <1>13, <1>14, SameNames
<1>17. pc' \in {"search", "items"}
  BY <1>9
<1>18. Reading(f, c, pc', e.offset + 1, Tail(leaf), out')
  BY <1>3, <1>5, <1>12, <1>15, <1>16 DEF Reading
<1>19. Bounded(f, c, out')
  <2>1. \/ n + m <= w
        \/ IsWhole(c) /\ e.kind = "inline" /\ n + m <= f.size + e.got
    BY <1>1, <1>5, <1>6
  <2> QED
    BY <1>5, <1>7, <1>13, <1>14, <2>1 DEF Bounded
<1>20. next_target' \in 0 .. MaxU64
  BY <1>8, <1>9, WidthAssumption
<1>21. leaf' \in Seq(Item)
  BY <1>9, <1>15 DEF Rest
<1> QED
  BY <1>1, <1>9, <1>17, <1>18, <1>19, <1>20, <1>21 DEF FileInv

-----------------------------------------------------------------------------
(* The steps at one extent.                                                *)

\* The loop is at extent e, with n bytes read and the extents before t done.
Here(f, c, n, t, e) ==
  /\ f = file /\ c = call /\ t = next_target /\ n = Len(out)
  /\ Started(f, c)
  /\ out = Content(f, c, BaseOf(c), n)
  /\ n < WantOf(f, c)
  /\ Reached(f, t, BaseOf(c) + n)
  /\ e \in ExtentsOf(f)
  /\ NoneBefore(f, t, e.offset)

\* What the invariant says there.
LEMMA AtExtentFacts ==
  ASSUME FileInv, NEW e, AtExtent(e)
  PROVE  \E f \in Files, c \in Calls, n \in Nat, t \in Nat : Here(f, c, n, t, e)
<1>1. PICK f \in Files, c \in Calls : f = file /\ c = call
  BY DEF FileInv
<1>2. PICK t \in Nat : t = next_target
  BY WidthAssumption DEF FileInv
<1>3. pc = "items" /\ leaf # <<>> /\ Mine(Head(leaf)) /\ e = Head(leaf)
  BY DEF AtExtent
<1>4. Started(f, c) /\ \E n : Read(f, c, t, out, n) /\ n < WantOf(f, c) /\ Rest(f, t, leaf)
  <2>1. Reading(f, c, pc, t, leaf, out)
    BY <1>1, <1>2, <1>3 DEF FileInv
  <2> QED
    BY <1>3, <2>1 DEF Reading
<1>5. PICK n : Read(f, c, t, out, n) /\ n < WantOf(f, c) /\ Rest(f, t, leaf)
  BY <1>4
<1>6. n \in Nat /\ Len(out) = n /\ out = Content(f, c, BaseOf(c), n) /\ Reached(f, t, BaseOf(c) + n)
  BY <1>4, <1>5, ReadLength DEF Read
<1>7. e \in ExtentsOf(f) /\ \A d \in ExtentsOf(f) : d.offset >= t => e.offset <= d.offset
  BY <1>3, <1>5, RestHead
<1>8. NoneBefore(f, t, e.offset)
  <2> SUFFICES ASSUME NEW d \in ExtentsOf(f), d.offset >= t PROVE d.offset >= e.offset
    BY DEF NoneBefore
  <2>1. d.offset \in Nat /\ e.offset \in Nat
    BY <1>7, ExtentPlace, ExtentTypes
  <2> QED
    BY <1>7, <2>1
<1>9. Here(f, c, n, t, e)
  BY <1>1, <1>2, <1>4, <1>5, <1>6, <1>7, <1>8 DEF Here
<1> QED
  BY <1>6, <1>9

\* Having reached p is having reached what follows it.
LEMMA ReachedOn ==
  ASSUME NEW f \in Files, NEW t, NEW p \in Nat, NEW q \in Nat, p <= q, Reached(f, t, p)
  PROVE  Reached(f, t, q)
<1> SUFFICES ASSUME NEW d \in ExtentsOf(f), d.offset < t PROVE d.offset + Reach(d) <= q
  BY DEF Reached
<1>1. d.offset \in Nat /\ Reach(d) \in Nat /\ d.offset + Reach(d) <= p
  BY ExtentPlace, ExtentTypes DEF Reached
<1> QED
  BY <1>1

\* What an extent gives is bytes, an error or the overflow of an addition.
LEMMA PieceTags ==
  ASSUME NEW e \in Extent, NEW at, NEW n
  PROVE  /\ apply_extent(e, at).tag \in {"ok", "err"}
         /\ copy_extent_slice(e, at, n).tag \in {"ok", "err", "panic"}
<1>1. ASSUME NEW x, NEW y PROVE DecodedSlice(e, x, y).tag \in {"ok", "err"}
  BY DEF DecodedSlice, Ok, Err
<1>2. ASSUME NEW x, NEW y PROVE RawSlice(e, x, y).tag \in {"ok", "err"}
  BY DEF RawSlice, Ok, Err
<1>3. \A x : Ok(x).tag = "ok" /\ Err(x).tag = "err"
  BY DEF Ok, Err
<1>4. Panic.tag = "panic"
  BY DEF Panic
<1> QED
  BY <1>1, <1>2, <1>3, <1>4 DEF apply_extent, copy_extent_slice

\* Nor of a refusal.
LEMMA RefusalIsOk ==
  ASSUME NEW piece, piece.tag \in {"err", "panic"}
  PROVE  ResultOk(file, call, piece)
BY DEF ResultOk

\* read_file: the gap and the extent are the next bytes of the file.
LEMMA AppendKeeps ==
  ASSUME FileInv, NEW e, AppendExtent(e)
  PROVE  FileInv'
<1>1. IsWhole(call) /\ AtExtent(e) /\ PlaceVerdict(e) = "ok"
  BY SameNames DEF AppendExtent
<1>2. PICK f \in Files, c \in Calls, n \in Nat, t \in Nat : Here(f, c, n, t, e)
  BY <1>1, AtExtentFacts
<1>3. /\ f = file /\ c = call /\ n = Len(out) /\ t = next_target /\ Started(f, c)
      /\ n < WantOf(f, c) /\ e \in ExtentsOf(f) /\ NoneBefore(f, t, e.offset)
      /\ Reached(f, t, BaseOf(c) + n)
  BY <1>2 DEF Here
<1>4. /\ e \in Extent /\ e.offset \in Nat /\ e.num \in Nat /\ e.got \in Nat /\ Reach(e) \in Nat
      /\ Reach(e) <= e.num
  BY <1>3, ExtentPlace, ExtentTypes
<1>5. /\ f.size \in Nat /\ f.size < MaxU64 /\ MaxU64 \in Nat /\ BaseOf(c) = 0 /\ WantOf(f, c) = f.size
  BY <1>1, <1>3, WantTypes
<1>6. n <= e.offset /\ e.offset <= f.size
  BY <1>1, <1>3, <1>4, <1>5 DEF PlaceVerdict
<1> DEFINE piece == apply_extent(e, e.offset)
<1>7. CASE piece.tag = "ok" /\ Advance(e, Zeros(e.offset - Len(out)) \o piece.bytes)
  <2>1. PICK k \in Nat : k = Emitted(f.size, e)
    BY <1>1, <1>3, <1>4, <1>7, ApplyExtent
  <2>2. piece.bytes = Piece(c, e, 0, k) /\ k <= Reach(e)
    BY <1>1, <1>3, <1>4, <1>7, <2>1, ApplyExtent
  <2>3. PICK g \in Nat : g = e.offset - n
    BY <1>4, <1>6
  <2>4. Reached(f, t, n)
    BY <1>3, <1>5
  <2>5. Zeros(g) = Content(f, c, n, g)
    BY <1>3, <1>4, <1>6, <2>3, <2>4, GapIsContent
  <2>6. Piece(c, e, 0, k) = Content(f, c, e.offset, k)
    <3>1. Reached(f, t, e.offset)
      BY <1>4, <1>6, <2>4, ReachedOn
    <3>2. e.offset = e.offset + 0 /\ 0 + k <= Reach(e)
      BY <1>4, <2>2
    <3> QED
      BY <1>3, <1>4, <3>1, <3>2, PieceIsContent
  <2>7. n + g = e.offset
    BY <1>4, <1>6, <2>3
  <2>8. Content(f, c, n, g) \o Content(f, c, n + g, k) = Content(f, c, n, g + k)
    <3>1. Joins(f, c, n, g, k)
      BY ContentJoin
    <3> QED
      BY <3>1, Zenon DEF Joins
  <2>9. Zeros(g) \o piece.bytes = Content(f, c, n, g + k)
    BY <2>2, <2>5, <2>6, <2>7, <2>8
  <2>10. PICK m \in Nat : m = g + k /\ n + m = e.offset + k
    <3>1. g + k \in Nat /\ n + (g + k) = e.offset + k
      BY <1>4, <2>7
    <3> QED
      BY <3>1
  <2> DEFINE bytes == Zeros(e.offset - Len(out)) \o piece.bytes
  <2>13. bytes = Content(file, call, BaseOf(call) + Len(out), m) /\ Advance(e, bytes)
    <3>1. BaseOf(call) + Len(out) = n /\ e.offset - Len(out) = g
      BY <1>3, <1>5, <2>3
    <3> QED
      BY <1>3, <1>7, <2>9, <2>10, <3>1
  <2> HIDE DEF bytes, piece
  <2>14. e.offset < MaxU64 /\ pc = "items" /\ leaf # <<>> /\ e = Head(leaf) /\ Mine(e)
    BY <1>1, <1>4, <1>5, <1>6 DEF AtExtent
  <2>15. WantOf(file, call) = f.size /\ BaseOf(call) + Len(out) + m = n + m /\ file = f
    BY <1>3, <1>5
  <2>11. CASE e.kind = "inline"
    <3>1. k = Reach(e) /\ k <= e.got
      BY <1>4, <2>1, <2>11 DEF Emitted, Reach, Least
    <3>2. n + m <= f.size + e.got /\ e.offset + Reach(e) <= n + m
      BY <1>4, <1>5, <1>6, <2>10, <3>1
    <3> QED
      BY <1>1, <1>3, <2>11, <2>13, <2>14, <2>15, <3>2, AdvanceKeeps
  <2>12. CASE e.kind # "inline"
    <3>1. k = Least(e.num, IF f.size > e.offset THEN f.size - e.offset ELSE 0)
      BY <2>1, <2>12 DEF Emitted
    <3>2. n + m <= f.size /\ (n + m < f.size => e.offset + Reach(e) <= n + m)
      BY <1>4, <1>5, <1>6, <2>10, <3>1 DEF Least
    <3> QED
      BY <1>3, <2>13, <2>14, <2>15, <3>2, AdvanceKeeps
  <2> QED
    BY <2>11, <2>12
<1>8. CASE piece.tag # "ok" /\ Return(piece)
  <2>1. piece.tag \in {"err", "panic"}
    BY <1>4, <1>8, PieceTags
  <2> HIDE DEF piece
  <2> QED
    BY <1>8, <2>1, RefusalIsOk, ReturnKeeps
<1>9. CASE Return(Err("extent_read"))
  BY <1>9, ErrIsOk, ReturnKeeps
<1> QED
  BY <1>7, <1>8, <1>9 DEF AppendExtent

\* read_file_at: an extent before the request holds none of its bytes.
LEMMA SkipKeeps ==
  ASSUME FileInv, NEW e, SkipExtent(e)
  PROVE  FileInv'
<1>1. IsWindow(call) /\ AtExtent(e) /\ ExtentEnd(e) <= RequestStart /\ Advance(e, <<>>)
  BY SameNames DEF SkipExtent
<1>2. PICK f \in Files, c \in Calls, n \in Nat, t \in Nat : Here(f, c, n, t, e)
  BY <1>1, AtExtentFacts
<1>3. f = file /\ c = call /\ n = Len(out) /\ Started(f, c) /\ n < WantOf(f, c) /\ e \in ExtentsOf(f)
  BY <1>2 DEF Here
<1>4. /\ e \in Extent /\ e.offset \in Nat /\ e.num \in Nat /\ Reach(e) \in Nat /\ Reach(e) <= e.num
      /\ e.offset <= MaxU64
  BY <1>3, ExtentPlace, ExtentTypes
<1>5. PICK w \in Nat, b \in Nat : w = WantOf(f, c) /\ b = BaseOf(c)
  BY <1>3, WantTypes
<1>6. b + w <= f.size /\ f.size <= MaxU64 /\ f.size \in Nat /\ MaxU64 \in Nat
  BY <1>3, <1>5, WantTypes
<1>7. RequestStart = b + n
  BY <1>1, <1>3, <1>5 DEF RequestStart, BaseOf, IsWhole, IsWindow
<1>8. Least(e.offset + e.num, MaxU64) <= b + n /\ n < w
  BY <1>1, <1>3, <1>5, <1>7 DEF ExtentEnd, SaturatingAdd
<1>9. e.offset + e.num <= b + n /\ e.offset < MaxU64
  BY <1>4, <1>6, <1>8 DEF Least
<1>10. <<>> = Content(f, c, b + n, 0)
  BY <1>5, ContentNil
<1>11. n + 0 <= w /\ e.offset + Reach(e) <= b + n + 0
  BY <1>4, <1>8, <1>9
<1> QED
  BY <1>1, <1>3, <1>5, <1>9, <1>10, <1>11, AdvanceKeeps DEF AtExtent

\* read_file_at: a gap that fills the buffer is a hole.
LEMMA FillKeeps ==
  ASSUME FileInv, NEW e, FillFromGap(e)
  PROVE  FileInv'
<1>1. /\ IsWindow(call) /\ AtExtent(e)
      /\ e.offset >= RequestStart + (Want - Len(out))
      /\ Return(Ok(out \o Zeros(Want - Len(out))))
  BY SameNames DEF FillFromGap
<1>2. PICK f \in Files, c \in Calls, n \in Nat, t \in Nat : Here(f, c, n, t, e)
  BY <1>1, AtExtentFacts
<1>3. PICK w \in Nat, b \in Nat : w = WantOf(f, c) /\ b = BaseOf(c)
  BY <1>2, WantTypes DEF Here
<1>4. /\ f = file /\ c = call /\ n = Len(out) /\ Started(f, c) /\ n < w /\ e \in ExtentsOf(f)
      /\ Reached(f, t, b + n) /\ NoneBefore(f, t, e.offset) /\ out = Content(f, c, b, n)
  BY <1>2, <1>3 DEF Here
<1>5. e.offset \in Nat
  BY <1>4, ExtentPlace, ExtentTypes
<1>6. RequestStart = b + n /\ Want = w
  BY <1>1, <1>3, <1>4, SameNames DEF RequestStart, BaseOf, IsWhole, IsWindow
<1>7. PICK m \in Nat : m = w - n /\ n + m = w /\ b + n + m <= e.offset
  <2>1. w - n \in Nat /\ n + (w - n) = w
    BY <1>4
  <2>2. b + n + (w - n) <= e.offset
    BY <1>1, <1>4, <1>5, <1>6
  <2> QED
    BY <2>1, <2>2
<1>8. Zeros(m) = Content(f, c, b + n, m)
  <2>1. b + n \in Nat
    OBVIOUS
  <2> QED
    BY <1>4, <1>5, <1>7, <2>1, GapIsContent
<1>9. Content(f, c, b, n) \o Content(f, c, b + n, m) = Content(f, c, b, n + m)
  <2>1. Joins(f, c, b, n, m)
    BY ContentJoin
  <2> QED
    BY <2>1, Zenon DEF Joins
<1>10. out \o Zeros(m) = Content(f, c, b, w)
  BY <1>4, <1>7, <1>8, <1>9
<1>11. ResultOk(file, call, Ok(out \o Zeros(m)))
  <2>1. TotalOf(f, c) = w
    BY <1>3, <1>4, WantTypes
  <2> QED
    BY <1>3, <1>4, <1>10, <2>1 DEF ResultOk, Ok
<1>12. Return(Ok(out \o Zeros(m)))
  BY <1>1, <1>4, <1>6, <1>7
<1> QED
  BY <1>11, <1>12, ReturnKeeps

\* What CopyExtent does, in the terms of the invariant: g zeros, then h bytes of
\* extent e from its byte `at` on.
Copying(f, c, n, t, e, g, at, h) ==
  /\ Here(f, c, n, t, e) /\ IsWindow(c)
  /\ BaseOf(c) + n + g = e.offset + at
  /\ g = 0 \/ BaseOf(c) + n + g <= e.offset
  /\ at + h <= e.num
  /\ n + (g + h) <= WantOf(f, c)
  /\ n + (g + h) < WantOf(f, c) => e.offset + e.num <= BaseOf(c) + n + (g + h)
  /\ e.offset < MaxU64
  /\ LET piece == copy_extent_slice(e, at, h)
     IN  \/ piece.tag = "ok" /\ Advance(e, Zeros(g) \o piece.bytes)
         \/ piece.tag # "ok" /\ Return(piece)
         \/ Return(Err("extent_read"))

\* A step of CopyExtent is one.
LEMMA CopyPlan ==
  ASSUME FileInv, NEW e, CopyExtent(e)
  PROVE  \E f \in Files, c \in Calls, n \in Nat, t \in Nat, g \in Nat, at \in Nat, h \in Nat :
            Copying(f, c, n, t, e, g, at, h)
<1>1. /\ IsWindow(call) /\ AtExtent(e) /\ ExtentEnd(e) > RequestStart
      /\ e.offset < RequestStart + (Want - Len(out))
  BY SameNames DEF CopyExtent
<1>2. PICK f \in Files, c \in Calls, n \in Nat, t \in Nat : Here(f, c, n, t, e)
  BY <1>1, AtExtentFacts
<1>3. PICK w \in Nat, b \in Nat : w = WantOf(f, c) /\ b = BaseOf(c)
  BY <1>2, WantTypes DEF Here
<1>4. /\ f = file /\ c = call /\ n = Len(out) /\ Started(f, c) /\ n < w /\ e \in ExtentsOf(f)
      /\ Reached(f, t, b + n) /\ NoneBefore(f, t, e.offset)
  BY <1>2, <1>3 DEF Here
<1>5. /\ e \in Extent /\ e.offset \in Nat /\ e.num \in Nat /\ e.got \in Nat /\ Reach(e) \in Nat
      /\ Reach(e) <= e.num /\ e.offset <= MaxU64
  BY <1>4, ExtentPlace, ExtentTypes
<1>6. RequestStart = b + n /\ Want = w
  BY <1>1, <1>3, <1>4, SameNames DEF RequestStart, BaseOf, IsWhole, IsWindow
<1>7. b + w <= f.size /\ f.size <= MaxU64 /\ f.size \in Nat /\ MaxU64 \in Nat
  BY <1>3, <1>4, WantTypes
<1>8. PICK end \in Nat : end = ExtentEnd(e)
  BY <1>5, <1>7 DEF ExtentEnd, SaturatingAdd, Least
<1>9. /\ end <= e.offset + e.num /\ e.offset <= end /\ end > b + n
      /\ end < MaxU64 => end = e.offset + e.num
  BY <1>1, <1>5, <1>6, <1>7, <1>8 DEF ExtentEnd, SaturatingAdd, Least
<1>10. e.offset < b + w
  BY <1>1, <1>4, <1>5, <1>6
<1>11. PICK g \in Nat : g = IF e.offset > b + n THEN e.offset - (b + n) ELSE 0
  BY <1>5
<1>12. PICK h \in Nat : /\ h = Least(end - (b + n + g), w - n - g)
                        /\ h <= end - (b + n + g) /\ h <= w - n - g
                        /\ h = end - (b + n + g) \/ h = w - n - g
  <2>1. end - (b + n + g) \in Nat
    BY <1>5, <1>9, <1>11
  <2>2. w - n - g \in Nat
    BY <1>4, <1>5, <1>10, <1>11
  <2>3. ASSUME NEW x \in Nat, NEW y \in Nat
        PROVE  /\ Least(x, y) \in Nat /\ Least(x, y) <= x /\ Least(x, y) <= y
               /\ Least(x, y) = x \/ Least(x, y) = y
    BY DEF Least
  <2> QED
    BY <2>1, <2>2, <2>3
<1>13. PICK at \in Nat : at = b + n + g - e.offset
  BY <1>5, <1>11
<1> DEFINE piece == copy_extent_slice(e, at, h)
<1>14. \/ piece.tag = "ok" /\ Advance(e, Zeros(g) \o piece.bytes)
       \/ piece.tag # "ok" /\ Return(piece)
       \/ Return(Err("extent_read"))
  <2> DEFINE gap == IF e.offset > RequestStart THEN e.offset - RequestStart ELSE 0
             start == RequestStart + gap
             here == Least(ExtentEnd(e) - start, Want - Len(out) - gap)
  <2>1. gap = g /\ start = b + n + g
    BY <1>6, <1>11
  <2>2. here = h /\ start - e.offset = at
    <3> HIDE DEF gap, start
    <3>1. ExtentEnd(e) - start = end - (b + n + g) /\ Want - Len(out) - gap = w - n - g
      BY <1>4, <1>6, <1>8, <2>1
    <3>2. here = h
      BY <1>12, <3>1
    <3> HIDE DEF here
    <3>3. start - e.offset = at
      BY <1>5, <1>13, <2>1
    <3> QED
      BY <3>2, <3>3
  <2>3. \/ /\ copy_extent_slice(e, start - e.offset, here).tag = "ok"
           /\ Advance(e, Zeros(gap) \o copy_extent_slice(e, start - e.offset, here).bytes)
        \/ /\ copy_extent_slice(e, start - e.offset, here).tag # "ok"
           /\ Return(copy_extent_slice(e, start - e.offset, here))
        \/ Return(Err("extent_read"))
    BY Zenon DEF CopyExtent
  <2> HIDE DEF gap, start, here
  <2> QED
    BY <2>1, <2>2, <2>3
<1>15. at + h <= e.num
  BY <1>5, <1>9, <1>11, <1>12, <1>13
<1>16. b + n + g = e.offset + at /\ (g = 0 \/ b + n + g <= e.offset)
  BY <1>5, <1>11, <1>13
<1>17. n + (g + h) <= w
  BY <1>12
<1>18. n + (g + h) < w => e.offset + e.num <= b + n + (g + h)
  BY <1>5, <1>7, <1>9, <1>12
<1>19. e.offset < MaxU64
  BY <1>5, <1>7, <1>10
<1> HIDE DEF piece
<1>20. Copying(f, c, n, t, e, g, at, h)
  BY <1>1, <1>2, <1>3, <1>4, <1>14, <1>15, <1>16, <1>17, <1>18, <1>19 DEF Copying, piece
<1> QED
  BY <1>20

\* read_file_at: the gap and the part of the extent are the next bytes.
LEMMA CopyKeeps ==
  ASSUME FileInv, NEW e, CopyExtent(e)
  PROVE  FileInv'
<1>1. PICK f \in Files, c \in Calls, n \in Nat, t \in Nat, g \in Nat, at \in Nat, h \in Nat :
        Copying(f, c, n, t, e, g, at, h)
  BY CopyPlan
<1>2. Here(f, c, n, t, e) /\ AtExtent(e)
  BY <1>1 DEF Copying, CopyExtent
<1>3. PICK w \in Nat, b \in Nat : w = WantOf(f, c) /\ b = BaseOf(c)
  BY <1>2, WantTypes DEF Here
<1>4. /\ f = file /\ c = call /\ n = Len(out) /\ Started(f, c) /\ n < w /\ e \in ExtentsOf(f)
      /\ Reached(f, t, b + n) /\ NoneBefore(f, t, e.offset)
  BY <1>2, <1>3 DEF Here
<1>5. /\ e \in Extent /\ e.offset \in Nat /\ e.num \in Nat /\ e.got \in Nat /\ Reach(e) \in Nat
      /\ Reach(e) <= e.num
  BY <1>4, ExtentPlace, ExtentTypes
<1>6. /\ b + n + g = e.offset + at /\ (g = 0 \/ b + n + g <= e.offset) /\ at + h <= e.num
      /\ n + (g + h) <= w /\ (n + (g + h) < w => e.offset + e.num <= b + n + (g + h))
      /\ e.offset < MaxU64
  BY <1>1, <1>3 DEF Copying
<1> DEFINE piece == copy_extent_slice(e, at, h)
<1>7. \/ piece.tag = "ok" /\ Advance(e, Zeros(g) \o piece.bytes)
      \/ piece.tag # "ok" /\ Return(piece)
      \/ Return(Err("extent_read"))
  BY <1>1 DEF Copying
<1>8. CASE piece.tag = "ok" /\ Advance(e, Zeros(g) \o piece.bytes)
  <2>1. piece.bytes = Piece(c, e, at, h) /\ (e.kind = "inline" => at + h <= e.got)
    BY <1>1, <1>5, <1>6, <1>8, CopyExtentSlice DEF Copying
  <2>3. at + h <= Reach(e)
    BY <1>5, <1>6, <2>1 DEF Reach, Least
  <2>4. b + n + g = e.offset + at
    BY <1>6
  <2>5. PICK s \in Nat : s = b + n + g
    OBVIOUS
  <2>6. Reached(f, t, s)
    <3>1. b + n \in Nat /\ b + n <= s
      BY <2>5
    <3> QED
      BY <1>4, <3>1, ReachedOn
  <2>7. Piece(c, e, at, h) = Content(f, c, s, h)
    BY <1>4, <2>3, <2>4, <2>5, <2>6, PieceIsContent
  <2>8. Zeros(g) = Content(f, c, b + n, g)
    <3>1. b + n \in Nat /\ (g = 0 \/ b + n + g <= e.offset)
      BY <1>6
    <3> QED
      BY <1>4, <1>5, <3>1, GapIsContent
  <2>9. Content(f, c, b + n, g) \o Content(f, c, (b + n) + g, h) = Content(f, c, b + n, g + h)
    <3>1. PICK a \in Nat : a = b + n
      OBVIOUS
    <3>2. Content(f, c, a, g) \o Content(f, c, a + g, h) = Content(f, c, a, g + h)
      <4>1. Joins(f, c, a, g, h)
        BY ContentJoin
      <4> QED
        BY <4>1, Zenon DEF Joins
    <3> QED
      BY <3>1, <3>2
  <2>10. Zeros(g) \o piece.bytes = Content(f, c, b + n, g + h)
    BY <2>1, <2>5, <2>7, <2>8, <2>9
  <2>11. PICK m \in Nat : m = g + h
    OBVIOUS
  <2>12. n + m <= w
    BY <1>6, <2>11
  <2>13. n + m < w => e.offset + Reach(e) <= b + n + m
    BY <1>5, <1>6, <2>11
  <2>14. e.offset < MaxU64
    BY <1>6
  <2> QED
    BY <1>2, <1>3, <1>4, <1>8, <2>10, <2>11, <2>12, <2>13, <2>14, AdvanceKeeps DEF AtExtent
<1>9. CASE piece.tag # "ok" /\ Return(piece)
  <2>1. piece.tag \in {"err", "panic"}
    BY <1>5, <1>9, PieceTags
  <2> HIDE DEF piece
  <2> QED
    BY <1>9, <2>1, RefusalIsOk, ReturnKeeps
<1>10. CASE Return(Err("extent_read"))
  BY <1>10, ErrIsOk, ReturnKeeps
<1> QED
  BY <1>7, <1>8, <1>9, <1>10

-----------------------------------------------------------------------------
(* The other steps.                                                        *)

\* A call that asks for no byte, or for none the file has, gets none.
LEMMA NothingKeeps ==
  ASSUME FileInv, Return(Ok(<<>>)), IsWindow(call), call.len = 0 \/ call.offset >= file.size
  PROVE  FileInv'
<1>1. call.offset \in Nat /\ call.len \in Nat /\ file.size \in Nat
  BY FileTypes, WidthAssumption DEF FileInv, Calls
<1>2. BaseOf(call) = call.offset /\ TotalOf(file, call) = 0
  BY <1>1 DEF BaseOf, TotalOf, WantOf, IsWhole, IsWindow, Least
<1>3. Content(file, call, call.offset, 0) = <<>>
  BY DEF Content
<1>4. ResultOk(file, call, Ok(<<>>))
  BY <1>2, <1>3 DEF ResultOk, Ok
<1> QED
  BY <1>4, ReturnKeeps

\* The loop begins with nothing read and every extent ahead.
LEMMA BeginKeeps ==
  ASSUME FileInv, Begin
  PROVE  FileInv'
<1>1. pc = "opened" /\ pc' = "search" /\ UNCHANGED <<file, call, next_target, leaf, out, result>>
  BY DEF Begin
<1>2. out = <<>> /\ next_target = 0 /\ file \in Files /\ call \in Calls
  BY <1>1 DEF FileInv
<1>3. Started(file, call)
  BY SameNames DEF Begin, Started, IsWhole, IsWindow
<1>4. PICK f \in Files, c \in Calls : f = file /\ c = call
  BY <1>2
<1>5. BaseOf(c) \in Nat
  BY <1>3, <1>4, WantTypes
<1>6. Reached(f, 0, BaseOf(c) + 0)
  <2> SUFFICES ASSUME NEW d \in ExtentsOf(f), d.offset < 0 PROVE FALSE
    BY DEF Reached
  <2>1. d.offset \in Nat
    BY ExtentPlace, ExtentTypes
  <2> QED
    BY <2>1
<1>7. Read(f, c, 0, <<>>, 0)
  BY <1>5, <1>6, ContentNil DEF Read
<1>8. Reading(f, c, "search", 0, leaf, <<>>)
  BY <1>3, <1>4, <1>7 DEF Reading
<1> QED
  BY <1>1, <1>2, <1>4, <1>8 DEF FileInv

\* The end of the extents: no extent at or past t is before any place.
LEMMA NoneLeft ==
  ASSUME NEW f \in Files, NEW t \in Nat, NEW q, \A e \in ExtentsOf(f) : e.offset < t
  PROVE  NoneBefore(f, t, q)
<1> SUFFICES ASSUME NEW d \in ExtentsOf(f), d.offset >= t PROVE FALSE
  BY DEF NoneBefore
<1>1. d.offset \in Nat
  BY ExtentPlace, ExtentTypes
<1> QED
  BY <1>1

\* The search hands the loop the rest of the extents.
LEMMA SearchKeeps ==
  ASSUME FileInv, Search
  PROVE  FileInv'
<1>1. PICK f \in Files, c \in Calls : f = file /\ c = call
  BY DEF FileInv
<1>2. PICK t \in Nat : t = next_target
  BY WidthAssumption DEF FileInv
<1>3. pc = "search" /\ Len(out) < Want
  BY DEF Search
<1> DEFINE found == FindFirstGe(next_target)
<1>4. CASE Return(Err("find_first_ge"))
  BY <1>4, ErrIsOk, ReturnKeeps
<1>5. CASE found = <<>> /\ Finish
  <2>1. \A e \in ExtentsOf(f) : e.offset < t
    BY <1>1, <1>2, <1>5, FindRest
  <2>2. NoneBefore(f, t, BaseOf(call) + WantOf(file, call))
    BY <2>1, NoneLeft
  <2> QED
    BY <1>1, <1>2, <1>3, <1>5, <2>2, FinishKeeps
<1>6. CASE /\ found # <<>>
           /\ leaf' = found
           /\ pc' = "items"
           /\ UNCHANGED <<file, call, next_target, out, result>>
  <2>1. Rest(f, t, found)
    BY <1>1, <1>2, <1>6, FindRest
  <2> HIDE DEF found
  <2>2. Reading(f, c, pc, t, leaf, out)
    BY <1>1, <1>2, <1>3 DEF FileInv
  <2>3. Started(f, c)
    BY <2>2 DEF Reading
  <2>4. PICK n : Read(f, c, t, out, n)
    BY <2>2, Zenon DEF Reading
  <2>5. n < WantOf(f, c)
    BY <1>1, <1>3, <2>3, <2>4, ReadLength, SameNames
  <2>6. Reading(f, c, "items", t, found, out)
    BY <2>1, <2>3, <2>4, <2>5 DEF Reading
  <2>7. found \in Seq(Item)
    BY <2>1 DEF Rest
  <2> QED
    BY <1>1, <1>2, <1>3, <1>6, <2>6, <2>7 DEF FileInv
<1> QED
  BY <1>4, <1>5, <1>6 DEF Search

\* An item that is not the inode's ends its extents.
LEMMA PastKeeps ==
  ASSUME FileInv, PastExtents
  PROVE  FileInv'
<1>1. PICK f \in Files, c \in Calls : f = file /\ c = call
  BY DEF FileInv
<1>2. PICK t \in Nat : t = next_target
  BY WidthAssumption DEF FileInv
<1>3. pc = "items" /\ leaf # <<>> /\ ~Mine(Head(leaf)) /\ Finish
  BY DEF PastExtents
<1>4. Reading(f, c, pc, t, leaf, out)
  BY <1>1, <1>2, <1>3 DEF FileInv
<1>5. Rest(f, t, leaf)
  BY <1>3, <1>4 DEF Reading
<1>6. \A e \in ExtentsOf(f) : e.offset < t
  <2> SUFFICES ASSUME NEW e \in ExtentsOf(f) PROVE e.offset < t
    OBVIOUS
  <2>1. ~(e.offset >= t)
    BY <1>3, <1>5, RestHead
  <2>2. e.offset \in Nat
    BY ExtentPlace, ExtentTypes
  <2> QED
    BY <2>1, <2>2
<1>7. NoneBefore(f, t, BaseOf(call) + WantOf(file, call))
  BY <1>6, NoneLeft
<1> QED
  BY <1>1, <1>2, <1>3, <1>7, FinishKeeps

\* The end of a leaf sends the loop back to the search.
LEMMA EndOfLeafKeeps ==
  ASSUME FileInv, EndOfLeaf
  PROVE  FileInv'
<1>1. /\ pc = "items" /\ pc' = "search"
      /\ UNCHANGED <<file, call, next_target, leaf, out, result>>
  BY DEF EndOfLeaf
<1>2. Reading(file, call, pc, next_target, leaf, out)
  BY <1>1 DEF FileInv
<1>3. Reading(file, call, "search", next_target, leaf, out)
  BY <1>2, Zenon DEF Reading
<1> QED
  BY <1>1, <1>3 DEF FileInv

\* What read_link answers is never taken for a file's bytes.
LEMMA LinkKeeps ==
  ASSUME FileInv, ReadLink
  PROVE  FileInv'
<1>1. call.op = "read_link"
  BY DEF ReadLink
<1>2. ASSUME NEW item PROVE LinkVerdict(item).tag \in {"ok", "err"}
  BY DEF LinkVerdict, LinkTarget, Ok, Err
<1>3. ASSUME NEW answer, answer.tag \in {"ok", "err"}, Return(answer) PROVE FileInv'
  <2>1. ResultOk(file, call, answer)
    BY <1>1, <1>3 DEF ResultOk
  <2> QED
    BY <1>3, <2>1, ReturnKeeps
<1>4. \A token : Err(token).tag = "err"
  BY DEF Err
<1> DEFINE found == FindFirstGe(0)
           last == IF found = <<>> THEN Err("NotFound") ELSE LinkVerdict(found[1])
<1>5. last.tag \in {"ok", "err"}
  BY <1>2, <1>4
<1>6. Return(Err("NotASymlink")) \/ Return(Err("find_first_ge")) \/ Return(last)
  BY DEF ReadLink
<1> HIDE DEF last
<1> QED
  BY <1>3, <1>4, <1>5, <1>6

\* One item of a leaf.
LEMMA ItemKeeps ==
  ASSUME FileInv, leaf # <<>> /\ AtItem
  PROVE  FileInv'
<1>1. PICK e : \/ RefuseExtent(e) \/ AppendExtent(e) \/ RefuseItem(e)
               \/ SkipExtent(e) \/ FillFromGap(e) \/ CopyExtent(e)
  BY DEF AtItem
<1>2. CASE RefuseExtent(e)
  BY <1>2, ErrIsOk, ReturnKeeps DEF RefuseExtent
<1>3. CASE RefuseItem(e)
  BY <1>3, ErrIsOk, ReturnKeeps DEF RefuseItem
<1> QED
  BY <1>1, <1>2, <1>3, AppendKeeps, SkipKeeps, FillKeeps, CopyKeeps

\* A call begins within the invariant.
LEMMA InitHolds ==
  Init => FileInv
<1> SUFFICES ASSUME Init PROVE FileInv
  OBVIOUS
<1>1. MaxU64 \in Nat /\ 0 \in 0 .. MaxU64
  BY WidthAssumption
<1>2. call \in Calls
  <2>1. CASE call \in [op : {"metadata", "read_link", "read_file"}, offset : {0}, len : {0}]
    BY <1>1, <2>1 DEF Calls
  <2>2. CASE call \in {[op |-> "read_file_at", offset |-> w.offset, len |-> w.len] : w \in Windows}
    BY <2>2, WindowsAssumption DEF Calls
  <2> QED
    BY <2>1, <2>2 DEF Init
<1>3. ResultOk(file, call, NoAnswer)
  BY DEF ResultOk, NoAnswer
<1>4. Bounded(file, call, <<>>)
  BY DEF Bounded
<1> QED
  BY <1>1, <1>2, <1>3, <1>4 DEF Init, FileInv

\* Every step keeps it.
LEMMA NextKeeps ==
  FileInv /\ [Next]_vars => FileInv'
<1> SUFFICES ASSUME FileInv, [Next]_vars PROVE FileInv'
  OBVIOUS
<1>1. CASE EmptyWindow
  BY <1>1, NothingKeeps, SameNames DEF EmptyWindow
<1>2. CASE ReadMetadata
  <2>1. CASE \E token : Return(Err(token))
    BY <2>1, ErrIsOk, ReturnKeeps
  <2>2. CASE pc' = "opened" /\ UNCHANGED <<file, call, next_target, leaf, out, result>>
    BY <1>2, <2>2 DEF ReadMetadata, FileInv
  <2> QED
    BY <1>2, <2>1, <2>2 DEF ReadMetadata
<1>3. CASE ReturnMetadata
  <2>1. ResultOk(file, call, [tag |-> "metadata", mode |-> Mode, size |-> Size])
    BY DEF ResultOk
  <2> QED
    BY <1>3, <2>1, ReturnKeeps DEF ReturnMetadata
<1>4. CASE Refuse
  <2>1. CASE \E token : Return(Err(token))
    BY <2>1, ErrIsOk, ReturnKeeps
  <2>2. CASE Window /\ call.offset >= file.size /\ Return(Ok(<<>>))
    BY <2>2, NothingKeeps, SameNames
  <2> QED
    BY <1>4, <2>1, <2>2 DEF Refuse
<1>5. CASE LoopDone
  <2>1. pc = "search" /\ Finish /\ ~(Len(out) < Want)
    <3>1. PICK f \in Files, c \in Calls, t \in Nat : f = file /\ c = call /\ t = next_target
      BY WidthAssumption DEF FileInv
    <3>2. pc = "search" /\ Len(out) >= Want /\ Finish
      BY <1>5 DEF LoopDone
    <3>3. Reading(f, c, pc, t, leaf, out)
      BY <3>1, <3>2 DEF FileInv
    <3>4. Started(f, c)
      BY <3>3 DEF Reading
    <3>5. PICK n : Read(f, c, t, out, n)
      BY <3>3, Zenon DEF Reading
    <3>6. Len(out) \in Nat /\ WantOf(f, c) \in Nat
      BY <3>4, <3>5, ReadLength, WantTypes
    <3> QED
      BY <3>1, <3>2, <3>6, SameNames
  <2> QED
    BY <2>1, FinishKeeps
<1>6. CASE UNCHANGED vars
  BY <1>6 DEF vars, FileInv
<1> QED
  BY <1>1, <1>2, <1>3, <1>4, <1>5, <1>6, LinkKeeps, BeginKeeps, SearchKeeps, PastKeeps,
     EndOfLeafKeeps, ItemKeeps DEF Next

\* The invariant: what has been read is the file's bytes from the first one
\* asked for, a byte whose sum overflows being taken from where the build puts
\* it, and while bytes are missing every extent before the next search key ends
\* before them.
THEOREM FileInvariant == Spec => []FileInv
BY InitHolds, NextKeeps, PTL DEF Spec

\* The variables keep their types: no search key outgrows its u64, though the
\* `extent_start + 1` of read_file and read_file_at is unchecked.
THEOREM TypeCorrect == Spec => []TypeOK
<1>1. FileInv => TypeOK
  BY DEF FileInv, TypeOK, ResultOk, Item
<1> QED
  BY <1>1, FileInvariant, PTL

\* What a call reads is the file's byte, unless it is in a window, its place in
\* a compressed extent's plaintext does not fit a u64 and the build wraps.
LEMMA CallReadsFile ==
  ASSUME NEW f \in Files, NEW c, NEW i \in Nat
  PROVE  \/ CallByte(f, c, i) = ByteAt(f, i)
         \/ IsWindow(c) /\ ~OverflowChecks /\ SumOverflows(f, i)
<1>1. CASE Covering(f, i) = {}
  BY <1>1 DEF CallByte, ByteAt
<1>2. CASE Covering(f, i) # {}
  <2> DEFINE e == FirstCovering(f, i)
  <2>1. e \in Covering(f, i)
    <3>1. \E d \in Covering(f, i) : \A x \in Covering(f, i) : d.offset <= x.offset
      BY <1>2, LeastCovering
    <3> QED
      BY <3>1, Zenon DEF FirstCovering
  <2>2. CallByte(f, c, i) = ByteOf(c, e, i - e.offset)
    BY <1>2, Zenon DEF CallByte
  <2>3. ByteAt(f, i) = IF e.kind = "inline" THEN Inline(e, i - e.offset)
                       ELSE IF IsHole(e) THEN Zero
                       ELSE IF e.comp THEN Decoded(e, e.skip + (i - e.offset))
                       ELSE Raw(e.disk + e.skip + (i - e.offset))
    BY <1>2, Zenon DEF ByteAt
  <2>4. SumOverflows(f, i) <=> /\ e.kind # "inline" /\ ~IsHole(e) /\ e.comp
                               /\ e.skip + (i - e.offset) > MaxU64
    BY <1>2, Zenon DEF SumOverflows
  <2> HIDE DEF e
  <2>5. e \in ExtentsOf(f) /\ e.offset <= i
    BY <2>1 DEF Covering
  <2>6. e.skip \in Nat /\ e.offset \in Nat /\ e.comp \in BOOLEAN /\ MaxU64 \in Nat
    BY <2>5, ExtentPlace, ExtentTypes, WidthAssumption
  <2>7. PICK y \in Nat : y = e.skip + (i - e.offset)
    BY <2>5, <2>6
  <2>8. CASE y <= MaxU64
    <3>1. Place(c, y) = y
      <4>1. y <= MaxU64 + MaxU64 + 1
        BY <2>6, <2>8
      <4>2. y % (MaxU64 + 1) = y
        BY <2>6, <2>8, <4>1, WrapsOnce
      <4> QED
        BY <4>2 DEF Place
    <3>2. ByteOf(c, e, i - e.offset) = IF e.kind = "inline" THEN Inline(e, i - e.offset)
                                       ELSE IF IsHole(e) THEN Zero
                                       ELSE IF e.comp THEN Decoded(e, y)
                                       ELSE Raw(e.disk + e.skip + (i - e.offset))
      BY <2>7, <3>1 DEF ByteOf
    <3> QED
      BY <2>2, <2>3, <2>7, <3>2
  <2>9. CASE ~(y <= MaxU64)
    <3>1. y > MaxU64
      BY <2>6, <2>9
    <3>2. CASE IsWindow(c) /\ ~OverflowChecks
      <4>1. CASE e.kind # "inline" /\ ~IsHole(e) /\ e.comp
        BY <2>4, <2>7, <3>1, <3>2, <4>1
      <4>2. CASE ~(e.kind # "inline" /\ ~IsHole(e) /\ e.comp)
        BY <2>2, <2>3, <2>6, <4>2 DEF ByteOf
      <4> QED
        BY <4>1, <4>2
    <3>3. CASE ~(IsWindow(c) /\ ~OverflowChecks)
      BY <2>2, <2>3, <3>3 DEF ByteOf, Place
    <3> QED
      BY <3>2, <3>3
  <2> QED
    BY <2>6, <2>8, <2>9
<1> QED
  BY <1>1, <1>2

\* Whatever the extents claim, the bytes read_file and read_file_at return are
\* those of the file, in place and in number; in a window and a build that
\* wraps, but for those whose place in a compressed extent overflows.
THEOREM AnswersAreContent == Spec => []AnswerIsContent
<1>1. FileInv => AnswerIsContent
  <2> SUFFICES ASSUME FileInv, result.tag = "ok", call.op # "read_link" PROVE AnswerIsContent
    BY DEF AnswerIsContent
  <2>1. PICK f \in Files, c \in Calls : f = file /\ c = call
    BY DEF FileInv
  <2>2. result.bytes = Content(f, c, BaseOf(c), TotalOf(f, c))
    BY <2>1 DEF FileInv, ResultOk
  <2>3. c.offset \in Nat /\ c.len \in Nat /\ f.size \in Nat
    BY FileTypes, WidthAssumption DEF Calls
  <2>4. PICK b \in Nat, k \in Nat : b = BaseOf(c) /\ k = TotalOf(f, c)
    <3>1. BaseOf(c) \in Nat
      BY <2>3 DEF BaseOf
    <3>2. TotalOf(f, c) \in Nat
      BY <2>3 DEF TotalOf, WantOf, Least
    <3> QED
      BY <3>1, <3>2
  <2>5. /\ Len(result.bytes) = k
        /\ \A i \in 1 .. k : result.bytes[i] = CallByte(f, c, b + i - 1)
    <3>1. PICK s : s = Content(f, c, b, k)
      OBVIOUS
    <3>2. Len(s) = k /\ \A i \in 1 .. k : s[i] = CallByte(f, c, b + i - 1)
      BY <3>1, ContentTypes, ZenonT(30)
    <3> QED
      BY <2>2, <2>4, <3>1, <3>2
  <2>6. b = Base /\ k = Total
    BY <2>1, <2>4, SameNames DEF BaseOf, TotalOf, WantOf, Base, Total
  <2>7. ASSUME NEW i \in 1 .. k
        PROVE  \/ result.bytes[i] = ByteAt(f, b + i - 1)
               \/ IsWindow(c) /\ ~OverflowChecks /\ SumOverflows(f, b + i - 1)
    <3>1. PICK x \in Nat : x = b + i - 1
      OBVIOUS
    <3> QED
      BY <2>5, <3>1, CallReadsFile
  <2> QED
    BY <2>1, <2>5, <2>6, <2>7, SameNames DEF AnswerIsContent
<1> QED
  BY <1>1, FileInvariant, PTL

\* The buffer of read_file and read_file_at stays within its bound, whatever
\* lengths and offsets the items claim.
THEOREM BuffersStayBounded == Spec => []BufferIsBounded
<1>1. FileInv => BufferIsBounded
  BY SameNames DEF FileInv, Bounded, BufferIsBounded
<1> QED
  BY <1>1, FileInvariant, PTL

-----------------------------------------------------------------------------
(* read_link.                                                              *)

\* An answer in full, or the refusal of a device.
Fine(r) == r.tag = "ok" \/ (r.tag = "err" /\ r.token \in TransientErrors)

\* What LinkIsTarget asks of the answer.
LinkOk(f, r) ==
  /\ r.tag = "ok" => Len(r.bytes) <= f.size
  /\ LegalLink(f) =>
        /\ Fine(r)
        /\ r.tag = "ok" =>
              /\ Len(r.bytes) = f.size
              /\ \A i \in 1 .. f.size : \E e \in ExtentsOf(f) : r.bytes[i] = Inline(e, i - 1)

\* The errors of a device are fine, and so is any error for a link that is not legal.
LEMMA LinkErrors ==
  ASSUME NEW f, NEW token, LegalLink(f) => token \in TransientErrors
  PROVE  LinkOk(f, Err(token))
BY DEF LinkOk, Fine, Err

\* What an inline payload of n bytes gives.
LEMMA InlineBytes ==
  ASSUME NEW e, NEW n \in Nat
  PROVE  /\ Len(InlineSlice(e, 0, n)) = n
         /\ \A i \in 1 .. n : InlineSlice(e, 0, n)[i] = Inline(e, i - 1)
BY DEF InlineSlice, Bytes

\* What the first item found makes of the link.
LEMMA VerdictIsTarget ==
  ASSUME FileInv, Mode = "symlink", NEW item \in Item,
         LegalLink(file) => Mine(item) /\ item \in ExtentsOf(file)
  PROVE  LinkOk(file, LinkVerdict(item))
<1>1. PICK f \in Files : f = file
  BY DEF FileInv
<1>2. f.size \in Nat /\ Size = f.size
  BY <1>1, FileTypes DEF Mode, Size
<1>3. CASE Mine(item) /\ LinkVerdict(item) = LinkTarget(item)
  <2>1. item \in Extent
    BY <1>3 DEF Item, Mine
  <2>2. item.got \in Nat
    BY <2>1, ExtentTypes
  <2>3. PICK n \in Nat : n = Least(f.size, item.got) /\ n <= f.size
    BY <1>2, <2>2 DEF Least
  <2>4. PICK s : s = InlineSlice(item, 0, n)
    OBVIOUS
  <2>5. Len(s) = n /\ \A i \in 1 .. n : s[i] = Inline(item, i - 1)
    BY <2>4, InlineBytes
  <2>6. LinkVerdict(item) = Ok(s)
    BY <1>2, <1>3, <2>3, <2>4 DEF LinkTarget
  <2>7. ASSUME LegalLink(f) PROVE n = f.size /\ item \in ExtentsOf(f)
    <3>1. PICK e \in ExtentsOf(f) : ExtentsOf(f) = {e} /\ e.got >= f.size
      BY <2>7 DEF LegalLink
    <3>2. item = e
      BY <1>1, <2>7, <3>1
    <3> QED
      BY <1>2, <2>2, <2>3, <3>1, <3>2 DEF Least
  <2>8. Ok(s).tag = "ok" /\ Ok(s).bytes = s
    BY DEF Ok
  <2> QED
    BY <1>1, <2>3, <2>5, <2>6, <2>7, <2>8 DEF LinkOk, Fine
<1>4. CASE ~(Mine(item) /\ LinkVerdict(item) = LinkTarget(item))
  <2>1. ~LegalLink(f)
    <3> SUFFICES ASSUME LegalLink(f) PROVE FALSE
      OBVIOUS
    <3>1. PICK e \in ExtentsOf(f) : /\ ExtentsOf(f) = {e} /\ e.kind = "inline" /\ e.flaw = "none"
                                    /\ e.comp => e.decodes
      BY DEF LegalLink
    <3>2. item = e /\ Mine(item)
      BY <1>1, <3>1
    <3> QED
      BY <1>4, <3>1, <3>2 DEF LinkVerdict
  <2>2. PICK token : LinkVerdict(item) = Err(token)
    BY <1>4 DEF LinkVerdict
  <2> QED
    BY <1>1, <2>1, <2>2, LinkErrors
<1> QED
  BY <1>3, <1>4

\* read_link returns the target.
LEMMA LinkAnswers ==
  ASSUME FileInv, ReadLink
  PROVE  LinkOk(file, result') /\ file' = file
<1>1. PICK f \in Files : f = file
  BY DEF FileInv
<1>2. file' = file
  BY DEF ReadLink, Return
<1>3. CASE Mode # "symlink" /\ Return(Err("NotASymlink"))
  <2>1. ~LegalLink(file)
    BY <1>3 DEF LegalLink, Mode
  <2> QED
    BY <1>2, <1>3, <2>1, LinkErrors DEF Return
<1>4. CASE Mode = "symlink" /\ Return(Err("find_first_ge"))
  BY <1>2, <1>4, LinkErrors DEF Return, TransientErrors
<1>5. CASE /\ Mode = "symlink"
           /\ Return(IF FindFirstGe(0) = <<>> THEN Err("NotFound") ELSE LinkVerdict(FindFirstGe(0)[1]))
  <2>1. PICK found : found = FindFirstGe(0)
    OBVIOUS
  <2>2. /\ found = <<>> => \A e \in ExtentsOf(f) : e.offset < 0
        /\ found # <<>> => Rest(f, 0, found)
    BY <1>1, <2>1, FindRest
  <2>3. LegalLink(f) => \E e \in ExtentsOf(f) : e.offset = 0
    BY DEF LegalLink
  <2>4. CASE found = <<>>
    <3>1. ~LegalLink(f)
      BY <2>2, <2>3, <2>4
    <3>2. result' = Err("NotFound")
      BY <1>5, <2>1, <2>4 DEF Return
    <3> QED
      BY <1>1, <1>2, <3>1, <3>2, LinkErrors
  <2>5. CASE found # <<>>
    <3>1. Rest(f, 0, found)
      BY <2>2, <2>5
    <3>2. found \in Seq(Item)
      BY <3>1 DEF Rest
    <3>3. PICK item \in Item : item = found[1] /\ item = Head(found)
      BY <2>5, <3>2
    <3>4. LegalLink(f) => Mine(item)
      BY <2>3, <2>5, <3>1, <3>3, RestHead
    <3>5. Mine(item) => item \in ExtentsOf(f)
      BY <2>5, <3>1, <3>3, RestHead
    <3>6. LinkOk(file, LinkVerdict(item))
      BY <1>1, <1>5, <3>4, <3>5, VerdictIsTarget
    <3>7. result' = LinkVerdict(item)
      BY <1>5, <2>1, <2>5, <3>3 DEF Return
    <3> QED
      BY <1>2, <3>6, <3>7
  <2> QED
    BY <2>4, <2>5
<1> QED
  BY <1>3, <1>4, <1>5 DEF ReadLink

\* The answer of read_link, once it is given.
LinkInv == FileInv /\ (pc = "done" /\ call.op = "read_link" => LinkOk(file, result))

\* read_link gives the target of a symlink btrfs wrote, padding left out, and
\* never more bytes than the inode's size.
THEOREM LinksReadAsTheirTarget == Spec => []LinkIsTarget
<1>1. Init => LinkInv
  <2>1. Init => FileInv
    BY InitHolds
  <2> QED
    BY <2>1 DEF LinkInv, Init
<1>2. LinkInv /\ [Next]_vars => LinkInv'
  <2> SUFFICES ASSUME LinkInv, [Next]_vars PROVE LinkInv'
    OBVIOUS
  <2>1. FileInv /\ FileInv'
    BY NextKeeps DEF LinkInv
  <2> SUFFICES ASSUME pc' = "done", call'.op = "read_link" PROVE LinkOk(file, result)'
    BY <2>1 DEF LinkInv
  <2>2. CASE ReadMetadata
    <3>1. /\ file' = file
          /\ \E token : /\ result' = Err(token)
                        /\ LegalLink(file) => token \in TransientErrors
      BY <2>2 DEF ReadMetadata, Return, LegalLink, TransientErrors
    <3>2. PICK token : result' = Err(token) /\ (LegalLink(file) => token \in TransientErrors)
      BY <3>1
    <3>3. LinkOk(file, Err(token))
      BY <3>2, LinkErrors
    <3> QED
      BY <3>1, <3>2, <3>3
  <2>3. CASE ReadLink
    BY <2>1, <2>3, LinkAnswers
  <2>4. CASE UNCHANGED vars
    BY <2>4 DEF vars, LinkInv
  <2>5. CASE Next /\ ~ReadMetadata /\ ~ReadLink
    <3>1. call' = call
      BY <2>1, <2>5 DEF Next, EmptyWindow, ReturnMetadata, Refuse, Begin, Search, LoopDone,
         PastExtents, EndOfLeaf, AtItem, RefuseExtent, AppendExtent, RefuseItem, SkipExtent,
         FillFromGap, CopyExtent, Finish, Return, Advance
    <3>2. pc \notin {"search", "items"}
      <4>1. ~IsWhole(call) /\ ~IsWindow(call)
        BY <3>1 DEF IsWhole, IsWindow
      <4> QED
        BY <2>1, <4>1 DEF FileInv, Reading, Started
    <3> QED
      BY <2>5, <3>1, <3>2 DEF Next, EmptyWindow, ReturnMetadata, Refuse, Begin, Search, LoopDone,
         PastExtents, EndOfLeaf, AtItem, AtExtent, RefuseExtent, AppendExtent, RefuseItem,
         SkipExtent, FillFromGap, CopyExtent, Whole, Window
  <2> QED
    BY <2>2, <2>3, <2>4, <2>5 DEF Next
<1>3. LinkInv => LinkIsTarget
  BY DEF LinkInv, LinkIsTarget, LinkOk, Fine, Answered
<1> QED
  BY <1>1, <1>2, <1>3, PTL DEF Spec

-----------------------------------------------------------------------------
(* Files laid out as btrfs lays them out.                                  *)

\* The calls LegalFileReads is about.
Good(f, c) ==
  /\ IsWhole(c) \/ IsWindow(c)
  /\ Legal(f)
  /\ IsWhole(c) => \A e \in ExtentsOf(f) : e.offset <= f.size

\* The n bytes read_file has read end within an extent it is done with.
Behind(f, c, t, n) ==
  IsWhole(c) /\ n > 0 => \E d \in ExtentsOf(f) : d.offset < t /\ n <= d.offset + d.num

LegalInv ==
  /\ FileInv
  /\ Good(file, call) =>
        /\ pc \in {"search", "items"} => Behind(file, call, next_target, Len(out))
        /\ pc = "done" => Fine(result)

\* What a legal extent is, in the terms of the copies.
LEMMA LegalExtent ==
  ASSUME NEW f \in Files, Legal(f), NEW e \in ExtentsOf(f)
  PROVE  /\ e \in Extent /\ ParseVerdict(e) = "ok" /\ e.kind # "unknown"
         /\ e.comp => e.decodes /\ ~(e.disk_num > MaxDecompressedExtentBytes)
         /\ e.kind = "inline" => e.num = e.got
         /\ e.comp /\ e.kind = "reg" => e.skip + e.num <= e.got
         /\ e.disk + e.skip + e.num <= MaxU64 /\ e.got <= MaxU64 /\ e.num <= MaxU64
         /\ \A d \in ExtentsOf(f) : d # e => ~SectorsOverlap(d, e)
<1>1. e \in Extent /\ MaxDecompressedExtentBytes \in Nat /\ MaxU64 \in Nat
  BY ExtentPlace, WidthAssumption
<1>2. e.disk_num \in Nat /\ e.got <= MaxU64 /\ e.num <= MaxU64
  BY <1>1 DEF Extent
<1>3. /\ ParseVerdict(e) = "ok"
      /\ e.kind = "inline" => e.got = e.num
      /\ e.comp => e.decodes /\ e.disk_num <= MaxDecompressedExtentBytes
      /\ e.comp /\ e.kind = "reg" => e.skip + e.num <= e.got
      /\ e.disk + e.skip + e.num <= MaxU64
      /\ \A d \in ExtentsOf(f) \ {e} : ~SectorsOverlap(d, e)
  BY DEF Legal
<1>4. e.kind # "unknown"
  BY <1>1, <1>3, ParsedKind
<1> QED
  BY <1>1, <1>2, <1>3, <1>4

\* Any part of a legal extent can be copied.
LEMMA SlicesAnswer ==
  ASSUME NEW f \in Files, Legal(f), NEW e \in ExtentsOf(f), e.kind # "inline", ~IsHole(e),
         NEW x \in Nat, NEW n \in Nat, x + n <= e.skip + e.num
  PROVE  /\ ~e.comp => RawSlice(e, x, n).tag = "ok"
         /\ e.comp => DecodedSlice(e, x, n).tag = "ok" /\ x <= MaxU64
<1>1. /\ e \in Extent /\ e.kind # "unknown"
      /\ e.comp => e.decodes /\ ~(e.disk_num > MaxDecompressedExtentBytes)
      /\ e.comp /\ e.kind = "reg" => e.skip + e.num <= e.got
      /\ e.disk + e.skip + e.num <= MaxU64 /\ e.got <= MaxU64
  BY LegalExtent
<1>2. /\ e.disk \in Nat /\ e.skip \in Nat /\ e.num \in Nat /\ e.got \in Nat /\ e.kind \in Kinds
      /\ MaxU64 \in Nat
  BY <1>1, ExtentTypes, WidthAssumption
<1>3. e.kind = "reg"
  BY <1>1, <1>2 DEF Kinds, IsHole
<1>4. ASSUME ~e.comp PROVE RawSlice(e, x, n).tag = "ok"
  <2>1. ~(e.disk + x > MaxU64) /\ ~(e.disk + x + n > MaxU64)
    BY <1>1, <1>2
  <2> QED
    BY <2>1 DEF RawSlice, Ok
<1>5. ASSUME e.comp PROVE DecodedSlice(e, x, n).tag = "ok" /\ x <= MaxU64
  <2>1. ~(x + n > MaxU64) /\ ~(x + n > e.got) /\ x <= MaxU64
    BY <1>1, <1>2, <1>3, <1>5
  <2> QED
    BY <1>1, <1>5, <2>1 DEF DecodedSlice, Ok
<1> QED
  BY <1>4, <1>5

\* copy_extent_slice does not refuse a part of a legal extent.
LEMMA CopyAnswers ==
  ASSUME NEW f \in Files, Legal(f), NEW e \in ExtentsOf(f),
         NEW at \in Nat, NEW n \in Nat, at + n <= e.num
  PROVE  copy_extent_slice(e, at, n).tag = "ok"
<1>1. /\ e \in Extent /\ (e.comp => e.decodes) /\ (e.kind = "inline" => e.num = e.got)
      /\ e.num <= MaxU64
  BY LegalExtent
<1>2. /\ e.skip \in Nat /\ e.num \in Nat /\ e.got \in Nat /\ MaxU64 \in Nat /\ e.comp \in BOOLEAN
  BY <1>1, ExtentTypes, WidthAssumption
<1>3. CASE e.kind = "inline"
  <2>1. ~(at + n > MaxU64) /\ ~(at + n > e.got)
    BY <1>1, <1>2, <1>3
  <2> QED
    BY <1>1, <1>3, <2>1 DEF copy_extent_slice, Ok
<1>4. CASE e.kind # "inline" /\ IsHole(e)
  BY <1>4 DEF copy_extent_slice, Ok
<1>5. CASE e.kind # "inline" /\ ~IsHole(e)
  <2>1. PICK x \in Nat : x = e.skip + at
    BY <1>2
  <2>2. x + n <= e.skip + e.num
    BY <1>2, <2>1
  <2>3. /\ ~e.comp => RawSlice(e, x, n).tag = "ok"
        /\ e.comp => DecodedSlice(e, x, n).tag = "ok" /\ x <= MaxU64
    BY <1>5, <2>2, SlicesAnswer
  <2>4. e.comp => ~(x > MaxU64)
    BY <1>2, <2>3
  <2>5. e.comp => WrappingAdd(e.skip, at) = x
    <3>1. x <= MaxU64 => x % (MaxU64 + 1) = x
      <4>1. x <= MaxU64 => x <= MaxU64 + MaxU64 + 1
        BY <1>2
      <4> QED
        BY <1>2, <4>1, WrapsOnce
    <3> QED
      BY <2>1, <2>3, <3>1 DEF WrappingAdd
  <2> QED
    BY <1>2, <1>5, <2>1, <2>3, <2>4, <2>5 DEF copy_extent_slice
<1> QED
  BY <1>3, <1>4, <1>5

\* Nor does apply_extent.
LEMMA ApplyAnswers ==
  ASSUME file \in Files, Legal(file), NEW e \in ExtentsOf(file), NEW have \in Nat
  PROVE  apply_extent(e, have).tag = "ok"
<1>1. PICK f \in Files : f = file
  OBVIOUS
<1>2. e \in Extent /\ ParseVerdict(e) = "ok" /\ (e.comp => e.decodes)
  BY LegalExtent
<1>3. e.skip \in Nat /\ e.num \in Nat /\ f.size \in Nat /\ e.comp \in BOOLEAN
  BY <1>2, ExtentTypes, FileTypes
<1>4. PICK n \in Nat : /\ n = Least(e.num, IF f.size > have THEN f.size - have ELSE 0)
                       /\ n <= e.num
  BY <1>3 DEF Least
<1>5. CASE e.kind = "inline"
  BY <1>2, <1>5 DEF apply_extent, Ok
<1>6. CASE e.kind # "inline" /\ n = 0
  BY <1>1, <1>2, <1>4, <1>6 DEF apply_extent, Ok
<1>7. CASE e.kind # "inline" /\ n # 0 /\ IsHole(e)
  BY <1>1, <1>2, <1>4, <1>7 DEF apply_extent, Ok
<1>8. CASE e.kind # "inline" /\ n # 0 /\ ~IsHole(e)
  <2>1. e.skip + n <= e.skip + e.num
    BY <1>3, <1>4
  <2>2. /\ ~e.comp => RawSlice(e, e.skip, n).tag = "ok"
        /\ e.comp => DecodedSlice(e, e.skip, n).tag = "ok"
    BY <1>3, <1>8, <2>1, SlicesAnswer
  <2> QED
    BY <1>1, <1>2, <1>4, <1>8, <2>2 DEF apply_extent
<1> QED
  BY <1>5, <1>6, <1>7, <1>8

\* A call that returns in full, or with a device's error, keeps the invariant.
LEMMA FineKeeps ==
  ASSUME FileInv', NEW answer, Return(answer), Good(file, call) => Fine(answer)
  PROVE  LegalInv'
<1>1. pc' = "done" /\ result' = answer /\ UNCHANGED <<file, call>>
  BY DEF Return
<1> QED
  BY <1>1 DEF LegalInv

\* So does a step of the loop that stays behind an extent done with.
LEMMA SameKeeps ==
  ASSUME LegalInv, FileInv', pc' \in {"search", "items"}, UNCHANGED <<file, call>>,
         Good(file, call) => Behind(file, call, next_target, Len(out))'
  PROVE  LegalInv'
BY DEF LegalInv

\* The answers that are always fine.
LEMMA FineAnswers ==
  /\ \A bytes : Fine(Ok(bytes))
  /\ Fine(Err("find_first_ge")) /\ Fine(Err("extent_read"))
BY DEF Fine, Ok, Err, TransientErrors

\* No extent of a legal file is refused for its place.
LEMMA NoOverlap ==
  ASSUME LegalInv, NEW e, AtExtent(e), Whole, Good(file, call)
  PROVE  PlaceVerdict(e) = "ok"
<1>1. FileInv /\ pc = "items"
  BY DEF LegalInv, AtExtent
<1>2. PICK f \in Files, c \in Calls, n \in Nat, t \in Nat : Here(f, c, n, t, e)
  BY <1>1, AtExtentFacts
<1>3. /\ f = file /\ c = call /\ t = next_target /\ n = Len(out)
      /\ e \in ExtentsOf(f) /\ Legal(f) /\ IsWhole(c)
      /\ \A d \in ExtentsOf(f) : d.offset <= f.size
  BY <1>2, SameNames DEF Here, Good
<1>4. Rest(f, t, leaf)
  <2>1. Reading(f, c, pc, t, leaf, out)
    BY <1>1, <1>3 DEF FileInv
  <2> QED
    BY <1>1, <2>1 DEF Reading
<1>5. e.offset >= t
  BY <1>4, RestHead DEF AtExtent
<1>6. Behind(f, c, t, n)
  BY <1>1, <1>3 DEF LegalInv
<1>7. e.offset \in Nat /\ e.num \in Nat /\ f.size \in Nat
  BY <1>3, ExtentPlace, ExtentTypes, FileTypes
<1>8. ~(e.offset < n)
  <2> SUFFICES ASSUME e.offset < n PROVE FALSE
    OBVIOUS
  <2>1. n > 0
    BY <1>7
  <2>2. PICK d \in ExtentsOf(f) : d.offset < t /\ n <= d.offset + d.num
    BY <1>3, <1>6, <2>1 DEF Behind
  <2>3. d.offset \in Nat /\ d.num \in Nat
    BY ExtentPlace, ExtentTypes
  <2>4. d # e
    BY <1>5, <1>7, <2>2, <2>3
  <2>5. SectorsOverlap(d, e)
    BY <1>5, <1>7, <2>2, <2>3 DEF SectorsOverlap
  <2> QED
    BY <1>3, <2>4, <2>5, LegalExtent
<1>9. ~(e.offset > f.size)
  BY <1>3, <1>7
<1> QED
  BY <1>3, <1>8, <1>9 DEF PlaceVerdict

\* read_file: a legal extent is appended, or the device fails.
LEMMA AppendAnswers ==
  ASSUME LegalInv, FileInv', NEW e, AppendExtent(e)
  PROVE  LegalInv'
<1>1. FileInv /\ Whole /\ AtExtent(e) /\ PlaceVerdict(e) = "ok"
  BY DEF LegalInv, AppendExtent
<1>2. PICK f \in Files, c \in Calls, n \in Nat, t \in Nat : Here(f, c, n, t, e)
  BY <1>1, AtExtentFacts
<1>3. /\ f = file /\ c = call /\ n = Len(out) /\ e \in ExtentsOf(f) /\ f.size \in Nat
      /\ out = Content(f, c, BaseOf(c), n) /\ BaseOf(c) \in Nat
  BY <1>2, FileTypes, WantTypes DEF Here
<1>4. e \in Extent /\ e.offset \in Nat /\ Reach(e) \in Nat /\ e.num \in Nat /\ Reach(e) <= e.num
  BY <1>3, ExtentPlace, ExtentTypes
<1>5. n <= e.offset
  BY <1>1, <1>3, <1>4 DEF PlaceVerdict
<1> DEFINE piece == apply_extent(e, e.offset)
<1>6. CASE piece.tag = "ok" /\ Advance(e, Zeros(e.offset - Len(out)) \o piece.bytes)
  <2>1. PICK k \in Nat : k = Emitted(f.size, e)
    BY <1>1, <1>3, <1>4, <1>6, ApplyExtent, SameNames
  <2>2. piece.bytes = Piece(c, e, 0, k) /\ k <= Reach(e)
    BY <1>1, <1>3, <1>4, <1>6, <2>1, ApplyExtent, SameNames
  <2>3. PICK g \in Nat : g = e.offset - n
    BY <1>4, <1>5
  <2> HIDE DEF piece
  <2>4. /\ out' = out \o (Zeros(g) \o Piece(c, e, 0, k)) /\ next_target' = e.offset + 1
        /\ pc' \in {"search", "items"} /\ file' = file /\ call' = call
    BY <1>3, <1>6, <2>2, <2>3 DEF Advance
  <2>5. Len(out') = e.offset + k
    <3>1. PICK z, p : z = Zeros(g) /\ p = Piece(c, e, 0, k)
      OBVIOUS
    <3>2. z \in Seq({Zero}) /\ Len(z) = g
      BY <3>1 DEF Zeros, Bytes
    <3>3. p \in Seq({ByteOf(c, e, i) : i \in Int}) /\ Len(p) = k
      BY <3>1 DEF Piece
    <3>4. out \in Seq(FileBytes(f, c))
      BY <1>3, ContentTypes
    <3>5. PICK S : S = FileBytes(f, c) \cup {Zero} \cup {ByteOf(c, e, i) : i \in Int}
      OBVIOUS
    <3>6. z \in Seq(S) /\ p \in Seq(S) /\ out \in Seq(S)
      BY <3>2, <3>3, <3>4, <3>5
    <3>7. Len(z \o p) = g + k /\ z \o p \in Seq(S)
      BY <3>2, <3>3, <3>6, ConcatProperties
    <3>8. Len(out \o (z \o p)) = n + (g + k)
      <4>1. PICK zp \in Seq(S) : zp = z \o p /\ Len(zp) = g + k
        BY <3>7
      <4>2. Len(out \o zp) = Len(out) + Len(zp)
        BY <3>6, ConcatProperties
      <4> QED
        BY <1>3, <4>1, <4>2
    <3> QED
      BY <1>4, <2>3, <2>4, <3>1, <3>8, SMTT(30)
  <2>6. /\ e.offset < e.offset + 1 /\ e.offset + k <= e.offset + e.num
    BY <1>4, <2>2
  <2>7. Behind(f, c, e.offset + 1, e.offset + k)
    BY <1>3, <2>6 DEF Behind
  <2>8. Behind(file, call, next_target, Len(out))'
    BY <1>3, <2>4, <2>5, <2>7
  <2> QED
    BY <2>4, <2>8, SameKeeps
<1>7. CASE piece.tag # "ok" /\ Return(piece)
  <2>1. ~Good(file, call)
    BY <1>3, <1>4, <1>7, ApplyAnswers DEF Good
  <2> HIDE DEF piece
  <2> QED
    BY <1>7, <2>1, FineKeeps
<1>8. CASE Return(Err("extent_read"))
  BY <1>8, FineAnswers, FineKeeps
<1> QED
  BY <1>6, <1>7, <1>8 DEF AppendExtent

\* read_file_at: a window of a legal extent is copied, or the device fails.
LEMMA WindowAnswers ==
  ASSUME LegalInv, FileInv', NEW e, CopyExtent(e)
  PROVE  LegalInv'
<1>1. FileInv
  BY DEF LegalInv
<1>2. PICK f \in Files, c \in Calls, n \in Nat, t \in Nat, g \in Nat, at \in Nat, h \in Nat :
        Copying(f, c, n, t, e, g, at, h)
  BY <1>1, CopyPlan
<1>3. /\ f = file /\ c = call /\ e \in ExtentsOf(f) /\ at + h <= e.num /\ IsWindow(c)
  BY <1>2 DEF Copying, Here
<1> DEFINE piece == copy_extent_slice(e, at, h)
<1>4. CASE piece.tag = "ok" /\ Advance(e, Zeros(g) \o piece.bytes)
  <2>1. pc' \in {"search", "items"} /\ file' = file /\ call' = call
    BY <1>4 DEF Advance
  <2>2. Behind(file, call, next_target, Len(out))'
    BY <1>3, <2>1 DEF Behind, IsWhole, IsWindow
  <2> QED
    BY <2>1, <2>2, SameKeeps
<1>5. CASE piece.tag # "ok" /\ Return(piece)
  <2>1. ~Good(file, call)
    BY <1>3, <1>5, CopyAnswers DEF Good
  <2> HIDE DEF piece
  <2> QED
    BY <1>5, <2>1, FineKeeps
<1>6. CASE Return(Err("extent_read"))
  BY <1>6, FineAnswers, FineKeeps
<1> QED
  BY <1>2, <1>4, <1>5, <1>6 DEF Copying

\* The other steps at an extent.
LEMMA ItemAnswers ==
  ASSUME LegalInv, FileInv', leaf # <<>> /\ AtItem
  PROVE  LegalInv'
<1>1. PICK e : \/ RefuseExtent(e) \/ AppendExtent(e) \/ RefuseItem(e)
               \/ SkipExtent(e) \/ FillFromGap(e) \/ CopyExtent(e)
  BY DEF AtItem
<1>2. CASE RefuseExtent(e)
  <2>1. AtExtent(e) /\ Whole /\ PlaceVerdict(e) # "ok" /\ Return(Err(PlaceVerdict(e)))
    BY <1>2 DEF RefuseExtent
  <2>2. ~Good(file, call)
    BY <2>1, NoOverlap
  <2> QED
    BY <2>1, <2>2, FineKeeps
<1>3. CASE RefuseItem(e)
  <2>1. AtExtent(e) /\ ParseVerdict(e) # "ok" /\ Return(Err(ParseVerdict(e)))
    BY <1>3 DEF RefuseItem
  <2>2. FileInv
    BY DEF LegalInv
  <2>3. PICK f \in Files, c \in Calls, n \in Nat, t \in Nat : Here(f, c, n, t, e)
    BY <2>1, <2>2, AtExtentFacts
  <2>4. f = file /\ e \in ExtentsOf(f)
    BY <2>3 DEF Here
  <2>5. ~Good(file, call)
    BY <2>1, <2>4, LegalExtent DEF Good
  <2> QED
    BY <2>1, <2>5, FineKeeps
<1>4. CASE SkipExtent(e)
  <2>1. pc' \in {"search", "items"} /\ file' = file /\ call' = call /\ call.op = "read_file_at"
    BY <1>4 DEF SkipExtent, Advance, Window
  <2>2. Behind(file, call, next_target, Len(out))'
    BY <2>1 DEF Behind, IsWhole
  <2> QED
    BY <2>1, <2>2, SameKeeps
<1>5. CASE FillFromGap(e)
  BY <1>5, FineAnswers, FineKeeps DEF FillFromGap
<1> QED
  BY <1>1, <1>2, <1>3, <1>4, <1>5, AppendAnswers, WindowAnswers

\* A file laid out as btrfs lays files out is read in full by read_file and
\* read_file_at whenever the device answers: none of the refusals of src/file.rs
\* (overlap, past the end, short decode, overflow) meets such a file.
THEOREM LegalFilesRead == Spec => []LegalFileReads
<1>1. Init => LegalInv
  <2>1. Init => FileInv
    BY InitHolds
  <2> QED
    BY <2>1 DEF LegalInv, Init
<1>2. LegalInv /\ [Next]_vars => LegalInv'
  <2> SUFFICES ASSUME LegalInv, [Next]_vars PROVE LegalInv'
    OBVIOUS
  <2>1. FileInv /\ FileInv'
    BY NextKeeps DEF LegalInv
  <2>2. ASSUME Finish PROVE LegalInv'
    BY <2>1, <2>2, FineAnswers, FineKeeps DEF Finish
  <2>3. CASE EmptyWindow
    BY <2>1, <2>3, FineAnswers, FineKeeps DEF EmptyWindow
  <2>4. CASE ReadMetadata
    <3>1. CASE Return(Err("find_first_ge"))
      BY <2>1, <3>1, FineAnswers, FineKeeps
    <3>2. CASE file.inode \in {"absent", "short"} /\ \E token : Return(Err(token))
      <4>1. ~Good(file, call)
        BY <3>2 DEF Good, Legal
      <4> QED
        BY <2>1, <3>2, <4>1, FineKeeps
    <3>3. CASE pc' = "opened"
      BY <2>1, <3>3 DEF LegalInv
    <3> QED
      BY <2>4, <3>1, <3>2, <3>3 DEF ReadMetadata
  <2>5. CASE ReturnMetadata
    <3>1. ~Good(file, call)
      BY <2>5 DEF ReturnMetadata, Good, IsWhole, IsWindow
    <3> QED
      BY <2>1, <2>5, <3>1, FineKeeps DEF ReturnMetadata
  <2>6. CASE ReadLink
    <3>1. ~Good(file, call)
      BY <2>6 DEF ReadLink, Good, IsWhole, IsWindow
    <3>2. UNCHANGED <<file, call>>
      BY <2>6 DEF ReadLink, Return
    <3> QED
      BY <2>1, <3>1, <3>2 DEF LegalInv
  <2>7. CASE Refuse
    <3>1. CASE Mode # "file" /\ Return(Err("NotARegularFile"))
      <4>1. ~Good(file, call)
        BY <3>1 DEF Good, Legal, Mode
      <4> QED
        BY <2>1, <3>1, <4>1, FineKeeps
    <3>2. CASE file.size > MaxAlloc /\ Return(Err("file_buffer"))
      <4>1. file.size \in Nat /\ MaxAlloc \in Nat
        BY <2>1, FileTypes DEF FileInv
      <4>2. ~Good(file, call)
        BY <3>2, <4>1 DEF Good, Legal
      <4> QED
        BY <2>1, <3>2, <4>2, FineKeeps
    <3>3. CASE Return(Ok(<<>>))
      BY <2>1, <3>3, FineAnswers, FineKeeps
    <3> QED
      BY <2>7, <3>1, <3>2, <3>3 DEF Refuse
  <2>8. CASE Begin
    <3>1. /\ pc = "opened" /\ pc' = "search"
          /\ UNCHANGED <<file, call, next_target, leaf, out, result>>
      BY <2>8 DEF Begin
    <3>2. out = <<>>
      BY <2>1, <3>1 DEF FileInv
    <3>3. Len(out') = 0 /\ ~(0 > 0)
      BY <3>1, <3>2
    <3>4. Behind(file, call, next_target, Len(out))'
      BY <3>3 DEF Behind
    <3> QED
      BY <2>1, <3>1, <3>4, SameKeeps
  <2>9. CASE Search
    <3>1. CASE Return(Err("find_first_ge"))
      BY <2>1, <3>1, FineAnswers, FineKeeps
    <3>2. CASE pc' = "items" /\ UNCHANGED <<file, call, next_target, out, result>>
      <4>1. pc = "search"
        BY <2>9 DEF Search
      <4> QED
        BY <2>1, <3>2, <4>1 DEF LegalInv
    <3> QED
      BY <2>2, <2>9, <3>1, <3>2 DEF Search
  <2>10. CASE LoopDone
    BY <2>2, <2>10 DEF LoopDone
  <2>11. CASE PastExtents
    BY <2>2, <2>11 DEF PastExtents
  <2>12. CASE EndOfLeaf
    BY <2>1, <2>12 DEF EndOfLeaf, LegalInv
  <2>13. CASE leaf # <<>> /\ AtItem
    BY <2>1, <2>13, ItemAnswers
  <2>14. CASE UNCHANGED vars
    BY <2>1, <2>14 DEF vars, LegalInv
  <2> QED
    BY <2>3, <2>4, <2>5, <2>6, <2>7, <2>8, <2>9, <2>10, <2>11, <2>12, <2>13, <2>14 DEF Next
<1>3. LegalInv => LegalFileReads
  BY SameNames DEF LegalInv, LegalFileReads, Good, Fine, Answered
<1> QED
  BY <1>1, <1>2, <1>3, PTL DEF Spec
=============================================================================
