--------------------------- MODULE ChunkMapProofs ---------------------------
(* The chunk table for every set of chunks, every device and every address *)
(* width: it never overlaps itself, a lookup by predecessor is the answer  *)
(* of the whole table, and adding a chunk moves no address.                *)
EXTENDS ChunkMap, SequenceTheorems, TLAPS

(* What Vec::insert leaves at each place: the elements before pos stay, x  *)
(* is at pos, the others move up by one.                                   *)
LEMMA InsertAtElements ==
  ASSUME NEW S, NEW s \in Seq(S), NEW x \in S, NEW pos \in 1 .. (Len(s) + 1)
  PROVE  /\ InsertAt(s, pos, x) \in Seq(S)
         /\ Len(InsertAt(s, pos, x)) = Len(s) + 1
         /\ \A i \in 1 .. (Len(s) + 1) :
              InsertAt(s, pos, x)[i] = IF i < pos THEN s[i]
                                       ELSE IF i = pos THEN x ELSE s[i - 1]
<1> DEFINE a == SubSeq(s, 1, pos - 1)
           b == SubSeq(s, pos, Len(s))
           c == a \o <<x>>
<1>0. Len(s) \in Nat
  BY LenProperties
<1>1. /\ a \in Seq(S) /\ Len(a) = pos - 1
      /\ \A i \in 1 .. (pos - 1) : a[i] = s[i]
  BY <1>0, SubSeqProperties
<1>2. /\ b \in Seq(S) /\ Len(b) = Len(s) + 1 - pos
      /\ \A i \in 1 .. (Len(s) + 1 - pos) : b[i] = s[pos + i - 1]
  BY <1>0, SubSeqProperties
<1>3. /\ <<x>> \in Seq(S) /\ Len(<<x>>) = 1 /\ <<x>>[1] = x
  OBVIOUS
<1> HIDE DEF a, b
<1>4. /\ c \in Seq(S) /\ Len(c) = pos
      /\ \A i \in 1 .. pos : c[i] = IF i < pos THEN a[i] ELSE x
  BY <1>1, <1>3, <1>0, ConcatProperties
<1> HIDE DEF c
<1>5. /\ c \o b \in Seq(S)
      /\ Len(c \o b) = Len(c) + Len(b)
      /\ \A i \in 1 .. (Len(c) + Len(b)) :
           (c \o b)[i] = IF i <= Len(c) THEN c[i] ELSE b[i - Len(c)]
  BY <1>4, <1>2, ConcatProperties
<1>6. InsertAt(s, pos, x) = c \o b
  BY DEF InsertAt, a, b, c
<1>7. Len(c \o b) = Len(s) + 1
  BY <1>0, <1>2, <1>4, <1>5
<1>8. ASSUME NEW i \in 1 .. (Len(s) + 1)
      PROVE  (c \o b)[i] = IF i < pos THEN s[i] ELSE IF i = pos THEN x ELSE s[i - 1]
  <2>1. i \in 1 .. (Len(c) + Len(b))
    BY <1>0, <1>2, <1>4
  <2>2. CASE i <= pos
    BY <2>1, <2>2, <1>0, <1>1, <1>4, <1>5
  <2>3. CASE i > pos
    <3>1. (c \o b)[i] = b[i - pos]
      BY <2>1, <2>3, <1>0, <1>4, <1>5
    <3>2. i - pos \in 1 .. (Len(s) + 1 - pos) /\ pos + (i - pos) - 1 = i - 1
      BY <2>3, <1>0
    <3> QED
      BY <3>1, <3>2, <2>3, <1>2
  <2>4. i <= pos \/ i > pos
    BY <1>0
  <2> QED
    BY <2>2, <2>3, <2>4
<1> QED
  BY <1>5, <1>6, <1>7, <1>8

-----------------------------------------------------------------------------
(* Type correctness.  The initial state and each of the four operations of *)
(* the map keep TypeOK.                                                    *)
LEMMA InitTypeOK == Init => TypeOK
BY DEF Init, TypeOK

(* ChunkMap::insert keeps the table a sequence of mappings, whatever its   *)
(* verdict.                                                                *)
LEMMA DoInsertTypeOK ==
  ASSUME TypeOK, NEW m \in Chunks, DoInsert(m)
  PROVE  mappings' \in Seq(ChunkMapping) /\ alive' \in BOOLEAN /\ answer'.op = "insert"
<1>1. m \in ChunkMapping
  BY ChunksAssumption
<1>2. PICK pos \in 1 .. (Len(mappings) + 1) :
         /\ mappings' = IF InsertVerdict(mappings, m, pos) = "ok"
                        THEN InsertAt(mappings, pos, m) ELSE mappings
         /\ alive' = (InsertVerdict(mappings, m, pos) = "ok")
         /\ answer' = [op |-> "insert", logical |-> m.logical,
                       verdict |-> InsertVerdict(mappings, m, pos)]
  BY DEF DoInsert
<1>3. mappings \in Seq(ChunkMapping)
  BY DEF TypeOK
<1>4. InsertAt(mappings, pos, m) \in Seq(ChunkMapping)
  BY <1>1, <1>2, <1>3, InsertAtElements
<1> QED
  BY <1>2, <1>3, <1>4

(* Every call of the map keeps TypeOK.                                     *)
LEMMA NextTypeOK == TypeOK /\ [Next]_vars => TypeOK'
<1> SUFFICES ASSUME TypeOK, [Next]_vars PROVE TypeOK'
  OBVIOUS
<1>1. ASSUME NEW d \in Devids, SetLocalDevid(d) PROVE TypeOK'
  BY <1>1 DEF SetLocalDevid, TypeOK
<1>2. ASSUME NEW m \in Chunks, Insert(m) PROVE TypeOK'
  BY <1>2, DoInsertTypeOK DEF Insert, TypeOK
<1>3. ASSUME NEW m \in Chunks, InsertIfAbsent(m) PROVE TypeOK'
  <2>1. CASE ContainsChunk(mappings, m.logical)
    BY <1>3, <2>1 DEF InsertIfAbsent, TypeOK
  <2>2. CASE ~ContainsChunk(mappings, m.logical)
    BY <1>3, <2>2, DoInsertTypeOK DEF InsertIfAbsent, TypeOK
  <2> QED
    BY <2>1, <2>2
<1>4. ASSUME NEW l \in U64, Resolve(l) PROVE TypeOK'
  <2>1. answer'.op = "resolve"
    BY <1>4 DEF Resolve, IsResolution, Resolved, ResolvedAt, Unresolved
  <2> QED
    BY <1>4, <2>1 DEF Resolve, TypeOK
<1>5. CASE UNCHANGED vars
  BY <1>5 DEF vars, TypeOK
<1> QED
  BY <1>1, <1>2, <1>3, <1>4, <1>5 DEF Next

(* ChunkMap: the table always holds well-formed mappings and the last      *)
(* answer is one of the three calls' answers, for every set of chunks      *)
(* offered by the disk.                                                    *)
THEOREM TypeCorrect == Spec => []TypeOK
BY InitTypeOK, NextTypeOK, PTL DEF Spec

-----------------------------------------------------------------------------
(* The fields a comparison reads are numbers.                              *)
LEMMA ElementsAreNat ==
  ASSUME NEW s \in Seq(ChunkMapping)
  PROVE  \A i \in 1 .. Len(s) : s[i].logical \in Nat /\ s[i].length \in Nat
<1> SUFFICES ASSUME NEW i \in 1 .. Len(s)
             PROVE  s[i].logical \in Nat /\ s[i].length \in Nat
  OBVIOUS
<1>1. s[i] \in ChunkMapping
  BY ElementOfSeq
<1> QED
  BY <1>1, MaxU64Assumption DEF ChunkMapping, U64

(* An accepted insert keeps the table disjoint: everything before the      *)
(* partition point ends by the predecessor's end, everything after it      *)
(* starts at or after the successor's start, and those two are the only    *)
(* neighbours insert compares the new mapping with.                        *)
LEMMA InsertKeepsDisjoint ==
  ASSUME NEW s \in Seq(ChunkMapping), Disjoint(s),
         NEW m \in ChunkMapping, NEW pos \in 1 .. (Len(s) + 1),
         PartitionLess(s, m.logical, pos),
         InsertVerdict(s, m, pos) = "ok"
  PROVE  /\ Disjoint(InsertAt(s, pos, m))
         /\ \A i \in 1 .. (pos - 1) : End(s[i]) <= m.logical
         /\ \A i \in pos .. Len(s) : End(m) <= s[i].logical
<1>0. Len(s) \in Nat /\ pos \in Nat /\ MaxU64 \in Nat
  BY LenProperties, MaxU64Assumption
<1>1. \A i \in 1 .. Len(s) : s[i].logical \in Nat /\ s[i].length \in Nat
  BY ElementsAreNat
<1>2. m.logical \in Nat /\ m.length \in Nat
  BY MaxU64Assumption DEF ChunkMapping, U64
<1>3. /\ pos > 1 => End(s[pos - 1]) <= m.logical
      /\ End(m) <= MaxU64
      /\ pos <= Len(s) => End(m) <= s[pos].logical
  BY <1>0, <1>1, <1>2 DEF InsertVerdict, End
<1>4. \A i \in 1 .. (pos - 1) : End(s[i]) <= m.logical
  <2> SUFFICES ASSUME NEW i \in 1 .. (pos - 1) PROVE End(s[i]) <= m.logical
    OBVIOUS
  <2>1. CASE i = pos - 1
    BY <2>1, <1>3, <1>0
  <2>2. CASE i < pos - 1
    <3>1. i \in 1 .. Len(s) /\ pos - 1 \in 1 .. Len(s)
      BY <2>2, <1>0
    <3>2. End(s[i]) <= s[pos - 1].logical
      BY <3>1, <2>2 DEF Disjoint
    <3>3. s[pos - 1].logical < m.logical
      BY <3>1, <1>0 DEF PartitionLess
    <3>4. End(s[i]) \in Nat /\ s[pos - 1].logical \in Nat
      BY <3>1, <1>1 DEF End
    <3> QED
      BY <3>2, <3>3, <3>4, <1>2
  <2> QED
    BY <2>1, <2>2, <1>0
<1>5. \A i \in pos .. Len(s) : End(m) <= s[i].logical
  <2> SUFFICES ASSUME NEW i \in pos .. Len(s) PROVE End(m) <= s[i].logical
    OBVIOUS
  <2>1. CASE i = pos
    BY <2>1, <1>3, <1>0
  <2>2. CASE i > pos
    BY <2>2, <1>0, <1>1, <1>2, <1>3, SMTT(30) DEF Disjoint, End
  <2> QED
    BY <2>1, <2>2, <1>0
<1> DEFINE t == InsertAt(s, pos, m)
<1>6. /\ Len(t) = Len(s) + 1
      /\ \A i \in 1 .. (Len(s) + 1) :
           t[i] = IF i < pos THEN s[i] ELSE IF i = pos THEN m ELSE s[i - 1]
  BY InsertAtElements, SMTT(30)
<1> HIDE DEF t
<1>7. ASSUME NEW i \in 1 .. Len(t) PROVE End(t[i]) <= MaxU64
  <2>1. CASE i < pos
    BY <2>1, <1>0, <1>6 DEF Disjoint
  <2>2. CASE i = pos
    BY <2>2, <1>0, <1>3, <1>6
  <2>3. CASE i > pos
    BY <2>3, <1>0, <1>6 DEF Disjoint
  <2> QED
    BY <2>1, <2>2, <2>3, <1>0, <1>6
<1>8. ASSUME NEW i \in 1 .. Len(t), NEW j \in 1 .. Len(t), i < j
      PROVE  End(t[i]) <= t[j].logical
  <2>1. CASE j < pos
    BY <2>1, <1>8, <1>0, <1>6 DEF Disjoint
  <2>2. CASE j = pos
    BY <2>2, <1>8, <1>0, <1>4, <1>6
  <2>3. CASE j > pos /\ i < pos
    BY <2>3, <1>8, <1>0, <1>6 DEF Disjoint
  <2>4. CASE j > pos /\ i = pos
    BY <2>4, <1>8, <1>0, <1>5, <1>6
  <2>5. CASE i > pos
    BY <2>5, <1>8, <1>0, <1>6 DEF Disjoint
  <2> QED
    BY <2>1, <2>2, <2>3, <2>4, <2>5, <1>0, <1>8
<1>9. Disjoint(t)
  BY <1>7, <1>8 DEF Disjoint
<1> QED
  BY <1>4, <1>5, <1>9 DEF t

(* ChunkMap::insert keeps the table sorted and disjoint: it adds at the    *)
(* partition point after comparing with both neighbours, or it refuses.    *)
LEMMA DoInsertNonOverlapping ==
  ASSUME TypeOK, NonOverlapping, NEW m \in Chunks, DoInsert(m)
  PROVE  NonOverlapping'
<1>1. mappings \in Seq(ChunkMapping) /\ m \in ChunkMapping
  BY ChunksAssumption DEF TypeOK
<1>2. PICK pos \in 1 .. (Len(mappings) + 1) :
         /\ PartitionLess(mappings, m.logical, pos)
         /\ mappings' = IF InsertVerdict(mappings, m, pos) = "ok"
                        THEN InsertAt(mappings, pos, m) ELSE mappings
  BY DEF DoInsert
<1>3. CASE InsertVerdict(mappings, m, pos) = "ok"
  BY <1>1, <1>2, <1>3, InsertKeepsDisjoint DEF NonOverlapping
<1>4. CASE InsertVerdict(mappings, m, pos) # "ok"
  BY <1>2, <1>4 DEF NonOverlapping
<1> QED
  BY <1>3, <1>4

(* Every call of the map keeps NonOverlapping.                             *)
LEMMA NextNonOverlapping ==
  TypeOK /\ NonOverlapping /\ [Next]_vars => NonOverlapping'
<1> SUFFICES ASSUME TypeOK, NonOverlapping, [Next]_vars PROVE NonOverlapping'
  OBVIOUS
<1>1. ASSUME NEW m \in Chunks, Insert(m) PROVE NonOverlapping'
  BY <1>1, DoInsertNonOverlapping DEF Insert
<1>2. ASSUME NEW m \in Chunks, InsertIfAbsent(m) PROVE NonOverlapping'
  <2>1. CASE ContainsChunk(mappings, m.logical)
    BY <1>2, <2>1 DEF InsertIfAbsent, NonOverlapping
  <2>2. CASE ~ContainsChunk(mappings, m.logical)
    BY <1>2, <2>2, DoInsertNonOverlapping DEF InsertIfAbsent
  <2> QED
    BY <2>1, <2>2
<1>3. ASSUME mappings' = mappings PROVE NonOverlapping'
  BY <1>3 DEF NonOverlapping
<1> QED
  BY <1>1, <1>2, <1>3 DEF Next, SetLocalDevid, Resolve, vars

(* Whatever chunks a disk offers and in whatever order, the table stays    *)
(* sorted, disjoint and inside the address space.                          *)
THEOREM TableNeverOverlaps == Spec => []NonOverlapping
<1>1. Init => NonOverlapping
  BY DEF Init, NonOverlapping, Disjoint
<1> QED
  BY <1>1, InitTypeOK, NextTypeOK, NextNonOverlapping, PTL DEF Spec

-----------------------------------------------------------------------------
(* In a disjoint table the predecessor found by resolve is the only        *)
(* mapping that can cover the address.                                     *)
LEMMA OnlyPredecessorCovers ==
  ASSUME NEW s \in Seq(ChunkMapping), Disjoint(s), NEW l \in Nat,
         NEW pos \in 1 .. (Len(s) + 1), PartitionLessEq(s, l, pos),
         NEW i \in 1 .. Len(s), Covers(s[i], l)
  PROVE  i = pos - 1
<1>0. Len(s) \in Nat /\ pos \in Nat
  BY LenProperties
<1>1. \A k \in 1 .. Len(s) : s[k].logical \in Nat /\ s[k].length \in Nat
  BY ElementsAreNat
<1>2. s[i].logical <= l /\ l < End(s[i])
  BY DEF Covers
<1>3. i < pos
  BY <1>0, <1>1, <1>2 DEF PartitionLessEq
<1>4. CASE i < pos - 1
  <2>1. pos - 1 \in 1 .. Len(s)
    BY <1>4, <1>0
  <2>2. End(s[i]) <= s[pos - 1].logical
    BY <2>1, <1>4 DEF Disjoint
  <2>3. s[pos - 1].logical <= l
    BY <2>1, <1>0 DEF PartitionLessEq
  <2>4. End(s[i]) \in Nat /\ s[pos - 1].logical \in Nat
    BY <2>1, <1>1 DEF End
  <2> QED
    BY <1>2, <2>2, <2>3, <2>4
<1> QED
  BY <1>0, <1>3, <1>4

(* The cases of a resolution, each with what it says of the covering       *)
(* mapping.                                                                *)
LEMMA ResolutionCases ==
  ASSUME NEW s \in Seq(ChunkMapping), NEW d, NEW l \in U64, NEW r,
         IsResolution(s, d, l, r)
  PROVE  \E pos \in 1 .. (Len(s) + 1) :
           /\ PartitionLessEq(s, l, pos)
           /\ \/ /\ pos = 1
                 /\ r = Unresolved(l, "chunk_unmapped")
              \/ /\ pos > 1
                 /\ End(s[pos - 1]) > MaxU64
                 /\ r = Unresolved(l, "chunk_overflow")
              \/ /\ pos > 1
                 /\ l >= End(s[pos - 1])
                 /\ r = Unresolved(l, "chunk_unmapped")
              \/ /\ pos > 1
                 /\ Covers(s[pos - 1], l)
                 /\ PickVerdict(s[pos - 1], d) # "ok"
                 /\ r = Unresolved(l, PickVerdict(s[pos - 1], d))
              \/ /\ pos > 1
                 /\ Covers(s[pos - 1], l)
                 /\ r = Unresolved(l, "chunk_overflow")
              \/ /\ pos > 1
                 /\ Covers(s[pos - 1], l)
                 /\ PickVerdict(s[pos - 1], d) = "ok"
                 /\ \E k \in 1 .. Len(s[pos - 1].stripes) :
                      /\ IsPicked(s[pos - 1], d, k)
                      /\ s[pos - 1].stripes[k].offset + (l - s[pos - 1].logical) <= MaxU64
                      /\ r = Resolved(l, s[pos - 1], s[pos - 1].stripes[k])
<1>1. PICK pos \in 1 .. (Len(s) + 1) :
    /\ PartitionLessEq(s, l, pos)
    /\ IF pos = 1 THEN r = Unresolved(l, "chunk_unmapped")
       ELSE LET m == s[pos - 1] IN
         IF End(m) > MaxU64 THEN r = Unresolved(l, "chunk_overflow")
         ELSE IF l >= End(m) THEN r = Unresolved(l, "chunk_unmapped")
         ELSE IF PickVerdict(m, d) # "ok" THEN r = Unresolved(l, PickVerdict(m, d))
         ELSE \E i \in 1 .. Len(m.stripes) :
                /\ IsPicked(m, d, i)
                /\ IF m.stripes[i].offset + (l - m.logical) > MaxU64
                   THEN r = Unresolved(l, "chunk_overflow")
                   ELSE r = Resolved(l, m, m.stripes[i])
  BY DEF IsResolution
<1>2. CASE pos = 1
  BY <1>1, <1>2
<1>3. CASE pos # 1
  <2> DEFINE m == s[pos - 1]
  <2>0. Len(s) \in Nat
    BY LenProperties
  <2>1. pos > 1 /\ pos - 1 \in 1 .. Len(s)
    BY <1>3, <2>0
  <2>2. m \in ChunkMapping
    BY <2>1, ElementOfSeq
  <2>3. m.logical \in Nat /\ m.length \in Nat /\ l \in Nat /\ MaxU64 \in Nat
        /\ m.stripes \in Seq(Stripe) /\ End(m) \in Nat
    BY <2>2, MaxU64Assumption, SMTT(30) DEF ChunkMapping, U64, End
  <2>4. m.logical <= l
    BY <2>1, <1>1 DEF PartitionLessEq
  <2>5. CASE End(m) > MaxU64
    BY <2>1, <2>5, <1>1, <1>3
  <2>6. CASE End(m) <= MaxU64 /\ l >= End(m)
    BY <2>1, <2>3, <2>6, <1>1, <1>3
  <2>7. CASE End(m) <= MaxU64 /\ l < End(m) /\ PickVerdict(m, d) # "ok"
    BY <2>1, <2>3, <2>4, <2>7, <1>1, <1>3 DEF Covers
  <2>8. CASE End(m) <= MaxU64 /\ l < End(m) /\ PickVerdict(m, d) = "ok"
    <3>1. Covers(m, l)
      BY <2>4, <2>8 DEF Covers
    <3>2. PICK i \in 1 .. Len(m.stripes) :
                /\ IsPicked(m, d, i)
                /\ IF m.stripes[i].offset + (l - m.logical) > MaxU64
                   THEN r = Unresolved(l, "chunk_overflow")
                   ELSE r = Resolved(l, m, m.stripes[i])
      BY <2>3, <2>8, <1>1, <1>3
    <3>3. m.stripes[i].offset \in Nat
      <4>1. m.stripes[i] \in Stripe
        BY <2>3, <3>2, ElementOfSeq
      <4> QED
        BY <4>1, MaxU64Assumption DEF Stripe, U64
    <3>4. CASE m.stripes[i].offset + (l - m.logical) > MaxU64
      BY <3>1, <3>2, <3>4, <2>1, <1>1
    <3>5. CASE m.stripes[i].offset + (l - m.logical) <= MaxU64
      BY <3>1, <3>2, <3>3, <3>5, <2>1, <2>3, <2>8, <1>1
    <3>6. \/ m.stripes[i].offset + (l - m.logical) > MaxU64
          \/ m.stripes[i].offset + (l - m.logical) <= MaxU64
      <4>1. \A a, b, c, x \in Nat : a + (b - c) > x \/ a + (b - c) <= x
        OBVIOUS
      <4> QED
        BY <4>1, <3>3, <2>3
    <3> QED
      BY <3>4, <3>5, <3>6
  <2> QED
    BY <2>3, <2>5, <2>6, <2>7, <2>8
<1> QED
  BY <1>2, <1>3

(* A resolution on a disjoint table is the answer of the whole table.      *)
LEMMA ResolveExactStep ==
  ASSUME TypeOK, NonOverlapping, NEW l \in U64, Resolve(l)
  PROVE  ResolveIsExact'
<1>0. /\ mappings \in Seq(ChunkMapping) /\ Disjoint(mappings) /\ l \in Nat
      /\ Len(mappings) \in Nat /\ MaxU64 \in Nat
  BY LenProperties, MaxU64Assumption DEF TypeOK, NonOverlapping, U64
<1> DEFINE s == mappings
           d == local_devid
           Cover == {i \in 1 .. Len(s) : Covers(s[i], l)}
<1>1. mappings' = mappings /\ IsResolution(s, d, l, answer')
  BY DEF Resolve
<1>2. PICK pos \in 1 .. (Len(s) + 1) :
           /\ PartitionLessEq(s, l, pos)
           /\ \/ /\ pos = 1
                 /\ answer' = Unresolved(l, "chunk_unmapped")
              \/ /\ pos > 1
                 /\ End(s[pos - 1]) > MaxU64
                 /\ answer' = Unresolved(l, "chunk_overflow")
              \/ /\ pos > 1
                 /\ l >= End(s[pos - 1])
                 /\ answer' = Unresolved(l, "chunk_unmapped")
              \/ /\ pos > 1
                 /\ Covers(s[pos - 1], l)
                 /\ PickVerdict(s[pos - 1], d) # "ok"
                 /\ answer' = Unresolved(l, PickVerdict(s[pos - 1], d))
              \/ /\ pos > 1
                 /\ Covers(s[pos - 1], l)
                 /\ answer' = Unresolved(l, "chunk_overflow")
              \/ /\ pos > 1
                 /\ Covers(s[pos - 1], l)
                 /\ PickVerdict(s[pos - 1], d) = "ok"
                 /\ \E k \in 1 .. Len(s[pos - 1].stripes) :
                      /\ IsPicked(s[pos - 1], d, k)
                      /\ s[pos - 1].stripes[k].offset + (l - s[pos - 1].logical) <= MaxU64
                      /\ answer' = Resolved(l, s[pos - 1], s[pos - 1].stripes[k])
  BY <1>0, <1>1, ResolutionCases
<1>3. \A i \in Cover : i = pos - 1
  BY <1>0, <1>2, OnlyPredecessorCovers
<1>4. pos > 1 => pos - 1 \in 1 .. Len(s) /\ s[pos - 1] \in ChunkMapping
  BY <1>0, ElementOfSeq
<1>5. (pos > 1 /\ Covers(s[pos - 1], l)) => Cover = {pos - 1}
  BY <1>3, <1>4
<1>6. CASE answer' = Unresolved(l, "chunk_unmapped") /\ Cover = {}
  BY <1>1, <1>6 DEF ResolveIsExact, Unresolved
<1>7. CASE answer' = Unresolved(l, "chunk_overflow")
  BY <1>1, <1>7 DEF ResolveIsExact, Unresolved
<1>8. CASE /\ pos > 1 /\ Covers(s[pos - 1], l)
           /\ PickVerdict(s[pos - 1], d) # "ok"
           /\ answer' = Unresolved(l, PickVerdict(s[pos - 1], d))
  <2>1. PickVerdict(s[pos - 1], d) \in {"prof_refused", "prof_no_stripes", "prof_other_device"}
    BY <1>8 DEF PickVerdict
  <2> QED
    BY <2>1, <1>1, <1>5, <1>8 DEF ResolveIsExact, Unresolved
<1>9. CASE /\ pos > 1 /\ Covers(s[pos - 1], l)
           /\ PickVerdict(s[pos - 1], d) = "ok"
           /\ \E k \in 1 .. Len(s[pos - 1].stripes) :
                      answer' = Resolved(l, s[pos - 1], s[pos - 1].stripes[k])
  <2> DEFINE m == s[pos - 1]
  <2>1. PICK k \in 1 .. Len(m.stripes) : answer' = Resolved(l, m, m.stripes[k])
    BY <1>9
  <2>2. m \in ChunkMapping /\ m.stripes[k] \in Stripe
    BY <1>4, <1>9, <2>1, ElementOfSeq DEF ChunkMapping
  <2>3. /\ m.logical \in Nat /\ m.length \in Nat /\ m.stripes[k].offset \in Nat
    BY <2>2, MaxU64Assumption, SMTT(30) DEF ChunkMapping, Stripe, U64
  <2>4. m.profile \in ReadableProfiles
    BY <1>9, <2>2 DEF PickVerdict, ChunkMapping
  <2>5. m.logical <= l /\ l < m.logical + m.length
    BY <1>9 DEF Covers, End
  <2>6. /\ answer'.op = "resolve" /\ answer'.verdict = "ok" /\ answer'.logical = l
        /\ answer'.devid = m.stripes[k].devid
        /\ answer'.physical = m.stripes[k].offset + (l - m.logical)
        /\ answer'.contiguous_bytes = m.length - (l - m.logical)
    BY <2>1 DEF Resolved, ResolvedAt
  <2>7. /\ answer'.physical - m.stripes[k].offset = l - m.logical
        /\ l + answer'.contiguous_bytes = End(m)
        /\ answer'.contiguous_bytes > 0
    <3>1. \A o, lg, ln \in Nat : (lg <= l /\ l < lg + ln) =>
            /\ (o + (l - lg)) - o = l - lg
            /\ l + (ln - (l - lg)) = lg + ln
            /\ ln - (l - lg) > 0
      BY <1>0
    <3>2. /\ (m.stripes[k].offset + (l - m.logical)) - m.stripes[k].offset = l - m.logical
          /\ l + (m.length - (l - m.logical)) = m.logical + m.length
          /\ m.length - (l - m.logical) > 0
      BY <3>1, <2>3, <2>5, Zenon
    <3> QED
      BY <3>2, <2>6, Zenon DEF End
  <2>8. pos - 1 \in Cover /\ Cover = {pos - 1}
    BY <1>4, <1>5, <1>9
  <2> HIDE DEF m
  <2>9. \E i \in Cover : \E j \in 1 .. Len(s[i].stripes) :
               /\ Cover = {i}
               /\ s[i].profile \in ReadableProfiles
               /\ answer'.devid = s[i].stripes[j].devid
               /\ answer'.physical - s[i].stripes[j].offset = l - s[i].logical
               /\ l + answer'.contiguous_bytes = End(s[i])
               /\ answer'.contiguous_bytes > 0
    BY <2>1, <2>4, <2>6, <2>7, <2>8, Zenon DEF m
  <2> QED
    BY <2>6, <2>9, <1>1 DEF ResolveIsExact
<1>10. (pos = 1 \/ (pos > 1 /\ l >= End(s[pos - 1]))) => Cover = {}
  <2>1. CASE pos = 1
    BY <1>3, <1>0, <2>1
  <2>2. CASE pos > 1 /\ l >= End(s[pos - 1])
    <3>1. End(s[pos - 1]) \in Nat
      BY <1>4, <2>2, MaxU64Assumption DEF ChunkMapping, U64, End
    <3>2. ~Covers(s[pos - 1], l)
      BY <3>1, <2>2, <1>0 DEF Covers
    <3> QED
      BY <3>2, <1>3
  <2> QED
    BY <2>1, <2>2
<1> QED
  BY <1>2, <1>6, <1>7, <1>8, <1>9, <1>10

(* A step that is not a resolve leaves no resolve answer behind, or leaves *)
(* everything as it was.                                                   *)
LEMMA OtherSteps ==
  ASSUME [Next]_vars
  PROVE  \/ \E l \in U64 : Resolve(l)
         \/ answer'.op \in {"set_local_devid", "insert"}
         \/ UNCHANGED vars
<1>1. ASSUME NEW d \in Devids, SetLocalDevid(d) PROVE answer'.op = "set_local_devid"
  BY <1>1 DEF SetLocalDevid
<1>2. ASSUME NEW m \in Chunks, DoInsert(m) PROVE answer'.op = "insert"
  BY <1>2 DEF DoInsert
<1>3. ASSUME NEW m \in Chunks, Insert(m) PROVE answer'.op = "insert"
  BY <1>2, <1>3 DEF Insert
<1>4. ASSUME NEW m \in Chunks, InsertIfAbsent(m) PROVE answer'.op = "insert"
  <2>1. CASE ContainsChunk(mappings, m.logical)
    BY <1>4, <2>1 DEF InsertIfAbsent
  <2>2. CASE ~ContainsChunk(mappings, m.logical)
    BY <1>2, <1>4, <2>2 DEF InsertIfAbsent
  <2> QED
    BY <2>1, <2>2
<1> QED
  BY <1>1, <1>3, <1>4 DEF Next

(* Every answer resolve ever gives is the answer of the whole table.       *)
THEOREM ResolveIsAlwaysExact == Spec => []ResolveIsExact
<1>1. Init => ResolveIsExact
  BY DEF Init, ResolveIsExact
<1>2. TypeOK /\ NonOverlapping /\ ResolveIsExact /\ [Next]_vars => ResolveIsExact'
  <2> SUFFICES ASSUME TypeOK, NonOverlapping, ResolveIsExact, [Next]_vars
               PROVE  ResolveIsExact'
    OBVIOUS
  <2>1. ASSUME NEW l \in U64, Resolve(l) PROVE ResolveIsExact'
    BY <2>1, ResolveExactStep
  <2>2. CASE answer'.op \in {"set_local_devid", "insert"}
    BY <2>2 DEF ResolveIsExact
  <2>3. CASE UNCHANGED vars
    BY <2>3 DEF vars, ResolveIsExact
  <2> QED
    BY <2>1, <2>2, <2>3, OtherSteps
<1> QED
  BY <1>1, <1>2, TypeCorrect, TableNeverOverlaps, PTL DEF Spec

-----------------------------------------------------------------------------
(* Adding a chunk to a disjoint table moves no address: the new mapping    *)
(* lies between its neighbours, so it covers nothing an old one covers.    *)
LEMMA InsertKeepsCovering ==
  ASSUME NEW s \in Seq(ChunkMapping), Disjoint(s),
         NEW m \in ChunkMapping, NEW pos \in 1 .. (Len(s) + 1),
         PartitionLess(s, m.logical, pos),
         InsertVerdict(s, m, pos) = "ok",
         NEW l \in U64, Covering(s, l) # {}
  PROVE  Covering(InsertAt(s, pos, m), l) = Covering(s, l)
<1> DEFINE t == InsertAt(s, pos, m)
<1>0. Len(s) \in Nat /\ pos \in Nat /\ l \in Nat
  BY LenProperties, MaxU64Assumption DEF U64
<1>1. \A i \in 1 .. Len(s) : s[i].logical \in Nat /\ s[i].length \in Nat
  BY ElementsAreNat
<1>2. m.logical \in Nat /\ m.length \in Nat
  BY MaxU64Assumption DEF ChunkMapping, U64
<1>3. /\ Len(t) = Len(s) + 1
      /\ \A i \in 1 .. (Len(s) + 1) :
           t[i] = IF i < pos THEN s[i] ELSE IF i = pos THEN m ELSE s[i - 1]
  BY InsertAtElements
<1>4. PICK j \in 1 .. Len(s) : Covers(s[j], l)
  BY DEF Covering
<1>5. ~Covers(m, l)
  <2>1. CASE j < pos
    <3>1. End(s[j]) <= m.logical
      BY <2>1, <1>0, <1>4, InsertKeepsDisjoint
    <3> QED
      BY <3>1, <1>0, <1>1, <1>2, <1>4 DEF Covers, End
  <2>2. CASE j >= pos
    <3>1. End(m) <= s[j].logical
      BY <2>2, <1>0, <1>4, InsertKeepsDisjoint
    <3> QED
      BY <3>1, <1>0, <1>1, <1>2, <1>4 DEF Covers, End
  <2> QED
    BY <2>1, <2>2, <1>0
<1> HIDE DEF t
<1>6. ASSUME NEW c \in Covering(s, l) PROVE c \in Covering(t, l)
  <2>1. PICK i \in 1 .. Len(s) : Covers(s[i], l) /\ c = s[i]
    BY <1>6 DEF Covering
  <2>2. CASE i < pos
    <3>1. i \in 1 .. Len(t) /\ t[i] = c
      BY <2>1, <2>2, <1>0, <1>3
    <3> QED
      BY <3>1, <2>1 DEF Covering
  <2>3. CASE i >= pos
    <3>1. i + 1 \in 1 .. Len(t) /\ t[i + 1] = c
      BY <2>1, <2>3, <1>0, <1>3
    <3> QED
      BY <3>1, <2>1 DEF Covering
  <2> QED
    BY <2>2, <2>3, <1>0
<1>7. ASSUME NEW c \in Covering(t, l) PROVE c \in Covering(s, l)
  <2>1. PICK i \in 1 .. Len(t) : Covers(t[i], l) /\ c = t[i]
    BY <1>7 DEF Covering
  <2>2. i # pos
    BY <2>1, <1>0, <1>3, <1>5
  <2>3. CASE i < pos
    <3>1. i \in 1 .. Len(s) /\ s[i] = c
      BY <2>1, <2>3, <1>0, <1>3
    <3> QED
      BY <3>1, <2>1 DEF Covering
  <2>4. CASE i > pos
    <3>1. i - 1 \in 1 .. Len(s) /\ s[i - 1] = c
      BY <2>1, <2>4, <1>0, <1>3
    <3> QED
      BY <3>1, <2>1 DEF Covering
  <2> QED
    BY <2>2, <2>3, <2>4, <1>0, <1>3
<1> QED
  BY <1>6, <1>7 DEF t

(* No call changes where an address already in the table is sent.          *)
THEOREM AddressesNeverMove == Spec => AddressesAreStable
<1> DEFINE Stable == \A l \in U64 : Covering(mappings, l) # {} =>
                        Covering(mappings', l) = Covering(mappings, l)
<1>1. ASSUME TypeOK, NonOverlapping, NEW m \in Chunks, DoInsert(m)
      PROVE  Stable
  <2>1. mappings \in Seq(ChunkMapping) /\ m \in ChunkMapping /\ Disjoint(mappings)
    BY <1>1, ChunksAssumption DEF TypeOK, NonOverlapping
  <2>2. PICK pos \in 1 .. (Len(mappings) + 1) :
         /\ PartitionLess(mappings, m.logical, pos)
         /\ mappings' = IF InsertVerdict(mappings, m, pos) = "ok"
                        THEN InsertAt(mappings, pos, m) ELSE mappings
    BY <1>1 DEF DoInsert
  <2>3. CASE InsertVerdict(mappings, m, pos) = "ok"
    BY <2>1, <2>2, <2>3, InsertKeepsCovering
  <2>4. CASE InsertVerdict(mappings, m, pos) # "ok"
    BY <2>2, <2>4
  <2> QED
    BY <2>3, <2>4
<1>2. ASSUME mappings' = mappings PROVE Stable
  BY <1>2
<1>3. TypeOK /\ NonOverlapping /\ [Next]_vars => [Stable]_vars
  <2> SUFFICES ASSUME TypeOK, NonOverlapping, Next PROVE Stable
    BY DEF vars
  <2>1. ASSUME NEW m \in Chunks, InsertIfAbsent(m) PROVE Stable
    <3>1. CASE ContainsChunk(mappings, m.logical)
      BY <1>2, <2>1, <3>1 DEF InsertIfAbsent
    <3>2. CASE ~ContainsChunk(mappings, m.logical)
      BY <1>1, <2>1, <3>2 DEF InsertIfAbsent
    <3> QED
      BY <3>1, <3>2
  <2> HIDE DEF Stable
  <2> QED
    BY <1>1, <1>2, <2>1 DEF Next, Insert, SetLocalDevid, Resolve
<1> QED
  BY <1>3, TypeCorrect, TableNeverOverlaps, PTL DEF Spec, AddressesAreStable

-----------------------------------------------------------------------------
(* What a successful resolution is: the predecessor mapping covers the     *)
(* address, the stripe is the one pick_stripe chose, and the answer is     *)
(* their sum.                                                              *)
LEMMA OkResolution ==
  ASSUME NEW s \in Seq(ChunkMapping), NEW d, NEW l \in U64, NEW r,
         IsResolution(s, d, l, r), r.verdict = "ok"
  PROVE  \E pos \in 2 .. (Len(s) + 1) : \E j \in 1 .. Len(s[pos - 1].stripes) :
           /\ PartitionLessEq(s, l, pos)
           /\ s[pos - 1] \in ChunkMapping
           /\ s[pos - 1].stripes[j] \in Stripe
           /\ Covers(s[pos - 1], l)
           /\ PickVerdict(s[pos - 1], d) = "ok"
           /\ IsPicked(s[pos - 1], d, j)
           /\ s[pos - 1].stripes[j].offset + (l - s[pos - 1].logical) <= MaxU64
           /\ r = Resolved(l, s[pos - 1], s[pos - 1].stripes[j])
<1>0. Len(s) \in Nat
  BY LenProperties
<1>1. \E pos \in 1 .. (Len(s) + 1) :
           /\ PartitionLessEq(s, l, pos)
           /\ pos > 1
           /\ Covers(s[pos - 1], l)
           /\ PickVerdict(s[pos - 1], d) = "ok"
           /\ \E k \in 1 .. Len(s[pos - 1].stripes) :
                /\ IsPicked(s[pos - 1], d, k)
                /\ s[pos - 1].stripes[k].offset + (l - s[pos - 1].logical) <= MaxU64
                /\ r = Resolved(l, s[pos - 1], s[pos - 1].stripes[k])
  <2>1. \A why : r = Unresolved(l, why) => why = "ok"
    BY DEF Unresolved
  <2> QED
    BY <2>1, ResolutionCases
<1>2. PICK pos \in 1 .. (Len(s) + 1) :
           /\ PartitionLessEq(s, l, pos)
           /\ pos > 1
           /\ Covers(s[pos - 1], l)
           /\ PickVerdict(s[pos - 1], d) = "ok"
           /\ \E k \in 1 .. Len(s[pos - 1].stripes) :
                /\ IsPicked(s[pos - 1], d, k)
                /\ s[pos - 1].stripes[k].offset + (l - s[pos - 1].logical) <= MaxU64
                /\ r = Resolved(l, s[pos - 1], s[pos - 1].stripes[k])
  BY <1>1
<1>3. PICK j \in 1 .. Len(s[pos - 1].stripes) :
                /\ IsPicked(s[pos - 1], d, j)
                /\ s[pos - 1].stripes[j].offset + (l - s[pos - 1].logical) <= MaxU64
                /\ r = Resolved(l, s[pos - 1], s[pos - 1].stripes[j])
  BY <1>2
<1>4. pos \in 2 .. (Len(s) + 1) /\ pos - 1 \in 1 .. Len(s)
  BY <1>0, <1>2
<1>5. s[pos - 1] \in ChunkMapping
  BY <1>4, ElementOfSeq
<1>6. s[pos - 1].stripes[j] \in Stripe
  <2>1. s[pos - 1].stripes \in Seq(Stripe)
    BY <1>5 DEF ChunkMapping
  <2> QED
    BY <2>1, <1>3, ElementOfSeq
<1> QED
  BY <1>2, <1>3, <1>4, <1>5, <1>6

(* A resolution with a device recorded answers with that device, or the    *)
(* one chunk that covers the address has no stripe on it.                  *)
LEMMA LocalDeviceStep ==
  ASSUME TypeOK, NonOverlapping, NEW l \in U64, Resolve(l)
  PROVE  ReadsLocalDevice'
<1> SUFFICES ASSUME local_devid # NoDevid
             PROVE  /\ answer'.verdict = "ok" => answer'.devid = local_devid
                    /\ answer'.verdict = "prof_other_device" =>
                         \A i \in 1 .. Len(mappings) : Covers(mappings[i], answer'.logical) =>
                           \A k \in 1 .. Len(mappings[i].stripes) :
                             mappings[i].stripes[k].devid # local_devid
  BY DEF ReadsLocalDevice, Resolve
<1> DEFINE s == mappings
           d == local_devid
<1>0. /\ s \in Seq(ChunkMapping) /\ Disjoint(s) /\ l \in Nat
      /\ IsResolution(s, d, l, answer')
  BY MaxU64Assumption DEF TypeOK, NonOverlapping, U64, Resolve
<1>1. ASSUME answer'.verdict = "ok" PROVE answer'.devid = d
  <2>1. PICK pos \in 2 .. (Len(s) + 1) : \E j \in 1 .. Len(s[pos - 1].stripes) :
           /\ IsPicked(s[pos - 1], d, j)
           /\ answer' = Resolved(l, s[pos - 1], s[pos - 1].stripes[j])
    BY <1>0, <1>1, OkResolution
  <2> QED
    BY <2>1 DEF IsPicked, Resolved, ResolvedAt
<1>2. ASSUME answer'.verdict = "prof_other_device",
             NEW i \in 1 .. Len(s), Covers(s[i], answer'.logical),
             NEW k \in 1 .. Len(s[i].stripes)
      PROVE  s[i].stripes[k].devid # d
  <2>1. PICK pos \in 1 .. (Len(s) + 1) :
           /\ PartitionLessEq(s, l, pos)
           /\ answer' = Unresolved(l, PickVerdict(s[pos - 1], d))
    <3>1. \A why : answer' = Unresolved(l, why) => why = "prof_other_device"
      BY <1>2 DEF Unresolved
    <3>2. \A m, st : answer' # Resolved(l, m, st)
      BY <1>2 DEF Resolved, ResolvedAt
    <3> QED
      BY <1>0, <3>1, <3>2, ResolutionCases
  <2>2. answer'.logical = l /\ PickVerdict(s[pos - 1], d) = "prof_other_device"
    BY <1>2, <2>1 DEF Unresolved
  <2>3. i = pos - 1
    BY <1>0, <1>2, <2>1, <2>2, OnlyPredecessorCovers
  <2>4. \A j \in 1 .. Len(s[pos - 1].stripes) : s[pos - 1].stripes[j].devid # d
    BY <2>2 DEF PickVerdict
  <2> QED
    BY <2>3, <2>4, <1>2
<1> QED
  BY <1>1, <1>2

(* On a filesystem of several devices no read ever leaves the one it was   *)
(* mounted from, whatever chunks the disk offered and in whatever order.   *)
THEOREM DeviceIsAlwaysLocal == Spec => []ReadsLocalDevice
<1>1. Init => ReadsLocalDevice
  BY DEF Init, ReadsLocalDevice
<1>2. TypeOK /\ NonOverlapping /\ ReadsLocalDevice /\ [Next]_vars => ReadsLocalDevice'
  <2> SUFFICES ASSUME TypeOK, NonOverlapping, ReadsLocalDevice, [Next]_vars
               PROVE  ReadsLocalDevice'
    OBVIOUS
  <2>1. ASSUME NEW l \in U64, Resolve(l) PROVE ReadsLocalDevice'
    BY <2>1, LocalDeviceStep
  <2>2. CASE answer'.op \in {"set_local_devid", "insert"}
    BY <2>2 DEF ReadsLocalDevice
  <2>3. CASE UNCHANGED vars
    BY <2>3 DEF vars, ReadsLocalDevice
  <2> QED
    BY <2>1, <2>2, <2>3, OtherSteps
<1> QED
  BY <1>1, <1>2, TypeCorrect, TableNeverOverlaps, PTL DEF Spec

-----------------------------------------------------------------------------
(* The numbers of a successful resolution: a run of at least one byte that *)
(* ends at or before the end of the address space.                         *)
LEMMA OkResolutionBounds ==
  ASSUME NEW s \in Seq(ChunkMapping), Disjoint(s), NEW d, NEW l \in U64, NEW r,
         IsResolution(s, d, l, r), r.verdict = "ok"
  PROVE  /\ r.op = "resolve" /\ r.logical = l
         /\ r.physical \in U64
         /\ r.contiguous_bytes \in 1 .. MaxU64
         /\ l + r.contiguous_bytes <= MaxU64
<1>1. PICK pos \in 2 .. (Len(s) + 1) : \E j \in 1 .. Len(s[pos - 1].stripes) :
           /\ s[pos - 1] \in ChunkMapping
           /\ s[pos - 1].stripes[j] \in Stripe
           /\ Covers(s[pos - 1], l)
           /\ s[pos - 1].stripes[j].offset + (l - s[pos - 1].logical) <= MaxU64
           /\ r = Resolved(l, s[pos - 1], s[pos - 1].stripes[j])
  BY OkResolution
<1> DEFINE m == s[pos - 1]
<1>2. PICK j \in 1 .. Len(m.stripes) :
           /\ m \in ChunkMapping
           /\ m.stripes[j] \in Stripe
           /\ Covers(m, l)
           /\ m.stripes[j].offset + (l - m.logical) <= MaxU64
           /\ r = Resolved(l, m, m.stripes[j])
  BY <1>1
<1>3. /\ m.logical \in Nat /\ m.length \in Nat /\ m.stripes[j].offset \in Nat
      /\ l \in Nat /\ MaxU64 \in Nat
  <2>1. m \in ChunkMapping /\ m.stripes[j] \in Stripe
    BY <1>2
  <2>2. m.logical \in Nat /\ m.length \in Nat
    BY <2>1, MaxU64Assumption, SMTT(30) DEF ChunkMapping, U64
  <2>3. m.stripes[j].offset \in Nat
    BY <2>1, MaxU64Assumption DEF Stripe, U64
  <2> QED
    BY <2>2, <2>3, MaxU64Assumption DEF U64
<1>4. m.logical + m.length <= MaxU64
  <2>1. Len(s) \in Nat
    BY LenProperties
  <2>2. pos - 1 \in 1 .. Len(s)
    BY <2>1
  <2> QED
    BY <2>2 DEF Disjoint, End
<1>5. /\ r.op = "resolve" /\ r.logical = l
      /\ r.physical = m.stripes[j].offset + (l - m.logical)
      /\ r.contiguous_bytes = m.length - (l - m.logical)
  BY <1>2 DEF Resolved, ResolvedAt
<1>6. m.logical <= l /\ l < m.logical + m.length
  BY <1>2 DEF Covers, End
<1>7. \A o, lg, ln, x \in Nat :
         (lg <= l /\ l < lg + ln /\ lg + ln <= x /\ o + (l - lg) <= x) =>
            /\ o + (l - lg) \in 0 .. x
            /\ ln - (l - lg) \in 1 .. x
            /\ l + (ln - (l - lg)) <= x
  BY <1>3
<1>8. /\ m.stripes[j].offset + (l - m.logical) \in 0 .. MaxU64
      /\ m.length - (l - m.logical) \in 1 .. MaxU64
      /\ l + (m.length - (l - m.logical)) <= MaxU64
  BY <1>2, <1>3, <1>4, <1>6, <1>7, Zenon
<1> QED
  BY <1>5, <1>8, Zenon DEF U64

(* Every address of a run resolves to the matching offset of the same      *)
(* stripe: the run stays inside one mapping, and so does its partition     *)
(* point.                                                                  *)
LEMMA RunContinues ==
  ASSUME NEW s \in Seq(ChunkMapping), Disjoint(s), NEW d, NEW l \in U64, NEW r,
         IsResolution(s, d, l, r), r.verdict = "ok",
         NEW k \in 0 .. (r.contiguous_bytes - 1), r.physical + k <= MaxU64
  PROVE  IsResolution(s, d, l + k,
           ResolvedAt(l + k, r.devid, r.physical + k, r.contiguous_bytes - k))
<1>1. PICK pos \in 2 .. (Len(s) + 1) : \E j \in 1 .. Len(s[pos - 1].stripes) :
           /\ PartitionLessEq(s, l, pos)
           /\ s[pos - 1] \in ChunkMapping
           /\ s[pos - 1].stripes[j] \in Stripe
           /\ Covers(s[pos - 1], l)
           /\ PickVerdict(s[pos - 1], d) = "ok"
           /\ IsPicked(s[pos - 1], d, j)
           /\ r = Resolved(l, s[pos - 1], s[pos - 1].stripes[j])
  BY OkResolution
<1> DEFINE m == s[pos - 1]
<1>2. PICK j \in 1 .. Len(m.stripes) :
           /\ PartitionLessEq(s, l, pos)
           /\ m \in ChunkMapping
           /\ m.stripes[j] \in Stripe
           /\ Covers(m, l)
           /\ PickVerdict(m, d) = "ok"
           /\ IsPicked(m, d, j)
           /\ r = Resolved(l, m, m.stripes[j])
  BY <1>1
<1>3. /\ m.logical \in Nat /\ m.length \in Nat /\ m.stripes[j].offset \in Nat
      /\ l \in Nat /\ MaxU64 \in Nat
  <2>1. m \in ChunkMapping /\ m.stripes[j] \in Stripe
    BY <1>2
  <2>2. m.logical \in Nat /\ m.length \in Nat
    BY <2>1, MaxU64Assumption, SMTT(30) DEF ChunkMapping, U64
  <2>3. m.stripes[j].offset \in Nat
    BY <2>1, MaxU64Assumption DEF Stripe, U64
  <2> QED
    BY <2>2, <2>3, MaxU64Assumption DEF U64
<1>4. Len(s) \in Nat /\ pos - 1 \in 1 .. Len(s) /\ pos \in 1 .. (Len(s) + 1) /\ pos # 1
  BY LenProperties
<1>5. /\ r.devid = m.stripes[j].devid
      /\ r.physical = m.stripes[j].offset + (l - m.logical)
      /\ r.contiguous_bytes = m.length - (l - m.logical)
  BY <1>2 DEF Resolved, ResolvedAt
<1>6. m.logical <= l /\ l < m.logical + m.length
  BY <1>2 DEF Covers, End
<1>7. m.logical + m.length <= MaxU64
  BY <1>4 DEF Disjoint, End
<1> DEFINE lg == m.logical
           ln == m.length
           o == m.stripes[j].offset
<1> HIDE DEF m, lg, ln, o
<1>8. /\ lg \in Nat /\ ln \in Nat /\ o \in Nat
      /\ lg <= l /\ l < lg + ln /\ lg + ln <= MaxU64
      /\ r.physical = o + (l - lg) /\ r.contiguous_bytes = ln - (l - lg)
  BY <1>3, <1>5, <1>6, <1>7, Zenon DEF lg, ln, o
<1>9. k \in Nat /\ k <= (ln - (l - lg)) - 1 /\ (o + (l - lg)) + k <= MaxU64
  BY <1>3, <1>8
<1>10. /\ l + k \in Nat /\ l <= l + k /\ l + k < lg + ln /\ lg + ln \in Nat
       /\ o + ((l + k) - lg) = (o + (l - lg)) + k
       /\ ln - ((l + k) - lg) = (ln - (l - lg)) - k
       /\ ~(lg + ln > MaxU64) /\ ~(l + k >= lg + ln)
       /\ ~(o + ((l + k) - lg) > MaxU64)
  BY <1>3, <1>8, <1>9
<1>11. PartitionLessEq(s, l + k, pos)
  <2>1. \A i \in 1 .. Len(s) : s[i].logical \in Nat /\ s[i].length \in Nat
    BY ElementsAreNat
  <2>2. ASSUME NEW i \in 1 .. (pos - 1) PROVE s[i].logical <= l + k
    <3>1. s[i].logical <= l /\ i \in 1 .. Len(s)
      BY <1>2, <1>4 DEF PartitionLessEq
    <3>2. \A a, b, c \in Nat : a <= b /\ b <= c => a <= c
      OBVIOUS
    <3> QED
      BY <3>1, <3>2, <2>1, <1>3, <1>10
  <2>3. ASSUME NEW i \in pos .. Len(s) PROVE s[i].logical > l + k
    <3>1. i \in 1 .. Len(s) /\ pos - 1 < i
      BY <1>4
    <3>2. lg + ln <= s[i].logical
      BY <3>1, <1>4 DEF Disjoint, End, m, lg, ln
    <3>3. \A a, b, c \in Nat : b <= c /\ a < b => c > a
      OBVIOUS
    <3> QED
      BY <3>1, <3>2, <3>3, <2>1, <1>10
  <2> QED
    BY <2>2, <2>3 DEF PartitionLessEq
<1> DEFINE q == ResolvedAt(l + k, r.devid, r.physical + k, r.contiguous_bytes - k)
<1>12. q = Resolved(l + k, m, m.stripes[j])
  BY <1>5, <1>8, <1>10, Zenon DEF Resolved, lg, ln, o
<1>13. /\ ~(End(m) > MaxU64)
       /\ ~(l + k >= End(m))
       /\ ~(m.stripes[j].offset + ((l + k) - m.logical) > MaxU64)
  BY <1>10, Zenon DEF End, lg, ln, o
<1> HIDE DEF q
<1>14. IsResolution(s, d, l + k, q)
  BY <1>2, <1>4, <1>11, <1>12, <1>13, Zenon DEF IsResolution, m
<1> QED
  BY <1>14 DEF q

(* Each run resolve hands out is one run of the device, byte for byte, so  *)
(* its callers may read it in a single read_at.                            *)
THEOREM RunsAreAlwaysLinear == Spec => []RunIsLinear
<1>1. Init => RunIsLinear
  BY DEF Init, RunIsLinear
<1>2. ASSUME TypeOK, NonOverlapping, NEW l \in U64, Resolve(l)
      PROVE  RunIsLinear'
  <2> DEFINE s == mappings
             d == local_devid
             r == answer'
  <2>0. /\ s \in Seq(ChunkMapping) /\ Disjoint(s) /\ IsResolution(s, d, l, r)
        /\ mappings' = s /\ local_devid' = d
    BY <1>2 DEF TypeOK, NonOverlapping, Resolve
  <2>1. ASSUME r.verdict = "ok", NEW k \in 0 .. (r.contiguous_bytes - 1),
               r.physical + k <= MaxU64
        PROVE  IsResolution(s, d, r.logical + k,
                 ResolvedAt(r.logical + k, r.devid, r.physical + k, r.contiguous_bytes - k))
    <3>1. r.logical = l
      BY <1>2, <2>0, <2>1, OkResolutionBounds
    <3> QED
      BY <1>2, <2>0, <2>1, <3>1, RunContinues
  <2> QED
    BY <2>0, <2>1 DEF RunIsLinear
<1>3. TypeOK /\ NonOverlapping /\ RunIsLinear /\ [Next]_vars => RunIsLinear'
  <2> SUFFICES ASSUME TypeOK, NonOverlapping, RunIsLinear, [Next]_vars
               PROVE  RunIsLinear'
    OBVIOUS
  <2>2. CASE answer'.op \in {"set_local_devid", "insert"}
    BY <2>2 DEF RunIsLinear
  <2>3. CASE UNCHANGED vars
    BY <2>3 DEF vars, RunIsLinear
  <2> QED
    BY <1>2, <2>2, <2>3, OtherSteps
<1> QED
  BY <1>1, <1>3, TypeCorrect, TableNeverOverlaps, PTL DEF Spec

-----------------------------------------------------------------------------
(* What the callers of insert and resolve need of a table that grows.      *)

Elements(s) == {s[i] : i \in DOMAIN s}

(* After an accepted insert the table holds what it held, and the mapping. *)
LEMMA InsertedElements ==
  ASSUME NEW S, NEW s \in Seq(S), NEW x \in S, NEW pos \in 1 .. (Len(s) + 1)
  PROVE  Elements(InsertAt(s, pos, x)) = Elements(s) \cup {x}
<1> DEFINE t == InsertAt(s, pos, x)
<1>0. Len(s) \in Nat /\ DOMAIN s = 1 .. Len(s)
  BY LenProperties
<1>1. /\ Len(t) = Len(s) + 1
      /\ \A i \in 1 .. (Len(s) + 1) :
           t[i] = IF i < pos THEN s[i] ELSE IF i = pos THEN x ELSE s[i - 1]
  BY InsertAtElements, SMTT(30)
<1>6. t \in Seq(S)
  BY InsertAtElements
<1> HIDE DEF t
<1>2. DOMAIN t = 1 .. (Len(s) + 1)
  BY <1>1, <1>6, LenProperties
<1>3. ASSUME NEW i \in 1 .. (Len(s) + 1)
      PROVE  t[i] \in {s[k] : k \in 1 .. Len(s)} \cup {x}
  <2>1. CASE i < pos
    BY <2>1, <1>0, <1>1
  <2>2. CASE i = pos
    BY <2>2, <1>1
  <2>3. CASE i > pos
    <3>1. t[i] = s[i - 1] /\ i - 1 \in 1 .. Len(s)
      BY <2>3, <1>0, <1>1
    <3> QED
      BY <3>1
  <2> QED
    BY <2>1, <2>2, <2>3, <1>0
<1>4. ASSUME NEW k \in 1 .. Len(s)
      PROVE  \E i \in 1 .. (Len(s) + 1) : t[i] = s[k]
  <2>1. CASE k < pos
    <3>1. k \in 1 .. (Len(s) + 1) /\ t[k] = s[k]
      BY <2>1, <1>0, <1>1
    <3> QED
      BY <3>1
  <2>2. CASE k >= pos
    <3>1. k + 1 \in 1 .. (Len(s) + 1) /\ (k + 1) - 1 = k /\ ~(k + 1 < pos) /\ k + 1 # pos
      BY <2>2, <1>0
    <3>2. t[k + 1] = s[k]
      BY <3>1, <1>1
    <3> QED
      BY <3>1, <3>2
  <2> QED
    BY <2>1, <2>2, <1>0
<1>5. pos \in 1 .. (Len(s) + 1) /\ t[pos] = x
  BY <1>0, <1>1
<1> QED
  BY <1>0, <1>2, <1>3, <1>4, <1>5 DEF t, Elements

(* A mapping inside the address space that overlaps none of the table's is *)
(* accepted.                                                               *)
LEMMA ApartIsAccepted ==
  ASSUME NEW s \in Seq(ChunkMapping), Disjoint(s), NEW m \in ChunkMapping,
         NEW pos \in 1 .. (Len(s) + 1), PartitionLess(s, m.logical, pos),
         End(m) <= MaxU64,
         \A i \in 1 .. Len(s) : /\ s[i].length > 0
                                /\ End(s[i]) <= m.logical \/ End(m) <= s[i].logical
  PROVE  InsertVerdict(s, m, pos) = "ok"
<1>0. Len(s) \in Nat /\ MaxU64 \in Nat
  BY LenProperties, MaxU64Assumption
<1>1. \A i \in 1 .. Len(s) : s[i].logical \in Nat /\ s[i].length \in Nat
  BY ElementsAreNat
<1>2. m.logical \in Nat /\ m.length \in Nat
  BY MaxU64Assumption DEF ChunkMapping, U64
<1>3. ASSUME pos > 1
      PROVE  End(s[pos - 1]) <= MaxU64 /\ End(s[pos - 1]) <= m.logical
  <2>1. pos - 1 \in 1 .. Len(s) /\ pos - 1 \in 1 .. (pos - 1)
    BY <1>0, <1>3
  <2>2. /\ End(s[pos - 1]) <= MaxU64 /\ s[pos - 1].logical < m.logical
        /\ End(s[pos - 1]) <= m.logical \/ End(m) <= s[pos - 1].logical
    BY <2>1 DEF Disjoint, PartitionLess
  <2> QED
    BY <2>1, <2>2, <1>1, <1>2 DEF End
<1>4. ASSUME pos <= Len(s)
      PROVE  End(m) <= s[pos].logical
  <2>1. pos \in 1 .. Len(s) /\ pos \in pos .. Len(s)
    BY <1>0, <1>4
  <2>2. /\ s[pos].logical >= m.logical /\ s[pos].length > 0
        /\ End(s[pos]) <= m.logical \/ End(m) <= s[pos].logical
    BY <2>1 DEF PartitionLess
  <2> QED
    BY <2>1, <2>2, <1>1, <1>2 DEF End
<1>5. /\ End(m) \in Nat
      /\ pos > 1 => End(s[pos - 1]) \in Nat
      /\ pos <= Len(s) => s[pos].logical \in Nat
  <2>1. pos > 1 => pos - 1 \in 1 .. Len(s)
    BY <1>0
  <2>2. pos <= Len(s) => pos \in 1 .. Len(s)
    BY <1>0
  <2> QED
    BY <2>1, <2>2, <1>1, <1>2, SMTT(30) DEF End
<1> QED
  BY <1>0, <1>2, <1>3, <1>4, <1>5 DEF InsertVerdict

(* The mapping that covers an address is the one resolve finds.            *)
LEMMA CoverResolves ==
  ASSUME NEW s \in Seq(ChunkMapping), Disjoint(s), NEW d, NEW l \in U64,
         NEW i \in 1 .. Len(s), Covers(s[i], l), PickVerdict(s[i], d) = "ok",
         NEW j \in 1 .. Len(s[i].stripes), IsPicked(s[i], d, j),
         s[i].stripes[j].offset + (l - s[i].logical) <= MaxU64
  PROVE  IsResolution(s, d, l, Resolved(l, s[i], s[i].stripes[j]))
<1>0. Len(s) \in Nat /\ MaxU64 \in Nat /\ l \in Nat
  BY LenProperties, MaxU64Assumption DEF U64
<1>1. \A k \in 1 .. Len(s) : s[k].logical \in Nat /\ s[k].length \in Nat
  BY ElementsAreNat
<1>2. s[i].logical <= l /\ l < End(s[i]) /\ End(s[i]) <= MaxU64 /\ End(s[i]) \in Nat
  BY <1>1 DEF Covers, Disjoint, End
<1>3. i + 1 \in 1 .. (Len(s) + 1) /\ i + 1 # 1 /\ (i + 1) - 1 = i
  BY <1>0
<1>4. PartitionLessEq(s, l, i + 1)
  <2>1. ASSUME NEW k \in 1 .. ((i + 1) - 1) PROVE s[k].logical <= l
    <3>1. k \in 1 .. Len(s) /\ (k = i \/ k < i)
      BY <1>0
    <3>2. CASE k = i
      BY <3>2, <1>2
    <3>3. CASE k < i
      <4>1. End(s[k]) <= s[i].logical
        BY <3>1, <3>3 DEF Disjoint
      <4> QED
        BY <4>1, <3>1, <1>0, <1>1, <1>2, SMTT(30) DEF End
    <3> QED
      BY <3>1, <3>2, <3>3
  <2>2. ASSUME NEW k \in (i + 1) .. Len(s) PROVE s[k].logical > l
    <3>1. k \in 1 .. Len(s) /\ i < k
      BY <1>0
    <3>2. End(s[i]) <= s[k].logical
      BY <3>1 DEF Disjoint
    <3> QED
      BY <3>1, <3>2, <1>0, <1>1, <1>2
  <2> QED
    BY <2>1, <2>2 DEF PartitionLessEq
<1>5. /\ ~(End(s[i]) > MaxU64) /\ ~(l >= End(s[i]))
  BY <1>0, <1>2
<1>6. s[i].stripes[j].offset \in Nat
  <2>1. s[i] \in ChunkMapping
    BY ElementOfSeq
  <2>2. s[i].stripes \in Seq(Stripe)
    BY <2>1 DEF ChunkMapping
  <2>3. s[i].stripes[j] \in Stripe
    BY <2>2, ElementOfSeq
  <2> QED
    BY <2>3, MaxU64Assumption DEF Stripe, U64
<1>7. ~(s[i].stripes[j].offset + (l - s[i].logical) > MaxU64)
  <2>1. s[i].logical \in Nat
    BY <1>1
  <2> QED
    BY <2>1, <1>0, <1>6
<1> DEFINE r == Resolved(l, s[i], s[i].stripes[j])
<1> HIDE DEF r
<1>8. \E pos \in 1 .. (Len(s) + 1) :
        /\ pos = i + 1 /\ pos # 1 /\ s[pos - 1] = s[i]
        /\ PartitionLessEq(s, l, pos)
  BY <1>3, <1>4
<1> QED
  BY <1>5, <1>7, <1>8, Zenon DEF IsResolution, r

(* What resolved before an insert resolves to the same place after it.     *)
LEMMA InsertKeepsResolution ==
  ASSUME NEW s \in Seq(ChunkMapping), Disjoint(s),
         NEW m \in ChunkMapping, NEW pos \in 1 .. (Len(s) + 1),
         PartitionLess(s, m.logical, pos), InsertVerdict(s, m, pos) = "ok",
         NEW d, NEW l \in U64, NEW r, IsResolution(s, d, l, r), r.verdict = "ok"
  PROVE  IsResolution(InsertAt(s, pos, m), d, l, r)
<1> DEFINE t == InsertAt(s, pos, m)
<1>0. Len(s) \in Nat
  BY LenProperties
<1>1. /\ t \in Seq(ChunkMapping)
      /\ Elements(t) = Elements(s) \cup {m}
  <2>1. t \in Seq(ChunkMapping)
    BY InsertAtElements
  <2>2. Elements(t) = Elements(s) \cup {m}
    BY InsertedElements
  <2> QED
    BY <2>1, <2>2
<1>2. Disjoint(t)
  BY InsertKeepsDisjoint
<1> HIDE DEF t
<1>3. PICK q \in 2 .. (Len(s) + 1) : \E j \in 1 .. Len(s[q - 1].stripes) :
           /\ Covers(s[q - 1], l)
           /\ PickVerdict(s[q - 1], d) = "ok"
           /\ IsPicked(s[q - 1], d, j)
           /\ s[q - 1].stripes[j].offset + (l - s[q - 1].logical) <= MaxU64
           /\ r = Resolved(l, s[q - 1], s[q - 1].stripes[j])
  BY OkResolution
<1> DEFINE c == s[q - 1]
<1>4. PICK j \in 1 .. Len(c.stripes) :
           /\ Covers(c, l) /\ PickVerdict(c, d) = "ok" /\ IsPicked(c, d, j)
           /\ c.stripes[j].offset + (l - c.logical) <= MaxU64
           /\ r = Resolved(l, c, c.stripes[j])
  BY <1>3
<1>5. q - 1 \in DOMAIN s
  <2>1. q - 1 \in 1 .. Len(s) /\ DOMAIN s = 1 .. Len(s)
    BY <1>0, LenProperties
  <2> QED
    BY <2>1
<1>6. PICK i \in 1 .. Len(t) : t[i] = c
  <2>1. DOMAIN t = 1 .. Len(t)
    BY <1>1, LenProperties
  <2> QED
    BY <2>1, <1>1, <1>5 DEF Elements
<1>7. /\ Covers(t[i], l) /\ PickVerdict(t[i], d) = "ok"
      /\ j \in 1 .. Len(t[i].stripes) /\ IsPicked(t[i], d, j)
      /\ t[i].stripes[j].offset + (l - t[i].logical) <= MaxU64
      /\ r = Resolved(l, t[i], t[i].stripes[j])
  BY <1>4, <1>6
<1> HIDE DEF c
<1>8. IsResolution(t, d, l, Resolved(l, t[i], t[i].stripes[j]))
  BY <1>1, <1>2, <1>7, CoverResolves
<1> QED
  BY <1>7, <1>8 DEF t
=============================================================================
