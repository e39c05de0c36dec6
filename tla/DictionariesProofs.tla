--------------------------- MODULE DictionariesProofs ---------------------------
(***************************************************************************)
(* The dictionaries of a program, proved for programs of any size: the     *)
(* state stays typed, the arena numbers the dictionaries, the two stores   *)
(* of a dictionary agree whatever is accessed in between, a hint that      *)
(* throws leaves the contents of the dictionaries alone, and a first       *)
(* squash goes through the accesses in order.                              *)
(***************************************************************************)
EXTENDS Dictionaries, HintsProofs, FiniteSetTheorems

-----------------------------------------------------------------------------
(* Sorted sequences *)

\* p puts the n numbers f[1] to f[n] in descending order.
Sorts(n, f, p) ==
    /\ \A i \in 1..n : p[i] \in 1..n
    /\ \A i, j \in 1..n : p[i] = p[j] => i = j
    /\ \A i, j \in 1..n : i < j => f[p[i]] >= f[p[j]]

Unsortable ==
    {n \in Nat : \E f : (\A i \in 1..n : f[i] \in Int) /\ \A p : ~Sorts(n, f, p)}

\* The last number goes before the first of those it is greater than.
LEMMA InsertionSorts ==
    ASSUME NEW n \in Nat, NEW f, \A i \in 1..(n + 1) : f[i] \in Int, NEW q, Sorts(n, f, q)
    PROVE \E p : Sorts(n + 1, f, p)
<1> DEFINE Places == {i \in 1..(n + 1) : i = n + 1 \/ f[q[i]] < f[n + 1]}
<1>1. /\ \A i \in 1..n : q[i] \in 1..n
      /\ \A i, j \in 1..n : q[i] = q[j] => i = j
      /\ \A i, j \in 1..n : i < j => f[q[i]] >= f[q[j]]
    BY DEF Sorts
<1>2. Places \subseteq Nat /\ n + 1 \in Places
    OBVIOUS
<1>3. PICK at \in Places : \A y \in Places : at <= y
    <2> HIDE DEF Places
    <2> QED
        BY <1>2, LeastNat
<1>4. /\ at \in 1..(n + 1)
      /\ at = n + 1 \/ f[q[at]] < f[n + 1]
      /\ \A y \in 1..n : f[q[y]] < f[n + 1] => at <= y
    BY <1>3
<1> HIDE DEF Places
<1> DEFINE p == [i \in 1..(n + 1) |->
                    IF i < at THEN q[i] ELSE IF i = at THEN n + 1 ELSE q[i - 1]]
<1>5. /\ \A i \in 1..n : f[q[i]] \in Int
      /\ f[n + 1] \in Int
    BY <1>1
<1>6. \A i \in 1..(n + 1) : /\ i < at => i \in 1..n /\ p[i] = q[i]
                            /\ i = at => p[i] = n + 1
                            /\ i > at => i - 1 \in 1..n /\ p[i] = q[i - 1]
    BY <1>4
<1> HIDE DEF p
<1>7. \A i \in 1..(n + 1) : p[i] \in 1..(n + 1)
    BY <1>1, <1>4, <1>6
<1>8. ASSUME NEW i \in 1..(n + 1), NEW j \in 1..(n + 1), p[i] = p[j]
      PROVE i = j
    BY <1>1, <1>4, <1>6, <1>8
<1>9. \A i \in 1..n : i < at => f[q[i]] >= f[n + 1]
    BY <1>4, <1>5
<1>10. \A i \in 1..n : i >= at => f[q[i]] <= f[n + 1]
    BY <1>1, <1>4, <1>5
<1>11. ASSUME NEW i \in 1..(n + 1), NEW j \in 1..(n + 1), i < j
       PROVE f[p[i]] >= f[p[j]]
    <2>1. CASE j < at
        BY <2>1, <1>1, <1>4, <1>6, <1>11
    <2>2. CASE j = at
        BY <2>2, <1>4, <1>6, <1>9, <1>11
    <2>3. CASE j > at /\ i < at
        <3>1. p[i] = q[i] /\ p[j] = q[j - 1] /\ i \in 1..n /\ j - 1 \in 1..n
               /\ (i < j - 1 \/ i = j - 1)
            BY <2>3, <1>4, <1>6, <1>11
        <3> QED
            BY <2>3, <3>1, <1>1, <1>4, <1>5, <1>6, <1>11
    <2>4. CASE j > at /\ i = at
        BY <2>4, <1>4, <1>5, <1>6, <1>10, <1>11
    <2>5. CASE j > at /\ i > at
        BY <2>5, <1>1, <1>4, <1>6, <1>11
    <2> QED
        BY <2>1, <2>2, <2>3, <2>4, <2>5, <1>4, <1>11
<1> QED
    BY <1>7, <1>8, <1>11 DEF Sorts

LEMMA SortingExists ==
    ASSUME NEW n \in Nat, NEW f, \A i \in 1..n : f[i] \in Int
    PROVE \E p : Sorts(n, f, p)
<1>1. SUFFICES ASSUME Unsortable # {}
               PROVE FALSE
    BY DEF Unsortable
<1>2. PICK k \in Unsortable : \A y \in Unsortable : k <= y
    BY <1>1, LeastNat DEF Unsortable
<1>3. PICK g : (\A i \in 1..k : g[i] \in Int) /\ \A p : ~Sorts(k, g, p)
    BY <1>2 DEF Unsortable
<1>4. k \in Nat
    BY <1>2 DEF Unsortable
<1>5. CASE k = 0
    <2>1. Sorts(k, g, [x \in {} |-> x])
        BY <1>5 DEF Sorts
    <2> QED
        BY <1>3, <2>1
<1>6. CASE k # 0
    <2>1. k - 1 \in Nat /\ k - 1 \notin Unsortable /\ (k - 1) + 1 = k
        BY <1>2, <1>4, <1>6
    <2>2. PICK q : Sorts(k - 1, g, q)
        BY <1>3, <1>4, <2>1 DEF Unsortable
    <2> QED
        BY <1>3, <2>1, <2>2, InsertionSorts
<1> QED
    BY <1>4, <1>5, <1>6

\* Sorting a list gives a list of the same numbers.
LEMMA DescendingType ==
    ASSUME NEW S, S \subseteq Int, NEW s \in Seq(S)
    PROVE Descending(s) \in Seq(S) /\ Len(Descending(s)) = Len(s)
<1> DEFINE n == Len(s)
           places == 1..n
<1>1. n \in Nat /\ s \in [places -> S] /\ DOMAIN s = places
    BY LenProperties
<1>2. \A i \in places : s[i] \in Int
    BY <1>1
<1>3. PICK p : Sorts(n, s, p)
    BY <1>1, <1>2, SortingExists
<1> DEFINE r == [i \in places |-> p[i]]
<1>4. /\ r \in Injection(places, places)
      /\ \A i, j \in places : i < j => s[r[i]] >= s[r[j]]
    BY <1>3 DEF Sorts, Injection, IsInjective
<1>5. IsFiniteSet(places)
    BY <1>1, FS_Interval
<1>6. r \in Surjection(places, places)
    <2> HIDE DEF r, places
    <2> QED
        BY <1>4, <1>5, FS_Injection
<1>7. r \in Lists!Bijection(places, places)
    BY <1>4, <1>6
    DEF Injection, IsInjective, Surjection,
        Lists!Bijection, Lists!Injection, Lists!Surjection, Lists!IsInjective
<1> DEFINE Orders(o) == \A i, j \in places : i < j => s[o[i]] >= s[o[j]]
           order == CHOOSE o \in Lists!Bijection(places, places) : Orders(o)
<1>8. order \in Lists!Bijection(places, places)
    <2>1. Orders(r)
        BY <1>4
    <2> HIDE DEF Orders, places, r
    <2> QED
        BY <1>7, <2>1
<1>9. Descending(s) = [i \in places |-> s[order[i]]]
    BY <1>1 DEF Descending
<1> HIDE DEF order
<1>10. order \in [places -> places]
    BY <1>8 DEF Lists!Bijection, Lists!Injection
<1>11. Descending(s) \in [1..n -> S]
    BY <1>1, <1>9, <1>10
<1> QED
    BY <1>1, <1>11

\* The numbers of a finite set have a list that ascends.
LEMMA AscendingType ==
    ASSUME NEW S, S \subseteq Int, IsFiniteSet(S)
    PROVE Ascending(S) \in Seq(S)
<1> DEFINE n == Cardinality(S)
<1>1. n \in Nat /\ ExistsBijection(1..n, S)
    BY FS_CardinalityType
<1>2. PICK b \in Bijection(1..n, S) : TRUE
    BY <1>1 DEF ExistsBijection
<1>3. b \in [1..n -> S] /\ \A i, j \in 1..n : b[i] = b[j] => i = j
    BY <1>2 DEF Bijection, Injection, IsInjective
<1> DEFINE f == [i \in 1..n |-> -b[i]]
<1>4. \A i \in 1..n : f[i] \in Int
    <2>1. \A i \in 1..n : b[i] \in Int
        BY <1>3
    <2> QED
        BY <2>1
<1>5. PICK p : Sorts(n, f, p)
    <2> HIDE DEF f
    <2> QED
        BY <1>1, <1>4, SortingExists
<1> DEFINE list == [i \in 1..n |-> b[p[i]]]
<1>6. /\ \A i \in 1..n : p[i] \in 1..n
      /\ \A i, j \in 1..n : p[i] = p[j] => i = j
    BY <1>5 DEF Sorts
<1>7. \A i \in 1..n : list[i] \in S /\ list[i] \in Int
    BY <1>3, <1>6
<1>8. ASSUME NEW i \in 1..n, NEW j \in 1..n, i < j
      PROVE list[i] < list[j]
    <2>1. f[p[i]] >= f[p[j]]
        BY <1>5, <1>8 DEF Sorts
    <2>2. f[p[i]] = -b[p[i]] /\ f[p[j]] = -b[p[j]]
        BY <1>6
    <2>3. b[p[i]] # b[p[j]]
        BY <1>3, <1>6, <1>8
    <2> QED
        BY <1>7, <2>1, <2>2, <2>3
<1>9. list \in [1..n -> S] /\ \A i, j \in DOMAIN list : i < j => list[i] < list[j]
    BY <1>7, <1>8
<1> HIDE DEF list
<1>10. Ascending(S) \in [1..n -> S]
    BY <1>9 DEF Ascending
<1> QED
    BY <1>1, <1>10

\* A sequence of the members of a finite set
LEMMA SetToSeqType ==
    ASSUME NEW S, IsFiniteSet(S)
    PROVE Lists!SetToSeq(S) \in Seq(S) /\ Len(Lists!SetToSeq(S)) = Cardinality(S)
<1>1. Lists!Cardinality(S) = Cardinality(S)
    BY DEF Lists!Cardinality, Cardinality
<1>2. Cardinality(S) \in Nat /\ \E f \in [1..Cardinality(S) -> S] : Lists!IsInjective(f)
    BY FS_CardinalityType
    DEF ExistsBijection, Bijection, Injection, IsInjective, Lists!IsInjective
<1>3. Lists!SetToSeq(S) \in [1..Cardinality(S) -> S]
    BY <1>1, <1>2 DEF Lists!SetToSeq
<1> QED
    BY <1>2, <1>3

-----------------------------------------------------------------------------
(* A memory that deduces nothing *)

\* k is m with v in cell o of segment s.
Writes(m, k, s, o, v) ==
    /\ k \in Memories(SegmentValue)
    /\ Len(k) = Len(m)
    /\ \A i \in 1..Len(m) : k[i].builtin = m[i].builtin
    /\ \A t \in 0..(Len(m) - 1), p \in Int :
          CellAt(k, Relocatable(t, p)) =
              IF t = s /\ p = o THEN v ELSE CellAt(m, Relocatable(t, p))

LEMMA AnyValueIsClosed == Closed(SegmentValue) /\ undefined \notin SegmentValue
BY Tags DEF Closed, SegmentValue

\* What a cell may hold
LEMMA CellAtType ==
    ASSUME NEW m \in Memories(SegmentValue), NEW t \in 0..(Len(m) - 1), NEW p
    PROVE CellAt(m, Relocatable(t, p)) \in SegmentValue \cup {undefined}
<1>1. t + 1 \in 1..Len(m)
    BY MemoryTypes
<1>2. m[t + 1].cells \in CellMaps(SegmentValue)
    BY <1>1, MemoryTypes
<1> QED
    BY <1>2, AtType DEF CellAt, Relocatable

LEMMA SetCellsWrites ==
    ASSUME NEW m \in Memories(SegmentValue), NEW s \in 0..(Len(m) - 1), NEW o \in Int,
           NEW v \in SegmentValue
    PROVE Writes(m, SetCells(m, s + 1, Put(m[s + 1].cells, o, v)), s, o, v)
<1> DEFINE c == m[s + 1].cells
           k == SetCells(m, s + 1, Put(c, o, v))
<1>1. s + 1 \in 1..Len(m) /\ Len(m) \in Nat
    BY MemoryTypes
<1>2. c \in CellMaps(SegmentValue)
    BY <1>1, MemoryTypes
<1>3. Put(c, o, v) \in CellMaps(SegmentValue)
    <2> HIDE DEF c
    <2> QED
        BY <1>2, PutType
<1>4. /\ k \in Memories(SegmentValue) /\ Len(k) = Len(m)
      /\ k[s + 1].cells = Put(c, o, v) /\ k[s + 1].builtin = m[s + 1].builtin
      /\ \A j \in 1..Len(m) : j # s + 1 => k[j] = m[j]
    <2> HIDE DEF c
    <2> QED
        BY <1>1, <1>3, SetCellsType
<1> HIDE DEF k
<1>5. ASSUME NEW t \in 0..(Len(m) - 1), NEW p \in Int
      PROVE CellAt(k, Relocatable(t, p)) =
                IF t = s /\ p = o THEN v ELSE CellAt(m, Relocatable(t, p))
    <2>1. t + 1 \in 1..Len(m)
        BY <1>1
    <2>2. CASE t = s
        <3>1. CellAt(k, Relocatable(t, p)) = At(Put(c, o, v), p)
            BY <1>4, <2>2 DEF CellAt, Relocatable
        <3>2. CellAt(m, Relocatable(t, p)) = At(c, p)
            BY <2>2 DEF CellAt, Relocatable
        <3> HIDE DEF c
        <3>3. At(Put(c, o, v), p) = IF p = o THEN v ELSE At(c, p)
            BY DEF At, Put
        <3> QED
            BY <2>2, <3>1, <3>2, <3>3
    <2>3. CASE t # s
        <3>1. k[t + 1] = m[t + 1]
            BY <1>1, <1>4, <2>1, <2>3
        <3> QED
            BY <2>3, <3>1 DEF CellAt, Relocatable
    <2> QED
        BY <2>2, <2>3
<1>6. \A i \in 1..Len(m) : k[i].builtin = m[i].builtin
    BY <1>4
<1> QED
    BY <1>4, <1>5, <1>6 DEF Writes, k

LEMMA WithCellWrites ==
    ASSUME NEW m \in Memories(SegmentValue), NEW s \in 0..(Len(m) - 1), NEW o \in Int,
           NEW v \in SegmentValue
    PROVE Writes(m, WithCell(m, s, o, v), s, o, v)
<1>1. s + 1 \in 1..Len(m) /\ DOMAIN m = 1..Len(m) /\ m[s + 1] \in Segments(SegmentValue)
    BY MemoryTypes
<1>2. [m[s + 1] EXCEPT !.cells = Put(@, o, v)]
          = [builtin |-> m[s + 1].builtin, cells |-> Put(m[s + 1].cells, o, v)]
    BY <1>1 DEF Segments
<1>3. WithCell(m, s, o, v) = SetCells(m, s + 1, Put(m[s + 1].cells, o, v))
    BY <1>1, <1>2 DEF WithCell, SetCells
<1> QED
    BY <1>3, SetCellsWrites

\* Memory.get is the cell.
LEMMA GetIsTheCell ==
    ASSUME NEW m \in Memories(SegmentValue), NEW a \in Relocatables, InSegment(m, a)
    PROVE get(m, a) = Result(m, CellAt(m, a))
<1> DEFINE i == a.segmentId + 1
<1>1. i \in 1..Len(m)
    BY SegmentIndex
<1>2. /\ DOMAIN m = 1..Len(m) /\ m[i] \in Segments(SegmentValue)
      /\ m[i].builtin \in Builtins /\ Len(m) \in Nat
    <2> HIDE DEF i
    <2> QED
        BY <1>1, MemoryTypes
<1>3. m[i].builtin \notin DeductionBuiltins
    BY <1>2, NoDeductionAssumption
<1>4. GetTrap(m[i].builtin, m[i].cells, a.offset)
          = [cells |-> m[i].cells, value |-> At(m[i].cells, a.offset)]
    BY <1>3 DEF GetTrap
<1>5. SetCells(m, i, m[i].cells) = m
    <2>1. [builtin |-> m[i].builtin, cells |-> m[i].cells] = m[i]
        BY <1>2 DEF Segments
    <2>2. m = [j \in 1..Len(m) |-> m[j]]
        BY <1>2 DEF Memories
    <2> HIDE DEF i
    <2>3. SetCells(m, i, m[i].cells) = [m EXCEPT ![i] = m[i]]
        BY <2>1 DEF SetCells
    <2> QED
        BY <1>1, <1>2, <2>2, <2>3
<1> QED
    BY <1>4, <1>5 DEF get, Trapped, Result, CellAt

\* An assertion that throws writes nothing, and one that returns has made the cell
\* hold its value; where a segment refuses no value it throws only over another one.
LEMMA AssertEqWrites ==
    ASSUME NEW m \in Memories(SegmentValue), NEW a \in Relocatables, NEW v \in SegmentValue
    PROVE LET write == assertEq(m, a, v)
          IN /\ write.value \in {undefined} \cup Errors
             /\ write.value # undefined => write.segments = m
             /\ write.value = undefined =>
                   /\ InSegment(m, a) /\ CellAt(m, a) \in {undefined, v}
                   /\ Writes(m, write.segments, a.segmentId, a.offset, v)
             /\ /\ InSegment(m, a) /\ CellAt(m, a) \in {undefined, v}
                /\ m[a.segmentId + 1].builtin \in {"none", "segment_arena"}
                => write.value = undefined
<1> DEFINE i == a.segmentId + 1
           write == assertEq(m, a, v)
           c == m[i].cells
<1>1. CASE ~InSegment(m, a)
    <2>1. write = Result(m, Error("SegmentOutOfBounds"))
        BY <1>1, ErrorType, Tags DEF assertEq, Compared, get, Result, ErrorNames
    <2> QED
        BY <1>1, <2>1, ErrorType, Tags DEF Result, ErrorNames
<1>2. CASE InSegment(m, a)
    <2>1. get(m, a) = Result(m, CellAt(m, a))
        BY <1>2, GetIsTheCell
    <2>2. i \in 1..Len(m) /\ a.segmentId \in 0..(Len(m) - 1) /\ a.offset \in Int
        BY <1>2, SegmentIndex, MemoryTypes DEF Relocatables
    <2>3. ~isError(CellAt(m, a))
        <3>1. a = Relocatable(a.segmentId, a.offset)
            BY DEF Relocatables, Relocatable
        <3>2. CellAt(m, a) \in SegmentValue \cup {undefined}
            BY <2>2, <3>1, CellAtType
        <3> QED
            BY <3>2, Tags DEF SegmentValue
    <2>4. CASE CellAt(m, a) \notin {undefined, v}
        <3>1. write = Result(m, Error("InconsistentMemory"))
            BY <2>1, <2>3, <2>4 DEF assertEq, Compared, Result
        <3> QED
            BY <2>4, <3>1, ErrorType, Tags DEF Result, ErrorNames
    <2>5. CASE CellAt(m, a) \in {undefined, v}
        <3> DEFINE refused == Rejection(m[i].builtin, v)
        <3>1. write = Result(SetCells(m, i, IF isError(refused) THEN c ELSE Put(c, a.offset, v)),
                             refused)
            BY <2>1, <2>3, <2>5 DEF assertEq, Compared, put, Trapped, SetTrap, Result
        <3>2. refused \in {undefined} \cup Errors
            BY ErrorType DEF Rejection, ErrorNames
        <3>3. m[i].builtin \in {"none", "segment_arena"} => refused = undefined
            BY DEF Rejection
        <3>4. CASE refused = undefined
            <4>1. write.segments = SetCells(m, i, Put(c, a.offset, v))
                BY <3>1, <3>4, Tags DEF Result
            <4>2. Writes(m, write.segments, a.segmentId, a.offset, v)
                BY <2>2, <4>1, SetCellsWrites
            <4> QED
                BY <1>2, <2>5, <3>1, <3>4, <4>2 DEF Result
        <3>5. CASE refused # undefined
            <4>1. isError(refused)
                BY <3>2, <3>5, Tags
            <4>2. SetCells(m, i, c) = m
                <5>1. get(m, a).segments = SetCells(m, i, c)
                    <6>1. m[i].builtin \notin DeductionBuiltins
                        <7> HIDE DEF i
                        <7> QED
                            BY <2>2, MemoryTypes, NoDeductionAssumption
                    <6> QED
                        BY <1>2, <6>1 DEF get, Trapped, Result, GetTrap
                <5> QED
                    BY <2>1, <5>1 DEF Result
            <4>3. write.segments = m
                BY <3>1, <4>1, <4>2 DEF Result
            <4> QED
                BY <3>1, <3>2, <3>3, <3>5, <4>3 DEF Result
        <3> QED
            BY <3>4, <3>5
    <2> QED
        BY <2>4, <2>5
<1> QED
    BY <1>1, <1>2

\* k is m but for the segments of T.
Elsewhere(m, k, T) ==
    /\ k \in Memories(SegmentValue)
    /\ Len(k) = Len(m)
    /\ \A i \in 1..Len(m) : k[i].builtin = m[i].builtin
    /\ \A t \in (0..(Len(m) - 1)) \ T, p \in Int :
          CellAt(k, Relocatable(t, p)) = CellAt(m, Relocatable(t, p))

LEMMA ElsewhereTransitive ==
    ASSUME NEW m, NEW k, NEW l, NEW T, Elsewhere(m, k, T), Elsewhere(k, l, T)
    PROVE Elsewhere(m, l, T)
BY DEF Elsewhere

LEMMA ElsewhereWidens ==
    ASSUME NEW m, NEW k, NEW S, NEW T, S \subseteq T, Elsewhere(m, k, S)
    PROVE Elsewhere(m, k, T)
BY DEF Elsewhere

LEMMA WritesElsewhere ==
    ASSUME NEW m, NEW k, NEW s, NEW o, NEW v, NEW T, s \in T, Writes(m, k, s, o, v)
    PROVE Elsewhere(m, k, T)
BY DEF Elsewhere, Writes

\* An assertion about a segment of T, whether it throws or not
LEMMA AssertEqElsewhere ==
    ASSUME NEW m \in Memories(SegmentValue), NEW a \in Relocatables, NEW v \in SegmentValue,
           NEW T, a.segmentId \in T
    PROVE /\ Elsewhere(m, assertEq(m, a, v).segments, T)
          /\ assertEq(m, a, v).value \in {undefined} \cup Errors
<1> DEFINE write == assertEq(m, a, v)
<1>1. /\ write.value \in {undefined} \cup Errors
      /\ write.value # undefined => write.segments = m
      /\ write.value = undefined => Writes(m, write.segments, a.segmentId, a.offset, v)
    BY AssertEqWrites
<1> HIDE DEF write
<1>2. Elsewhere(m, m, T)
    BY DEF Elsewhere
<1>3. write.value = undefined => Elsewhere(m, write.segments, T)
    BY <1>1, WritesElsewhere
<1> QED
    BY <1>1, <1>2, <1>3 DEF write

\* A segment added, and empty
LEMMA AddSegmentCells ==
    ASSUME NEW m \in Memories(SegmentValue)
    PROVE LET k == addSegment(m, "none")
          IN /\ k \in Memories(SegmentValue)
             /\ Len(k) = Len(m) + 1
             /\ \A i \in 1..Len(m) : k[i].builtin = m[i].builtin
             /\ k[Len(m) + 1].builtin = "none"
             /\ \A t \in 0..Len(m), p \in Int :
                   CellAt(k, Relocatable(t, p)) =
                       IF t = Len(m) THEN undefined ELSE CellAt(m, Relocatable(t, p))
<1> DEFINE k == addSegment(m, "none")
<1>1. /\ k \in Memories(SegmentValue)
      /\ Len(k) = Len(m) + 1
      /\ \A i \in 1..Len(m) : k[i] = m[i]
      /\ k[Len(m) + 1].cells = NoCells
    BY addSegmentType, SegmentAssumption
<1>2. Len(m) \in Nat
    BY MemoryTypes
<1>3. k[Len(m) + 1].builtin = "none"
    BY <1>2 DEF addSegment, Segment, Memories
<1> HIDE DEF k
<1>4. ASSUME NEW t \in 0..Len(m), NEW p \in Int
      PROVE CellAt(k, Relocatable(t, p)) =
                IF t = Len(m) THEN undefined ELSE CellAt(m, Relocatable(t, p))
    <2>1. CASE t = Len(m)
        BY <1>1, <2>1 DEF CellAt, Relocatable, At, NoCells
    <2>2. CASE t # Len(m)
        <3>1. k[t + 1] = m[t + 1]
            BY <1>1, <1>2, <2>2
        <3> QED
            BY <2>2, <3>1 DEF CellAt, Relocatable
    <2> QED
        BY <2>1, <2>2
<1> QED
    BY <1>1, <1>3, <1>4 DEF k

-----------------------------------------------------------------------------
(* The operands of the hints: what the program has put at ap *)

\* No number of a program passes it.
Top == 3 * (limits.dicts + limits.accesses + limits.squashes) + 3

LEMMA SmallNumbers ==
    ASSUME limits \in Limits
    PROVE /\ limits.dicts \in Nat /\ limits.accesses \in Nat /\ limits.squashes \in Nat
          /\ limits.keys \subseteq Keys /\ Top \in Nat
          /\ \A n \in 0..Top : n < P /\ ToNumber[n] = n
BY ProgramAssumption, ExactAssumption DEF Top

LEMMA SmallFelts ==
    ASSUME limits \in Limits, NEW n \in 0..Top
    PROVE Felt(n) \in Felts /\ Felt(n).inner = n
<1>1. Top \in Nat /\ n < P
    BY SmallNumbers
<1>2. n \in Int /\ n >= 0 /\ P \in Int
    BY <1>1, FieldAssumption
<1>3. n % P = n
    BY <1>1, <1>2
<1> QED
    BY <1>2, <1>3, FeltType DEF Felt

\* Sums stay exact.
LEMMA SmallSums ==
    ASSUME limits \in Limits, NEW s, NEW o \in Nat, NEW n \in Nat, o + n <= Top
    PROVE AddFelt(Relocatable(s, o), Felt(n)) = Relocatable(s, o + n)
<1>1. Top \in Nat /\ o + n \in 0..Top /\ n \in 0..Top
    BY SmallNumbers
<1>2. Felt(n).inner = n /\ Felt(o + n).inner = o + n
    BY <1>1, SmallFelts
<1>3. (o + n) % P = o + n
    BY <1>2 DEF Felt
<1>4. ToNumber[o + n] = o + n
    BY <1>1, SmallNumbers
<1> QED
    BY <1>2, <1>3, <1>4 DEF AddFelt, Relocatable

LEMMA KeyFelts ==
    ASSUME NEW key \in Keys
    PROVE Felt(key) \in Felts /\ Felt(key).inner = key /\ key \in Int
<1>1. key \in 0..(P - 1) /\ P \in Nat
    BY ProgramAssumption, FieldAssumption
<1>2. key % P = key /\ key \in Int
    BY <1>1
<1>3. Felt(key) \in Felts
    BY <1>2, FeltType
<1>4. Felt(key).inner = key
    BY <1>2 DEF Felt
<1> QED
    BY <1>2, <1>3, <1>4

LEMMA CellReference ==
    ASSUME NEW o
    PROVE cellRefToRelocatable(Regs, Cell(o)) = Relocatable(0, ap + o)
BY DEF cellRefToRelocatable, Regs, Cell, AddOffset, Relocatable

LEMMA RelocatableType ==
    ASSUME NEW s \in Nat, NEW o \in Int
    PROVE /\ Relocatable(s, o) \in Relocatables /\ Relocatable(s, o) \in SegmentValue
          /\ Relocatable(s, o).segmentId = s /\ Relocatable(s, o).offset = o
          /\ ~isError(Relocatable(s, o)) /\ isRelocatable(Relocatable(s, o))
          /\ Relocatable(s, o) # undefined
BY DEF Relocatable, Relocatables, SegmentValue, isError, isRelocatable, undefined

\* A read of memory returns the cell.
LEMMA LoadIsTheCell ==
    ASSUME NEW m \in Memories(SegmentValue), NEW s \in 0..(Len(m) - 1), NEW o \in Int
    PROVE /\ get(m, Relocatable(s, o)) = Result(m, CellAt(m, Relocatable(s, o)))
          /\ Load(m, Relocatable(s, o)) = CellAt(m, Relocatable(s, o))
          /\ InSegment(m, Relocatable(s, o))
<1>1. s \in Nat /\ Len(m) \in Nat
    BY MemoryTypes
<1>2. Relocatable(s, o) \in Relocatables /\ ~isError(Relocatable(s, o))
    BY <1>1, RelocatableType
<1>3. InSegment(m, Relocatable(s, o))
    BY <1>1 DEF InSegment, Relocatable
<1>4. get(m, Relocatable(s, o)) = Result(m, CellAt(m, Relocatable(s, o)))
    BY <1>2, <1>3, GetIsTheCell
<1> QED
    BY <1>2, <1>3, <1>4 DEF Load, Result

\* The pointer at ap, and the same advanced
LEMMA PointerInFrame ==
    ASSUME NEW m \in Memories(SegmentValue), Len(m) > 0, ap \in Nat,
           NEW r \in Relocatables, CellAt(m, Relocatable(0, ap)) = r
    PROVE /\ PointerOf(m, Regs, DerefAp(0)) = AddFelt(r, Zero)
          /\ \A n : PointerOf(m, Regs, Plus(0, n)) = AddFelt(r, Felt(n))
<1>1. cellRefToRelocatable(Regs, Cell(0)) = Relocatable(0, ap)
    BY CellReference
<1>2. 0 \in 0..(Len(m) - 1)
    BY MemoryTypes
<1>3. get(m, Relocatable(0, ap)) = Result(m, r)
    BY <1>2, LoadIsTheCell
<1>4. isRelocatable(r) /\ ~isError(r)
    BY Tags
<1>5. getRelocatable(m, Regs, Cell(0)) = Result(m, r)
    BY <1>1, <1>3, <1>4 DEF getRelocatable, Checked, Result
<1>6. PointerOf(m, Regs, DerefAp(0)) = AddFelt(r, Zero)
    BY <1>4, <1>5 DEF PointerOf, getPointer, Advanced, DerefAp, Result
<1>7. ASSUME NEW n
      PROVE PointerOf(m, Regs, Plus(0, n)) = AddFelt(r, Felt(n))
    BY <1>4, <1>5 DEF PointerOf, getPointer, Advanced, Plus, Imm, Result
<1> QED
    BY <1>6, <1>7

\* The value after it
LEMMA ValueInFrame ==
    ASSUME NEW m \in Memories(SegmentValue), Len(m) > 0, ap \in Nat,
           NEW v \in SegmentValue, CellAt(m, Relocatable(0, ap + 1)) = v
    PROVE /\ getSegmentValue(m, Regs, Cell(1)).value = v
          /\ v \in Felts => ValueOf(m, Regs, DerefAp(1)) = v
<1>1. cellRefToRelocatable(Regs, Cell(1)) = Relocatable(0, ap + 1)
    BY CellReference
<1>2. 0 \in 0..(Len(m) - 1) /\ ap + 1 \in Int
    BY MemoryTypes
<1>3. get(m, Relocatable(0, ap + 1)) = Result(m, v)
    BY <1>2, LoadIsTheCell
<1>4. v # undefined /\ ~isError(v)
    BY Tags DEF SegmentValue
<1>5. getSegmentValue(m, Regs, Cell(1)) = Result(m, v)
    BY <1>1, <1>3, <1>4 DEF getSegmentValue, Checked, Result
<1>6. ASSUME v \in Felts
      PROVE ValueOf(m, Regs, DerefAp(1)) = v
    <2>1. isFelt(v)
        BY <1>6, Tags
    <2>2. getResOperandSegmentValue(m, Regs, DerefAp(1)) = Result(m, v)
        BY <1>5 DEF getResOperandSegmentValue, DerefAp
    <2> QED
        BY <2>1, <2>2 DEF ValueOf, getResOperandValue, Checked, Result
<1> QED
    BY <1>5, <1>6 DEF Result

LEMMA ValueOfImmediate ==
    ASSUME NEW m, NEW n
    PROVE ValueOf(m, Regs, Imm(n)) = Felt(n)
<1>1. getResOperandSegmentValue(m, Regs, Imm(n)) = Result(m, Felt(n))
    BY DEF getResOperandSegmentValue, Imm
<1>2. isFelt(Felt(n)) /\ ~isError(Felt(n))
    BY DEF isFelt, isError, Felt
<1> QED
    BY <1>1, <1>2 DEF ValueOf, getResOperandValue, Checked, Result

\* The first of two or three reads that throws, none when none does
LEMMA NoErrors ==
    ASSUME NEW reads, \A i \in DOMAIN reads : ~isError(reads[i])
    PROVE FirstError(reads) = undefined
BY DEF FirstError

LEMMA SecondError ==
    ASSUME NEW a, NEW b, ~isError(a)
    PROVE FirstError(<<a, b>>) = IF isError(b) THEN b ELSE undefined
<1> DEFINE failed == {i \in DOMAIN <<a, b>> : isError(<<a, b>>[i])}
<1>1. DOMAIN <<a, b>> = {1, 2} /\ <<a, b>>[1] = a /\ <<a, b>>[2] = b
    OBVIOUS
<1>2. CASE isError(b)
    <2>1. failed = {2}
        BY <1>1, <1>2
    <2>2. (CHOOSE i \in failed : \A j \in failed : i <= j) = 2
        BY <2>1
    <2> QED
        BY <1>1, <1>2, <2>1, <2>2 DEF FirstError
<1>3. CASE ~isError(b)
    <2>1. failed = {}
        BY <1>1, <1>3
    <2> QED
        BY <1>3, <2>1 DEF FirstError
<1> QED
    BY <1>2, <1>3

LEMMA SomeError ==
    ASSUME NEW n \in Nat, NEW reads, DOMAIN reads = 1..n,
           \A i \in 1..n : isError(reads[i]) => reads[i] \in Errors
    PROVE FirstError(reads) \in {undefined} \cup Errors
<1> DEFINE failed == {i \in DOMAIN reads : isError(reads[i])}
<1>1. CASE failed = {}
    BY <1>1 DEF FirstError
<1>2. CASE failed # {}
    <2>1. failed \subseteq Nat
        OBVIOUS
    <2>2. \E i \in failed : \A j \in failed : i <= j
        <3> HIDE DEF failed
        <3> QED
            BY <1>2, <2>1, LeastNat
    <2> DEFINE first == CHOOSE i \in failed : \A j \in failed : i <= j
    <2>3. first \in failed
        <3> HIDE DEF failed
        <3> QED
            BY <2>2
    <2>4. FirstError(reads) = reads[first]
        BY <1>2 DEF FirstError
    <2> HIDE DEF first
    <2> QED
        BY <2>3, <2>4
<1> QED
    BY <1>1, <1>2

-----------------------------------------------------------------------------
(* The inductive invariant.  Its first part holds whatever happens. *)

DictionaryMaps == UNION {[D -> SegmentValue] : D \in SUBSET Keys}

\* Every segment after the first four is the dictionary of the same number.
Managed ==
    /\ DOMAIN dictManager = 4..(Len(segments) - 1)
    /\ \A d \in DOMAIN dictManager :
          /\ dictManager[d] \in [tag : {"dictionary"}, id : Felts, entries : DictionaryMaps]
          /\ dictManager[d].id = Felt(d - 4)
          /\ segments[d + 1].builtin = "none"

IndexLists == UNION {[D -> Seq(0..limits.accesses)] : D \in SUBSET Keys}

Assertion == [address : Relocatables, value : SegmentValue]

Listed ==
    keys \in Seq(Keys) /\ keyToIndices \in IndexLists /\ IsFiniteSet(DOMAIN keyToIndices)

Typed ==
    /\ limits \in Limits
    /\ segments \in Memories(SegmentValue) /\ Len(segments) >= 4
    /\ Managed
    /\ Listed
    /\ thrown \in {undefined} \cup Errors
    /\ pending \in Seq(Assertion)

\* The three cells of the last access of a dictionary
LastKey(d) == dictPtr[d] - 3
LastPrev(d) == dictPtr[d] - 2
LastNew(d) == dictPtr[d] - 1

\* The program is about to assert the new value of an access, which its hint has set.
NewIs(d, v) == pending = <<Equals(d, LastNew(d), v)>>
NewPending(d) == \E v : NewIs(d, v)

PrevReplays(d, i, key) == KeyOf(d, i).inner = key => PrevOf(d, i) = Replayed(d, key, i)
PrevsReplay(d) == \A i \in Accesses(d) : \A key : PrevReplays(d, i, key)

EntryReplays(d, key) == Entry(dictManager[d], key) = Replayed(d, key, limits.accesses)

ReplaysIn(d) ==
    /\ PrevsReplay(d)
    /\ NewPending(d) \/ \A key \in Keys : EntryReplays(d, key)

Replays == \A d \in DOMAIN dictManager : ReplaysIn(d)

\* The second part holds while nothing has been thrown: where the program is

SquashesBegun == Cardinality(squashed) + (IF squash.at = "none" THEN 0 ELSE 1)

Squashes ==
    /\ squashed \subseteq DOMAIN dictPtr
    /\ \/ squash = NotSquashing
       \/ \E at, d : /\ squash = [at |-> at, dict |-> d]
                     /\ at # "none" /\ d \in DOMAIN dictPtr \ squashed /\ dictPtr[d] > 0
    /\ SquashesBegun <= limits.squashes

Controlled ==
    /\ ap \in Nat
    /\ DOMAIN dictPtr = DOMAIN dictManager
    /\ \A d \in DOMAIN dictPtr : \E n \in 0..limits.accesses : dictPtr[d] = 3 * n
    /\ open \subseteq DOMAIN dictPtr
    /\ \A d \in open : dictPtr[d] >= 3
    /\ Cardinality(DOMAIN dictPtr) <= limits.dicts
    /\ arenaPtr = 3 + 3 * (Cardinality(DOMAIN dictPtr) + SquashesBegun)

\* A cell holds a value, or the program is about to assert that it does.
Asserts(s, o, v) == \E k \in DOMAIN pending : pending[k] = Equals(s, o, v)
Promised(s, o, v) == CellOf(s, o) = v \/ Asserts(s, o, v)

\* The last block of the arena leads to the infos and counts the dictionaries; the
\* infos lead to the dictionaries.
ArenaHolds ==
    /\ Promised(Arena, arenaPtr - 3, Relocatable(Info, 0))
    /\ Promised(Arena, arenaPtr - 2, Felt(Cardinality(DOMAIN dictPtr)))
    /\ \A d \in DOMAIN dictManager : CellOf(Info, 3 * (d - 4)) = Relocatable(d, 0)

\* What the program may be about to assert: cells of the arena, the key of an access,
\* or its new value
PendingKinds ==
    \/ \A k \in DOMAIN pending : pending[k].address.segmentId \in {Info, Arena}
    \/ \E d \in open, key \in Keys : pending = <<Equals(d, LastKey(d), Felt(key))>>
    \/ \E d \in DOMAIN dictPtr \ open : NewPending(d)

\* A dictionary holds cells of its accesses only, but for a previous value written
\* ahead, and felts as keys.
CellsWithin(d) ==
    \A o \in Int : CellOf(d, o) # undefined =>
        /\ (0 <= o /\ o < dictPtr[d]) \/ o = dictPtr[d] + 1
        /\ o % 3 = 0 => \E key \in Keys : CellOf(d, o) = Felt(key)

\* An open access has its key, as its previous value the entry, and no new value.
OpenAccess(d, key) ==
    /\ Promised(d, LastKey(d), Felt(key))
    /\ CellOf(d, LastPrev(d)) = Entry(dictManager[d], key)
    /\ CellOf(d, LastNew(d)) = undefined

\* One whose new value is pending has its key and what the entry was.
Finalized(d, v, key) ==
    /\ d \notin open /\ dictPtr[d] >= 3
    /\ CellOf(d, LastKey(d)) = Felt(key)
    /\ CellOf(d, LastPrev(d)) = Replayed(d, key, limits.accesses)
    /\ CellOf(d, LastNew(d)) = undefined
    /\ Entry(dictManager[d], key) = v
    /\ \A other \in Keys \ {key} : EntryReplays(d, other)

HoldsIn(d) ==
    /\ CellsWithin(d)
    /\ d \in open => \E key \in Keys : OpenAccess(d, key)
    /\ \A v : NewIs(d, v) => \E key \in Keys : Finalized(d, v, key)

DictionariesHold == \A d \in DOMAIN dictManager : HoldsIn(d)

IInv ==
    /\ Typed
    /\ Replays
    /\ Running => Controlled /\ Squashes /\ ArenaHolds /\ PendingKinds /\ DictionariesHold

-----------------------------------------------------------------------------
(* Replaying the accesses of a dictionary *)

LEMMA GreatestBelow ==
    ASSUME NEW m \in Nat, NEW T, T \subseteq 0..m, T # {}
    PROVE \E t \in T : \A y \in T : y <= t
<1> DEFINE below == {m - y : y \in T}
<1>1. below \subseteq Nat /\ below # {}
    <2>1. \A y \in T : m - y \in Nat
        OBVIOUS
    <2> QED
        BY <2>1
<1>2. PICK b \in below : \A y \in below : b <= y
    <2> HIDE DEF below
    <2> QED
        BY <1>1, LeastNat
<1>3. PICK t \in T : b = m - t
    OBVIOUS
<1>4. ASSUME NEW y \in T
      PROVE y <= t
    <2>1. m - y \in below
        OBVIOUS
    <2>2. b <= m - y /\ t \in Nat /\ y \in Nat
        BY <1>2, <2>1
    <2> HIDE DEF below
    <2> QED
        BY <1>3, <2>2
<1> QED
    BY <1>4

\* The value replayed is zero, or the new value of an access to the key.
LEMMA ReplayedIsLast ==
    ASSUME limits \in Limits, NEW d, NEW key, NEW n
    PROVE LET earlier == Earlier(d, key, n)
          IN /\ Replayed(d, key, n) = IF earlier = {} THEN Zero ELSE NewOf(d, LastOf(earlier))
             /\ earlier # {} => /\ LastOf(earlier) \in earlier
                                /\ \A j \in earlier : j <= LastOf(earlier)
<1> DEFINE earlier == Earlier(d, key, n)
<1>1. Replayed(d, key, n) = IF earlier = {} THEN Zero ELSE NewOf(d, LastOf(earlier))
    BY DEF Replayed
<1>2. ASSUME earlier # {}
      PROVE \E i \in earlier : \A j \in earlier : j <= i
    <2>1. limits.accesses \in Nat
        BY SmallNumbers
    <2>2. earlier \subseteq 0..limits.accesses
        BY <2>1 DEF Earlier, Accesses
    <2> HIDE DEF earlier
    <2> QED
        BY <1>2, <2>1, <2>2, GreatestBelow
<1> HIDE DEF earlier
<1>3. ASSUME earlier # {}
      PROVE LastOf(earlier) \in earlier /\ \A j \in earlier : j <= LastOf(earlier)
    BY <1>2, <1>3 DEF LastOf
<1> QED
    BY <1>1, <1>3 DEF earlier

\* The accesses of a dictionary stay what they are.
AccessesKept(d) ==
    /\ limits' = limits
    /\ Accesses(d)' = Accesses(d)
    /\ \A i \in Accesses(d) : /\ KeyOf(d, i)' = KeyOf(d, i)
                              /\ PrevOf(d, i)' = PrevOf(d, i)
                              /\ NewOf(d, i)' = NewOf(d, i)

LEMMA ReplayedFrom ==
    ASSUME limits \in Limits, NEW d, NEW key, NEW n,
           Earlier(d, key, n)' = Earlier(d, key, n),
           \A i \in Accesses(d) : NewOf(d, i)' = NewOf(d, i)
    PROVE Replayed(d, key, n)' = Replayed(d, key, n)
<1>1. PICK earlier : earlier = Earlier(d, key, n)
    OBVIOUS
<1>2. PICK last : last = LastOf(earlier)
    OBVIOUS
<1>3. Earlier(d, key, n)' = earlier
    BY <1>1
<1>4. earlier # {} => last \in Accesses(d)
    BY <1>1, <1>2, ReplayedIsLast DEF Earlier
<1>5. Replayed(d, key, n) = IF earlier = {} THEN Zero ELSE NewOf(d, last)
    BY <1>1, <1>2, ReplayedIsLast
<1>6. Replayed(d, key, n)' = IF earlier = {} THEN Zero ELSE NewOf(d, last)'
    BY <1>2, <1>3 DEF Replayed, NewOf, CellOf
<1>7. earlier # {} => NewOf(d, last)' = NewOf(d, last)
    BY <1>4
<1> QED
    BY <1>5, <1>6, <1>7

LEMMA ReplayKept ==
    ASSUME limits \in Limits, NEW d, AccessesKept(d)
    PROVE /\ \A key, n : Replayed(d, key, n)' = Replayed(d, key, n)
          /\ PrevsReplay(d) => PrevsReplay(d)'
<1>1. ASSUME NEW key, NEW n
      PROVE Replayed(d, key, n)' = Replayed(d, key, n)
    <2>1. Earlier(d, key, n)' = Earlier(d, key, n)
        BY DEF AccessesKept, Earlier
    <2>2. \A i \in Accesses(d) : NewOf(d, i)' = NewOf(d, i)
        BY DEF AccessesKept
    <2> QED
        BY <2>1, <2>2, ReplayedFrom
<1>2. ASSUME PrevsReplay(d)
      PROVE PrevsReplay(d)'
    BY <1>1, <1>2 DEF PrevsReplay, PrevReplays, AccessesKept
<1> QED
    BY <1>1, <1>2

\* Access number at is completed, with its new value.
AccessCompleted(d, at, key, v) ==
    /\ limits' = limits
    /\ at \in 0..(limits.accesses - 1) /\ at \notin Accesses(d)
    /\ \A i \in Accesses(d) : i < at
    /\ Accesses(d)' = Accesses(d) \cup {at}
    /\ \A i \in Accesses(d) \cup {at} : /\ KeyOf(d, i)' = KeyOf(d, i)
                                        /\ PrevOf(d, i)' = PrevOf(d, i)
    /\ \A i \in Accesses(d) : NewOf(d, i)' = NewOf(d, i)
    /\ KeyOf(d, at) = Felt(key)
    /\ NewOf(d, at)' = v

\* Its key is replayed to the new value and the other keys to what they were.
LEMMA ReplayCompleted ==
    ASSUME limits \in Limits, NEW d, NEW at, NEW key \in Keys, NEW v,
           AccessCompleted(d, at, key, v),
           PrevOf(d, at) = Replayed(d, key, limits.accesses)
    PROVE /\ Replayed(d, key, limits.accesses)' = v
          /\ \A other \in Keys \ {key} :
                Replayed(d, other, limits.accesses)' = Replayed(d, other, limits.accesses)
          /\ PrevsReplay(d) => PrevsReplay(d)'
<1>0. /\ at \in Int /\ limits.accesses \in Int /\ at < limits.accesses
      /\ \A i \in Accesses(d) : i \in Int /\ i < at
    BY SmallNumbers DEF AccessCompleted, Accesses
<1>1. ASSUME NEW k, NEW n \in Int, n <= at
      PROVE Replayed(d, k, n)' = Replayed(d, k, n)
    <2>1. Earlier(d, k, n)' = Earlier(d, k, n)
        BY <1>0, <1>1 DEF AccessCompleted, Earlier
    <2>2. \A i \in Accesses(d) : NewOf(d, i)' = NewOf(d, i)
        BY DEF AccessCompleted
    <2> QED
        BY <2>1, <2>2, ReplayedFrom
<1>2. ASSUME NEW other \in Keys \ {key}
      PROVE Replayed(d, other, limits.accesses)' = Replayed(d, other, limits.accesses)
    <2>1. Felt(other) # Felt(key)
        BY KeyFelts
    <2>2. PICK n : n = limits.accesses
        OBVIOUS
    <2>3. Earlier(d, other, n)' = Earlier(d, other, n)
        BY <2>1 DEF AccessCompleted, Earlier
    <2>4. \A i \in Accesses(d) : NewOf(d, i)' = NewOf(d, i)
        BY DEF AccessCompleted
    <2>5. Replayed(d, other, n)' = Replayed(d, other, n)
        BY <2>3, <2>4, ReplayedFrom
    <2>6. n = limits.accesses'
        BY <2>2 DEF AccessCompleted
    <2> QED
        BY <2>2, <2>5, <2>6 DEF Replayed, NewOf, CellOf
<1>3. Replayed(d, key, limits.accesses)' = v
    <2>1. PICK n : n = limits.accesses
        OBVIOUS
    <2>2. PICK earlier : earlier = Earlier(d, key, n)'
        OBVIOUS
    <2>3. earlier = Earlier(d, key, n) \cup {at}
        BY <1>0, <2>1, <2>2 DEF AccessCompleted, Earlier
    <2>4. \A i \in earlier : i \in Int /\ i <= at
        BY <1>0, <2>3 DEF Earlier
    <2>5. LastOf(earlier) = at
        BY <1>0, <2>3, <2>4 DEF LastOf
    <2>6. n = limits.accesses'
        BY <2>1 DEF AccessCompleted
    <2>7. Replayed(d, key, n)' = NewOf(d, at)'
        BY <2>2, <2>3, <2>5 DEF Replayed, NewOf, CellOf
    <2> QED
        BY <2>6, <2>7 DEF AccessCompleted, Replayed, NewOf, CellOf
<1>4. Replayed(d, key, at) = Replayed(d, key, limits.accesses)
    <2>1. Earlier(d, key, at) = Earlier(d, key, limits.accesses)
        BY <1>0 DEF Earlier
    <2> QED
        BY <2>1 DEF Replayed
<1>5. ASSUME PrevsReplay(d), NEW i \in Accesses(d) \cup {at}, NEW k
      PROVE PrevReplays(d, i, k)'
    <2>1. Replayed(d, k, i)' = Replayed(d, k, i)
        BY <1>0, <1>1
    <2>2. PrevReplays(d, i, k)
        <3>1. CASE i \in Accesses(d)
            BY <1>5, <3>1 DEF PrevsReplay
        <3>2. CASE i = at
            BY <1>4, <3>2, KeyFelts DEF AccessCompleted, PrevReplays
        <3> QED
            BY <3>1, <3>2
    <2> QED
        BY <2>1, <2>2 DEF PrevReplays, AccessCompleted
<1>6. PrevsReplay(d) => PrevsReplay(d)'
    BY <1>5 DEF PrevsReplay, AccessCompleted
<1> QED
    BY <1>2, <1>3, <1>6

-----------------------------------------------------------------------------
(* What a step leaves alone *)

\* A step that is not about a dictionary
DictKept(d) ==
    /\ limits' = limits
    /\ \A o \in Int : CellOf(d, o)' = CellOf(d, o)
    /\ dictManager'[d] = dictManager[d]
    /\ dictPtr'[d] = dictPtr[d]
    /\ d \in open' <=> d \in open
    /\ \A v : NewIs(d, v)' <=> NewIs(d, v)
    /\ \A o, v : Asserts(d, o, v) => Asserts(d, o, v)'

LEMMA AccessCells ==
    ASSUME limits \in Limits, NEW d
    PROVE \A i : i \in Accesses(d) <=>
              /\ i \in 0..(limits.accesses - 1)
              /\ CellOf(d, 3 * i) # undefined
              /\ CellOf(d, 3 * i + 1) # undefined
              /\ CellOf(d, 3 * i + 2) # undefined
BY DEF Accesses, KeyOf, PrevOf, NewOf, DICT_ACCESS_SIZE, PREV_VALUE_OFFSET

LEMMA AccessCellsNext ==
    ASSUME limits \in Limits, limits' = limits, NEW d
    PROVE \A i : i \in Accesses(d)' <=>
              /\ i \in 0..(limits.accesses - 1)
              /\ CellOf(d, 3 * i)' # undefined
              /\ CellOf(d, 3 * i + 1)' # undefined
              /\ CellOf(d, 3 * i + 2)' # undefined
BY DEF Accesses, KeyOf, PrevOf, NewOf, DICT_ACCESS_SIZE, PREV_VALUE_OFFSET

LEMMA CellsOfAccess ==
    ASSUME NEW d, NEW i
    PROVE /\ KeyOf(d, i) = CellOf(d, 3 * i) /\ KeyOf(d, i)' = CellOf(d, 3 * i)'
          /\ PrevOf(d, i) = CellOf(d, 3 * i + 1) /\ PrevOf(d, i)' = CellOf(d, 3 * i + 1)'
          /\ NewOf(d, i) = CellOf(d, 3 * i + 2) /\ NewOf(d, i)' = CellOf(d, 3 * i + 2)'
BY DEF KeyOf, PrevOf, NewOf, DICT_ACCESS_SIZE, PREV_VALUE_OFFSET

LEMMA CellsKeepAccesses ==
    ASSUME limits \in Limits, limits' = limits, NEW d,
           \A o \in Int : CellOf(d, o)' = CellOf(d, o)
    PROVE AccessesKept(d)
<1>1. \A i \in 0..(limits.accesses - 1) :
          3 * i \in Int /\ 3 * i + 1 \in Int /\ 3 * i + 2 \in Int
    BY SmallNumbers
<1>2. \A i : i \in Accesses(d)' <=> i \in Accesses(d)
    BY <1>1, AccessCells, AccessCellsNext
<1>3. \A i \in Accesses(d) : i \in 0..(limits.accesses - 1)
    BY AccessCells
<1>4. Accesses(d)' = Accesses(d)
    BY <1>2
<1> QED
    BY <1>1, <1>3, <1>4, CellsOfAccess DEF AccessesKept

\* One cell written in an access that stays incomplete
LEMMA IncompleteKept ==
    ASSUME limits \in Limits, limits' = limits, NEW d, NEW at \in Int, NEW v,
           NEW o \in (3 * at)..(3 * at + 2), NEW q \in (3 * at)..(3 * at + 2), q # o,
           CellOf(d, q) = undefined,
           \A p \in Int : CellOf(d, p)' = IF p = o THEN v ELSE CellOf(d, p)
    PROVE AccessesKept(d)
<1>1. CellOf(d, q)' = undefined
    OBVIOUS
<1>2. at \notin Accesses(d) /\ at \notin Accesses(d)'
    BY <1>1, AccessCells, AccessCellsNext
<1>3. ASSUME NEW i \in 0..(limits.accesses - 1), i # at
      PROVE /\ CellOf(d, 3 * i)' = CellOf(d, 3 * i)
            /\ CellOf(d, 3 * i + 1)' = CellOf(d, 3 * i + 1)
            /\ CellOf(d, 3 * i + 2)' = CellOf(d, 3 * i + 2)
    <2>1. i \in Int
        BY SmallNumbers
    <2>2. 3 * i # o /\ 3 * i + 1 # o /\ 3 * i + 2 # o
        BY <1>3, <2>1
    <2>3. 3 * i \in Int /\ 3 * i + 1 \in Int /\ 3 * i + 2 \in Int
        BY <2>1
    <2> QED
        BY <2>2, <2>3
<1>4. \A i : i \in Accesses(d)' <=> i \in Accesses(d)
    BY <1>2, <1>3, AccessCells, AccessCellsNext
<1>5. \A i \in Accesses(d) : i \in 0..(limits.accesses - 1) /\ i # at
    BY <1>2, AccessCells
<1>6. Accesses(d)' = Accesses(d)
    BY <1>4
<1> QED
    BY <1>3, <1>5, <1>6, CellsOfAccess DEF AccessesKept

LEMMA DictFrame ==
    ASSUME limits \in Limits, NEW d, DictKept(d)
    PROVE /\ ReplaysIn(d) => ReplaysIn(d)'
          /\ HoldsIn(d) /\ dictPtr[d] \in Int => HoldsIn(d)'
<1>1. AccessesKept(d)
    BY CellsKeepAccesses DEF DictKept
<1>2. /\ \A key, n : Replayed(d, key, n)' = Replayed(d, key, n)
      /\ PrevsReplay(d) => PrevsReplay(d)'
    BY <1>1, ReplayKept
<1>3. \A key : Replayed(d, key, limits.accesses)' = Replayed(d, key, limits.accesses)
    <2>1. PICK n : n = limits.accesses
        OBVIOUS
    <2>2. limits.accesses' = n
        BY <2>1 DEF DictKept
    <2>3. ASSUME NEW key
          PROVE Replayed(d, key, limits.accesses)' = Replayed(d, key, n)'
        BY <2>2 DEF Replayed, Earlier, NewOf, CellOf
    <2> QED
        BY <1>2, <2>1, <2>3
<1>4. \A key : EntryReplays(d, key)' <=> EntryReplays(d, key)
    BY <1>3 DEF EntryReplays, DictKept, Entry
<1>5. ReplaysIn(d) => ReplaysIn(d)'
    BY <1>2, <1>4 DEF ReplaysIn, NewPending, DictKept
<1>6. ASSUME HoldsIn(d), dictPtr[d] \in Int
      PROVE HoldsIn(d)'
    <2>1. CellsWithin(d)'
        BY <1>6 DEF HoldsIn, CellsWithin, DictKept
    <2>2. ASSUME NEW o \in Int, NEW v, Promised(d, o, v)
          PROVE Promised(d, o, v)'
        BY <2>2 DEF Promised, DictKept
    <2>3. PICK n \in Int : n = dictPtr[d] /\ n = dictPtr'[d]
        BY <1>6 DEF DictKept
    <2>4. ASSUME NEW key \in Keys, OpenAccess(d, key)
          PROVE OpenAccess(d, key)'
        <3>1. Promised(d, n - 3, Felt(key))
            BY <2>3, <2>4 DEF OpenAccess, LastKey
        <3>2. Promised(d, n - 3, Felt(key))'
            BY <2>2, <3>1
        <3>3. Promised(d, LastKey(d), Felt(key))'
            BY <2>3, <3>2 DEF Promised, CellOf, Asserts, Equals, LastKey
        <3>4. CellOf(d, LastPrev(d))' = CellOf(d, n - 2)
            BY <2>3 DEF LastPrev, CellOf, DictKept
        <3>5. CellOf(d, LastNew(d))' = CellOf(d, n - 1)
            BY <2>3 DEF LastNew, CellOf, DictKept
        <3> QED
            BY <2>3, <2>4, <3>3, <3>4, <3>5
            DEF OpenAccess, LastPrev, LastNew, Entry, DictKept
    <2>5. ASSUME NEW key \in Keys, NEW v, Finalized(d, v, key)
          PROVE Finalized(d, v, key)'
        <3>1. CellOf(d, LastKey(d))' = CellOf(d, n - 3)
            BY <2>3 DEF LastKey, CellOf, DictKept
        <3>2. CellOf(d, LastPrev(d))' = CellOf(d, n - 2)
            BY <2>3 DEF LastPrev, CellOf, DictKept
        <3>3. CellOf(d, LastNew(d))' = CellOf(d, n - 1)
            BY <2>3 DEF LastNew, CellOf, DictKept
        <3> QED
            BY <1>3, <1>4, <2>3, <2>5, <3>1, <3>2, <3>3
            DEF Finalized, LastKey, LastPrev, LastNew, Entry, DictKept
    <2> QED
        BY <1>6, <2>1, <2>4, <2>5 DEF HoldsIn, DictKept
<1> QED
    BY <1>5, <1>6

-----------------------------------------------------------------------------
(* The state between two steps *)

Before == IInv /\ Running

LEMMA StateFacts ==
    ASSUME Before
    PROVE /\ limits \in Limits /\ segments \in Memories(SegmentValue)
          /\ Len(segments) \in Nat /\ Len(segments) >= 4
          /\ ap \in Nat /\ Top \in Nat
          /\ DOMAIN dictPtr = 4..(Len(segments) - 1)
          /\ DOMAIN dictManager = 4..(Len(segments) - 1)
          /\ IsFiniteSet(DOMAIN dictPtr)
          /\ Cardinality(DOMAIN dictPtr) = Len(segments) - 4
          /\ 3 * (Len(segments) - 4) + 3 <= Top
          /\ arenaPtr \in Nat /\ arenaPtr >= 3 /\ arenaPtr <= Top
<1>1. /\ Typed /\ Controlled /\ Squashes
      /\ limits \in Limits /\ segments \in Memories(SegmentValue) /\ Len(segments) >= 4
      /\ ap \in Nat
    BY DEF Before, IInv, Typed, Controlled
<1>2. Len(segments) \in Nat
    BY <1>1, MemoryTypes
<1>3. DOMAIN dictManager = 4..(Len(segments) - 1) /\ DOMAIN dictPtr = DOMAIN dictManager
    BY <1>1 DEF Typed, Managed, Controlled
<1>4. /\ IsFiniteSet(DOMAIN dictPtr)
      /\ Cardinality(DOMAIN dictPtr) = Len(segments) - 4
    <2>1. IsFiniteSet(4..(Len(segments) - 1))
        BY <1>2, FS_Interval
    <2>2. Cardinality(4..(Len(segments) - 1)) = Len(segments) - 4
        BY <1>1, <1>2, FS_Interval
    <2> QED
        BY <1>3, <2>1, <2>2
<1>5. SquashesBegun \in Nat /\ SquashesBegun <= limits.squashes
    <2>1. IsFiniteSet(squashed)
        BY <1>1, <1>4, FS_Subset DEF Squashes
    <2>2. Cardinality(squashed) \in Nat
        BY <2>1, FS_CardinalityType
    <2> QED
        BY <1>1, <2>2 DEF Squashes, SquashesBegun
<1>6. /\ limits.dicts \in Nat /\ limits.accesses \in Nat /\ limits.squashes \in Nat
      /\ Top \in Nat
    BY <1>1, SmallNumbers
<1>7. /\ Len(segments) - 4 <= limits.dicts
      /\ arenaPtr = 3 + 3 * ((Len(segments) - 4) + SquashesBegun)
    BY <1>1, <1>4 DEF Controlled
<1>8. 3 * (Len(segments) - 4) + 3 <= Top
    BY <1>2, <1>6, <1>7 DEF Top
<1>9. arenaPtr \in Nat /\ arenaPtr >= 3 /\ arenaPtr <= Top
    <2>1. PICK n \in Nat : n = Len(segments) - 4 /\ n <= limits.dicts
        <3>1. Len(segments) - 4 \in Nat
            BY <1>1, <1>2
        <3> QED
            BY <1>7, <3>1
    <2>2. PICK k \in Nat : k = SquashesBegun /\ k <= limits.squashes
        BY <1>5
    <2>3. arenaPtr = 3 + 3 * (n + k)
        BY <1>7, <2>1, <2>2
    <2>4. n + k <= limits.dicts + limits.accesses + limits.squashes
        BY <1>6, <2>1, <2>2
    <2>5. Top = 3 * (limits.dicts + limits.accesses + limits.squashes) + 3
        BY DEF Top
    <2>6. PICK m \in Nat : m = limits.dicts + limits.accesses + limits.squashes
        BY <1>6
    <2>7. arenaPtr \in Nat /\ arenaPtr >= 3 /\ arenaPtr <= 3 * m + 3
        BY <2>3, <2>4, <2>6
    <2> QED
        BY <2>5, <2>6, <2>7
<1>10. DOMAIN dictPtr = 4..(Len(segments) - 1) /\ DOMAIN dictManager = 4..(Len(segments) - 1)
    BY <1>3
<1>11. /\ limits \in Limits /\ segments \in Memories(SegmentValue)
       /\ Len(segments) \in Nat /\ Len(segments) >= 4
       /\ ap \in Nat /\ Top \in Nat
    BY <1>1, <1>2, <1>6
<1> QED
    BY <1>4, <1>8, <1>9, <1>10, <1>11

LEMMA DictionaryFacts ==
    ASSUME Before, NEW d \in DOMAIN dictManager
    PROVE /\ d \in DOMAIN dictPtr /\ d \in Nat /\ d >= 4 /\ d \in 0..(Len(segments) - 1)
          /\ dictPtr[d] \in Nat /\ dictPtr[d] <= 3 * limits.accesses /\ dictPtr[d] + 3 <= Top
          /\ AccessCount(d) \in Nat /\ AccessCount(d) <= limits.accesses
          /\ dictPtr[d] = 3 * AccessCount(d)
          /\ dictManager[d] \in [tag : {"dictionary"}, id : Felts, entries : DictionaryMaps]
          /\ dictManager[d].id = Felt(d - 4) /\ segments[d + 1].builtin = "none"
          /\ ~isError(dictManager[d])
          /\ \A key \in Keys : Entry(dictManager[d], key) \in SegmentValue
<1>1. /\ d \in DOMAIN dictPtr /\ d \in Nat /\ d >= 4 /\ d \in 0..(Len(segments) - 1)
      /\ limits \in Limits
    BY StateFacts
<1>2. PICK n \in 0..limits.accesses : dictPtr[d] = 3 * n
    BY <1>1 DEF Before, IInv, Controlled
<1>3. limits.accesses \in Nat /\ limits.dicts \in Nat /\ limits.squashes \in Nat
    BY <1>1, SmallNumbers
<1>4. /\ dictPtr[d] \in Nat /\ dictPtr[d] <= 3 * limits.accesses /\ dictPtr[d] + 3 <= Top
      /\ AccessCount(d) = n
    BY <1>2, <1>3 DEF Top, AccessCount, DICT_ACCESS_SIZE
<1>5. /\ dictManager[d] \in [tag : {"dictionary"}, id : Felts, entries : DictionaryMaps]
      /\ dictManager[d].id = Felt(d - 4) /\ segments[d + 1].builtin = "none"
    BY DEF Before, IInv, Typed, Managed
<1>6. ~isError(dictManager[d])
    BY <1>5 DEF isError
<1>7. Zero \in SegmentValue
    BY FeltType DEF Zero, SegmentValue
<1>8. ASSUME NEW key \in Keys
      PROVE Entry(dictManager[d], key) \in SegmentValue
    BY <1>5, <1>7 DEF Entry, DictionaryMaps
<1> QED
    BY <1>1, <1>2, <1>3, <1>4, <1>5, <1>6, <1>8

\* The memory with a frame at ap
LEMMA OneFrame ==
    ASSUME Before, NEW r \in SegmentValue
    PROVE /\ Framed(r) \in Memories(SegmentValue) /\ Len(Framed(r)) = Len(segments)
          /\ Writes(segments, Framed(r), 0, ap, r)
          /\ Elsewhere(segments, Framed(r), {0})
          /\ CellAt(Framed(r), Relocatable(0, ap)) = r
<1>1. /\ 0 \in 0..(Len(segments) - 1) /\ ap \in Int /\ segments \in Memories(SegmentValue)
    BY StateFacts
<1>2. Writes(segments, Framed(r), 0, ap, r)
    BY <1>1, WithCellWrites DEF Framed
<1>3. Elsewhere(segments, Framed(r), {0})
    BY <1>2, WritesElsewhere
<1> QED
    BY <1>1, <1>2, <1>3 DEF Writes

LEMMA TwoFrame ==
    ASSUME Before, NEW r \in SegmentValue, NEW v \in SegmentValue
    PROVE LET m == FramedWith(r, v)
          IN /\ m \in Memories(SegmentValue) /\ Len(m) = Len(segments)
             /\ Elsewhere(segments, m, {0})
             /\ CellAt(m, Relocatable(0, ap)) = r
             /\ CellAt(m, Relocatable(0, ap + 1)) = v
<1> DEFINE m == FramedWith(r, v)
<1>1. /\ 0 \in 0..(Len(segments) - 1) /\ ap \in Int /\ ap + 1 \in Int /\ ap # ap + 1
    BY StateFacts
<1>2. /\ Framed(r) \in Memories(SegmentValue) /\ Len(Framed(r)) = Len(segments)
      /\ Elsewhere(segments, Framed(r), {0})
      /\ CellAt(Framed(r), Relocatable(0, ap)) = r
    BY OneFrame
<1>3. Writes(Framed(r), m, 0, ap + 1, v)
    BY <1>1, <1>2, WithCellWrites DEF FramedWith
<1>4. Elsewhere(segments, m, {0})
    BY <1>2, <1>3, WritesElsewhere, ElsewhereTransitive
<1> HIDE DEF m
<1> QED
    BY <1>1, <1>2, <1>3, <1>4 DEF Writes, m

LEMMA CellsElsewhere ==
    ASSUME Before, NEW T, Elsewhere(segments, segments', T), NEW d \in 0..(Len(segments) - 1),
           d \notin T
    PROVE \A o \in Int : CellOf(d, o)' = CellOf(d, o)
BY DEF Elsewhere, CellOf

\* A step that changes no dictionary, in memory or behind it
LEMMA QuietStep ==
    ASSUME Before, NEW T, T \subseteq 0..3, Elsewhere(segments, segments', T),
           UNCHANGED <<limits, dictManager, dictPtr, open>>,
           Listed', thrown' \in {undefined} \cup Errors, pending' \in Seq(Assertion),
           \A d \in DOMAIN dictManager : /\ \A v : NewIs(d, v)' <=> NewIs(d, v)
                                         /\ \A o, v : Asserts(d, o, v) => Asserts(d, o, v)'
    PROVE Typed' /\ Replays' /\ DictionariesHold'
<1>1. /\ segments' \in Memories(SegmentValue) /\ Len(segments') = Len(segments)
      /\ \A i \in 1..Len(segments) : segments'[i].builtin = segments[i].builtin
    BY DEF Elsewhere
<1>0. /\ Len(segments) \in Nat /\ DOMAIN dictManager = 4..(Len(segments) - 1)
      /\ Typed /\ Managed
    <2>1. Typed /\ Managed
        BY DEF Before, IInv, Typed
    <2> QED
        BY <2>1, StateFacts
<1>2. Managed'
    BY <1>0, <1>1 DEF Managed
<1>3. Typed'
    BY <1>0, <1>1, <1>2 DEF Typed
<1>4. ASSUME NEW d \in DOMAIN dictManager
      PROVE ReplaysIn(d)' /\ HoldsIn(d)'
    <2>1. /\ limits \in Limits /\ dictPtr[d] \in Int
          /\ d >= 4 /\ d \in Nat /\ d \in 0..(Len(segments) - 1)
        BY StateFacts, DictionaryFacts
    <2>2. \A o \in Int : CellOf(d, o)' = CellOf(d, o)
        BY <2>1, CellsElsewhere
    <2>3. DictKept(d)
        BY <2>2 DEF DictKept
    <2>4. ReplaysIn(d) /\ HoldsIn(d)
        BY DEF Before, IInv, Replays, DictionariesHold
    <2> QED
        BY <2>1, <2>3, <2>4, DictFrame
<1> QED
    BY <1>3, <1>4 DEF Replays, DictionariesHold

\* A step after which the arena and the infos hold what they held
LEMMA ArenaFrame ==
    ASSUME Before, arenaPtr' = arenaPtr,
           DOMAIN dictManager' = DOMAIN dictManager, DOMAIN dictPtr' = DOMAIN dictPtr,
           \A s \in {Info, Arena}, o \in Int :
               CellOf(s, o) # undefined => CellOf(s, o)' = CellOf(s, o),
           \A o \in Int : \A v : Asserts(Arena, o, v) =>
               Asserts(Arena, o, v)' \/ CellOf(Arena, o)' = v
    PROVE ArenaHolds'
<1>1. /\ ArenaHolds /\ arenaPtr \in Nat
      /\ \A d \in DOMAIN dictManager : d \in Int
    BY StateFacts, DictionaryFacts DEF Before, IInv
<1>2. ASSUME NEW o \in Int, NEW v, v # undefined, Promised(Arena, o, v)
      PROVE Promised(Arena, o, v)'
    BY <1>2 DEF Promised
<1>3. Relocatable(Info, 0) # undefined /\ \A n : Felt(n) # undefined
    BY DEF Relocatable, Felt, undefined
<1>4. PICK at \in Int : at = arenaPtr /\ at = arenaPtr'
    BY <1>1
<1>5. PICK n : n = Cardinality(DOMAIN dictPtr) /\ n = Cardinality(DOMAIN dictPtr')
    OBVIOUS
<1>6. Promised(Arena, at - 3, Relocatable(Info, 0)) /\ Promised(Arena, at - 2, Felt(n))
    BY <1>1, <1>4, <1>5 DEF ArenaHolds
<1>7. Promised(Arena, at - 3, Relocatable(Info, 0))' /\ Promised(Arena, at - 2, Felt(n))'
    BY <1>2, <1>3, <1>6
<1>8. ASSUME NEW d \in DOMAIN dictManager
      PROVE CellOf(Info, 3 * (d - 4))' = Relocatable(d, 0)
    <2>1. CellOf(Info, 3 * (d - 4)) = Relocatable(d, 0) /\ 3 * (d - 4) \in Int
        BY <1>1 DEF ArenaHolds
    <2>2. Relocatable(d, 0) # undefined
        BY DEF Relocatable, undefined
    <2> QED
        BY <2>1, <2>2
<1> QED
    BY <1>4, <1>5, <1>7, <1>8 DEF ArenaHolds, Promised, CellOf, Asserts

-----------------------------------------------------------------------------
(* Lists of keys and of indices *)

LEMMA FrontType ==
    ASSUME NEW S, NEW s \in Seq(S), s # <<>>
    PROVE Lists!Front(s) \in Seq(S)
<1>1. Len(s) \in Nat /\ s \in [1..Len(s) -> S]
    BY LenProperties
<1>2. \A i \in 1..(Len(s) - 1) : s[i] \in S
    BY <1>1
<1>3. SubSeq(s, 1, Len(s) - 1) \in Seq(S)
    BY <1>1, <1>2, SubSeqProperties
<1> QED
    BY <1>3 DEF Lists!Front

LEMMA ReverseType ==
    ASSUME NEW S, NEW s \in Seq(S)
    PROVE Lists!Reverse(s) \in Seq(S)
<1>1. Len(s) \in Nat /\ \A i \in 1..Len(s) : s[i] \in S
    BY LenProperties
<1>2. \A i \in 1..Len(s) : s[(Len(s) - i) + 1] \in S
    BY <1>1
<1>3. [i \in 1..Len(s) |-> s[(Len(s) - i) + 1]] \in Seq(S)
    BY <1>1, <1>2, IsASeq
<1> QED
    BY <1>3 DEF Lists!Reverse

LEMMA LastType ==
    ASSUME NEW S, NEW s \in Seq(S), s # <<>>
    PROVE Last(s) \in S
<1>1. Len(s) \in Nat /\ \A i \in 1..Len(s) : s[i] \in S
    BY LenProperties
<1>2. Len(s) # 0
    BY EmptySeq
<1> QED
    BY <1>1, <1>2 DEF Last

\* What lastIndices and lastIndex return
LEMMA LastIndicesType ==
    ASSUME Before
    PROVE \/ isError(lastIndices) /\ lastIndices \in Errors
          \/ /\ ~isError(lastIndices) /\ keys # <<>> /\ Last(keys) \in DOMAIN keyToIndices
             /\ lastIndices = [tag |-> "indices", list |-> keyToIndices[Last(keys)]]
             /\ keyToIndices[Last(keys)] \in Seq(0..limits.accesses)
<1>1. keyToIndices \in IndexLists
    BY DEF Before, IInv, Typed, Listed
<1>2. Error("EmptyKeys") \in Errors /\ Error("EmptyIndices") \in Errors
    BY ErrorType DEF ErrorNames
<1>3. CASE keys = <<>> \/ Last(keys) \notin DOMAIN keyToIndices
    <2>1. lastIndices \in Errors
        BY <1>2, <1>3 DEF lastIndices
    <2> QED
        BY <2>1, Tags
<1>4. CASE keys # <<>> /\ Last(keys) \in DOMAIN keyToIndices
    <2>1. lastIndices = [tag |-> "indices", list |-> keyToIndices[Last(keys)]]
        BY <1>4 DEF lastIndices
    <2>2. ~isError(lastIndices)
        BY <2>1 DEF isError
    <2>3. keyToIndices[Last(keys)] \in Seq(0..limits.accesses)
        BY <1>1, <1>4 DEF IndexLists
    <2> QED
        BY <1>4, <2>1, <2>2, <2>3
<1> QED
    BY <1>3, <1>4

LEMMA LastIndexType ==
    ASSUME NEW n \in Nat, NEW indices,
           \/ isError(indices) /\ indices \in Errors
           \/ ~isError(indices) /\ indices.list \in Seq(0..n)
    PROVE \/ isError(lastIndex(indices)) /\ lastIndex(indices) \in Errors
          \/ /\ ~isError(lastIndex(indices)) /\ lastIndex(indices) \in Felts
             /\ ~isError(indices) /\ indices.list # <<>>
<1>1. Error("EmptyIndex") \in Errors
    BY ErrorType DEF ErrorNames
<1>2. CASE isError(indices)
    BY <1>2 DEF lastIndex
<1>3. CASE ~isError(indices) /\ indices.list = <<>>
    BY <1>1, <1>3, Tags DEF lastIndex
<1>4. CASE ~isError(indices) /\ indices.list # <<>>
    <2>1. Last(indices.list) \in 0..n
        BY <1>4, LastType
    <2>2. Felt(Last(indices.list)) \in Felts
        BY <2>1, FeltType
    <2>3. lastIndex(indices) = Felt(Last(indices.list))
        BY <1>4 DEF lastIndex
    <2> QED
        BY <1>4, <2>2, <2>3, Tags
<1> QED
    BY <1>2, <1>3, <1>4

-----------------------------------------------------------------------------
(* The steps of a squash *)

\* The outcomes of a step of a squash
SquashGoesOn ==
    /\ thrown' # undefined => UNCHANGED programVars
    /\ thrown' = undefined =>
          /\ \E next : next # "none" /\ squash' = [squash EXCEPT !.at = next]
          /\ ap' = ap + FRAME
          /\ UNCHANGED <<limits, arenaPtr, dictPtr, open, pending, squashed>>

LEMMA ContinueGoesOn ==
    ASSUME NEW next, next # "none", NEW visits, Continue(thrown' # undefined, next, visits)
    PROVE SquashGoesOn
<1>1. CASE thrown' # undefined
    BY <1>1 DEF Continue, Unless, SquashGoesOn
<1>2. CASE thrown' = undefined
    BY <1>2 DEF Continue, Unless, SquashGoesOn, Jump
<1> QED
    BY <1>1, <1>2

LEMMA SquashHintStep ==
    ASSUME Before, pending = <<>>, squash.at # "none", SquashGoesOn,
           Elsewhere(segments, segments', {0, RangeCheck}), UNCHANGED dictManager,
           Listed', thrown' \in {undefined} \cup Errors
    PROVE IInv'
<1>1. UNCHANGED <<limits, arenaPtr, dictPtr, open, pending, squashed>>
    BY DEF SquashGoesOn, programVars
<1>2. Typed' /\ Replays' /\ DictionariesHold'
    <2>1. {0, RangeCheck} \subseteq 0..3
        BY DEF RangeCheck
    <2>2. pending' \in Seq(Assertion)
        BY <1>1 DEF Before, IInv, Typed
    <2>3. ASSUME NEW d \in DOMAIN dictManager
          PROVE /\ \A v : NewIs(d, v)' <=> NewIs(d, v)
                /\ \A o, v : Asserts(d, o, v) => Asserts(d, o, v)'
        BY <1>1 DEF NewIs, LastNew, Asserts
    <2> QED
        BY <1>1, <2>1, <2>2, <2>3, QuietStep
<1>3. ASSUME thrown' = undefined
      PROVE (Controlled /\ Squashes /\ ArenaHolds /\ PendingKinds)'
    <2>1. Controlled /\ Squashes
        BY DEF Before, IInv
    <2>2. PICK next : next # "none" /\ squash' = [squash EXCEPT !.at = next]
        BY <1>3 DEF SquashGoesOn
    <2>3. PICK at, d : squash = [at |-> at, dict |-> d] /\ at # "none"
                       /\ d \in DOMAIN dictPtr \ squashed /\ dictPtr[d] > 0
        BY <2>1 DEF Squashes, NotSquashing
    <2>4. squash' = [at |-> next, dict |-> d]
        BY <2>2, <2>3
    <2>5. SquashesBegun' = SquashesBegun
        BY <1>1, <2>2, <2>3, <2>4 DEF SquashesBegun
    <2>6. Squashes'
        BY <1>1, <2>1, <2>2, <2>3, <2>4, <2>5 DEF Squashes
    <2>7. Controlled'
        <3>1. ap' \in Nat
            BY <1>3, <2>1 DEF SquashGoesOn, FRAME, Controlled
        <3> QED
            BY <1>1, <2>1, <2>5, <3>1 DEF Controlled
    <2>8. \A s \in {Info, Arena}, o \in Int : CellOf(s, o)' = CellOf(s, o)
        <3>1. \A s \in {Info, Arena} : s \in 0..(Len(segments) - 1) /\ s \notin {0, RangeCheck}
            BY StateFacts DEF Info, Arena, RangeCheck
        <3> QED
            BY <3>1, CellsElsewhere
    <2>9. ArenaHolds'
        <3>1. \A o \in Int : \A v : Asserts(Arena, o, v) => Asserts(Arena, o, v)'
            BY <1>1 DEF Asserts
        <3> QED
            BY <1>1, <2>8, <3>1, ArenaFrame
    <2>10. PendingKinds'
        BY <1>1 DEF PendingKinds
    <2> QED
        BY <2>6, <2>7, <2>9, <2>10
<1> QED
    BY <1>2, <1>3 DEF IInv, Running

\* What an assertion of a hint does, or a throw, to the memory it was executed with
LEMMA AssertEqStep ==
    ASSUME NEW m \in Memories(SegmentValue), NEW a \in Relocatables, NEW v \in SegmentValue,
           NEW T, a.segmentId \in T, AssertEq(m, a, v)
    PROVE Elsewhere(m, segments', T) /\ thrown' \in {undefined} \cup Errors
<1>1. segments' = assertEq(m, a, v).segments /\ thrown' = assertEq(m, a, v).value
    BY DEF AssertEq, Written
<1> QED
    BY <1>1, AssertEqElsewhere

LEMMA ThrowStep ==
    ASSUME NEW m \in Memories(SegmentValue), NEW e \in Errors, NEW T, Throw(m, e)
    PROVE Elsewhere(m, segments', T) /\ thrown' \in {undefined} \cup Errors
BY DEF Throw, Elsewhere

LEMMA KindsAreValues == Felts \subseteq SegmentValue /\ Relocatables \subseteq SegmentValue
BY DEF SegmentValue

\* The memory of hints with no pointer at ap, and their flag
LEMMA FlagCell ==
    ASSUME Before, NEW o \in Int
    PROVE /\ cellRefToRelocatable(Regs, Cell(o)) \in Relocatables
          /\ cellRefToRelocatable(Regs, Cell(o)).segmentId = 0
BY CellReference, StateFacts, RelocatableType

\* The memory of the hint that takes the range check pointer
LEMMA RangeCheckFrame ==
    ASSUME Before, NEW m, m = Framed(RangeCheckPtr), NEW r, r = RangeCheckPtr
    PROVE /\ m \in Memories(SegmentValue) /\ Len(m) = Len(segments)
          /\ Elsewhere(segments, m, {0})
          /\ r \in Relocatables /\ r.segmentId = RangeCheck /\ r.offset \in Nat
          /\ PointerOf(m, Regs, DerefAp(0)) = AddFelt(r, Zero)
<1>1. /\ r \in Relocatables /\ r.segmentId = RangeCheck /\ r.offset \in Nat
    <2>1. RangeCheck + 1 \in 1..Len(segments) /\ RangeCheck \in Nat
          /\ segments \in Memories(SegmentValue)
        BY StateFacts DEF RangeCheck
    <2>2. segments[RangeCheck + 1].cells \in CellMaps(SegmentValue)
        BY <2>1, MemoryTypes
    <2>3. Length(segments[RangeCheck + 1].cells) \in Nat
        BY <2>2, LengthType
    <2> QED
        BY <2>1, <2>3, RelocatableType DEF RangeCheckPtr
<1>2. /\ m \in Memories(SegmentValue) /\ Len(m) > 0 /\ ap \in Nat
      /\ Len(m) = Len(segments) /\ Elsewhere(segments, m, {0})
      /\ CellAt(m, Relocatable(0, ap)) = r
    BY <1>1, OneFrame, StateFacts, KindsAreValues
<1>3. PointerOf(m, Regs, DerefAp(0)) = AddFelt(r, Zero)
    BY <1>1, <1>2, PointerInFrame
<1> QED
    BY <1>1, <1>2, <1>3

LEMMA FirstIndexStep ==
    ASSUME Before, FirstIndex
    PROVE IInv' /\ Elsewhere(segments, segments', {0, RangeCheck})
<1> DEFINE m == Framed(RangeCheckPtr)
           address == PointerOf(m, Regs, DerefAp(0))
           index == lastIndex(lastIndices)
<1>1. pending = <<>> /\ squash.at # "none"
    BY DEF FirstIndex, Squashing
<1>2. /\ getCurrentAccessIndex(m, Regs, DerefAp(0))
      /\ \E visits : Continue(thrown' # undefined, "skip", visits)
    BY DEF FirstIndex
<1>3. SquashGoesOn
    BY <1>2, ContinueGoesOn
<1>4. PICK r : r = RangeCheckPtr
    OBVIOUS
<1>5. /\ m \in Memories(SegmentValue) /\ Elsewhere(segments, m, {0})
      /\ r \in Relocatables /\ r.segmentId = RangeCheck /\ address = AddFelt(r, Zero)
    BY <1>4, RangeCheckFrame
<1> HIDE DEF m, address
<1>6. address \in Relocatables /\ address.segmentId = RangeCheck /\ ~isError(address)
    <2>1. Zero \in Felts
        BY FeltType DEF Zero
    <2> QED
        BY <1>5, <2>1, AddFeltType, AddFeltSegment, Tags
<1>7. \/ isError(index) /\ index \in Errors
      \/ ~isError(index) /\ index \in Felts
    <2>1. limits.accesses \in Nat
        BY StateFacts, SmallNumbers
    <2>2. \/ isError(lastIndices) /\ lastIndices \in Errors
          \/ ~isError(lastIndices) /\ lastIndices.list \in Seq(0..limits.accesses)
        BY LastIndicesType
    <2> QED
        BY <2>1, <2>2, LastIndexType
<1> HIDE DEF index
<1>8. /\ \/ \E e \in Errors : Throw(m, e)
         \/ AssertEq(m, address, index) /\ index \in SegmentValue
      /\ UNCHANGED <<dictManager, squashedDictManager>>
    <2>1. PICK error : /\ error = FirstError(<<address, index>>)
                       /\ IF isError(error) THEN Throw(m, error) ELSE AssertEq(m, address, index)
                       /\ UNCHANGED <<dictManager, squashedDictManager>>
        BY <1>2 DEF getCurrentAccessIndex, address, index
    <2>2. error = IF isError(index) THEN index ELSE undefined
        BY <1>6, <2>1, SecondError
    <2>3. CASE isError(index)
        BY <1>7, <2>1, <2>2, <2>3
    <2>4. CASE ~isError(index)
        BY <1>7, <2>1, <2>2, <2>4, KindsAreValues, Tags
    <2> QED
        BY <2>3, <2>4
<1>9. /\ Elsewhere(m, segments', {0, RangeCheck})
      /\ thrown' \in {undefined} \cup Errors
    <2>1. CASE \E e \in Errors : Throw(m, e)
        BY <1>5, <2>1, ThrowStep
    <2>2. CASE AssertEq(m, address, index) /\ index \in SegmentValue
        BY <1>5, <1>6, <2>2, AssertEqStep
    <2> QED
        BY <1>8, <2>1, <2>2
<1>10. Elsewhere(segments, segments', {0, RangeCheck})
    <2>1. Elsewhere(segments, m, {0, RangeCheck})
        BY <1>5 DEF Elsewhere
    <2> QED
        BY <1>9, <2>1, ElsewhereTransitive
<1>11. Listed'
    <2>1. Listed /\ limits' = limits
        BY <1>3 DEF Before, IInv, Typed, SquashGoesOn, programVars
    <2> QED
        BY <1>8, <2>1 DEF Listed, IndexLists, squashedDictManager
<1> QED
    BY <1>1, <1>3, <1>8, <1>9, <1>10, <1>11, SquashHintStep

\* The flag of the loop over the indices
LEMMA FlagStep ==
    ASSUME Before, pending = <<>>, squash.at # "none", SquashGoesOn,
           NEW more \in Felts, NEW noMore \in Felts,
           AssertMoreIndices(segments, Regs, Cell(1), more, noMore)
    PROVE IInv' /\ Elsewhere(segments, segments', {0})
<1> DEFINE flag == IF Len(lastIndices.list) > 1 THEN more ELSE noMore
           address == cellRefToRelocatable(Regs, Cell(1))
<1>1. /\ IF isError(lastIndices) THEN Throw(segments, lastIndices)
                                 ELSE AssertEq(segments, address, flag)
      /\ UNCHANGED <<dictManager, squashedDictManager>>
    BY DEF AssertMoreIndices
<1>2. /\ flag \in SegmentValue
      /\ address \in Relocatables /\ address.segmentId \in {0}
      /\ segments \in Memories(SegmentValue)
    BY KindsAreValues, FlagCell, StateFacts
<1> HIDE DEF flag, address
<1>3. isError(lastIndices) => lastIndices \in Errors
    BY LastIndicesType
<1>4. /\ Elsewhere(segments, segments', {0})
      /\ thrown' \in {undefined} \cup Errors
    <2>1. CASE isError(lastIndices)
        BY <1>1, <1>2, <1>3, <2>1, ThrowStep
    <2>2. CASE ~isError(lastIndices)
        BY <1>1, <1>2, <2>2, AssertEqStep
    <2> QED
        BY <2>1, <2>2
<1>5. Listed'
    <2>1. Listed /\ limits' = limits
        BY DEF Before, IInv, Typed, SquashGoesOn, programVars
    <2> QED
        BY <1>1, <2>1 DEF Listed, IndexLists, squashedDictManager
<1>6. Elsewhere(segments, segments', {0, RangeCheck})
    BY <1>4, ElsewhereWidens
<1> QED
    BY <1>1, <1>4, <1>5, <1>6, SquashHintStep

LEMMA SkipLoopStep ==
    ASSUME Before, SkipLoop
    PROVE IInv' /\ Elsewhere(segments, segments', {0})
<1>1. /\ pending = <<>> /\ squash.at # "none"
      /\ AssertMoreIndices(segments, Regs, Cell(1), Felt(0), Felt(1))
    BY DEF SkipLoop, Squashing, shouldSkipSquashLoop
<1>2. \E next, visits : next # "none" /\ Continue(thrown' # undefined, next, visits)
    <2>1. (IF Filled(1) = Zero THEN "delta" ELSE "key") # "none"
        OBVIOUS
    <2> QED
        BY <2>1 DEF SkipLoop
<1>3. SquashGoesOn
    BY <1>2, ContinueGoesOn
<1>4. Felt(0) \in Felts /\ Felt(1) \in Felts
    BY FeltType
<1> QED
    BY <1>1, <1>3, <1>4, FlagStep

LEMMA ContinueLoopStep ==
    ASSUME Before, ContinueLoop
    PROVE IInv' /\ Elsewhere(segments, segments', {0})
<1>1. /\ pending = <<>> /\ squash.at # "none"
      /\ AssertMoreIndices(segments, Regs, Cell(1), Felt(1), Felt(0))
    BY DEF ContinueLoop, Squashing, shouldContinueSquashLoop
<1>2. \E next, visits : next # "none" /\ Continue(thrown' # undefined, next, visits)
    <2>1. (IF Filled(1) = Zero THEN "key" ELSE "delta") # "none"
        OBVIOUS
    <2> QED
        BY <2>1 DEF ContinueLoop
<1>3. SquashGoesOn
    BY <1>2, ContinueGoesOn
<1>4. Felt(0) \in Felts /\ Felt(1) \in Felts
    BY FeltType
<1> QED
    BY <1>1, <1>3, <1>4, FlagStep

LEMMA NextIndexStep ==
    ASSUME Before, NextIndex
    PROVE IInv' /\ Elsewhere(segments, segments', {0})
<1> DEFINE prev == lastIndex(lastIndices)
           rest == [lastIndices EXCEPT !.list = Lists!Front(@)]
           current == lastIndex(rest)
           address == cellRefToRelocatable(Regs, Cell(1))
<1>1. /\ pending = <<>> /\ squash.at # "none"
      /\ getCurrentAccessDelta(segments, Regs, Cell(1))
      /\ \E visits : Continue(thrown' # undefined, "continue", visits)
    BY DEF NextIndex, Squashing
<1>2. SquashGoesOn
    BY <1>1, ContinueGoesOn
<1>3. /\ limits.accesses \in Nat /\ segments \in Memories(SegmentValue)
      /\ address \in Relocatables /\ address.segmentId \in {0}
      /\ Listed /\ limits' = limits
    BY <1>2, StateFacts, SmallNumbers, FlagCell
    DEF Before, IInv, Typed, SquashGoesOn, programVars
<1>4. /\ IF isError(prev)
           THEN Throw(segments, prev) /\ UNCHANGED keyToIndices
           ELSE /\ popIndex
                /\ IF isError(current)
                     THEN Throw(segments, current)
                     ELSE AssertEq(segments, address, Felt(current.inner - prev.inner - 1))
      /\ UNCHANGED <<dictManager, keys>>
    BY <1>1 DEF getCurrentAccessDelta
<1>5. \/ isError(lastIndices) /\ lastIndices \in Errors
      \/ ~isError(lastIndices) /\ lastIndices.list \in Seq(0..limits.accesses)
    BY LastIndicesType
<1>6. \/ isError(prev) /\ prev \in Errors
      \/ ~isError(prev) /\ prev \in Felts /\ ~isError(lastIndices) /\ lastIndices.list # <<>>
    BY <1>3, <1>5, LastIndexType
<1>7. ASSUME ~isError(prev)
      PROVE /\ \/ isError(current) /\ current \in Errors
               \/ ~isError(current) /\ current \in Felts
            /\ Listed'
    <2>1. /\ keys # <<>> /\ Last(keys) \in DOMAIN keyToIndices
          /\ lastIndices = [tag |-> "indices", list |-> keyToIndices[Last(keys)]]
          /\ keyToIndices[Last(keys)] \in Seq(0..limits.accesses)
          /\ keyToIndices[Last(keys)] # <<>>
        BY <1>6, <1>7, LastIndicesType
    <2> DEFINE front == Lists!Front(keyToIndices[Last(keys)])
    <2>2. front \in Seq(0..limits.accesses)
        BY <2>1, FrontType
    <2>3. rest = [tag |-> "indices", list |-> front]
        BY <2>1
    <2>4. ~isError(rest) /\ rest.list \in Seq(0..limits.accesses)
        BY <2>2, <2>3 DEF isError
    <2>5. \/ isError(current) /\ current \in Errors
          \/ ~isError(current) /\ current \in Felts
        <3> HIDE DEF rest
        <3> QED
            BY <1>3, <2>4, LastIndexType
    <2>6. keyToIndices' = [keyToIndices EXCEPT ![Last(keys)] = front]
        BY <1>4, <1>7 DEF popIndex
    <2>7. PICK D \in SUBSET Keys : keyToIndices \in [D -> Seq(0..limits.accesses)]
        BY <1>3 DEF Listed, IndexLists
    <2>8. keyToIndices' \in [D -> Seq(0..limits.accesses)]
        <3> HIDE DEF front
        <3> QED
            BY <2>2, <2>6, <2>7
    <2>9. keyToIndices' \in IndexLists' /\ DOMAIN keyToIndices' = DOMAIN keyToIndices
        BY <1>3, <2>7, <2>8 DEF IndexLists
    <2>10. keys' = keys
        BY <1>4
    <2>11. Listed'
        BY <1>3, <2>9, <2>10 DEF Listed
    <2> QED
        BY <2>5, <2>11
<1>8. isError(prev) => Listed'
    BY <1>3, <1>4 DEF Listed, IndexLists
<1>9. ~isError(prev) /\ ~isError(current) =>
          Felt(current.inner - prev.inner - 1) \in SegmentValue
    <2>1. ASSUME NEW a \in Felts, NEW b \in Felts
          PROVE Felt(a.inner - b.inner - 1) \in SegmentValue
        <3>1. a.inner - b.inner - 1 \in Int
            BY FieldAssumption DEF Felts
        <3> QED
            BY <3>1, FeltType, KindsAreValues
    <2> HIDE DEF current, prev
    <2> QED
        BY <1>6, <1>7, <2>1
<1> HIDE DEF prev, current, address
<1>10. /\ Elsewhere(segments, segments', {0})
       /\ thrown' \in {undefined} \cup Errors
    <2>1. CASE isError(prev)
        BY <1>3, <1>4, <1>6, <2>1, ThrowStep
    <2>2. CASE ~isError(prev) /\ isError(current)
        BY <1>3, <1>4, <1>7, <2>2, ThrowStep
    <2>3. CASE ~isError(prev) /\ ~isError(current)
        BY <1>3, <1>4, <1>9, <2>3, AssertEqStep
    <2> QED
        BY <2>1, <2>2, <2>3
<1>11. Elsewhere(segments, segments', {0, RangeCheck})
    BY <1>10, ElsewhereWidens
<1> QED
    BY <1>1, <1>2, <1>4, <1>7, <1>8, <1>10, <1>11, SquashHintStep

LEMMA NextKeyStep ==
    ASSUME Before, NextKey
    PROVE IInv' /\ Elsewhere(segments, segments', {0})
<1> DEFINE address == cellRefToRelocatable(Regs, Cell(1))
<1>1. /\ pending = <<>> /\ squash.at # "none"
      /\ getNextDictKey(segments, Regs, Cell(1))
      /\ Continue(thrown' # undefined, "index", visited)
    BY DEF NextKey, Squashing
<1>2. SquashGoesOn
    BY <1>1, ContinueGoesOn
<1>3. /\ segments \in Memories(SegmentValue)
      /\ address \in Relocatables /\ address.segmentId \in {0}
      /\ Listed /\ limits' = limits
    BY <1>2, StateFacts, FlagCell DEF Before, IInv, Typed, SquashGoesOn, programVars
<1>4. /\ IF keys = <<>>
           THEN Throw(segments, Error("EmptyKeys")) /\ UNCHANGED keys
           ELSE /\ keys' = Lists!Front(keys)
                /\ IF keys' = <<>>
                     THEN Throw(segments, Error("EmptyKeys"))
                     ELSE AssertEq(segments, address, lastKey(keys'))
      /\ UNCHANGED <<dictManager, keyToIndices>>
    BY <1>1 DEF getNextDictKey
<1>5. keys' \in Seq(Keys)
    BY <1>3, <1>4, FrontType DEF Listed
<1>6. Listed'
    BY <1>3, <1>4, <1>5 DEF Listed, IndexLists
<1>7. Error("EmptyKeys") \in Errors
    BY ErrorType DEF ErrorNames
<1>8. keys' # <<>> => lastKey(keys') \in SegmentValue
    BY <1>5, LastType, KeyFelts, KindsAreValues DEF lastKey
<1> HIDE DEF address
<1>9. /\ Elsewhere(segments, segments', {0})
      /\ thrown' \in {undefined} \cup Errors
    <2>1. CASE Throw(segments, Error("EmptyKeys"))
        BY <1>3, <1>7, <2>1, ThrowStep
    <2>2. CASE keys' # <<>> /\ AssertEq(segments, address, lastKey(keys'))
        BY <1>3, <1>8, <2>2, AssertEqStep
    <2> QED
        BY <1>4, <2>1, <2>2
<1>10. Elsewhere(segments, segments', {0, RangeCheck})
    BY <1>9, ElsewhereWidens
<1> QED
    BY <1>1, <1>2, <1>4, <1>6, <1>9, <1>10, SquashHintStep

LEMMA EndSquashStep ==
    ASSUME Before, EndSquash
    PROVE IInv' /\ Elsewhere(segments, segments', {0})
<1>1. /\ pending = <<>> /\ squash.at = "key"
      /\ squash' = NotSquashing /\ squashed' = squashed \cup {squash.dict}
      /\ UNCHANGED <<segments, dictManager, keys, keyToIndices, thrown, limits, ap, arenaPtr,
                     dictPtr, open, pending>>
    BY DEF EndSquash, Squashing, hintVars, squashedDictManager
<1>2. Typed' /\ Replays' /\ DictionariesHold'
    <2>1. Elsewhere(segments, segments', {})
        BY <1>1, StateFacts DEF Elsewhere
    <2>2. Listed' /\ thrown' \in {undefined} \cup Errors /\ pending' \in Seq(Assertion)
        BY <1>1 DEF Before, IInv, Typed, Listed, IndexLists
    <2>3. ASSUME NEW d \in DOMAIN dictManager
          PROVE /\ \A v : NewIs(d, v)' <=> NewIs(d, v)
                /\ \A o, v : Asserts(d, o, v) => Asserts(d, o, v)'
        BY <1>1 DEF NewIs, LastNew, Asserts
    <2> QED
        BY <1>1, <2>1, <2>2, <2>3, QuietStep
<1>3. PICK d \in DOMAIN dictPtr \ squashed : squash = [at |-> "key", dict |-> d]
    BY <1>1 DEF Before, IInv, Squashes, NotSquashing
<1>4. SquashesBegun' = SquashesBegun
    <2>1. IsFiniteSet(squashed)
        BY StateFacts, FS_Subset DEF Before, IInv, Squashes
    <2>2. Cardinality(squashed \cup {d}) = Cardinality(squashed) + 1
          /\ Cardinality(squashed) \in Nat
        BY <1>3, <2>1, FS_AddElement, FS_CardinalityType
    <2> QED
        BY <1>1, <1>3, <2>2 DEF SquashesBegun, NotSquashing
<1>5. Squashes'
    BY <1>1, <1>3, <1>4 DEF Before, IInv, Squashes
<1>6. Controlled'
    BY <1>1, <1>4 DEF Before, IInv, Controlled
<1>7. ArenaHolds' /\ PendingKinds'
    <2>1. ArenaHolds'
        BY <1>1, ArenaFrame DEF CellOf, Asserts
    <2> QED
        BY <1>1, <2>1 DEF PendingKinds
<1>8. Elsewhere(segments, segments', {0})
    BY <1>1, StateFacts DEF Elsewhere
<1> QED
    BY <1>2, <1>5, <1>6, <1>7, <1>8 DEF IInv

-----------------------------------------------------------------------------
(* The hint that starts a squash *)

LEMMA SeqWidens ==
    ASSUME NEW S, NEW T, S \subseteq T, NEW s \in Seq(S)
    PROVE s \in Seq(T)
<1>1. Len(s) \in Nat /\ s \in [1..Len(s) -> S]
    BY LenProperties
<1>2. s \in [1..Len(s) -> T]
    BY <1>1
<1> QED
    BY <1>1, <1>2

\* The lists of indices after the first k accesses are inserted
LEMMA InsertedType ==
    ASSUME Before, NEW k \in Nat, k <= limits.accesses, NEW read,
           \A i \in 0..(k - 1) : read[i].inner \in Keys
    PROVE /\ Inserted(read, k) \in IndexLists
          /\ IsFiniteSet(DOMAIN Inserted(read, k))
          /\ k > 0 => DOMAIN Inserted(read, k) # {}
<1> DEFINE added == {read[i].inner : i \in 0..(k - 1)}
           D == DOMAIN keyToIndices \cup added
           S(key) == {i \in 0..(k - 1) : read[i].inner = key}
<1>1. Listed /\ limits.accesses \in Nat
    BY StateFacts, SmallNumbers DEF Before, IInv, Typed
<1>2. IsFiniteSet(0..(k - 1))
    BY FS_Interval
<1>3. IsFiniteSet(added)
    <2> DEFINE f == [i \in 0..(k - 1) |-> read[i].inner]
    <2>1. f \in Surjection(0..(k - 1), added)
        BY DEF Surjection
    <2> HIDE DEF f, added
    <2> QED
        BY <1>2, <2>1, FS_Surjection
<1>4. D \in SUBSET Keys /\ IsFiniteSet(D)
    <2>1. DOMAIN keyToIndices \subseteq Keys /\ IsFiniteSet(DOMAIN keyToIndices)
        BY <1>1 DEF Listed, IndexLists
    <2>2. added \subseteq Keys
        OBVIOUS
    <2> HIDE DEF added
    <2> QED
        BY <1>3, <2>1, <2>2, FS_Union
<1>5. ASSUME NEW key
      PROVE IndicesOf(key) \o Ascending(S(key)) \in Seq(0..limits.accesses)
    <2>1. IndicesOf(key) \in Seq(0..limits.accesses)
        BY <1>1, EmptySeq DEF IndicesOf, Listed, IndexLists
    <2>2. S(key) \subseteq Int /\ S(key) \subseteq 0..limits.accesses /\ IsFiniteSet(S(key))
        <3>1. S(key) \subseteq 0..(k - 1)
            OBVIOUS
        <3>2. 0..(k - 1) \subseteq Int /\ 0..(k - 1) \subseteq 0..limits.accesses
            BY <1>1
        <3> HIDE DEF S
        <3> QED
            BY <1>2, <3>1, <3>2, FS_Subset
    <2> HIDE DEF S
    <2>3. Ascending(S(key)) \in Seq(0..limits.accesses)
        BY <2>2, AscendingType, SeqWidens
    <2> QED
        BY <2>1, <2>3, ConcatProperties
<1>6. Inserted(read, k) = [key \in D |-> IndicesOf(key) \o Ascending(S(key))]
    BY DEF Inserted
<1>7. k > 0 => added # {}
    OBVIOUS
<1> HIDE DEF D, S
<1>8. Inserted(read, k) \in [D -> Seq(0..limits.accesses)]
    BY <1>5, <1>6
<1>9. DOMAIN Inserted(read, k) = D
    BY <1>6
<1> QED
    BY <1>4, <1>7, <1>8, <1>9 DEF IndexLists, D

\* How many accesses are inserted, and why not more
LEMMA InsertedCountType ==
    ASSUME NEW n \in Nat, NEW read
    PROVE LET done == InsertedCount(read, n)
          IN /\ done \in 0..n
             /\ \A i \in 0..(done - 1) : ~isError(read[i])
             /\ done < n => isError(read[done])
<1> DEFINE bad == {i \in 0..(n - 1) : isError(read[i])}
           done == InsertedCount(read, n)
<1>1. CASE bad = {}
    BY <1>1 DEF InsertedCount
<1>2. CASE bad # {}
    <2>1. bad \subseteq Nat
        OBVIOUS
    <2>2. \E i \in bad : \A j \in bad : i <= j
        <3> HIDE DEF bad
        <3> QED
            BY <1>2, <2>1, LeastNat
    <2>3. done = CHOOSE i \in bad : \A j \in bad : i <= j
        BY <1>2 DEF InsertedCount
    <2>4. done \in bad /\ \A j \in bad : done <= j
        <3> HIDE DEF bad, done
        <3> QED
            BY <2>2, <2>3
    <2> HIDE DEF done
    <2>5. done \in 0..(n - 1) /\ isError(read[done])
        BY <2>4
    <2>6. ASSUME NEW i \in 0..(done - 1)
          PROVE ~isError(read[i])
        <3>1. i \in 0..(n - 1) /\ i < done
            BY <2>5
        <3> QED
            BY <2>4, <3>1
    <2> QED
        BY <2>5, <2>6 DEF done
<1> QED
    BY <1>1, <1>2

\* The keys and the lists when a squash starts, and its two assertions
LEMMA StartSquashStep ==
    ASSUME Before, limits' = limits, NEW m \in Memories(SegmentValue), Len(m) = Len(segments),
           NEW inserted \in IndexLists, IsFiniteSet(DOMAIN inserted), DOMAIN inserted # {},
           NEW bigKeys \in Relocatables, bigKeys.segmentId = 0,
           NEW firstKey \in Relocatables, firstKey.segmentId = 0,
           StartSquash(m, inserted, bigKeys, firstKey)
    PROVE /\ Listed' /\ thrown' \in {undefined} \cup Errors
          /\ Elsewhere(m, segments', {0})
<1> DEFINE list == Descending(keys \o Lists!SetToSeq(DOMAIN inserted))
           big == Felt(IF list[1] > RangeBound THEN 1 ELSE 0)
           first == assertEq(m, bigKeys, big)
           second == ThenStore(first, firstKey, Felt(Last(list)))
<1>1. /\ keyToIndices' = [key \in DOMAIN inserted |-> Lists!Reverse(inserted[key])]
      /\ keys' = list /\ segments' = second.segments /\ thrown' = second.value
    BY DEF StartSquash, AssertKeys, Written
<1>2. PICK D \in SUBSET Keys : inserted \in [D -> Seq(0..limits.accesses)]
    BY DEF IndexLists
<1>3. D = DOMAIN inserted /\ IsFiniteSet(D) /\ D # {}
    BY <1>2
<1>4. list \in Seq(Keys) /\ list # <<>>
    <2>1. keys \in Seq(Keys)
        BY DEF Before, IInv, Typed, Listed
    <2>2. Lists!SetToSeq(D) \in Seq(D) /\ Len(Lists!SetToSeq(D)) = Cardinality(D)
        BY <1>3, SetToSeqType
    <2>3. Lists!SetToSeq(D) \in Seq(Keys)
        BY <1>2, <2>2, SeqWidens
    <2>4. Cardinality(D) \in Nat /\ Cardinality(D) # 0
        BY <1>3, FS_CardinalityType, FS_EmptySet
    <2> DEFINE all == keys \o Lists!SetToSeq(D)
    <2>5. all \in Seq(Keys) /\ Len(all) = Len(keys) + Cardinality(D)
        BY <2>1, <2>2, <2>3, ConcatProperties
    <2>6. Len(keys) \in Nat
        BY <2>1, LenProperties
    <2>7. Keys \subseteq Int
        BY KeyFelts
    <2> HIDE DEF all
    <2>8. Descending(all) \in Seq(Keys) /\ Len(Descending(all)) = Len(all)
        BY <2>5, <2>7, DescendingType
    <2>9. Descending(all) # <<>>
        BY <2>4, <2>5, <2>6, <2>8, EmptySeq
    <2> QED
        BY <1>3, <2>8, <2>9 DEF all
<1>5. Listed'
    <2>1. \A key \in D : Lists!Reverse(inserted[key]) \in Seq(0..limits.accesses)
        BY <1>2, ReverseType
    <2>2. /\ keyToIndices' \in [D -> Seq(0..limits.accesses)]
          /\ DOMAIN keyToIndices' = D
        BY <1>1, <1>3, <2>1
    <2>3. keyToIndices' \in IndexLists'
        BY <1>2, <2>2 DEF IndexLists
    <2> QED
        BY <1>1, <1>3, <1>4, <2>2, <2>3 DEF Listed
<1>6. big \in SegmentValue /\ Felt(Last(list)) \in SegmentValue
    <2>1. Last(list) \in Keys
        BY <1>4, LastType
    <2> QED
        BY <2>1, KeyFelts, FeltType, KindsAreValues
<1> HIDE DEF list, big
<1>7. Elsewhere(m, first.segments, {0}) /\ first.value \in {undefined} \cup Errors
    BY <1>6, AssertEqElsewhere
<1>8. first.segments \in Memories(SegmentValue)
    BY <1>7 DEF Elsewhere
<1> HIDE DEF first
<1>9. Elsewhere(m, second.segments, {0}) /\ second.value \in {undefined} \cup Errors
    <2>1. CASE isError(first.value)
        BY <1>7, <2>1 DEF ThenStore
    <2>2. CASE ~isError(first.value)
        <3>1. second = assertEq(first.segments, firstKey, Felt(Last(list)))
            BY <2>2 DEF ThenStore
        <3>2. /\ Elsewhere(first.segments, second.segments, {0})
              /\ second.value \in {undefined} \cup Errors
            BY <1>6, <1>8, <3>1, AssertEqElsewhere
        <3> QED
            BY <1>7, <3>2, ElsewhereTransitive
    <2> QED
        BY <2>1, <2>2
<1> QED
    BY <1>1, <1>5, <1>9

\* The keys the hint reads are those of the accesses.
LEMMA ReadKeys ==
    ASSUME Before, NEW d \in DOMAIN dictManager, NEW m \in Memories(SegmentValue),
           Elsewhere(segments, m, {0}), NEW i \in Nat
    PROVE LET read == LoadFelt(m, AddOffset(Relocatable(d, 0), i * DICT_ACCESS_SIZE))
          IN IF isError(read) THEN read \in Errors ELSE read.inner \in Keys
<1> DEFINE o == 3 * i
           v == CellAt(m, Relocatable(d, o))
           read == LoadFelt(m, AddOffset(Relocatable(d, 0), i * DICT_ACCESS_SIZE))
<1>1. /\ d \in 0..(Len(segments) - 1) /\ d # 0 /\ o \in Int /\ o % 3 = 0
    BY DictionaryFacts
<1>2. AddOffset(Relocatable(d, 0), i * DICT_ACCESS_SIZE) = Relocatable(d, o)
    BY DEF AddOffset, Relocatable, DICT_ACCESS_SIZE
<1>3. Len(m) = Len(segments) /\ v = CellOf(d, o)
    BY <1>1 DEF Elsewhere, CellOf
<1>4. Load(m, Relocatable(d, o)) = v
    BY <1>1, <1>3, LoadIsTheCell
<1>5. read = Expect(v, isFelt(v), "ExpectedFelt")
    BY <1>2, <1>4 DEF LoadFelt
<1>6. v = undefined \/ \E key \in Keys : v = Felt(key)
    BY <1>1, <1>3 DEF Before, IInv, DictionariesHold, HoldsIn, CellsWithin
<1>7. CASE v = undefined
    <2>1. read = Error("ExpectedFelt")
        BY <1>5, <1>7, Tags DEF Expect
    <2>2. Error("ExpectedFelt") \in Errors
        BY ErrorType DEF ErrorNames
    <2> QED
        BY <2>1, <2>2, Tags
<1>8. CASE \E key \in Keys : v = Felt(key)
    <2>1. PICK key \in Keys : v = Felt(key)
        BY <1>8
    <2>2. v \in Felts /\ v.inner = key /\ ~isError(v)
        BY <2>1, KeyFelts, Tags
    <2>3. read = v
        BY <1>5, <2>2, Tags DEF Expect
    <2> QED
        BY <2>2, <2>3
<1> QED
    BY <1>6, <1>7, <1>8

\* The outcomes of the hint, once it has read the keys of the accesses
InitOutcome(m, read, count) ==
    \/ (\E e \in Errors : Throw(m, e)) /\ UNCHANGED squashedDictManager
    \/ /\ InsertedCount(read, count) < count
       /\ Throw(m, read[InsertedCount(read, count)])
       /\ keyToIndices' = Inserted(read, InsertedCount(read, count))
       /\ UNCHANGED keys
    \/ /\ ~(InsertedCount(read, count) < count)
       /\ StartSquash(m, Inserted(read, count), cellRefToRelocatable(Regs, Cell(1)),
                      cellRefToRelocatable(Regs, Cell(2)))

\* The keys are read from the dictionary being squashed, one for each access.
InitReads(m, read, d, count) ==
    /\ m \in Memories(SegmentValue) /\ Len(m) = Len(segments) /\ Elsewhere(segments, m, {0})
    /\ \A i \in 0..(count - 1) :
          read[i] = LoadFelt(m, AddOffset(Relocatable(d, 0), i * DICT_ACCESS_SIZE))

LEMMA InitSquashHint ==
    ASSUME Before, InitSquash
    PROVE LET d == squash.dict
              count == AccessCount(d)
          IN /\ d \in DOMAIN dictManager
             /\ count \in Nat /\ count > 0 /\ count <= limits.accesses /\ UNCHANGED dictManager
             /\ \E m, read : InitReads(m, read, d, count) /\ InitOutcome(m, read, count)
<1> DEFINE d == squash.dict
           count == AccessCount(d)
<1>1. /\ pending = <<>> /\ squash.at # "none"
      /\ Continue(thrown' # undefined, "index", visited)
    BY DEF InitSquash, Squashing
<1>2. SquashGoesOn
    BY <1>1, ContinueGoesOn
<1>3. d \in DOMAIN dictPtr /\ dictPtr[d] > 0
    BY <1>1 DEF Before, IInv, Squashes, NotSquashing
<1> HIDE DEF d
<1> DEFINE start == Relocatable(d, 0)
           m == Framed(start)
           bigKeys == cellRefToRelocatable(Regs, Cell(1))
           firstKey == cellRefToRelocatable(Regs, Cell(2))
<1>4. initSquashData(m, Regs, DerefAp(0), Imm(dictPtr[d]), Imm(count), Cell(1), Cell(2))
    BY <1>3 DEF InitSquash, d
<1>5. /\ d \in DOMAIN dictManager /\ d \in Nat
      /\ dictPtr[d] \in 0..Top /\ count \in 0..Top /\ count \in Nat
      /\ count > 0 /\ count <= limits.accesses
      /\ limits \in Limits /\ limits' = limits
    <2>1. /\ d \in DOMAIN dictManager /\ limits \in Limits /\ Top \in Nat
        BY <1>3, StateFacts
    <2>2. /\ d \in Nat /\ dictPtr[d] \in Nat /\ dictPtr[d] + 3 <= Top
          /\ count \in Nat /\ count <= limits.accesses /\ dictPtr[d] = 3 * count
        BY <2>1, DictionaryFacts
    <2>3. limits' = limits
        BY <1>2 DEF SquashGoesOn, programVars
    <2> HIDE DEF count
    <2> QED
        BY <1>3, <2>1, <2>2, <2>3
<1> HIDE DEF count
<1>6. start \in Relocatables /\ start \in SegmentValue /\ ~isError(start)
    BY <1>5, RelocatableType
<1>7. /\ m \in Memories(SegmentValue) /\ Len(m) = Len(segments) /\ Len(m) > 0 /\ ap \in Nat
      /\ Elsewhere(segments, m, {0}) /\ CellAt(m, Relocatable(0, ap)) = start
    BY <1>6, OneFrame, StateFacts
<1> HIDE DEF m
<1>8. PointerOf(m, Regs, DerefAp(0)) = start
    <2>1. PointerOf(m, Regs, DerefAp(0)) = AddFelt(start, Zero)
        BY <1>6, <1>7, PointerInFrame
    <2>2. AddFelt(Relocatable(d, 0), Felt(0)) = Relocatable(d, 0 + 0)
        BY <1>5, SmallSums, SmallNumbers
    <2> QED
        BY <2>1, <2>2 DEF Zero
<1> DEFINE diff == Felt(dictPtr[d])
           number == Felt(count)
           reads == <<start, diff, InvalidSize(diff), number>>
           read == [i \in 0..(count - 1) |->
                       LoadFelt(m, AddOffset(start, i * DICT_ACCESS_SIZE))]
           done == InsertedCount(read, count)
<1>9. /\ diff \in Felts /\ number \in Felts /\ number.inner = count
      /\ ToNumber[number.inner] = count
    BY <1>5, SmallFelts, SmallNumbers
<1>10. FirstError(reads) \in {undefined} \cup Errors
    <2>1. InvalidSize(diff) \in {undefined} \cup Errors
        BY ErrorType DEF InvalidSize, ErrorNames
    <2>2. DOMAIN reads = 1..4 /\ 4 \in Nat
        OBVIOUS
    <2>3. \A i \in 1..4 : isError(reads[i]) => reads[i] \in Errors
        <3>1. /\ reads[1] = start /\ reads[2] = diff /\ reads[3] = InvalidSize(diff)
              /\ reads[4] = number
            OBVIOUS
        <3> HIDE DEF start, diff, number, reads
        <3> QED
            BY <1>6, <1>9, <2>1, <3>1, Tags
    <2> HIDE DEF reads
    <2> QED
        BY <2>2, <2>3, SomeError
<1>11. /\ IF isError(FirstError(reads))
            THEN Throw(m, FirstError(reads)) /\ UNCHANGED squashedDictManager
            ELSE IF done < count
                   THEN /\ Throw(m, read[done])
                        /\ keyToIndices' = Inserted(read, done)
                        /\ UNCHANGED keys
                   ELSE StartSquash(m, Inserted(read, count), bigKeys, firstKey)
       /\ UNCHANGED dictManager
    <2>1. /\ ValueOf(m, Regs, Imm(dictPtr[d])) = diff
          /\ ValueOf(m, Regs, Imm(count)) = number
        BY ValueOfImmediate
    <2> QED
        BY <1>4, <1>8, <1>9, <2>1, ZenonT(60) DEF initSquashData
<1>12. InitOutcome(m, read, count)
    <2>1. CASE isError(FirstError(reads))
        <3>1. FirstError(reads) \in Errors
            BY <1>10, <2>1, Tags
        <3> QED
            BY <1>11, <2>1, <3>1 DEF InitOutcome
    <2>2. CASE ~isError(FirstError(reads))
        <3> HIDE DEF read, reads
        <3> QED
            BY <1>11, <2>2 DEF InitOutcome
    <2> QED
        BY <2>1, <2>2
<1>13. InitReads(m, read, d, count)
    BY <1>7 DEF InitReads
<1>14. UNCHANGED dictManager
    BY <1>11
<1> HIDE DEF read, m
<1>15. /\ d \in DOMAIN dictManager
       /\ count \in Nat /\ count > 0 /\ count <= limits.accesses /\ UNCHANGED dictManager
       /\ \E k, list : InitReads(k, list, d, count) /\ InitOutcome(k, list, count)
    BY <1>5, <1>12, <1>13, <1>14
<1> QED
    BY <1>15 DEF count, d

LEMMA InitSquashStep ==
    ASSUME Before, InitSquash
    PROVE IInv' /\ Elsewhere(segments, segments', {0})
<1>1. /\ pending = <<>> /\ squash.at # "none"
      /\ Continue(thrown' # undefined, "index", visited)
    BY DEF InitSquash, Squashing
<1>2. SquashGoesOn
    BY <1>1, ContinueGoesOn
<1>3. PICK d, count : d = squash.dict /\ count = AccessCount(d)
    OBVIOUS
<1>4. /\ d \in DOMAIN dictManager
      /\ count \in Nat /\ count > 0 /\ count <= limits.accesses /\ UNCHANGED dictManager
      /\ \E m, read : InitReads(m, read, d, count) /\ InitOutcome(m, read, count)
    BY <1>3, InitSquashHint
<1>5. PICK m, read : InitReads(m, read, d, count) /\ InitOutcome(m, read, count)
    BY <1>4
<1>6. /\ m \in Memories(SegmentValue) /\ Len(m) = Len(segments)
      /\ Elsewhere(segments, m, {0})
    BY <1>5 DEF InitReads
<1>7. limits' = limits /\ limits \in Limits
    BY <1>2, StateFacts DEF SquashGoesOn, programVars
<1> DEFINE done == InsertedCount(read, count)
           bigKeys == cellRefToRelocatable(Regs, Cell(1))
           firstKey == cellRefToRelocatable(Regs, Cell(2))
<1>8. \A i \in 0..(count - 1) : IF isError(read[i]) THEN read[i] \in Errors
                                                     ELSE read[i].inner \in Keys
    BY <1>4, <1>5, <1>6, ReadKeys DEF InitReads
<1>9. /\ done \in 0..count
      /\ \A i \in 0..(done - 1) : ~isError(read[i])
      /\ done < count => isError(read[done])
    BY <1>4, InsertedCountType
<1> HIDE DEF done
<1>10. ASSUME NEW k \in Nat, k <= count, \A i \in 0..(k - 1) : ~isError(read[i])
       PROVE /\ Inserted(read, k) \in IndexLists
             /\ IsFiniteSet(DOMAIN Inserted(read, k))
             /\ k > 0 => DOMAIN Inserted(read, k) # {}
    <2>1. \A i \in 0..(k - 1) : read[i].inner \in Keys
        BY <1>4, <1>8, <1>10
    <2>2. k <= limits.accesses
        BY <1>4, <1>7, <1>10, SmallNumbers
    <2> QED
        BY <2>1, <2>2, InsertedType
<1>11. /\ Listed' /\ thrown' \in {undefined} \cup Errors
       /\ Elsewhere(m, segments', {0})
    <2>0. Listed
        BY DEF Before, IInv, Typed
    <2>1. CASE (\E e \in Errors : Throw(m, e)) /\ UNCHANGED squashedDictManager
        <3>1. Listed'
            BY <1>7, <2>0, <2>1 DEF Listed, IndexLists, squashedDictManager
        <3> QED
            BY <1>6, <2>1, <3>1, ThrowStep
    <2>2. CASE done < count /\ Throw(m, read[done])
               /\ keyToIndices' = Inserted(read, done) /\ keys' = keys
        <3>1. done \in Nat /\ done <= count /\ done \in 0..(count - 1)
            BY <1>4, <1>9, <2>2
        <3>2. read[done] \in Errors
            BY <1>8, <1>9, <2>2, <3>1
        <3>3. /\ Inserted(read, done) \in IndexLists
              /\ IsFiniteSet(DOMAIN Inserted(read, done))
            BY <1>9, <1>10, <3>1
        <3>4. Listed'
            BY <1>7, <2>0, <2>2, <3>3 DEF Listed, IndexLists
        <3> QED
            BY <1>6, <2>2, <3>2, <3>4, ThrowStep
    <2>3. CASE ~(done < count) /\ StartSquash(m, Inserted(read, count), bigKeys, firstKey)
        <3>1. done = count
            BY <1>4, <1>9, <2>3
        <3>2. /\ Inserted(read, count) \in IndexLists
              /\ IsFiniteSet(DOMAIN Inserted(read, count))
              /\ DOMAIN Inserted(read, count) # {}
            BY <1>4, <1>9, <1>10, <3>1
        <3>3. /\ bigKeys \in Relocatables /\ bigKeys.segmentId = 0
              /\ firstKey \in Relocatables /\ firstKey.segmentId = 0
            BY FlagCell
        <3> HIDE DEF bigKeys, firstKey
        <3> QED
            BY <1>6, <1>7, <2>3, <3>2, <3>3, StartSquashStep
    <2> QED
        BY <1>5, <2>1, <2>2, <2>3 DEF InitOutcome, done
<1>12. Elsewhere(segments, segments', {0})
    BY <1>6, <1>11, ElsewhereTransitive
<1>13. Elsewhere(segments, segments', {0, RangeCheck})
    BY <1>12, ElsewhereWidens
<1> QED
    BY <1>1, <1>2, <1>4, <1>11, <1>12, <1>13, SquashHintStep

-----------------------------------------------------------------------------
(* The other steps *)

\* What BeginSquash asserts: about the info of the dictionary, then the arena
LEMMA BlockType ==
    ASSUME Before, NEW n \in Nat, NEW k \in Nat
    PROVE /\ NewBlock(n, k) \in Seq(Assertion) /\ Len(NewBlock(n, k)) = 3
          /\ \A i \in 1..3 : NewBlock(n, k)[i].address.segmentId = Arena
          /\ NewBlock(n, k)[1] = Equals(Arena, arenaPtr, Relocatable(Info, 0))
          /\ NewBlock(n, k)[2] = Equals(Arena, arenaPtr + 1, Felt(n))
<1> DEFINE a == Equals(Arena, arenaPtr, Relocatable(Info, 0))
           b == Equals(Arena, arenaPtr + 1, Felt(n))
           c == Equals(Arena, arenaPtr + 2, Felt(k))
<1>1. /\ Relocatable(Info, 0) \in SegmentValue /\ Felt(n) \in SegmentValue
      /\ Felt(k) \in SegmentValue
    BY RelocatableType, FeltType, KindsAreValues DEF Info
<1>2. ASSUME NEW o \in Int, NEW v \in SegmentValue
      PROVE /\ Equals(Arena, o, v) \in Assertion
            /\ Equals(Arena, o, v).address.segmentId = Arena
    <2>1. Relocatable(Arena, o) \in Relocatables /\ Relocatable(Arena, o).segmentId = Arena
        BY RelocatableType DEF Arena
    <2> QED
        BY <2>1 DEF Equals, Assertion
<1>3. arenaPtr \in Int /\ arenaPtr + 1 \in Int /\ arenaPtr + 2 \in Int
    BY StateFacts
<1>4. /\ a \in Assertion /\ b \in Assertion /\ c \in Assertion
      /\ a.address.segmentId = Arena /\ b.address.segmentId = Arena
      /\ c.address.segmentId = Arena
    BY <1>1, <1>2, <1>3
<1>5. NewBlock(n, k) = <<a, b, c>>
    BY DEF NewBlock
<1> HIDE DEF a, b, c
<1>6. <<a, b, c>> \in Seq(Assertion) /\ Len(<<a, b, c>>) = 3
    BY <1>4
<1>7. \A i \in 1..3 : <<a, b, c>>[i].address.segmentId = Arena
    BY <1>4
<1> QED
    BY <1>5, <1>6, <1>7 DEF a, b

LEMMA InfoChecksType ==
    ASSUME Before, NEW index \in Nat, NEW d \in DOMAIN dictManager
    PROVE /\ InfoChecks(index, d) \in Seq(Assertion) /\ Len(InfoChecks(index, d)) = 3
          /\ \A i \in 1..3 : InfoChecks(index, d)[i].address.segmentId = Info
<1> DEFINE n == Cardinality(squashed)
           a == Equals(Info, 3 * index, Relocatable(d, 0))
           b == Equals(Info, 3 * index + 1, DictEnd(d))
           c == Equals(Info, 3 * index + 2, Felt(n))
<1>0. d \in Nat /\ dictPtr[d] \in Int
    BY DictionaryFacts
<1>1. n \in Nat
    <2>1. squashed \subseteq DOMAIN dictPtr
        BY DEF Before, IInv, Squashes
    <2>2. IsFiniteSet(squashed)
        BY <2>1, StateFacts, FS_Subset
    <2> QED
        BY <2>2, FS_CardinalityType
<1>2. /\ Relocatable(d, 0) \in SegmentValue /\ DictEnd(d) \in SegmentValue
      /\ Felt(n) \in SegmentValue
    BY <1>0, <1>1, RelocatableType, FeltType, KindsAreValues DEF DictEnd
<1>3. ASSUME NEW o \in Int, NEW v \in SegmentValue
      PROVE /\ Equals(Info, o, v) \in Assertion
            /\ Equals(Info, o, v).address.segmentId = Info
    <2>1. Relocatable(Info, o) \in Relocatables /\ Relocatable(Info, o).segmentId = Info
        BY RelocatableType DEF Info
    <2> QED
        BY <2>1 DEF Equals, Assertion
<1>4. /\ a \in Assertion /\ b \in Assertion /\ c \in Assertion
      /\ a.address.segmentId = Info /\ b.address.segmentId = Info
      /\ c.address.segmentId = Info
    <2> HIDE DEF n
    <2> QED
        BY <1>2, <1>3
<1>5. InfoChecks(index, d) = <<a, b, c>>
    BY DEF InfoChecks
<1> HIDE DEF a, b, c
<1>6. <<a, b, c>> \in Seq(Assertion) /\ Len(<<a, b, c>>) = 3
    BY <1>4
<1>7. \A i \in 1..3 : <<a, b, c>>[i].address.segmentId = Info
    BY <1>4
<1> QED
    BY <1>5, <1>6, <1>7

LEMMA SquashedCount ==
    ASSUME Before
    PROVE Cardinality(squashed) \in Nat
<1>1. squashed \subseteq DOMAIN dictPtr
    BY DEF Before, IInv, Squashes
<1>2. IsFiniteSet(squashed)
    BY <1>1, StateFacts, FS_Subset
<1> QED
    BY <1>2, FS_CardinalityType

\* The hint gives the number of the dictionary.
LEMMA ArenaIndexHint ==
    ASSUME Before, NEW d \in DOMAIN dictPtr,
           getSegmentArenaIndex(Framed(DictEnd(d)), Regs, DerefAp(0), Cell(1))
    PROVE /\ Elsewhere(segments, segments', {0}) /\ thrown' \in {undefined} \cup Errors
          /\ thrown' = undefined => Filled(1).inner = d - 4
          /\ UNCHANGED <<dictManager, squashedDictManager>>
<1> DEFINE end == DictEnd(d)
           m == Framed(end)
           at == cellRefToRelocatable(Regs, Cell(1))
           id == Felt(d - 4)
<1>1. /\ d \in DOMAIN dictManager /\ d \in Nat /\ d >= 4 /\ d <= Len(segments) - 1
      /\ dictPtr[d] \in Nat /\ dictPtr[d] + 3 <= Top
      /\ dictManager[d].id = Felt(d - 4) /\ ~isError(dictManager[d])
    <2>1. d \in DOMAIN dictManager
        BY StateFacts
    <2> QED
        BY <2>1, DictionaryFacts
<1>2. /\ end \in Relocatables /\ end \in SegmentValue /\ ~isError(end)
      /\ end.segmentId = d
    BY <1>1, RelocatableType DEF DictEnd
<1>3. id \in Felts /\ id.inner = d - 4 /\ id \in SegmentValue
    <2>1. d - 4 \in 0..Top /\ limits \in Limits
        BY <1>1, StateFacts
    <2> QED
        BY <2>1, SmallFelts, KindsAreValues
<1>4. /\ m \in Memories(SegmentValue) /\ Len(m) > 0 /\ ap \in Nat
      /\ Len(m) = Len(segments) /\ 0 \in 0..(Len(m) - 1)
      /\ Elsewhere(segments, m, {0}) /\ CellAt(m, Relocatable(0, ap)) = end
    BY <1>2, OneFrame, StateFacts
<1>5. at = Relocatable(0, ap + 1) /\ at \in Relocatables /\ at.segmentId = 0
      /\ at.offset = ap + 1
    BY <1>4, CellReference, RelocatableType
<1> HIDE DEF m
<1>6. PointerOf(m, Regs, DerefAp(0)) = end
    <2>1. PointerOf(m, Regs, DerefAp(0)) = AddFelt(end, Zero)
        BY <1>2, <1>4, PointerInFrame
    <2>2. AddFelt(Relocatable(d, dictPtr[d]), Felt(0)) = Relocatable(d, dictPtr[d] + 0)
        BY <1>1, SmallSums, StateFacts
    <2> QED
        BY <1>1, <2>1, <2>2 DEF Zero, DictEnd
<1>7. getDict(end) = dictManager[d]
    BY <1>1, <1>2 DEF getDict
<1>8. AssertEq(m, at, id) /\ UNCHANGED <<dictManager, squashedDictManager>>
    BY <1>1, <1>6, <1>7 DEF getSegmentArenaIndex, m
<1>9. Elsewhere(m, segments', {0}) /\ thrown' \in {undefined} \cup Errors
    BY <1>3, <1>4, <1>5, <1>8, AssertEqStep
<1>10. ASSUME thrown' = undefined
       PROVE Filled(1).inner = d - 4
    <2>1. segments' = assertEq(m, at, id).segments /\ assertEq(m, at, id).value = undefined
        BY <1>8, <1>10 DEF AssertEq, Written
    <2>2. Writes(m, segments', 0, ap + 1, id)
        BY <1>3, <1>4, <1>5, <2>1, AssertEqWrites
    <2>3. CellAt(segments', Relocatable(0, ap + 1)) = id
        BY <1>4, <2>2 DEF Writes
    <2>4. CellAt(segments', Relocatable(0, ap + 1)).inner = d - 4
        BY <1>3, <2>3
    <2> QED
        BY <2>4 DEF Filled
<1> QED
    BY <1>4, <1>8, <1>9, <1>10, ElsewhereTransitive

LEMMA BeginSquashStep ==
    ASSUME Before, NEW d \in DOMAIN dictPtr, BeginSquash(d)
    PROVE IInv'
<1> DEFINE n == Cardinality(DOMAIN dictPtr)
           k == Cardinality(squashed)
           infos == InfoChecks(d - 4, d)
           block == NewBlock(n, k + 1)
<1>1. /\ pending = <<>> /\ squash.at = "none" /\ d \notin squashed
      /\ AccessCount(d) > 0 /\ k < limits.squashes
    BY DEF BeginSquash, Ready
<1>2. getSegmentArenaIndex(Framed(DictEnd(d)), Regs, DerefAp(0), Cell(1))
    BY DEF BeginSquash
<1>3. /\ Elsewhere(segments, segments', {0}) /\ thrown' \in {undefined} \cup Errors
      /\ thrown' = undefined => Filled(1).inner = d - 4
      /\ UNCHANGED <<dictManager, squashedDictManager>>
    BY <1>2, ArenaIndexHint
<1>4. /\ d \in DOMAIN dictManager /\ d - 4 \in Nat /\ dictPtr[d] > 0
      /\ n \in Nat /\ k \in Nat /\ limits \in Limits /\ limits.squashes \in Nat
      /\ arenaPtr \in Int /\ {0} \subseteq 0..3 /\ ap \in Nat
    <2>1. d \in DOMAIN dictManager /\ limits \in Limits /\ n \in Nat /\ arenaPtr \in Int
          /\ ap \in Nat
        BY StateFacts, FS_CardinalityType
    <2>2. d \in Nat /\ d >= 4 /\ dictPtr[d] = 3 * AccessCount(d) /\ AccessCount(d) \in Nat
        BY <2>1, DictionaryFacts
    <2> QED
        BY <1>1, <2>1, <2>2, SquashedCount, SmallNumbers
<1>5. /\ Typed /\ Controlled /\ Squashes /\ ArenaHolds /\ Listed
    BY DEF Before, IInv, Typed
<1>6. CASE thrown' # undefined
    <2>1. UNCHANGED programVars
        BY <1>6 DEF BeginSquash, Unless
    <2>2. /\ UNCHANGED <<limits, dictManager, dictPtr, open>>
          /\ pending' = <<>> /\ <<>> \in Seq(Assertion)
        BY <1>1, <1>3, <2>1 DEF programVars
    <2>3. Listed'
        BY <1>3, <1>5, <2>2 DEF Listed, IndexLists, squashedDictManager
    <2>4. ASSUME NEW e \in DOMAIN dictManager
          PROVE /\ \A v : NewIs(e, v)' <=> NewIs(e, v)
                /\ \A o, v : Asserts(e, o, v) => Asserts(e, o, v)'
        BY <1>1, <2>2 DEF NewIs, Asserts, LastNew
    <2>5. Typed' /\ Replays'
        BY <1>3, <1>4, <2>2, <2>3, <2>4, QuietStep
    <2> QED
        BY <1>6, <2>5 DEF IInv, Running
<1>7. CASE thrown' = undefined
    <2>1. /\ pending' = infos \o block
          /\ arenaPtr' = arenaPtr + 3
          /\ squash' = [at |-> "init", dict |-> d]
          /\ UNCHANGED <<dictPtr, open, visited, limits, ahead, squashed>>
          /\ ap' = ap + FRAME
        BY <1>3, <1>7 DEF BeginSquash, Unless
    <2>2. /\ infos \in Seq(Assertion) /\ Len(infos) = 3
          /\ \A i \in 1..3 : infos[i].address.segmentId = Info
          /\ block \in Seq(Assertion) /\ Len(block) = 3
          /\ \A i \in 1..3 : block[i].address.segmentId = Arena
          /\ block[1] = Equals(Arena, arenaPtr, Relocatable(Info, 0))
          /\ block[2] = Equals(Arena, arenaPtr + 1, Felt(n))
        <3>1. k + 1 \in Nat
            BY <1>4
        <3>2. /\ block \in Seq(Assertion) /\ Len(block) = 3
              /\ \A i \in 1..3 : block[i].address.segmentId = Arena
              /\ block[1] = Equals(Arena, arenaPtr, Relocatable(Info, 0))
              /\ block[2] = Equals(Arena, arenaPtr + 1, Felt(n))
            <4> HIDE DEF n, k
            <4> QED
                BY <1>4, <3>1, BlockType
        <3>3. /\ infos \in Seq(Assertion) /\ Len(infos) = 3
              /\ \A i \in 1..3 : infos[i].address.segmentId = Info
            BY <1>4, InfoChecksType
        <3> QED
            BY <3>2, <3>3
    <2> HIDE DEF infos, block, n, k
    <2>3. /\ pending' \in Seq(Assertion) /\ DOMAIN pending' = 1..6
          /\ \A i \in 1..6 : pending'[i].address.segmentId \in {Info, Arena}
          /\ pending'[4] = Equals(Arena, arenaPtr, Relocatable(Info, 0))
          /\ pending'[5] = Equals(Arena, arenaPtr + 1, Felt(n))
        <3>1. /\ infos \o block \in Seq(Assertion) /\ Len(infos \o block) = 6
              /\ \A i \in 1..3 : (infos \o block)[i] = infos[i]
              /\ \A i \in 4..6 : (infos \o block)[i] = block[i - 3]
            <4>1. /\ infos \o block \in Seq(Assertion)
                  /\ Len(infos \o block) = Len(infos) + Len(block)
                  /\ \A i \in 1..Len(infos) + Len(block) : (infos \o block)[i] =
                         IF i <= Len(infos) THEN infos[i] ELSE block[i - Len(infos)]
                BY <2>2, ConcatProperties
            <4>2. Len(infos) = 3 /\ Len(block) = 3
                BY <2>2
            <4> QED
                BY <4>1, <4>2
        <3>2. pending' = infos \o block /\ DOMAIN pending' = 1..6
            BY <2>1, <3>1, LenProperties
        <3>3. ASSUME NEW i \in 1..6
              PROVE pending'[i].address.segmentId \in {Info, Arena}
            <4>1. i \in 1..3 \/ (i \in 4..6 /\ i - 3 \in 1..3)
                OBVIOUS
            <4> QED
                BY <2>2, <3>1, <3>2, <4>1
        <3>4. pending'[4] = block[1] /\ pending'[5] = block[2]
            BY <3>1, <3>2
        <3> QED
            BY <2>2, <3>1, <3>2, <3>3, <3>4
    <2>4. Listed'
        BY <1>3, <1>5, <2>1 DEF Listed, IndexLists, squashedDictManager
    <2>5. ASSUME NEW e \in DOMAIN dictManager
          PROVE /\ \A v : NewIs(e, v)' <=> NewIs(e, v)
                /\ \A o, v : Asserts(e, o, v) => Asserts(e, o, v)'
        <3>1. e \notin {Info, Arena} /\ e \in Nat /\ dictPtr[e] \in Int
            BY DictionaryFacts DEF Info, Arena
        <3>2. ~(\E v : NewIs(e, v))
            BY <1>1 DEF NewIs
        <3>3. ASSUME NEW v, NewIs(e, v)'
              PROVE FALSE
            <4>1. pending' = <<Equals(e, LastNew(e)', v)>>
                BY <3>3 DEF NewIs, LastNew, Equals, Relocatable
            <4>2. pending'[1].address.segmentId = e
                BY <4>1 DEF Equals, Relocatable
            <4> QED
                BY <2>3, <3>1, <4>2
        <3>4. ~(\E o, v : Asserts(e, o, v))
            BY <1>1 DEF Asserts
        <3> QED
            BY <3>2, <3>3, <3>4
    <2>6. Typed' /\ Replays' /\ DictionariesHold'
        BY <1>3, <1>4, <2>1, <2>3, <2>4, <2>5, QuietStep
    <2>7. Squashes' /\ SquashesBegun' = k + 1 /\ SquashesBegun = k
        <3>1. SquashesBegun' = k + 1 /\ SquashesBegun = k
            BY <1>1, <1>4, <2>1 DEF SquashesBegun, k
        <3>2. squashed' \subseteq DOMAIN dictPtr' /\ d \in DOMAIN dictPtr' \ squashed'
              /\ dictPtr'[d] > 0 /\ limits' = limits
            BY <1>1, <1>4, <1>5, <2>1 DEF Squashes
        <3>3. (\E at, e : /\ squash = [at |-> at, dict |-> e]
                          /\ at # "none" /\ e \in DOMAIN dictPtr \ squashed /\ dictPtr[e] > 0)'
            <4>1. "init" # "none"
                OBVIOUS
            <4> QED
                BY <2>1, <3>2, <4>1
        <3>4. (SquashesBegun <= limits.squashes)'
            BY <1>1, <1>4, <3>1, <3>2
        <3> QED
            BY <3>1, <3>2, <3>3, <3>4 DEF Squashes
    <2>8. Controlled'
        <3>1. ap' \in Nat
            BY <1>4, <2>1 DEF FRAME
        <3>2. n \in Nat /\ n = Cardinality(DOMAIN dictPtr) /\ n = Cardinality(DOMAIN dictPtr)'
            BY <1>4, <2>1 DEF n
        <3>3. arenaPtr' = 3 + 3 * (n + SquashesBegun')
            <4>1. arenaPtr = 3 + 3 * (n + k)
                BY <1>5, <2>7, <3>2 DEF Controlled
            <4> QED
                BY <1>4, <2>1, <2>7, <4>1
        <3>4. (arenaPtr = 3 + 3 * (Cardinality(DOMAIN dictPtr) + SquashesBegun))'
            BY <3>2, <3>3
        <3>5. UNCHANGED <<dictManager, dictPtr, open, limits>>
            BY <1>3, <2>1
        <3> QED
            BY <1>5, <3>1, <3>4, <3>5 DEF Controlled
    <2>9. ArenaHolds'
        <3>1. PICK a \in Int : a = arenaPtr /\ arenaPtr' = a + 3
            BY <1>4, <2>1
        <3>2. PICK c : c = n /\ c = Cardinality(DOMAIN dictPtr)'
            BY <2>1 DEF n
        <3>3. /\ Asserts(Arena, a, Relocatable(Info, 0))'
              /\ Asserts(Arena, a + 1, Felt(c))'
            <4>1. 4 \in DOMAIN pending' /\ 5 \in DOMAIN pending'
                BY <2>3
            <4>2. /\ pending'[4] = Equals(Arena, a, Relocatable(Info, 0))
                  /\ pending'[5] = Equals(Arena, a + 1, Felt(c))
                BY <2>3, <3>1, <3>2
            <4> QED
                BY <4>1, <4>2 DEF Asserts
        <3>4. ASSUME NEW e \in DOMAIN dictManager
              PROVE CellOf(Info, 3 * (e - 4))' = Relocatable(e, 0)
            <4>1. CellOf(Info, 3 * (e - 4)) = Relocatable(e, 0)
                BY <1>5 DEF ArenaHolds
            <4>2. 3 * (e - 4) \in Int
                <5>1. e \in Nat
                    BY DictionaryFacts
                <5> QED
                    BY <5>1
            <4>3. Info \in 0..(Len(segments) - 1) /\ Info \notin {0}
                BY StateFacts DEF Info
            <4> QED
                BY <1>3, <4>1, <4>2, <4>3, CellsElsewhere
        <3>5. arenaPtr' - 3 = a /\ arenaPtr' - 2 = a + 1
            BY <3>1
        <3>6. /\ Promised(Arena, arenaPtr - 3, Relocatable(Info, 0))'
              /\ Promised(Arena, arenaPtr - 2, Felt(Cardinality(DOMAIN dictPtr)))'
            BY <3>2, <3>3, <3>5 DEF Promised, Asserts, Equals
        <3>7. \A e \in DOMAIN dictManager' : CellOf(Info, 3 * (e - 4))' = Relocatable(e, 0)
            BY <1>3, <3>4
        <3> QED
            BY <3>6, <3>7 DEF ArenaHolds, CellOf
    <2>10. PendingKinds'
        BY <2>3 DEF PendingKinds
    <2> QED
        BY <1>7, <2>6, <2>7, <2>8, <2>9, <2>10 DEF IInv, Running
<1> QED
    BY <1>6, <1>7

\* Is the program about to assert something of segment e?
About(e) == \E k \in DOMAIN pending : pending[k].address.segmentId = e

LEMMA NotAbout ==
    ASSUME NEW e
    PROVE /\ ~About(e) => (\A v : ~NewIs(e, v)) /\ (\A o, v : ~Asserts(e, o, v))
          /\ ~About(e)' => (\A v : ~NewIs(e, v)') /\ (\A o, v : ~Asserts(e, o, v)')
<1>1. ASSUME NEW o, NEW v, Asserts(e, o, v)
      PROVE About(e)
    BY <1>1 DEF Asserts, About, Equals, Relocatable
<1>2. ASSUME NEW v, NewIs(e, v)
      PROVE About(e)
    <2>1. 1 \in DOMAIN pending /\ pending[1].address.segmentId = e
        BY <1>2 DEF NewIs, Equals, Relocatable
    <2> QED
        BY <2>1 DEF About
<1>3. ASSUME NEW o, NEW v, Asserts(e, o, v)'
      PROVE About(e)'
    BY <1>3 DEF Asserts, About, Equals, Relocatable
<1>4. ASSUME NEW v, NewIs(e, v)'
      PROVE About(e)'
    <2>1. 1 \in DOMAIN pending' /\ pending'[1].address.segmentId = e
        BY <1>4 DEF NewIs, Equals, Relocatable
    <2> QED
        BY <2>1 DEF About
<1> QED
    BY <1>1, <1>2, <1>3, <1>4

\* A dictionary that a step is not about
LEMMA OtherDictionary ==
    ASSUME Before, NEW T, Elsewhere(segments, segments', T), limits' = limits,
           NEW e \in DOMAIN dictManager, e \notin T,
           dictManager'[e] = dictManager[e], dictPtr'[e] = dictPtr[e],
           e \in open' <=> e \in open, ~About(e), ~About(e)'
    PROVE ReplaysIn(e)' /\ HoldsIn(e)'
<1>1. limits \in Limits /\ dictPtr[e] \in Int /\ e \in 0..(Len(segments) - 1)
    BY StateFacts, DictionaryFacts
<1>2. \A o \in Int : CellOf(e, o)' = CellOf(e, o)
    BY <1>1, CellsElsewhere
<1>3. DictKept(e)
    BY <1>2, NotAbout DEF DictKept
<1>4. ReplaysIn(e) /\ HoldsIn(e)
    BY DEF Before, IInv, Replays, DictionariesHold
<1> QED
    BY <1>1, <1>3, <1>4, DictFrame

\* One whose accesses and entries stay
LEMMA ReplaysFrame ==
    ASSUME Before, NEW d \in DOMAIN dictManager, AccessesKept(d), ~About(d),
           \A key \in Keys : Entry(dictManager'[d], key) = Entry(dictManager[d], key)
    PROVE ReplaysIn(d)' /\ \A key \in Keys : EntryReplays(d, key)'
<1>1. limits \in Limits /\ limits' = limits
    BY StateFacts DEF AccessesKept
<1>2. PrevsReplay(d) /\ \A key \in Keys : EntryReplays(d, key)
    BY NotAbout DEF Before, IInv, Replays, ReplaysIn, NewPending
<1>3. /\ \A key, n : Replayed(d, key, n)' = Replayed(d, key, n)
      /\ PrevsReplay(d)'
    BY <1>1, <1>2, ReplayKept
<1>4. ASSUME NEW key \in Keys
      PROVE EntryReplays(d, key)'
    <2>1. PICK n : n = limits.accesses /\ n = limits.accesses'
        BY <1>1
    <2>2. Replayed(d, key, limits.accesses)' = Replayed(d, key, n)'
        BY <2>1 DEF Replayed, Earlier, NewOf, CellOf
    <2>3. Entry(dictManager[d], key) = Replayed(d, key, n)
        BY <1>2, <2>1 DEF EntryReplays
    <2>4. Entry(dictManager'[d], key) = Replayed(d, key, limits.accesses)'
        BY <1>3, <2>2, <2>3
    <2> QED
        BY <2>4 DEF EntryReplays, Entry
<1> QED
    BY <1>3, <1>4 DEF ReplaysIn

LEMMA TypedKept ==
    ASSUME Before, NEW T, Elsewhere(segments, segments', T),
           UNCHANGED <<limits, squashedDictManager>>, DOMAIN dictManager' = DOMAIN dictManager,
           \A d \in DOMAIN dictManager :
               /\ dictManager'[d] \in [tag : {"dictionary"}, id : Felts,
                                       entries : DictionaryMaps]
               /\ dictManager'[d].id = dictManager[d].id,
           thrown' \in {undefined} \cup Errors, pending' \in Seq(Assertion)
    PROVE Typed'
<1>1. /\ segments' \in Memories(SegmentValue) /\ Len(segments') = Len(segments)
      /\ \A i \in 1..Len(segments) : segments'[i].builtin = segments[i].builtin
    BY DEF Elsewhere
<1>2. /\ Len(segments) \in Nat /\ DOMAIN dictManager = 4..(Len(segments) - 1)
      /\ Typed /\ Managed /\ Listed
    <2>1. Typed /\ Managed /\ Listed
        BY DEF Before, IInv, Typed
    <2> QED
        BY <2>1, StateFacts
<1>3. Managed'
    BY <1>1, <1>2 DEF Managed
<1>4. Listed'
    BY <1>2 DEF Listed, IndexLists, squashedDictManager
<1> QED
    BY <1>1, <1>2, <1>3, <1>4 DEF Typed

LEMMA ControlKept ==
    ASSUME Before,
           UNCHANGED <<dictManager, limits, ap, arenaPtr, dictPtr, open, squash, squashed>>
    PROVE Controlled' /\ Squashes'
<1>1. Controlled /\ Squashes
    BY DEF Before, IInv
<1>2. SquashesBegun' = SquashesBegun
    BY DEF SquashesBegun
<1> QED
    BY <1>1, <1>2 DEF Controlled, Squashes

-----------------------------------------------------------------------------
(* The assertions of the program *)

LEMMA HeadFacts ==
    ASSUME Before, AssertInstruction, NEW h, h = Head(pending)
    PROVE /\ h \in Assertion /\ h = pending[1] /\ Len(pending) \in Nat /\ Len(pending) > 0
          /\ pending' \in Seq(Assertion) /\ Len(pending') = Len(pending) - 1
          /\ \A i \in 1..Len(pending') : i + 1 \in 1..Len(pending) /\ pending'[i] = pending[i + 1]
          /\ \A i \in 1..Len(pending) : i # 1 => i - 1 \in 1..Len(pending')
                                                /\ pending'[i - 1] = pending[i]
          /\ UNCHANGED <<dictManager, squashedDictManager, limits, ap, arenaPtr, dictPtr, open,
                         ahead, squash, visited, squashed>>
          /\ thrown' \in {undefined} \cup Errors
          /\ Elsewhere(segments, segments', {h.address.segmentId})
          /\ thrown' # undefined => segments' = segments
          /\ thrown' = undefined =>
                /\ CellAt(segments, h.address) \in {undefined, h.value}
                /\ Writes(segments, segments', h.address.segmentId, h.address.offset, h.value)
          /\ /\ InSegment(segments, h.address) /\ CellAt(segments, h.address) = undefined
             /\ segments[h.address.segmentId + 1].builtin = "none"
             => thrown' = undefined
<1>1. pending \in Seq(Assertion) /\ pending # <<>>
    BY DEF Before, IInv, Typed, AssertInstruction
<1>2. /\ Len(pending) \in Nat /\ Len(pending) > 0 /\ h \in Assertion /\ h = pending[1]
      /\ pending' \in Seq(Assertion) /\ Len(pending') = Len(pending) - 1
      /\ \A i \in 1..Len(pending') : pending'[i] = pending[i + 1]
    <2>1. pending' = Tail(pending)
        BY DEF AssertInstruction
    <2>2. Len(pending) \in Nat /\ Len(pending) > 0
        BY <1>1, LenProperties, EmptySeq
    <2>3. h \in Assertion /\ h = pending[1]
        <3>1. h = pending[1]
            BY <1>1
        <3> QED
            BY <1>1, <2>2, <3>1, LenProperties
    <2>4. /\ pending' \in Seq(Assertion) /\ Len(pending') = Len(pending) - 1
          /\ \A i \in 1..Len(pending') : pending'[i] = pending[i + 1]
        BY <1>1, <2>1, HeadTailProperties
    <2> QED
        BY <2>2, <2>3, <2>4
<1>3. /\ AssertEq(segments, h.address, h.value)
      /\ UNCHANGED <<dictManager, squashedDictManager, limits, ap, arenaPtr, dictPtr, open,
                     ahead, squash, visited, squashed>>
    BY DEF AssertInstruction
<1>4. h.address \in Relocatables /\ h.value \in SegmentValue
    BY <1>2 DEF Assertion
<1>5. segments \in Memories(SegmentValue)
    BY StateFacts
<1> DEFINE write == assertEq(segments, h.address, h.value)
<1>6. segments' = write.segments /\ thrown' = write.value
    BY <1>3 DEF AssertEq, Written
<1>7. /\ write.value \in {undefined} \cup Errors
      /\ write.value # undefined => write.segments = segments
      /\ write.value = undefined =>
            /\ CellAt(segments, h.address) \in {undefined, h.value}
            /\ Writes(segments, write.segments, h.address.segmentId, h.address.offset, h.value)
      /\ /\ InSegment(segments, h.address) /\ CellAt(segments, h.address) = undefined
         /\ segments[h.address.segmentId + 1].builtin = "none"
         => write.value = undefined
    BY <1>4, <1>5, AssertEqWrites
<1>8. Elsewhere(segments, segments', {h.address.segmentId})
    BY <1>4, <1>5, <1>6, AssertEqElsewhere
<1>9. /\ \A i \in 1..Len(pending') : i + 1 \in 1..Len(pending)
      /\ \A i \in 1..Len(pending) : i # 1 => i - 1 \in 1..Len(pending')
                                            /\ pending'[i - 1] = pending[i]
    BY <1>2
<1> HIDE DEF write
<1> QED
    BY <1>2, <1>3, <1>6, <1>7, <1>8, <1>9

\* An assertion about the arena or an info
LEMMA AssertArenaStep ==
    ASSUME Before, AssertInstruction,
           \A k \in DOMAIN pending : pending[k].address.segmentId \in {Info, Arena}
    PROVE IInv'
<1>1. PICK h : h = Head(pending)
    OBVIOUS
<1>2. /\ h \in Assertion /\ h = pending[1] /\ Len(pending) \in Nat /\ Len(pending) > 0
      /\ pending' \in Seq(Assertion) /\ Len(pending') = Len(pending) - 1
      /\ \A i \in 1..Len(pending') : i + 1 \in 1..Len(pending) /\ pending'[i] = pending[i + 1]
      /\ \A i \in 1..Len(pending) : i # 1 => i - 1 \in 1..Len(pending')
                                            /\ pending'[i - 1] = pending[i]
      /\ UNCHANGED <<dictManager, squashedDictManager, limits, ap, arenaPtr, dictPtr, open,
                     ahead, squash, visited, squashed>>
      /\ thrown' \in {undefined} \cup Errors
      /\ Elsewhere(segments, segments', {h.address.segmentId})
    BY <1>1, HeadFacts
<1>3. DOMAIN pending = 1..Len(pending) /\ DOMAIN pending' = 1..Len(pending')
    BY <1>2, LenProperties DEF Before, IInv, Typed
<1>4. h.address.segmentId \in {Info, Arena}
    BY <1>2, <1>3
<1>5. \A k \in DOMAIN pending' : pending'[k].address.segmentId \in {Info, Arena}
    BY <1>2, <1>3
<1>6. Elsewhere(segments, segments', {Info, Arena})
    BY <1>2, <1>4 DEF Elsewhere
<1>7. Typed' /\ Replays' /\ DictionariesHold'
    <2>1. {Info, Arena} \subseteq 0..3
        BY DEF Info, Arena
    <2>2. ASSUME NEW e \in DOMAIN dictManager
          PROVE ~About(e) /\ ~About(e)'
        <3>1. e \notin {Info, Arena}
            BY DictionaryFacts DEF Info, Arena
        <3> QED
            BY <1>5, <3>1 DEF About
    <2>3. ASSUME NEW e \in DOMAIN dictManager
          PROVE /\ \A v : NewIs(e, v)' <=> NewIs(e, v)
                /\ \A o, v : Asserts(e, o, v) => Asserts(e, o, v)'
        BY <2>2, NotAbout
    <2>4. Listed'
        BY <1>2 DEF Before, IInv, Typed, Listed, IndexLists, squashedDictManager
    <2> QED
        BY <1>2, <1>6, <2>1, <2>3, <2>4, QuietStep
<1>8. ASSUME thrown' = undefined
      PROVE (Controlled /\ Squashes /\ ArenaHolds /\ PendingKinds)'
    <2>1. Controlled' /\ Squashes'
        BY <1>2, ControlKept
    <2>2. PendingKinds'
        BY <1>5 DEF PendingKinds
    <2>3. /\ CellAt(segments, h.address) \in {undefined, h.value}
          /\ Writes(segments, segments', h.address.segmentId, h.address.offset, h.value)
        BY <1>1, <1>8, HeadFacts
    <2>4. ASSUME NEW s \in {Info, Arena}, NEW o \in Int
          PROVE CellOf(s, o)' = IF s = h.address.segmentId /\ o = h.address.offset
                                  THEN h.value ELSE CellOf(s, o)
        <3>1. s \in 0..(Len(segments) - 1)
            BY StateFacts DEF Info, Arena
        <3> QED
            BY <2>3, <3>1 DEF Writes, CellOf
    <2>5. h.address = Relocatable(h.address.segmentId, h.address.offset)
        BY <1>2 DEF Assertion, Relocatables, Relocatable
    <2>6. CellOf(h.address.segmentId, h.address.offset) \in {undefined, h.value}
        BY <2>3, <2>5 DEF CellOf
    <2>7. \A s \in {Info, Arena}, o \in Int :
              CellOf(s, o) # undefined => CellOf(s, o)' = CellOf(s, o)
        BY <2>4, <2>6
    <2>8. ASSUME NEW o \in Int, NEW v, Asserts(Arena, o, v)
          PROVE Asserts(Arena, o, v)' \/ CellOf(Arena, o)' = v
        <3>1. PICK k \in DOMAIN pending : pending[k] = Equals(Arena, o, v)
            BY <2>8 DEF Asserts
        <3>2. CASE k = 1
            <4>1. h = Equals(Arena, o, v)
                BY <1>2, <3>1, <3>2
            <4>2. h.address.segmentId = Arena /\ h.address.offset = o /\ h.value = v
                BY <4>1 DEF Equals, Relocatable
            <4> QED
                BY <2>4, <4>2
        <3>3. CASE k # 1
            <4>1. k - 1 \in DOMAIN pending' /\ pending'[k - 1] = Equals(Arena, o, v)
                BY <1>2, <1>3, <3>1, <3>3
            <4> QED
                BY <4>1 DEF Asserts, Equals, Relocatable, Arena
        <3> QED
            BY <3>2, <3>3
    <2>9. ArenaHolds'
        BY <1>2, <2>7, <2>8, ArenaFrame
    <2> QED
        BY <2>1, <2>2, <2>9
<1> QED
    BY <1>7, <1>8 DEF IInv, Running

\* An assertion about a dictionary is the last before the next hint.
LEMMA AssertDictFacts ==
    ASSUME Before, AssertInstruction, NEW d \in DOMAIN dictPtr, NEW o \in Int, NEW v,
           pending = <<Equals(d, o, v)>>
    PROVE /\ pending' = <<>> /\ v \in SegmentValue /\ Typed'
          /\ UNCHANGED <<dictManager, limits, dictPtr, open>>
          /\ thrown' # undefined => segments' = segments
          /\ thrown' = undefined =>
                /\ CellOf(d, o) \in {undefined, v}
                /\ \A p \in Int : CellOf(d, p)' = IF p = o THEN v ELSE CellOf(d, p)
          /\ CellOf(d, o) = undefined => thrown' = undefined
          /\ \A e \in DOMAIN dictManager \ {d} : ReplaysIn(e)' /\ HoldsIn(e)'
          /\ (Controlled /\ Squashes /\ ArenaHolds /\ PendingKinds)'
<1>1. PICK h : h = Head(pending)
    OBVIOUS
<1>2. /\ h \in Assertion /\ h = pending[1]
      /\ pending' \in Seq(Assertion) /\ Len(pending') = Len(pending) - 1
      /\ UNCHANGED <<dictManager, squashedDictManager, limits, ap, arenaPtr, dictPtr, open,
                     ahead, squash, visited, squashed>>
      /\ thrown' \in {undefined} \cup Errors
      /\ Elsewhere(segments, segments', {h.address.segmentId})
      /\ thrown' # undefined => segments' = segments
      /\ thrown' = undefined =>
            /\ CellAt(segments, h.address) \in {undefined, h.value}
            /\ Writes(segments, segments', h.address.segmentId, h.address.offset, h.value)
      /\ /\ InSegment(segments, h.address) /\ CellAt(segments, h.address) = undefined
         /\ segments[h.address.segmentId + 1].builtin = "none"
         => thrown' = undefined
    BY <1>1, HeadFacts
<1>3. d \in DOMAIN dictManager /\ d \in Nat /\ d >= 4 /\ d \in 0..(Len(segments) - 1)
      /\ segments[d + 1].builtin = "none" /\ segments \in Memories(SegmentValue)
    BY StateFacts, DictionaryFacts
<1>4. h = Equals(d, o, v)
    BY <1>2
<1>5. /\ h.address = Relocatable(d, o) /\ h.address.segmentId = d /\ h.address.offset = o
      /\ h.value = v
    BY <1>4 DEF Equals, Relocatable
<1>6. pending' = <<>>
    <2>1. Len(pending) = 1
        OBVIOUS
    <2> QED
        BY <1>2, <2>1, EmptySeq
<1>7. v \in SegmentValue
    BY <1>2, <1>5 DEF Assertion
<1>8. Typed'
    <2>1. \A e \in DOMAIN dictManager :
              dictManager[e] \in [tag : {"dictionary"}, id : Felts, entries : DictionaryMaps]
        BY DictionaryFacts
    <2> QED
        BY <1>2, <2>1, TypedKept
<1>9. InSegment(segments, h.address)
    BY <1>3, <1>5, LoadIsTheCell
<1>10. CellOf(d, o) = undefined => thrown' = undefined
    BY <1>2, <1>3, <1>5, <1>9 DEF CellOf
<1>11. ASSUME thrown' = undefined
       PROVE /\ CellOf(d, o) \in {undefined, v}
             /\ \A p \in Int : CellOf(d, p)' = IF p = o THEN v ELSE CellOf(d, p)
    <2>1. CellAt(segments, Relocatable(d, o)) \in {undefined, v}
          /\ Writes(segments, segments', d, o, v)
        BY <1>2, <1>5, <1>11
    <2> QED
        BY <1>3, <2>1 DEF Writes, CellOf
<1>12. ASSUME NEW e \in DOMAIN dictManager \ {d}
       PROVE ReplaysIn(e)' /\ HoldsIn(e)'
    <2>1. ~About(e) /\ ~About(e)'
        BY <1>5, <1>4, <1>6, <1>12 DEF About
    <2> QED
        BY <1>2, <1>5, <2>1, OtherDictionary
<1>13. Controlled' /\ Squashes'
    BY <1>2, ControlKept
<1>14. PendingKinds'
    BY <1>6 DEF PendingKinds
<1>15. ArenaHolds'
    <2>1. \A s \in {Info, Arena}, p \in Int : CellOf(s, p)' = CellOf(s, p)
        <3>1. \A s \in {Info, Arena} : s \in 0..(Len(segments) - 1) /\ s \notin {d}
            BY <1>3, StateFacts DEF Info, Arena
        <3> QED
            BY <1>2, <1>5, <3>1, CellsElsewhere
    <2>2. ASSUME NEW p, NEW w, Asserts(Arena, p, w)
          PROVE FALSE
        <3>1. ~About(Arena)
            BY <1>3, <1>5, <1>4 DEF About, Arena
        <3> QED
            BY <2>2, <3>1, NotAbout
    <2> QED
        BY <1>2, <2>1, <2>2, ArenaFrame
<1> QED
    BY <1>2, <1>6, <1>7, <1>8, <1>10, <1>11, <1>12, <1>13, <1>14, <1>15

\* A step all of whose work is on dictionary d, when nothing is thrown
LEMMA ThatDictionary ==
    ASSUME Typed', UNCHANGED dictManager, NEW d \in DOMAIN dictManager,
           \A e \in DOMAIN dictManager \ {d} : ReplaysIn(e)' /\ HoldsIn(e)',
           ReplaysIn(d)',
           thrown' = undefined =>
               HoldsIn(d)' /\ (Controlled /\ Squashes /\ ArenaHolds /\ PendingKinds)'
    PROVE IInv'
BY DEF IInv, Replays, DictionariesHold, Running

\* The key of an access
LEMMA AssertKeyStep ==
    ASSUME Before, AssertInstruction, NEW d \in open, NEW key \in Keys,
           pending = <<Equals(d, LastKey(d), Felt(key))>>
    PROVE IInv'
<1>1. d \in DOMAIN dictPtr /\ dictPtr[d] >= 3
    BY DEF Before, IInv, Controlled
<1>2. /\ d \in DOMAIN dictManager /\ limits \in Limits /\ dictPtr[d] \in Nat
      /\ AccessCount(d) \in Nat /\ dictPtr[d] = 3 * AccessCount(d)
    <2>1. d \in DOMAIN dictManager /\ limits \in Limits
        BY <1>1, StateFacts
    <2> QED
        BY <2>1, DictionaryFacts
<1>3. LastKey(d) \in Int
    BY <1>2 DEF LastKey
<1>4. /\ pending' = <<>> /\ Typed'
      /\ UNCHANGED <<dictManager, limits, dictPtr, open>>
      /\ thrown' # undefined => segments' = segments
      /\ thrown' = undefined =>
            /\ CellOf(d, LastKey(d)) \in {undefined, Felt(key)}
            /\ \A p \in Int : CellOf(d, p)' =
                                  IF p = LastKey(d) THEN Felt(key) ELSE CellOf(d, p)
      /\ \A e \in DOMAIN dictManager \ {d} : ReplaysIn(e)' /\ HoldsIn(e)'
      /\ (Controlled /\ Squashes /\ ArenaHolds /\ PendingKinds)'
    BY <1>1, <1>3, AssertDictFacts
<1>5. ~NewPending(d)
    <2>1. ASSUME NEW v, NewIs(d, v)
          PROVE FALSE
        <3>1. pending[1].address.offset = LastKey(d)
            BY DEF Equals, Relocatable
        <3>2. pending[1].address.offset = LastNew(d)
            BY <2>1 DEF NewIs, Equals, Relocatable
        <3> QED
            BY <1>2, <3>1, <3>2 DEF LastKey, LastNew
    <2> QED
        BY <2>1 DEF NewPending
<1>6. /\ PrevsReplay(d) /\ (\A k \in Keys : EntryReplays(d, k))
      /\ CellsWithin(d)
    BY <1>2, <1>5 DEF Before, IInv, Replays, ReplaysIn, DictionariesHold, HoldsIn
<1>7. PICK k \in Keys : OpenAccess(d, k)
    BY <1>2 DEF Before, IInv, DictionariesHold, HoldsIn
<1>8. AccessesKept(d)
    <2>1. CASE thrown' # undefined
        <3>1. \A o \in Int : CellOf(d, o)' = CellOf(d, o)
            BY <1>4, <2>1 DEF CellOf
        <3> QED
            BY <1>2, <1>4, <3>1, CellsKeepAccesses
    <2>2. CASE thrown' = undefined
        <3>1. PICK at \in Int : at = AccessCount(d) - 1
            BY <1>2
        <3>2. /\ LastKey(d) \in (3 * at)..(3 * at + 2) /\ LastNew(d) \in (3 * at)..(3 * at + 2)
              /\ LastNew(d) # LastKey(d)
            BY <1>2, <3>1 DEF LastKey, LastNew
        <3>3. CellOf(d, LastNew(d)) = undefined
            BY <1>7 DEF OpenAccess
        <3>4. \A p \in Int : CellOf(d, p)' =
                  IF p = LastKey(d) THEN Felt(key) ELSE CellOf(d, p)
            BY <1>4, <2>2
        <3>5. limits' = limits
            BY <1>4
        <3> QED
            BY <1>2, <3>2, <3>3, <3>4, <3>5, IncompleteKept
    <2> QED
        BY <2>1, <2>2
<1>9. ReplaysIn(d)'
    <2>1. limits' = limits
        BY <1>4
    <2>2. PrevsReplay(d)' /\ \A x, n : Replayed(d, x, n)' = Replayed(d, x, n)
        BY <1>2, <1>6, <1>8, ReplayKept
    <2>3. ASSUME NEW x \in Keys
          PROVE EntryReplays(d, x)'
        <3>1. PICK n : n = limits.accesses /\ n = limits.accesses'
            BY <2>1
        <3>2. Replayed(d, x, limits.accesses)' = Replayed(d, x, n)'
            BY <3>1 DEF Replayed, Earlier, NewOf, CellOf
        <3>3. Entry(dictManager[d], x) = Replayed(d, x, n)
            BY <1>6, <3>1 DEF EntryReplays
        <3>4. Entry(dictManager[d], x) = Replayed(d, x, limits.accesses)'
            BY <2>2, <3>2, <3>3
        <3> QED
            BY <1>4, <3>4 DEF EntryReplays, Entry
    <2> QED
        BY <2>2, <2>3 DEF ReplaysIn
<1>10. ASSUME thrown' = undefined
       PROVE HoldsIn(d)'
    <2>1. PICK n \in Int : n = dictPtr[d] /\ n = dictPtr'[d] /\ n >= 3 /\ n % 3 = 0
        BY <1>1, <1>2, <1>4
    <2>2. /\ CellOf(d, n - 3) \in {undefined, Felt(key)}
          /\ \A p \in Int : CellOf(d, p)' = IF p = n - 3 THEN Felt(key) ELSE CellOf(d, p)
        BY <1>4, <1>10, <2>1 DEF LastKey
    <2>3. CellsWithin(d)'
        <3>1. ASSUME NEW o \in Int, CellOf(d, o)' # undefined
              PROVE /\ (0 <= o /\ o < n) \/ o = n + 1
                    /\ o % 3 = 0 => \E x \in Keys : CellOf(d, o)' = Felt(x)
            <4>1. CASE o = n - 3
                BY <2>1, <2>2, <4>1
            <4>2. CASE o # n - 3
                BY <1>6, <2>1, <2>2, <3>1, <4>2 DEF CellsWithin
            <4> QED
                BY <4>1, <4>2
        <3> QED
            BY <2>1, <3>1 DEF CellsWithin
    <2>4. Felt(k) = Felt(key)
        <3>1. CASE CellOf(d, n - 3) = Felt(k)
            BY <2>2, <3>1, KeyFelts, Tags
        <3>2. CASE Asserts(d, n - 3, Felt(k))
            <4>1. pending[1] = Equals(d, n - 3, Felt(k))
                BY <3>2 DEF Asserts
            <4>2. pending[1].value = Felt(k) /\ pending[1].value = Felt(key)
                BY <4>1 DEF Equals
            <4> QED
                BY <4>2
        <3> QED
            BY <1>7, <2>1, <3>1, <3>2 DEF OpenAccess, Promised, LastKey
    <2>5. k = key
        BY <2>4, KeyFelts
    <2>6. OpenAccess(d, key)'
        <3>1. CellOf(d, n - 3)' = Felt(key)
            BY <2>1, <2>2
        <3>2. CellOf(d, n - 2)' = Entry(dictManager[d], key) /\ CellOf(d, n - 1)' = undefined
            <4>1. CellOf(d, n - 2) = Entry(dictManager[d], key)
                  /\ CellOf(d, n - 1) = undefined
                BY <1>7, <2>1, <2>5 DEF OpenAccess, LastPrev, LastNew
            <4>2. n - 2 \in Int /\ n - 1 \in Int /\ n - 2 # n - 3 /\ n - 1 # n - 3
                BY <2>1
            <4> QED
                BY <2>2, <4>1, <4>2
        <3>3. /\ CellOf(d, LastKey(d))' = CellOf(d, n - 3)'
              /\ CellOf(d, LastPrev(d))' = CellOf(d, n - 2)'
              /\ CellOf(d, LastNew(d))' = CellOf(d, n - 1)'
            BY <2>1 DEF LastKey, LastPrev, LastNew, CellOf
        <3>4. Promised(d, LastKey(d), Felt(key))'
            BY <3>1, <3>3 DEF Promised, CellOf, LastKey
        <3> QED
            BY <1>4, <3>2, <3>3, <3>4 DEF OpenAccess, Entry
    <2>7. \A v : ~NewIs(d, v)'
        BY <1>4 DEF NewIs, LastNew, Equals
    <2> QED
        BY <2>3, <2>6, <2>7 DEF HoldsIn
<1> QED
    BY <1>2, <1>4, <1>9, <1>10, ThatDictionary

\* The new value of an access completes it.
LEMMA AssertNewStep ==
    ASSUME Before, AssertInstruction, NEW d \in DOMAIN dictPtr \ open, NEW v, NewIs(d, v)
    PROVE IInv'
<1>1. /\ d \in DOMAIN dictManager /\ limits \in Limits /\ dictPtr[d] \in Nat
      /\ AccessCount(d) \in Nat /\ dictPtr[d] = 3 * AccessCount(d)
      /\ AccessCount(d) <= limits.accesses
    <2>1. d \in DOMAIN dictManager /\ limits \in Limits
        BY StateFacts
    <2> QED
        BY <2>1, DictionaryFacts
<1>2. PICK key \in Keys : Finalized(d, v, key)
    BY <1>1 DEF Before, IInv, DictionariesHold, HoldsIn
<1>3. LastNew(d) \in Int /\ pending = <<Equals(d, LastNew(d), v)>>
    BY <1>1 DEF LastNew, NewIs
<1>4. /\ pending' = <<>> /\ v \in SegmentValue /\ Typed'
      /\ UNCHANGED <<dictManager, limits, dictPtr, open>>
      /\ thrown' = undefined =>
            \A p \in Int : CellOf(d, p)' = IF p = LastNew(d) THEN v ELSE CellOf(d, p)
      /\ CellOf(d, LastNew(d)) = undefined => thrown' = undefined
      /\ \A e \in DOMAIN dictManager \ {d} : ReplaysIn(e)' /\ HoldsIn(e)'
      /\ (Controlled /\ Squashes /\ ArenaHolds /\ PendingKinds)'
    BY <1>3, AssertDictFacts
<1>5. PICK at \in Int : at = AccessCount(d) - 1
    BY <1>1
<1>6. PICK n \in Int : n = dictPtr[d] /\ n = dictPtr'[d] /\ n = 3 * at + 3 /\ n >= 3
    BY <1>1, <1>2, <1>4, <1>5 DEF Finalized
<1>7. LastKey(d) = 3 * at /\ LastPrev(d) = 3 * at + 1 /\ LastNew(d) = 3 * at + 2
    BY <1>6 DEF LastKey, LastPrev, LastNew
<1>8. /\ CellOf(d, 3 * at) = Felt(key)
      /\ CellOf(d, 3 * at + 1) = Replayed(d, key, limits.accesses)
      /\ CellOf(d, 3 * at + 2) = undefined
      /\ Entry(dictManager[d], key) = v
      /\ \A other \in Keys \ {key} : EntryReplays(d, other)
    BY <1>2, <1>7 DEF Finalized
<1>9. \A p \in Int : CellOf(d, p)' = IF p = 3 * at + 2 THEN v ELSE CellOf(d, p)
    BY <1>4, <1>7, <1>8
<1>10. PrevsReplay(d) /\ CellsWithin(d)
    BY <1>1 DEF Before, IInv, Replays, ReplaysIn, DictionariesHold, HoldsIn
<1>11. at \in 0..(limits.accesses - 1) /\ limits.accesses \in Nat
    <2>1. limits.accesses \in Nat
        BY <1>1, SmallNumbers
    <2> QED
        BY <1>1, <1>5, <1>6, <2>1
<1>12. Replayed(d, key, limits.accesses) # undefined
    <2>1. PICK m : m = limits.accesses
        OBVIOUS
    <2>2. PICK earlier : earlier = Earlier(d, key, m)
        OBVIOUS
    <2>3. /\ Replayed(d, key, m) = IF earlier = {} THEN Zero ELSE NewOf(d, LastOf(earlier))
          /\ earlier # {} => LastOf(earlier) \in earlier
        BY <1>1, <2>2, ReplayedIsLast
    <2>4. \A i \in earlier : NewOf(d, i) # undefined
        BY <2>2 DEF Earlier, Accesses
    <2>5. Zero # undefined
        BY DEF Zero, Felt, undefined
    <2> QED
        BY <2>1, <2>3, <2>4, <2>5
<1>13. v # undefined /\ Felt(key) # undefined
    BY <1>4, AnyValueIsClosed DEF Felt, undefined
<1>14. at \notin Accesses(d) /\ at \in Accesses(d)'
    <2>1. limits' = limits
        BY <1>4
    <2>2. /\ CellOf(d, 3 * at)' # undefined
          /\ CellOf(d, 3 * at + 1)' # undefined
          /\ CellOf(d, 3 * at + 2)' # undefined
        BY <1>8, <1>9, <1>12, <1>13
    <2> QED
        BY <1>1, <1>8, <1>11, <2>1, <2>2, AccessCells, AccessCellsNext
<1>15. ASSUME NEW i \in 0..(limits.accesses - 1), i # at
       PROVE /\ CellOf(d, 3 * i)' = CellOf(d, 3 * i)
             /\ CellOf(d, 3 * i + 1)' = CellOf(d, 3 * i + 1)
             /\ CellOf(d, 3 * i + 2)' = CellOf(d, 3 * i + 2)
    <2>1. /\ 3 * i \in Int /\ 3 * i + 1 \in Int /\ 3 * i + 2 \in Int
          /\ 3 * i # 3 * at + 2 /\ 3 * i + 1 # 3 * at + 2 /\ 3 * i + 2 # 3 * at + 2
        BY <1>11, <1>15
    <2> QED
        BY <1>9, <2>1
<1>16. Accesses(d)' = Accesses(d) \cup {at}
    <2>1. limits' = limits
        BY <1>4
    <2>2. \A i : i \in Accesses(d)' <=> i \in Accesses(d) \cup {at}
        BY <1>1, <1>14, <1>15, <2>1, AccessCells, AccessCellsNext
    <2> QED
        BY <2>2
<1>17. ASSUME NEW i \in Accesses(d)
       PROVE i \in 0..(limits.accesses - 1) /\ i < at
    <2>1. i \in 0..(limits.accesses - 1) /\ CellOf(d, 3 * i + 2) # undefined
        BY <1>1, AccessCells
    <2>2. i \in Int /\ 3 * i + 2 \in Int /\ i # at
        BY <1>11, <1>14, <2>1
    <2>3. 3 * i + 2 < n \/ 3 * i + 2 = n + 1
        BY <1>6, <1>10, <2>1, <2>2 DEF CellsWithin
    <2> QED
        BY <1>6, <2>1, <2>2, <2>3
<1>18. AccessCompleted(d, at, key, v)
    <2>1. limits' = limits
        BY <1>4
    <2>2. \A i \in Accesses(d) : i < at
        BY <1>17
    <2>3. ASSUME NEW i \in Accesses(d) \cup {at}
          PROVE KeyOf(d, i)' = KeyOf(d, i) /\ PrevOf(d, i)' = PrevOf(d, i)
        <3>1. CASE i \in Accesses(d)
            BY <1>14, <1>15, <1>17, <3>1, CellsOfAccess
        <3>2. CASE i = at
            <4>1. 3 * at \in Int /\ 3 * at + 1 \in Int /\ 3 * at # 3 * at + 2
                  /\ 3 * at + 1 # 3 * at + 2
                OBVIOUS
            <4> QED
                BY <1>9, <3>2, <4>1, CellsOfAccess
        <3> QED
            BY <3>1, <3>2
    <2>4. ASSUME NEW i \in Accesses(d)
          PROVE NewOf(d, i)' = NewOf(d, i)
        BY <1>14, <1>15, <1>17, CellsOfAccess
    <2>5. KeyOf(d, at) = Felt(key) /\ NewOf(d, at)' = v
        <3>1. 3 * at + 2 \in Int
            OBVIOUS
        <3> QED
            BY <1>8, <1>9, <3>1, CellsOfAccess
    <2> QED
        BY <1>11, <1>14, <1>16, <2>1, <2>2, <2>3, <2>4, <2>5 DEF AccessCompleted
<1>19. /\ Replayed(d, key, limits.accesses)' = v
       /\ \A other \in Keys \ {key} :
              Replayed(d, other, limits.accesses)' = Replayed(d, other, limits.accesses)
       /\ PrevsReplay(d)'
    <2>1. PrevOf(d, at) = Replayed(d, key, limits.accesses)
        BY <1>8, CellsOfAccess
    <2> QED
        BY <1>1, <1>10, <1>18, <2>1, ReplayCompleted
<1>20. ASSUME NEW k \in Keys
       PROVE EntryReplays(d, k)'
    <2>1. Entry(dictManager[d], k) = Replayed(d, k, limits.accesses)'
        <3>1. CASE k = key
            BY <1>8, <1>19, <3>1
        <3>2. CASE k # key
            BY <1>8, <1>19, <3>2 DEF EntryReplays
        <3> QED
            BY <3>1, <3>2
    <2> QED
        BY <1>4, <2>1 DEF EntryReplays, Entry
<1>21. ReplaysIn(d)'
    BY <1>19, <1>20 DEF ReplaysIn
<1>22. HoldsIn(d)'
    <2>1. ASSUME NEW o \in Int, CellOf(d, o)' # undefined
          PROVE /\ (0 <= o /\ o < n) \/ o = n + 1
                /\ o % 3 = 0 => \E x \in Keys : CellOf(d, o)' = Felt(x)
        <3>1. CASE o = 3 * at + 2
            BY <1>6, <3>1
        <3>2. CASE o # 3 * at + 2
            <4>1. CellOf(d, o)' = CellOf(d, o)
                BY <1>9, <3>2
            <4>2. /\ (0 <= o /\ o < n) \/ o = n + 1
                  /\ o % 3 = 0 => \E x \in Keys : CellOf(d, o) = Felt(x)
                BY <1>6, <1>10, <2>1, <4>1 DEF CellsWithin
            <4> QED
                BY <4>1, <4>2
        <3> QED
            BY <3>1, <3>2
    <2>2. CellsWithin(d)'
        BY <1>6, <2>1 DEF CellsWithin
    <2>3. \A w : ~NewIs(d, w)'
        BY <1>4 DEF NewIs, LastNew, Equals
    <2>4. d \notin open'
        BY <1>4
    <2> QED
        BY <2>2, <2>3, <2>4 DEF HoldsIn
<1> QED
    BY <1>1, <1>4, <1>21, <1>22, ThatDictionary

LEMMA AssertInstructionStep ==
    ASSUME Before, AssertInstruction
    PROVE IInv'
<1>1. PendingKinds
    BY DEF Before, IInv
<1>2. CASE \A k \in DOMAIN pending : pending[k].address.segmentId \in {Info, Arena}
    BY <1>2, AssertArenaStep
<1>3. CASE \E d \in open, key \in Keys : pending = <<Equals(d, LastKey(d), Felt(key))>>
    BY <1>3, AssertKeyStep
<1>4. CASE \E d \in DOMAIN dictPtr \ open : NewPending(d)
    BY <1>4, AssertNewStep DEF NewPending
<1> QED
    BY <1>1, <1>2, <1>3, <1>4 DEF PendingKinds

-----------------------------------------------------------------------------
(* Cells written ahead *)

LEMMA AheadFacts ==
    ASSUME Before, NEW a \in Relocatables, NEW v \in SegmentValue,
           CellAt(segments, a) = undefined, Written(assertEq(segments, a, v)),
           UNCHANGED <<dictManager, squashedDictManager, limits, ap, arenaPtr, dictPtr, open,
                       pending, squash, squashed>>
    PROVE /\ Elsewhere(segments, segments', {a.segmentId}) /\ Typed'
          /\ Controlled' /\ Squashes'
          /\ thrown' # undefined => segments' = segments
          /\ thrown' = undefined => Writes(segments, segments', a.segmentId, a.offset, v)
<1>1. segments \in Memories(SegmentValue)
    BY StateFacts
<1> DEFINE write == assertEq(segments, a, v)
<1>2. segments' = write.segments /\ thrown' = write.value
    BY DEF Written
<1>3. /\ write.value \in {undefined} \cup Errors
      /\ write.value # undefined => write.segments = segments
      /\ write.value = undefined => Writes(segments, write.segments, a.segmentId, a.offset, v)
    BY <1>1, AssertEqWrites
<1>4. Elsewhere(segments, write.segments, {a.segmentId})
    BY <1>1, AssertEqElsewhere
<1> HIDE DEF write
<1>5. Typed'
    <2>1. \A e \in DOMAIN dictManager :
              dictManager[e] \in [tag : {"dictionary"}, id : Felts, entries : DictionaryMaps]
        BY DictionaryFacts
    <2>2. pending' \in Seq(Assertion)
        BY DEF Before, IInv, Typed
    <2> QED
        BY <1>2, <1>3, <1>4, <2>1, <2>2, TypedKept
<1> QED
    BY <1>2, <1>3, <1>4, <1>5, ControlKept

\* The info of the next dictionary
LEMMA InfoAheadStep ==
    ASSUME Before, Ready, NEW o \in Nat, NEW v \in SegmentValue,
           CellAt(segments, Relocatable(Info, o)) = undefined,
           Written(assertEq(segments, Relocatable(Info, o), v)),
           UNCHANGED <<dictManager, squashedDictManager, limits, ap, arenaPtr, dictPtr, open,
                       pending, squash, squashed>>
    PROVE IInv'
<1>1. /\ Relocatable(Info, o) \in Relocatables /\ Relocatable(Info, o).segmentId = Info
      /\ Relocatable(Info, o).offset = o
    BY RelocatableType DEF Info
<1>2. /\ Elsewhere(segments, segments', {Info}) /\ Typed'
      /\ Controlled' /\ Squashes'
      /\ thrown' # undefined => segments' = segments
      /\ thrown' = undefined => Writes(segments, segments', Info, o, v)
    BY <1>1, AheadFacts
<1>3. Typed' /\ Replays' /\ DictionariesHold'
    <2>1. {Info} \subseteq 0..3
        BY DEF Info
    <2>2. Listed' /\ pending' \in Seq(Assertion) /\ thrown' \in {undefined} \cup Errors
        BY <1>2 DEF Typed
    <2>3. ASSUME NEW e \in DOMAIN dictManager
          PROVE /\ \A w : NewIs(e, w)' <=> NewIs(e, w)
                /\ \A p, w : Asserts(e, p, w) => Asserts(e, p, w)'
        BY DEF NewIs, LastNew, Asserts
    <2> QED
        BY <1>2, <2>1, <2>2, <2>3, QuietStep
<1>4. PendingKinds'
    BY DEF PendingKinds, Ready
<1>5. ASSUME thrown' = undefined
      PROVE ArenaHolds'
    <2>1. CellOf(Info, o) = undefined
        BY DEF CellOf
    <2>2. ASSUME NEW s \in {Info, Arena}, NEW p \in Int, CellOf(s, p) # undefined
          PROVE CellOf(s, p)' = CellOf(s, p)
        <3>1. s \in 0..(Len(segments) - 1)
            BY StateFacts DEF Info, Arena
        <3>2. CellOf(s, p)' = IF s = Info /\ p = o THEN v ELSE CellOf(s, p)
            BY <1>2, <1>5, <3>1 DEF Writes, CellOf
        <3> QED
            BY <2>1, <2>2, <3>2
    <2>3. \A p \in Int : \A w : Asserts(Arena, p, w) => Asserts(Arena, p, w)'
        BY DEF Asserts
    <2> QED
        BY <2>2, <2>3, ArenaFrame
<1> QED
    BY <1>2, <1>3, <1>4, <1>5 DEF IInv, Running

\* The previous value of the next access of a dictionary
LEMMA PrevAheadStep ==
    ASSUME Before, Ready, NEW d \in DOMAIN dictPtr \ open, NEW v \in SegmentValue,
           CellAt(segments, Relocatable(d, dictPtr[d] + 1)) = undefined,
           Written(assertEq(segments, Relocatable(d, dictPtr[d] + 1), v)),
           UNCHANGED <<dictManager, squashedDictManager, limits, ap, arenaPtr, dictPtr, open,
                       pending, squash, squashed>>
    PROVE IInv'
<1>1. /\ d \in DOMAIN dictManager /\ limits \in Limits /\ dictPtr[d] \in Nat
      /\ AccessCount(d) \in Nat /\ dictPtr[d] = 3 * AccessCount(d)
      /\ d \in Nat /\ d >= 4 /\ d \in 0..(Len(segments) - 1)
    <2>1. d \in DOMAIN dictManager /\ limits \in Limits
        BY StateFacts
    <2> QED
        BY <2>1, DictionaryFacts
<1>2. PICK n \in Nat : n = dictPtr[d]
    BY <1>1
<1>3. /\ Relocatable(d, n + 1) \in Relocatables /\ Relocatable(d, n + 1).segmentId = d
      /\ Relocatable(d, n + 1).offset = n + 1
    BY <1>1, RelocatableType
<1>4. /\ Elsewhere(segments, segments', {d}) /\ Typed'
      /\ Controlled' /\ Squashes'
      /\ thrown' # undefined => segments' = segments
      /\ thrown' = undefined => Writes(segments, segments', d, n + 1, v)
    BY <1>2, <1>3, AheadFacts
<1>5. pending = <<>> /\ pending' = <<>>
    BY DEF Ready
<1>6. ASSUME NEW e \in DOMAIN dictManager \ {d}
      PROVE ReplaysIn(e)' /\ HoldsIn(e)'
    <2>1. ~About(e) /\ ~About(e)'
        BY <1>5 DEF About
    <2> QED
        BY <1>4, <2>1, OtherDictionary
<1>7. CellsWithin(d)
    BY <1>1 DEF Before, IInv, DictionariesHold, HoldsIn
<1>8. thrown' = undefined =>
          \A p \in Int : CellOf(d, p)' = IF p = n + 1 THEN v ELSE CellOf(d, p)
    BY <1>1, <1>4 DEF Writes, CellOf
<1>9. AccessesKept(d)
    <2>1. CASE thrown' # undefined
        <3>1. \A o \in Int : CellOf(d, o)' = CellOf(d, o)
            BY <1>4, <2>1 DEF CellOf
        <3> QED
            BY <1>1, <3>1, CellsKeepAccesses
    <2>2. CASE thrown' = undefined
        <3>1. PICK at \in Int : at = AccessCount(d)
            BY <1>1
        <3>2. /\ n + 1 \in (3 * at)..(3 * at + 2) /\ n \in (3 * at)..(3 * at + 2)
              /\ n # n + 1 /\ n \in Int
            BY <1>1, <1>2, <3>1
        <3>3. CellOf(d, n) = undefined
            BY <1>2, <1>7, <3>2 DEF CellsWithin
        <3>4. \A p \in Int : CellOf(d, p)' = IF p = n + 1 THEN v ELSE CellOf(d, p)
            BY <1>8, <2>2
        <3>5. PICK o \in Int : o = n + 1
            BY <3>2
        <3>6. o \in (3 * at)..(3 * at + 2) /\ n # o
            BY <3>2, <3>5
        <3>7. \A p \in Int : CellOf(d, p)' = IF p = o THEN v ELSE CellOf(d, p)
            BY <3>4, <3>5
        <3>8. limits \in Limits
            BY <1>1
        <3> QED
            BY <3>2, <3>3, <3>6, <3>7, <3>8, IncompleteKept
    <2> QED
        BY <2>1, <2>2
<1>10. ReplaysIn(d)'
    <2>1. ~About(d)
        BY <1>5 DEF About
    <2>2. \A key \in Keys : Entry(dictManager'[d], key) = Entry(dictManager[d], key)
        OBVIOUS
    <2> QED
        BY <1>1, <1>9, <2>1, <2>2, ReplaysFrame
<1>11. ASSUME thrown' = undefined
       PROVE HoldsIn(d)'
    <2>1. ASSUME NEW o \in Int, CellOf(d, o)' # undefined
          PROVE /\ (0 <= o /\ o < n) \/ o = n + 1
                /\ o % 3 = 0 => \E x \in Keys : CellOf(d, o)' = Felt(x)
        <3>1. CASE o = n + 1
            BY <1>1, <1>2, <3>1
        <3>2. CASE o # n + 1
            <4>1. CellOf(d, o)' = CellOf(d, o)
                BY <1>8, <1>11, <3>2
            <4> QED
                BY <1>2, <1>7, <2>1, <4>1 DEF CellsWithin
        <3> QED
            BY <3>1, <3>2
    <2>2. CellsWithin(d)'
        BY <1>2, <2>1 DEF CellsWithin
    <2>3. \A w : ~NewIs(d, w)'
        BY <1>5 DEF NewIs, LastNew, Equals
    <2> QED
        BY <2>2, <2>3 DEF HoldsIn
<1>12. PendingKinds'
    BY <1>5 DEF PendingKinds
<1>13. ArenaHolds'
    <2>1. \A s \in {Info, Arena}, p \in Int : CellOf(s, p)' = CellOf(s, p)
        <3>1. \A s \in {Info, Arena} : s \in 0..(Len(segments) - 1) /\ s \notin {d}
            BY <1>1, StateFacts DEF Info, Arena
        <3> QED
            BY <1>4, <3>1, CellsElsewhere
    <2>2. \A p \in Int : \A w : Asserts(Arena, p, w) => Asserts(Arena, p, w)'
        BY DEF Asserts
    <2> QED
        BY <2>1, <2>2, ArenaFrame
<1> QED
    BY <1>1, <1>4, <1>6, <1>10, <1>11, <1>12, <1>13, ThatDictionary

LEMMA WriteAheadStep ==
    ASSUME Before, WriteAhead
    PROVE IInv'
<1>1. /\ Ready
      /\ UNCHANGED <<dictManager, squashedDictManager, limits, ap, arenaPtr, dictPtr, open,
                     pending, squash, squashed>>
    BY DEF WriteAhead
<1>2. PICK address \in {Relocatable(d, dictPtr[d] + PREV_VALUE_OFFSET) :
                            d \in DOMAIN dictPtr \ (open \cup squashed)}
                       \cup {Relocatable(Info,
                                         DICT_ACCESS_SIZE * Cardinality(DOMAIN dictPtr))},
           v \in AheadValues :
          /\ CellAt(segments, address) = undefined
          /\ Written(assertEq(segments, address, v))
    BY DEF WriteAhead
<1>3. v \in SegmentValue
    BY ProgramAssumption
<1>4. CASE address = Relocatable(Info, DICT_ACCESS_SIZE * Cardinality(DOMAIN dictPtr))
    <2>1. DICT_ACCESS_SIZE * Cardinality(DOMAIN dictPtr) \in Nat
        BY StateFacts, FS_CardinalityType DEF DICT_ACCESS_SIZE
    <2> QED
        BY <1>1, <1>2, <1>3, <1>4, <2>1, InfoAheadStep
<1>5. CASE \E d \in DOMAIN dictPtr \ open : address = Relocatable(d, dictPtr[d] + 1)
    BY <1>1, <1>2, <1>3, <1>5, PrevAheadStep
<1> QED
    BY <1>2, <1>4, <1>5 DEF PREV_VALUE_OFFSET

-----------------------------------------------------------------------------
(* Reading and updating a dictionary *)

LEMMA SetEntryFacts ==
    ASSUME Before, NEW d \in DOMAIN dictManager, NEW key \in Keys, NEW v \in SegmentValue,
           SetEntry(d, key, v)
    PROVE /\ DOMAIN dictManager' = DOMAIN dictManager
          /\ \A e \in DOMAIN dictManager \ {d} : dictManager'[e] = dictManager[e]
          /\ \A e \in DOMAIN dictManager :
                /\ dictManager'[e] \in [tag : {"dictionary"}, id : Felts,
                                        entries : DictionaryMaps]
                /\ dictManager'[e].id = dictManager[e].id
          /\ \A k : Entry(dictManager'[d], k) =
                        IF k = key THEN v ELSE Entry(dictManager[d], k)
<1> DEFINE old == dictManager[d].entries
           new == Put(old, key, v)
<1>1. dictManager' = [dictManager EXCEPT ![d].entries = new]
    BY DEF SetEntry
<1>2. \A e \in DOMAIN dictManager :
          dictManager[e] \in [tag : {"dictionary"}, id : Felts, entries : DictionaryMaps]
    BY DictionaryFacts
<1>3. new \in DictionaryMaps
    <2>1. PICK D \in SUBSET Keys : old \in [D -> SegmentValue]
        BY <1>2 DEF DictionaryMaps
    <2>2. new \in [D \cup {key} -> SegmentValue]
        BY <2>1 DEF Put
    <2>3. D \cup {key} \in SUBSET Keys
        BY <2>1
    <2> QED
        BY <2>2, <2>3 DEF DictionaryMaps
<1>4. /\ DOMAIN dictManager' = DOMAIN dictManager
      /\ \A e \in DOMAIN dictManager \ {d} : dictManager'[e] = dictManager[e]
      /\ dictManager'[d] = [dictManager[d] EXCEPT !.entries = new]
    <2> HIDE DEF new
    <2> QED
        BY <1>1
<1>5. /\ dictManager'[d] \in [tag : {"dictionary"}, id : Felts, entries : DictionaryMaps]
      /\ dictManager'[d].id = dictManager[d].id
      /\ dictManager'[d].entries = new
    <2> HIDE DEF new
    <2> QED
        BY <1>2, <1>3, <1>4
<1>6. ASSUME NEW k
      PROVE Entry(dictManager'[d], k) = IF k = key THEN v ELSE Entry(dictManager[d], k)
    BY <1>5 DEF Entry, Put
<1> QED
    BY <1>2, <1>4, <1>5, <1>6

\* A dictionary has no more accesses than the program.
LEMMA AccessesLeft ==
    ASSUME Before, NEW d \in DOMAIN dictPtr, AccessTotal < limits.accesses
    PROVE AccessCount(d) + 1 <= limits.accesses
<1> DEFINE S == {access \in (DOMAIN dictPtr) \X (1..limits.accesses) :
                     access[2] <= AccessCount(access[1])}
           T == {d} \X (1..limits.accesses)
<1>1. limits.accesses \in Nat /\ AccessCount(d) \in Nat /\ AccessCount(d) <= limits.accesses
    BY StateFacts, DictionaryFacts, SmallNumbers
<1>2. IsFiniteSet(S)
    <2>1. IsFiniteSet(DOMAIN dictPtr)
        BY StateFacts
    <2>2. IsFiniteSet(1..limits.accesses)
        BY <1>1, FS_Interval
    <2>3. IsFiniteSet((DOMAIN dictPtr) \X (1..limits.accesses))
        BY <2>1, <2>2, FS_Product
    <2> QED
        BY <2>3, FS_Subset
<1>3. Cardinality(T) = limits.accesses
    <2>1. IsFiniteSet({d}) /\ Cardinality({d}) = 1
        BY FS_Singleton
    <2>2. /\ IsFiniteSet(1..limits.accesses)
          /\ Cardinality(1..limits.accesses) = limits.accesses
        <3>1. PICK n \in Int : n = limits.accesses /\ n >= 0
            BY <1>1
        <3>2. 1 \in Int
            OBVIOUS
        <3>3. IsFiniteSet(1..n)
            BY <3>1, <3>2, FS_Interval
        <3>4. Cardinality(1..n) = IF 1 > n THEN 0 ELSE n - 1 + 1
            BY <3>1, <3>2, FS_Interval
        <3> QED
            BY <3>1, <3>3, <3>4
    <2>3. Cardinality(T) = Cardinality({d}) * Cardinality(1..limits.accesses)
        BY <2>1, <2>2, FS_Product
    <2> QED
        BY <1>1, <2>1, <2>2, <2>3
<1>4. Cardinality(S) < limits.accesses
    BY DEF AccessTotal
<1>5. ASSUME AccessCount(d) = limits.accesses
      PROVE FALSE
    <2>1. T \subseteq S
        <3>1. ASSUME NEW access \in T
              PROVE access \in S
            <4>1. PICK i \in 1..limits.accesses : access = <<d, i>>
                OBVIOUS
            <4>2. access[1] = d /\ access[2] = i
                BY <4>1
            <4>3. access[2] <= AccessCount(access[1])
                BY <1>1, <1>5, <4>1, <4>2
            <4> QED
                BY <4>1, <4>3
        <3> HIDE DEF S, T
        <3> QED
            BY <3>1
    <2> HIDE DEF S, T
    <2>2. Cardinality(T) <= Cardinality(S)
        BY <1>2, <2>1, FS_Subset
    <2>3. Cardinality(S) \in Nat
        BY <1>2, FS_CardinalityType
    <2> QED
        BY <1>1, <1>3, <1>4, <2>2, <2>3
<1> QED
    BY <1>1, <1>5

\* The program after a hint about a dictionary
LEMMA AccessControl ==
    ASSUME Before, squash.at = "none", UNCHANGED <<limits, arenaPtr, squash, squashed>>,
           DOMAIN dictManager' = DOMAIN dictManager, DOMAIN dictPtr' = DOMAIN dictPtr,
           \A e \in DOMAIN dictPtr : \E n \in 0..limits.accesses : dictPtr'[e] = 3 * n,
           open' \subseteq DOMAIN dictPtr, \A e \in open' : dictPtr'[e] >= 3, ap' \in Nat
    PROVE Controlled' /\ Squashes'
<1>1. Controlled /\ Squashes
    BY DEF Before, IInv
<1>2. squash = NotSquashing
    BY <1>1 DEF Squashes, NotSquashing
<1>3. SquashesBegun' = SquashesBegun
    BY DEF SquashesBegun
<1>4. (Cardinality(DOMAIN dictPtr) <= limits.dicts)'
    BY <1>1 DEF Controlled
<1>5. (arenaPtr = 3 + 3 * (Cardinality(DOMAIN dictPtr) + SquashesBegun))'
    BY <1>1, <1>3 DEF Controlled
<1>6. Controlled'
    BY <1>1, <1>4, <1>5 DEF Controlled
<1> QED
    BY <1>1, <1>2, <1>3, <1>6 DEF Squashes, NotSquashing

\* The memory behind a frame of two cells
LEMMA AccessMemory ==
    ASSUME Before, NEW r \in SegmentValue, NEW v \in SegmentValue, NEW d \in DOMAIN dictManager
    PROVE LET m == FramedWith(r, v)
          IN \A o \in Int : CellAt(m, Relocatable(d, o)) = CellOf(d, o)
<1>1. Elsewhere(segments, FramedWith(r, v), {0})
    BY TwoFrame
<1>2. d \in 0..(Len(segments) - 1) /\ d \notin {0}
    BY DictionaryFacts
<1> QED
    BY <1>1, <1>2 DEF Elsewhere, CellOf

\* The hint sets the entry to its own value, and asserts the previous value.
LEMMA EntryInitHint ==
    ASSUME Before, NEW d \in DOMAIN dictPtr, NEW key \in Keys,
           felt252DictEntryInit(FramedWith(DictEnd(d), Felt(key)), Regs, DerefAp(0), DerefAp(1))
    PROVE /\ SetEntry(d, key, Entry(dictManager[d], key)) /\ UNCHANGED squashedDictManager
          /\ Elsewhere(segments, segments', {0, d}) /\ thrown' \in {undefined} \cup Errors
          /\ \A o \in Int : CellOf(d, o)' =
                 IF thrown' = undefined /\ o = dictPtr[d] + 1 THEN Entry(dictManager[d], key)
                                                              ELSE CellOf(d, o)
<1> DEFINE end == DictEnd(d)
           m == FramedWith(end, Felt(key))
           prev == Entry(dictManager[d], key)
           at == AddOffset(end, PREV_VALUE_OFFSET)
<1>1. /\ d \in DOMAIN dictManager /\ d \in Nat /\ d >= 4 /\ d \in 0..(Len(segments) - 1)
      /\ dictPtr[d] \in Nat /\ dictPtr[d] + 3 <= Top
      /\ ~isError(dictManager[d]) /\ prev \in SegmentValue
    <2>1. d \in DOMAIN dictManager
        BY StateFacts
    <2> QED
        BY <2>1, DictionaryFacts
<1>2. /\ end \in Relocatables /\ end \in SegmentValue /\ ~isError(end)
      /\ end.segmentId = d /\ end.offset = dictPtr[d]
    BY <1>1, RelocatableType DEF DictEnd
<1>3. /\ Felt(key) \in Felts /\ Felt(key) \in SegmentValue /\ Felt(key).inner = key
      /\ ~isError(Felt(key))
    BY KeyFelts, KindsAreValues, Tags
<1>4. /\ m \in Memories(SegmentValue) /\ Len(m) = Len(segments) /\ Len(m) > 0 /\ ap \in Nat
      /\ Elsewhere(segments, m, {0})
      /\ CellAt(m, Relocatable(0, ap)) = end /\ CellAt(m, Relocatable(0, ap + 1)) = Felt(key)
    BY <1>2, <1>3, TwoFrame, StateFacts
<1>5. \A o \in Int : CellAt(m, Relocatable(d, o)) = CellOf(d, o)
    BY <1>1, <1>2, <1>3, AccessMemory
<1>6. /\ at = Relocatable(d, dictPtr[d] + 1) /\ at \in Relocatables /\ at.segmentId = d
      /\ at.offset = dictPtr[d] + 1
    <2>1. at = Relocatable(d, dictPtr[d] + 1)
        BY <1>2 DEF AddOffset, PREV_VALUE_OFFSET
    <2> QED
        BY <1>1, <2>1, RelocatableType
<1> HIDE DEF m, prev
<1>7. PointerOf(m, Regs, DerefAp(0)) = end
    <2>1. PointerOf(m, Regs, DerefAp(0)) = AddFelt(end, Zero)
        BY <1>2, <1>4, PointerInFrame
    <2>2. AddFelt(Relocatable(d, dictPtr[d]), Felt(0)) = Relocatable(d, dictPtr[d] + 0)
        BY <1>1, SmallSums, StateFacts
    <2> QED
        BY <1>1, <2>1, <2>2 DEF Zero, DictEnd
<1>8. ValueOf(m, Regs, DerefAp(1)) = Felt(key)
    BY <1>3, <1>4, ValueInFrame
<1>9. getDict(end) = dictManager[d]
    BY <1>1, <1>2 DEF getDict
<1>10. FirstError(<<end, Felt(key), dictManager[d]>>) = undefined
    <2>1. \A i \in DOMAIN <<end, Felt(key), dictManager[d]>> :
              ~isError(<<end, Felt(key), dictManager[d]>>[i])
        BY <1>1, <1>2, <1>3
    <2> QED
        BY <2>1, NoErrors
<1>11. /\ SetEntry(d, key, prev) /\ AssertEq(m, at, prev) /\ UNCHANGED squashedDictManager
    <2> HIDE DEF at, end
    <2>1. PICK address, keyValue, error :
              /\ address = PointerOf(m, Regs, DerefAp(0))
              /\ keyValue = ValueOf(m, Regs, DerefAp(1))
              /\ error = FirstError(<<address, keyValue, getDict(address)>>)
              /\ ~isError(error) =>
                    \E value \in {Entry(getDict(address), keyValue.inner)} :
                        /\ SetEntry(address.segmentId, keyValue.inner, value)
                        /\ AssertEq(m, AddOffset(address, PREV_VALUE_OFFSET), value)
              /\ UNCHANGED squashedDictManager
        BY DEF felt252DictEntryInit, m, end
    <2>2. address = end /\ keyValue = Felt(key) /\ getDict(address) = dictManager[d]
        BY <1>7, <1>8, <1>9, <2>1
    <2>3. error = undefined /\ ~isError(undefined)
        BY <1>10, <2>1, <2>2, Tags
    <2>4. Entry(getDict(address), keyValue.inner) = prev
        BY <1>3, <2>2 DEF prev
    <2>5. /\ SetEntry(address.segmentId, keyValue.inner, prev)
          /\ AssertEq(m, AddOffset(address, PREV_VALUE_OFFSET), prev)
          /\ UNCHANGED squashedDictManager
        BY <2>1, <2>3, <2>4
    <2> QED
        BY <1>2, <1>3, <2>2, <2>5 DEF at
<1> DEFINE write == assertEq(m, at, prev)
<1>12. segments' = write.segments /\ thrown' = write.value
    BY <1>11 DEF AssertEq, Written
<1>13. /\ write.value \in {undefined} \cup Errors
       /\ write.value # undefined => write.segments = m
       /\ write.value = undefined => Writes(m, write.segments, d, dictPtr[d] + 1, prev)
    BY <1>1, <1>4, <1>6, AssertEqWrites
<1>14. Elsewhere(m, write.segments, {0, d})
    BY <1>1, <1>4, <1>6, AssertEqElsewhere
<1>15. Elsewhere(segments, segments', {0, d})
    <2>1. Elsewhere(segments, m, {0, d})
        BY <1>4 DEF Elsewhere
    <2> HIDE DEF write
    <2> QED
        BY <1>12, <1>14, <2>1, ElsewhereTransitive
<1>16. ASSUME NEW o \in Int
       PROVE CellOf(d, o)' =
                 IF thrown' = undefined /\ o = dictPtr[d] + 1 THEN prev ELSE CellOf(d, o)
    <2> HIDE DEF write
    <2>1. CASE thrown' # undefined
        BY <1>5, <1>12, <1>13, <2>1 DEF CellOf
    <2>2. CASE thrown' = undefined
        <3>1. CellAt(segments', Relocatable(d, o)) =
                  IF o = dictPtr[d] + 1 THEN prev ELSE CellAt(m, Relocatable(d, o))
            BY <1>1, <1>4, <1>12, <1>13, <2>2 DEF Writes
        <3> QED
            BY <1>5, <2>2, <3>1 DEF CellOf
    <2> QED
        BY <2>1, <2>2
<1> QED
    BY <1>11, <1>12, <1>13, <1>15, <1>16 DEF prev

LEMMA EntryGetStep ==
    ASSUME Before, NEW d \in DOMAIN dictPtr, NEW key \in limits.keys, EntryGet(d, key)
    PROVE IInv'
<1>1. /\ d \in DOMAIN dictManager /\ limits \in Limits /\ key \in Keys
      /\ dictPtr[d] \in Nat /\ AccessCount(d) \in Nat /\ dictPtr[d] = 3 * AccessCount(d)
      /\ d \in Nat /\ d >= 4 /\ limits.accesses \in Nat /\ ap \in Nat
      /\ Entry(dictManager[d], key) \in SegmentValue
    <2>1. d \in DOMAIN dictManager /\ limits \in Limits /\ ap \in Nat
        BY StateFacts
    <2>2. key \in Keys /\ limits.accesses \in Nat
        BY <2>1, SmallNumbers
    <2> QED
        BY <2>1, <2>2, DictionaryFacts
<1>2. pending = <<>> /\ squash.at = "none" /\ d \notin open
    BY DEF EntryGet, Ready
<1>3. AccessCount(d) + 1 <= limits.accesses
    BY AccessesLeft DEF EntryGet
<1>4. /\ SetEntry(d, key, Entry(dictManager[d], key)) /\ UNCHANGED squashedDictManager
      /\ Elsewhere(segments, segments', {0, d}) /\ thrown' \in {undefined} \cup Errors
      /\ \A o \in Int : CellOf(d, o)' =
             IF thrown' = undefined /\ o = dictPtr[d] + 1 THEN Entry(dictManager[d], key)
                                                          ELSE CellOf(d, o)
    <2>1. felt252DictEntryInit(FramedWith(DictEnd(d), Felt(key)), Regs, DerefAp(0), DerefAp(1))
        BY DEF EntryGet
    <2> QED
        BY <1>1, <2>1, EntryInitHint
<1>5. /\ DOMAIN dictManager' = DOMAIN dictManager
      /\ \A e \in DOMAIN dictManager \ {d} : dictManager'[e] = dictManager[e]
      /\ \A e \in DOMAIN dictManager :
            /\ dictManager'[e] \in [tag : {"dictionary"}, id : Felts, entries : DictionaryMaps]
            /\ dictManager'[e].id = dictManager[e].id
      /\ \A k : Entry(dictManager'[d], k) = Entry(dictManager[d], k)
    BY <1>1, <1>4, SetEntryFacts
<1>6. ~About(d) /\ \A e \in DOMAIN dictManager : ~About(e)
    BY <1>2 DEF About
<1>7. CellsWithin(d)
    BY <1>1 DEF Before, IInv, DictionariesHold, HoldsIn
<1>8. PICK n \in Nat : n = dictPtr[d] /\ n = 3 * AccessCount(d)
    BY <1>1
<1>9. limits' = limits
    BY DEF EntryGet, Unless, programVars
<1>10. AccessesKept(d)
    <2>1. CASE thrown' # undefined
        <3>1. \A o \in Int : CellOf(d, o)' = CellOf(d, o)
            BY <1>4, <2>1
        <3> QED
            BY <1>1, <1>9, <3>1, CellsKeepAccesses
    <2>2. CASE thrown' = undefined
        <3>1. PICK at \in Int : at = AccessCount(d)
            BY <1>1
        <3>2. /\ n + 1 \in (3 * at)..(3 * at + 2) /\ n \in (3 * at)..(3 * at + 2)
              /\ n # n + 1 /\ n \in Int
            BY <1>8, <3>1
        <3>3. CellOf(d, n) = undefined
            BY <1>7, <1>8, <3>2 DEF CellsWithin
        <3>4. \A o \in Int : CellOf(d, o)' =
                  IF o = n + 1 THEN Entry(dictManager[d], key) ELSE CellOf(d, o)
            BY <1>4, <1>8, <2>2
        <3> QED
            BY <1>1, <1>9, <3>2, <3>3, <3>4, IncompleteKept
    <2> QED
        BY <2>1, <2>2
<1>11. ReplaysIn(d)'
    BY <1>1, <1>5, <1>6, <1>10, ReplaysFrame
<1>12. CASE thrown' # undefined
    <2>1. UNCHANGED <<dictPtr, open, pending>>
        BY <1>12 DEF EntryGet, Unless, programVars
    <2>2. pending' \in Seq(Assertion)
        BY <2>1 DEF Before, IInv, Typed
    <2>3. Typed'
        BY <1>4, <1>5, <1>9, <2>2, TypedKept
    <2>4. ASSUME NEW e \in DOMAIN dictManager, e # d
          PROVE ReplaysIn(e)'
        <3>1. ~About(e)'
            BY <1>2, <2>1 DEF About
        <3>2. e \notin {0, d}
            BY <2>4, DictionaryFacts
        <3> QED
            BY <1>4, <1>5, <1>6, <1>9, <2>1, <2>4, <3>1, <3>2, OtherDictionary
    <2>5. Replays'
        BY <1>5, <1>11, <2>4 DEF Replays
    <2> QED
        BY <1>12, <2>3, <2>5 DEF IInv, Running
<1>13. CASE thrown' = undefined
    <2>1. /\ pending' = <<Equals(d, n, Felt(key))>>
          /\ dictPtr' = [dictPtr EXCEPT ![d] = @ + 3]
          /\ open' = open \cup {d}
          /\ ap' = ap + 3
          /\ UNCHANGED <<limits, squashed, arenaPtr, squash>>
        BY <1>8, <1>13 DEF EntryGet, Unless, FRAME, DICT_ACCESS_SIZE
    <2>2. Typed'
        <3>1. Relocatable(d, n) \in Relocatables /\ Felt(key) \in SegmentValue
            BY <1>1, RelocatableType, KeyFelts, KindsAreValues
        <3>2. Equals(d, n, Felt(key)) \in Assertion
            BY <3>1 DEF Equals, Assertion
        <3>3. pending' \in Seq(Assertion)
            BY <2>1, <3>2
        <3> QED
            BY <1>4, <1>5, <1>9, <3>3, TypedKept
    <2>3. dictPtr'[d] = n + 3 /\ \A e \in DOMAIN dictPtr \ {d} : dictPtr'[e] = dictPtr[e]
        BY <1>8, <2>1
    <2>4. ASSUME NEW e \in DOMAIN dictManager, e # d
          PROVE ReplaysIn(e)' /\ HoldsIn(e)'
        <3>1. ~About(e)'
            <4>1. \A k \in DOMAIN pending' : pending'[k].address.segmentId = d
                BY <2>1 DEF Equals, Relocatable
            <4> QED
                BY <2>4, <4>1 DEF About
        <3>2. e \notin {0, d} /\ e \in DOMAIN dictPtr
            BY <2>4, DictionaryFacts
        <3>3. dictPtr'[e] = dictPtr[e] /\ (e \in open' <=> e \in open)
            BY <2>1, <2>3, <2>4, <3>2
        <3> QED
            BY <1>4, <1>5, <1>6, <1>9, <2>4, <3>1, <3>2, <3>3, OtherDictionary
    <2>5. \A o \in Int : CellOf(d, o)' =
              IF o = n + 1 THEN Entry(dictManager[d], key) ELSE CellOf(d, o)
        BY <1>4, <1>8, <1>13
    <2>6. HoldsIn(d)'
        <3>1. ASSUME NEW o \in Int, CellOf(d, o)' # undefined
              PROVE /\ 0 <= o /\ o < n + 3
                    /\ o % 3 = 0 => \E x \in Keys : CellOf(d, o)' = Felt(x)
            <4>1. CASE o = n + 1
                BY <1>1, <1>8, <4>1
            <4>2. CASE o # n + 1
                BY <1>7, <1>8, <2>5, <3>1, <4>2 DEF CellsWithin
            <4> QED
                BY <4>1, <4>2
        <3>2. CellsWithin(d)'
            BY <2>3, <3>1 DEF CellsWithin
        <3>3. OpenAccess(d, key)'
            <4>1. /\ LastKey(d)' = n /\ LastPrev(d)' = n + 1 /\ LastNew(d)' = n + 2
                BY <2>3 DEF LastKey, LastPrev, LastNew
            <4>2. 1 \in DOMAIN pending' /\ pending'[1] = Equals(d, n, Felt(key))
                BY <2>1
            <4>3. Promised(d, n, Felt(key))'
                BY <4>2 DEF Promised, Asserts
            <4>4. CellOf(d, n + 1)' = Entry(dictManager'[d], key)
                BY <1>5, <2>5
            <4>5. CellOf(d, n + 2)' = undefined
                <5>1. n + 2 \in Int /\ n + 2 # n + 1
                    OBVIOUS
                <5>2. CellOf(d, n + 2) = undefined
                    BY <1>7, <1>8, <5>1 DEF CellsWithin
                <5> QED
                    BY <2>5, <5>1, <5>2
            <4>6. Promised(d, LastKey(d), Felt(key))'
                BY <4>1, <4>3 DEF Promised, CellOf, Asserts, Equals, LastKey
            <4>7. (CellOf(d, LastPrev(d)) = Entry(dictManager[d], key))'
                BY <4>1, <4>4 DEF CellOf, LastPrev
            <4>8. (CellOf(d, LastNew(d)) = undefined)'
                BY <4>1, <4>5 DEF CellOf, LastNew
            <4> QED
                BY <4>6, <4>7, <4>8 DEF OpenAccess
        <3>4. ASSUME NEW v, NewIs(d, v)'
              PROVE FALSE
            <4>1. pending'[1].address.offset = n
                BY <2>1 DEF Equals, Relocatable
            <4>2. pending'[1].address.offset = n + 2
                BY <2>3, <3>4 DEF NewIs, LastNew, Equals, Relocatable
            <4> QED
                BY <4>1, <4>2
        <3> QED
            BY <1>1, <3>2, <3>3, <3>4 DEF HoldsIn
    <2>7. Controlled' /\ Squashes'
        <3>1. Controlled
            BY DEF Before, IInv
        <3>2. ASSUME NEW e \in DOMAIN dictPtr
              PROVE \E x \in 0..limits.accesses : dictPtr'[e] = 3 * x
            <4>1. CASE e = d
                <5>1. AccessCount(d) + 1 \in 0..limits.accesses
                    BY <1>1, <1>3
                <5>2. dictPtr'[d] = 3 * (AccessCount(d) + 1)
                    BY <1>1, <1>8, <2>3
                <5> QED
                    BY <4>1, <5>1, <5>2
            <4>2. CASE e # d
                BY <2>3, <3>1, <4>2 DEF Controlled
            <4> QED
                BY <4>1, <4>2
        <3>3. open' \subseteq DOMAIN dictPtr /\ DOMAIN dictPtr' = DOMAIN dictPtr
            BY <2>1, <3>1 DEF Controlled
        <3>4. ASSUME NEW e \in open'
              PROVE dictPtr'[e] >= 3
            BY <2>1, <2>3, <3>1, <3>3 DEF Controlled
        <3>5. ap' \in Nat
            BY <1>1, <2>1
        <3> QED
            BY <1>2, <1>5, <2>1, <3>2, <3>3, <3>4, <3>5, AccessControl
    <2>8. PendingKinds'
        <3>1. d \in open' /\ LastKey(d)' = n
            BY <2>1, <2>3 DEF LastKey
        <3>2. pending' = <<Equals(d, LastKey(d)', Felt(key))>>
            BY <2>1, <3>1
        <3>3. \E e \in open', k \in Keys : pending' = <<Equals(e, LastKey(e)', Felt(k))>>
            BY <1>1, <3>1, <3>2
        <3> QED
            BY <3>3 DEF PendingKinds, LastKey, Equals
    <2>9. ArenaHolds'
        <3>1. \A s \in {Info, Arena}, o \in Int : CellOf(s, o)' = CellOf(s, o)
            <4>1. \A s \in {Info, Arena} : s \in 0..(Len(segments) - 1) /\ s \notin {0, d}
                BY <1>1, StateFacts DEF Info, Arena
            <4> QED
                BY <1>4, <4>1, CellsElsewhere
        <3>2. \A o \in Int : \A v : ~Asserts(Arena, o, v)
            BY <1>2 DEF Asserts
        <3>3. arenaPtr' = arenaPtr /\ DOMAIN dictPtr' = DOMAIN dictPtr
            BY <2>1
        <3> QED
            BY <1>5, <3>1, <3>2, <3>3, ArenaFrame
    <2>10. Replays' /\ DictionariesHold'
        BY <1>5, <1>11, <2>4, <2>6 DEF Replays, DictionariesHold
    <2> QED
        BY <2>2, <2>7, <2>8, <2>9, <2>10 DEF IInv
<1> QED
    BY <1>12, <1>13

\* The hint of an open access reads its key, and never throws.
LEMMA EntryUpdateHint ==
    ASSUME Before, NEW d \in open, NEW v \in SegmentValue, NEW key \in Keys,
           CellOf(d, LastKey(d)) = Felt(key),
           felt252DictEntryUpdate(FramedWith(Relocatable(d, dictPtr[d] - 3), v), Regs,
                                  Plus(0, 3), DerefAp(1))
    PROVE /\ SetEntry(d, key, v) /\ UNCHANGED squashedDictManager
          /\ Elsewhere(segments, segments', {0}) /\ thrown' = undefined
<1>1. /\ d \in DOMAIN dictPtr /\ dictPtr[d] >= 3
    BY DEF Before, IInv, Controlled
<1>2. /\ d \in DOMAIN dictManager /\ d \in Nat /\ d >= 4 /\ d \in 0..(Len(segments) - 1)
      /\ dictPtr[d] \in Nat /\ dictPtr[d] + 3 <= Top /\ ~isError(dictManager[d])
    <2>1. d \in DOMAIN dictManager
        BY <1>1, StateFacts
    <2> QED
        BY <2>1, DictionaryFacts
<1>3. PICK o \in Nat : o = dictPtr[d] - 3
    BY <1>1, <1>2
<1> DEFINE start == Relocatable(d, o)
           end == Relocatable(d, o + 3)
           m == FramedWith(start, v)
<1>4. /\ start \in Relocatables /\ start \in SegmentValue
      /\ end \in Relocatables /\ ~isError(end) /\ end.segmentId = d /\ end.offset = o + 3
    BY <1>2, RelocatableType
<1>5. /\ m \in Memories(SegmentValue) /\ Len(m) = Len(segments) /\ Len(m) > 0 /\ ap \in Nat
      /\ Elsewhere(segments, m, {0})
      /\ CellAt(m, Relocatable(0, ap)) = start /\ CellAt(m, Relocatable(0, ap + 1)) = v
    BY <1>4, TwoFrame, StateFacts
<1>6. \A p \in Int : CellAt(m, Relocatable(d, p)) = CellOf(d, p)
    BY <1>2, <1>4, AccessMemory
<1>7. felt252DictEntryUpdate(m, Regs, Plus(0, 3), DerefAp(1))
    BY <1>3
<1> HIDE DEF m
<1>8. PointerOf(m, Regs, Plus(0, 3)) = end
    <2>1. PointerOf(m, Regs, Plus(0, 3)) = AddFelt(start, Felt(3))
        BY <1>4, <1>5, PointerInFrame
    <2>2. AddFelt(Relocatable(d, o), Felt(3)) = Relocatable(d, o + 3)
        <3>1. limits \in Limits /\ o + 3 <= Top
            BY <1>2, <1>3, StateFacts
        <3> QED
            BY <3>1, SmallSums
    <2> QED
        BY <2>1, <2>2
<1>9. LoadFelt(m, Back(end, 3)) = Felt(key)
    <2>1. Back(end, 3) = start
        BY <1>4 DEF Back, AddOffset, Relocatable
    <2>2. Load(m, start) = CellOf(d, o)
        <3>1. d \in 0..(Len(m) - 1) /\ o \in Int
            BY <1>2, <1>5
        <3>2. Load(m, start) = CellAt(m, start)
            BY <1>5, <3>1, LoadIsTheCell
        <3> QED
            BY <1>6, <3>1, <3>2
    <2>3. Load(m, start) = Felt(key)
        BY <1>3, <2>2 DEF LastKey
    <2>4. isFelt(Felt(key))
        BY KeyFelts, Tags
    <2> HIDE DEF start
    <2> QED
        BY <2>1, <2>3, <2>4 DEF LoadFelt, Expect
<1>10. getSegmentValue(m, Regs, Cell(1)).value = v
    BY <1>5, ValueInFrame
<1>11. getDict(end) = dictManager[d]
    BY <1>2, <1>4 DEF getDict
<1>12. FirstError(<<Felt(key), v, dictManager[d]>>) = undefined
    <2>1. ~isError(Felt(key)) /\ ~isError(v)
        BY KeyFelts, Tags DEF SegmentValue
    <2>2. \A i \in DOMAIN <<Felt(key), v, dictManager[d]>> :
              ~isError(<<Felt(key), v, dictManager[d]>>[i])
        BY <1>2, <2>1
    <2> QED
        BY <2>2, NoErrors
<1>13. PICK address, k, val, error :
           /\ address = PointerOf(m, Regs, Plus(0, 3))
           /\ k = LoadFelt(m, Back(address, 3))
           /\ val = getSegmentValue(m, Regs, Cell(1)).value
           /\ error = FirstError(<<k, val, getDict(address)>>)
           /\ segments' = m /\ thrown' = error
           /\ ~isError(error) => SetEntry(address.segmentId, k.inner, val)
           /\ UNCHANGED squashedDictManager
    BY <1>7 DEF felt252DictEntryUpdate, DerefAp, KEY_OFFSET
<1> HIDE DEF end
<1>14. address = end
    BY <1>8, <1>13
<1>15. k = Felt(key) /\ val = v
    BY <1>9, <1>10, <1>13, <1>14
<1>16. error = undefined
    BY <1>11, <1>12, <1>13, <1>14, <1>15
<1>17. SetEntry(d, key, v)
    BY <1>4, <1>13, <1>14, <1>15, <1>16, KeyFelts, Tags
<1> QED
    BY <1>5, <1>13, <1>16, <1>17

\* The entry that is set is the one whose access is open.
LEMMA FinalizeHint ==
    ASSUME Before, NEW d \in DOMAIN dictPtr, NEW v \in NewValues, EntryFinalize(d, v)
    PROVE /\ UNCHANGED squashedDictManager
          /\ Elsewhere(segments, segments', {0}) /\ thrown' = undefined
          /\ \E key \in Keys :
                /\ CellOf(d, LastKey(d)) = Felt(key)
                /\ CellOf(d, LastPrev(d)) = Entry(dictManager[d], key)
                /\ CellOf(d, LastNew(d)) = undefined
                /\ SetEntry(d, key, v)
<1>1. d \in open /\ d \in DOMAIN dictManager /\ v \in SegmentValue /\ ~About(d)
    <2>1. d \in open /\ pending = <<>>
        BY DEF EntryFinalize, Ready
    <2>2. ~About(d)
        BY <2>1 DEF About
    <2> QED
        BY <2>1, <2>2, StateFacts, ProgramAssumption
<1>2. PICK key \in Keys :
          /\ CellOf(d, LastKey(d)) = Felt(key)
          /\ CellOf(d, LastPrev(d)) = Entry(dictManager[d], key)
          /\ CellOf(d, LastNew(d)) = undefined
    <2>1. PICK key \in Keys : OpenAccess(d, key)
        BY <1>1 DEF Before, IInv, DictionariesHold, HoldsIn
    <2>2. CellOf(d, LastKey(d)) = Felt(key)
        BY <1>1, <2>1, NotAbout DEF OpenAccess, Promised
    <2> QED
        BY <2>1, <2>2 DEF OpenAccess
<1>3. felt252DictEntryUpdate(FramedWith(Relocatable(d, dictPtr[d] - 3), v), Regs,
                             Plus(0, 3), DerefAp(1))
    BY DEF EntryFinalize, DICT_ACCESS_SIZE
<1>4. /\ SetEntry(d, key, v) /\ UNCHANGED squashedDictManager
      /\ Elsewhere(segments, segments', {0}) /\ thrown' = undefined
    BY <1>1, <1>2, <1>3, EntryUpdateHint
<1> QED
    BY <1>2, <1>4

LEMMA EntryFinalizeStep ==
    ASSUME Before, NEW d \in DOMAIN dictPtr, NEW v \in NewValues, EntryFinalize(d, v)
    PROVE IInv'
<1>1. pending = <<>> /\ squash.at = "none" /\ d \in open
    BY DEF EntryFinalize, Ready
<1>2. /\ d \in DOMAIN dictManager /\ limits \in Limits /\ v \in SegmentValue
      /\ dictPtr[d] \in Nat /\ dictPtr[d] >= 3 /\ d \in Nat /\ d >= 4 /\ ap \in Nat
    <2>1. d \in DOMAIN dictManager /\ limits \in Limits /\ ap \in Nat
        BY StateFacts
    <2>2. v \in SegmentValue
        BY ProgramAssumption
    <2>3. dictPtr[d] >= 3
        BY <1>1 DEF Before, IInv, Controlled
    <2> QED
        BY <2>1, <2>2, <2>3, DictionaryFacts
<1>3. PICK n \in Nat : n = dictPtr[d] /\ n >= 3
    BY <1>2
<1>4. ~About(d) /\ \A e \in DOMAIN dictManager : ~About(e)
    BY <1>1 DEF About
<1>5. CellsWithin(d) /\ ReplaysIn(d)
    BY <1>2 DEF Before, IInv, Replays, DictionariesHold, HoldsIn
<1>6. PICK key \in Keys :
          /\ CellOf(d, LastKey(d)) = Felt(key)
          /\ CellOf(d, LastPrev(d)) = Entry(dictManager[d], key)
          /\ CellOf(d, LastNew(d)) = undefined
          /\ SetEntry(d, key, v)
    BY FinalizeHint
<1>7. /\ SetEntry(d, key, v) /\ UNCHANGED squashedDictManager
      /\ Elsewhere(segments, segments', {0}) /\ thrown' = undefined
    BY <1>6, FinalizeHint
<1>8. /\ DOMAIN dictManager' = DOMAIN dictManager
      /\ \A e \in DOMAIN dictManager \ {d} : dictManager'[e] = dictManager[e]
      /\ \A e \in DOMAIN dictManager :
            /\ dictManager'[e] \in [tag : {"dictionary"}, id : Felts, entries : DictionaryMaps]
            /\ dictManager'[e].id = dictManager[e].id
      /\ \A k : Entry(dictManager'[d], k) = IF k = key THEN v ELSE Entry(dictManager[d], k)
    BY <1>2, <1>7, SetEntryFacts
<1>9. /\ pending' = <<Equals(d, n - 1, v)>>
      /\ open' = open \ {d}
      /\ ap' = ap + 3
      /\ UNCHANGED <<limits, squashed, arenaPtr, dictPtr, squash>>
    BY <1>3, <1>7 DEF EntryFinalize, Unless, FRAME
<1>10. \A o \in Int : CellOf(d, o)' = CellOf(d, o)
    <2>1. d \in 0..(Len(segments) - 1) /\ d \notin {0}
        BY <1>2, DictionaryFacts
    <2> QED
        BY <1>7, <2>1, CellsElsewhere
<1>11. AccessesKept(d)
    BY <1>2, <1>9, <1>10, CellsKeepAccesses
<1>12. Typed'
    <2>1. n - 1 \in Int
        OBVIOUS
    <2>2. Relocatable(d, n - 1) \in Relocatables
        BY <1>2, <2>1, RelocatableType
    <2>3. Equals(d, n - 1, v) \in Assertion
        BY <1>2, <2>2 DEF Equals, Assertion
    <2>4. pending' \in Seq(Assertion)
        BY <1>9, <2>3
    <2>5. thrown' \in {undefined} \cup Errors
        BY <1>7
    <2> QED
        BY <1>7, <1>8, <1>9, <2>4, <2>5, TypedKept
<1>13. ASSUME NEW e \in DOMAIN dictManager, e # d
       PROVE ReplaysIn(e)' /\ HoldsIn(e)'
    <2>1. ~About(e)'
        <3>1. \A k \in DOMAIN pending' : pending'[k].address.segmentId = d
            BY <1>9 DEF Equals, Relocatable
        <3> QED
            BY <1>13, <3>1 DEF About
    <2>2. e \notin {0} /\ e \in DOMAIN dictPtr
        BY DictionaryFacts
    <2>3. dictPtr'[e] = dictPtr[e] /\ (e \in open' <=> e \in open)
        BY <1>9, <1>13
    <2> QED
        BY <1>4, <1>7, <1>8, <1>9, <1>13, <2>1, <2>2, <2>3, OtherDictionary
<1>14. LastKey(d)' = n - 3 /\ LastPrev(d)' = n - 2 /\ LastNew(d)' = n - 1
    BY <1>3, <1>9 DEF LastKey, LastPrev, LastNew
<1>15. NewIs(d, v)'
    BY <1>9, <1>14 DEF NewIs, Equals, LastNew
<1>16. /\ \A k, x : Replayed(d, k, x)' = Replayed(d, k, x)
       /\ PrevsReplay(d)'
    BY <1>2, <1>5, <1>11, ReplayKept DEF ReplaysIn
<1>17. ReplaysIn(d)'
    BY <1>15, <1>16 DEF ReplaysIn, NewPending
<1>18. \A k \in Keys : EntryReplays(d, k)
    BY <1>4, <1>5, NotAbout DEF ReplaysIn, NewPending
<1>19. PICK most : most = limits.accesses /\ most = limits.accesses'
    BY <1>9
<1>20. \A k : Replayed(d, k, limits.accesses)' = Replayed(d, k, most)'
    BY <1>19 DEF Replayed, Earlier, NewOf, CellOf
<1>21. \A k \in Keys : Replayed(d, k, limits.accesses)' = Entry(dictManager[d], k)
    BY <1>16, <1>18, <1>19, <1>20 DEF EntryReplays
<1>22. Finalized(d, v, key)'
    <2>1. n - 3 \in Int /\ n - 2 \in Int /\ n - 1 \in Int
        OBVIOUS
    <2>2. /\ CellOf(d, n - 3) = Felt(key)
          /\ CellOf(d, n - 2) = Entry(dictManager[d], key)
          /\ CellOf(d, n - 1) = undefined
        BY <1>3, <1>6 DEF LastKey, LastPrev, LastNew
    <2>3. (CellOf(d, LastKey(d)) = Felt(key))'
        BY <1>10, <1>14, <2>1, <2>2 DEF CellOf, LastKey
    <2>4. (CellOf(d, LastPrev(d)) = Replayed(d, key, limits.accesses))'
        <3>1. CellOf(d, LastPrev(d))' = CellOf(d, n - 2)'
            BY <1>14 DEF CellOf, LastPrev
        <3> QED
            BY <1>10, <1>21, <2>1, <2>2, <3>1
    <2>5. (CellOf(d, LastNew(d)) = undefined)'
        BY <1>10, <1>14, <2>1, <2>2 DEF CellOf, LastNew
    <2>6. (Entry(dictManager[d], key) = v)'
        BY <1>8 DEF Entry
    <2>7. ASSUME NEW other \in Keys \ {key}
          PROVE EntryReplays(d, other)'
        <3>1. Entry(dictManager'[d], other) = Replayed(d, other, limits.accesses)'
            BY <1>8, <1>21, <2>7
        <3> QED
            BY <3>1 DEF EntryReplays, Entry
    <2>8. (d \notin open /\ dictPtr[d] >= 3)'
        BY <1>3, <1>9
    <2> QED
        BY <2>3, <2>4, <2>5, <2>6, <2>7, <2>8 DEF Finalized
<1>23. HoldsIn(d)'
    <2>1. CellsWithin(d)'
        BY <1>5, <1>9, <1>10 DEF CellsWithin
    <2>2. ASSUME NEW w, NewIs(d, w)'
          PROVE w = v
        <3>1. pending'[1].value = w
            BY <2>2 DEF NewIs, Equals
        <3>2. pending'[1].value = v
            BY <1>9 DEF Equals
        <3> QED
            BY <3>1, <3>2
    <2>3. d \notin open'
        BY <1>9
    <2>4. \A w : NewIs(d, w)' => \E x \in Keys : Finalized(d, w, x)'
        BY <1>22, <2>2
    <2> QED
        BY <2>1, <2>3, <2>4 DEF HoldsIn
<1>24. Controlled' /\ Squashes'
    <2>1. Controlled
        BY DEF Before, IInv
    <2>2. \A e \in DOMAIN dictPtr : \E x \in 0..limits.accesses : dictPtr'[e] = 3 * x
        BY <1>9, <2>1 DEF Controlled
    <2>3. /\ open' \subseteq DOMAIN dictPtr /\ DOMAIN dictPtr' = DOMAIN dictPtr
          /\ \A e \in open' : dictPtr'[e] >= 3
        BY <1>9, <2>1 DEF Controlled
    <2>4. ap' \in Nat
        BY <1>2, <1>9
    <2> QED
        BY <1>1, <1>8, <1>9, <2>2, <2>3, <2>4, AccessControl
<1>25. PendingKinds'
    <2>1. d \in DOMAIN dictPtr' \ open'
        BY <1>9
    <2>2. NewPending(d)'
        BY <1>15 DEF NewPending
    <2> QED
        BY <2>1, <2>2 DEF PendingKinds
<1>26. ArenaHolds'
    <2>1. \A s \in {Info, Arena}, o \in Int : CellOf(s, o)' = CellOf(s, o)
        <3>1. \A s \in {Info, Arena} : s \in 0..(Len(segments) - 1) /\ s \notin {0}
            BY StateFacts DEF Info, Arena
        <3> QED
            BY <1>7, <3>1, CellsElsewhere
    <2>2. \A o \in Int : \A w : ~Asserts(Arena, o, w)
        BY <1>1 DEF Asserts
    <2>3. arenaPtr' = arenaPtr /\ DOMAIN dictPtr' = DOMAIN dictPtr
        BY <1>9
    <2> QED
        BY <1>8, <2>1, <2>2, <2>3, ArenaFrame
<1>27. Replays' /\ DictionariesHold'
    BY <1>8, <1>13, <1>17, <1>23 DEF Replays, DictionariesHold
<1> QED
    BY <1>12, <1>24, <1>25, <1>26, <1>27 DEF IInv

-----------------------------------------------------------------------------
(* Allocating a dictionary *)

\* The hint finds how many dictionaries there are, and where their infos are, in the
\* last block of the arena.
LEMMA AllocReads ==
    ASSUME Before, pending = <<>>, NEW m, m = Framed(Relocatable(Arena, arenaPtr))
    PROVE /\ m \in Memories(SegmentValue) /\ Len(m) = Len(segments)
          /\ Elsewhere(segments, m, {0})
          /\ LoadFelt(m, Back(PointerOf(m, Regs, DerefAp(0)), DICT_NUMBER_OFFSET))
                 = Felt(Len(segments) - 4)
          /\ LoadRelocatable(m, Back(PointerOf(m, Regs, DerefAp(0)), INFO_PTR_OFFSET))
                 = Relocatable(Info, 0)
<1>1. /\ arenaPtr \in Nat /\ arenaPtr >= 3 /\ arenaPtr <= Top /\ ap \in Nat /\ Top \in Nat
      /\ limits \in Limits /\ Len(segments) \in Nat /\ Len(segments) >= 4
      /\ Cardinality(DOMAIN dictPtr) = Len(segments) - 4
    BY StateFacts
<1>2. PICK o \in Nat : o = arenaPtr /\ o >= 3 /\ o <= Top
    BY <1>1
<1> DEFINE start == Relocatable(Arena, o)
           id == Felt(Len(segments) - 4)
<1>3. /\ start \in Relocatables /\ start \in SegmentValue /\ ~isError(start)
      /\ start.segmentId = Arena /\ start.offset = o
    BY RelocatableType DEF Arena
<1>4. /\ m \in Memories(SegmentValue) /\ Len(m) = Len(segments) /\ Len(m) > 0
      /\ Elsewhere(segments, m, {0})
      /\ CellAt(m, Relocatable(0, ap)) = start
    BY <1>1, <1>2, <1>3, OneFrame
<1>5. PointerOf(m, Regs, DerefAp(0)) = start
    <2>1. PointerOf(m, Regs, DerefAp(0)) = AddFelt(start, Zero)
        BY <1>1, <1>3, <1>4, PointerInFrame
    <2>2. AddFelt(Relocatable(Arena, o), Felt(0)) = Relocatable(Arena, o + 0)
        BY <1>1, <1>2, SmallSums
    <2> QED
        BY <2>1, <2>2 DEF Zero
<1>6. Back(start, 2) = Relocatable(Arena, o - 2) /\ Back(start, 3) = Relocatable(Arena, o - 3)
    BY <1>2, <1>3 DEF Back, AddOffset
<1>7. Arena \in 0..(Len(segments) - 1) /\ Arena \notin {0}
    BY <1>1 DEF Arena
<1>8. /\ CellOf(Arena, o - 2) = id
      /\ CellOf(Arena, o - 3) = Relocatable(Info, 0)
    <2>1. \A p, v : ~Asserts(Arena, p, v)
        BY DEF Asserts
    <2> QED
        BY <1>1, <1>2, <2>1 DEF Before, IInv, ArenaHolds, Promised
<1>9. /\ Load(m, Relocatable(Arena, o - 2)) = id
      /\ Load(m, Relocatable(Arena, o - 3)) = Relocatable(Info, 0)
    <2>1. \A p \in Int : CellAt(m, Relocatable(Arena, p)) = CellOf(Arena, p)
        BY <1>4, <1>7 DEF Elsewhere, CellOf
    <2>2. \A p \in Int : Load(m, Relocatable(Arena, p)) = CellAt(m, Relocatable(Arena, p))
        BY <1>4, <1>7, LoadIsTheCell
    <2>3. o - 2 \in Int /\ o - 3 \in Int
        OBVIOUS
    <2> QED
        BY <1>8, <2>1, <2>2, <2>3
<1>10. isFelt(id) /\ isRelocatable(Relocatable(Info, 0))
    <2>1. Info \in Nat
        BY DEF Info
    <2> QED
        BY <2>1, RelocatableType DEF Felt, isFelt
<1> HIDE DEF start, id
<1>11. LoadFelt(m, Back(start, 2)) = id
    BY <1>6, <1>9, <1>10 DEF LoadFelt, Expect
<1>12. LoadRelocatable(m, Back(start, 3)) = Relocatable(Info, 0)
    BY <1>6, <1>9, <1>10 DEF LoadRelocatable, Expect
<1> QED
    BY <1>4, <1>5, <1>11, <1>12 DEF id, DICT_NUMBER_OFFSET, INFO_PTR_OFFSET

LEMMA AllocHint ==
    ASSUME Before, pending = <<>>, NEW s, s = Len(segments),
           allocFelt252Dict(Framed(Relocatable(Arena, arenaPtr)), Regs, DerefAp(0))
    PROVE /\ dictManager' = Put(dictManager, s, Dictionary(s - 4))
          /\ UNCHANGED squashedDictManager
          /\ segments' \in Memories(SegmentValue) /\ Len(segments') = s + 1
          /\ \A i \in 1..s : segments'[i].builtin = segments[i].builtin
          /\ segments'[s + 1].builtin = "none"
          /\ thrown' \in {undefined} \cup Errors
          /\ \A p \in Int : CellOf(s, p)' = undefined
          /\ \A t \in 1..(s - 1), p \in Int :
                CellOf(t, p)' = IF thrown' = undefined /\ t = Info /\ p = 3 * (s - 4)
                                  THEN Relocatable(s, 0) ELSE CellOf(t, p)
<1>1. PICK m : m = Framed(Relocatable(Arena, arenaPtr))
    OBVIOUS
<1>2. /\ m \in Memories(SegmentValue) /\ Len(m) = s
      /\ Elsewhere(segments, m, {0})
      /\ LoadFelt(m, Back(PointerOf(m, Regs, DerefAp(0)), DICT_NUMBER_OFFSET)) = Felt(s - 4)
      /\ LoadRelocatable(m, Back(PointerOf(m, Regs, DerefAp(0)), INFO_PTR_OFFSET))
             = Relocatable(Info, 0)
    BY <1>1, AllocReads
<1>3. /\ s \in Nat /\ s >= 4 /\ limits \in Limits /\ Top \in Nat /\ 3 * (s - 4) + 3 <= Top
      /\ DOMAIN dictManager = DOMAIN dictPtr /\ Cardinality(DOMAIN dictPtr) = s - 4
    BY StateFacts
<1>4. PICK n \in Nat : n = s - 4 /\ 3 * n + 3 <= Top
    BY <1>3
<1> DEFINE info == Relocatable(Info, 3 * n)
           base == Relocatable(s, 0)
           added == addSegment(m, "none")
<1>5. AddFelt(Relocatable(Info, 0), Mul(Felt(n), Felt(3))) = info
    <2>1. n \in 0..Top /\ 3 \in 0..Top
        BY <1>3, <1>4
    <2>2. Felt(n).inner = n /\ Felt(3).inner = 3
        BY <1>3, <2>1, SmallFelts
    <2>3. Mul(Felt(n), Felt(3)) = Felt(n * 3)
        BY <2>2 DEF Mul, isFelt, Felt
    <2>4. n * 3 = 3 * n /\ 3 * n \in Nat /\ 0 + 3 * n <= Top
        BY <1>3, <1>4
    <2>5. AddFelt(Relocatable(Info, 0), Felt(3 * n)) = Relocatable(Info, 0 + 3 * n)
        BY <1>3, <2>4, SmallSums
    <2> QED
        BY <2>3, <2>4, <2>5
<1>6. FirstError(<<Felt(n), Relocatable(Info, 0)>>) = undefined
    <2>1. ~isError(Felt(n)) /\ ~isError(Relocatable(Info, 0))
        BY DEF isError, Felt, Relocatable
    <2> QED
        BY <2>1, SecondError
<1>7. PICK number, pointer, error :
          /\ number = LoadFelt(m, Back(PointerOf(m, Regs, DerefAp(0)), DICT_NUMBER_OFFSET))
          /\ pointer = LoadRelocatable(m, Back(PointerOf(m, Regs, DerefAp(0)),
                                               INFO_PTR_OFFSET))
          /\ error = FirstError(<<number, pointer>>)
          /\ ~isError(error) =>
                /\ newDict(m)
                /\ AssertEq(added, AddFelt(pointer, Mul(number, Felt(3))),
                            Relocatable(Len(m), 0))
          /\ UNCHANGED squashedDictManager
    BY <1>1 DEF allocFelt252Dict, DICT_ACCESS_SIZE
<1>8. number = Felt(n) /\ pointer = Relocatable(Info, 0) /\ error = undefined
    BY <1>2, <1>4, <1>6, <1>7
<1>9. newDict(m) /\ AssertEq(added, info, base)
    <2> HIDE DEF added, info
    <2> QED
        BY <1>2, <1>5, <1>7, <1>8, Tags
<1>10. dictManager' = Put(dictManager, s, Dictionary(s - 4))
    BY <1>2, <1>3, <1>9 DEF newDict
<1>11. /\ added \in Memories(SegmentValue) /\ Len(added) = s + 1
       /\ \A i \in 1..s : added[i].builtin = m[i].builtin
       /\ added[s + 1].builtin = "none"
       /\ \A t \in 0..s, p \in Int : CellAt(added, Relocatable(t, p)) =
              IF t = s THEN undefined ELSE CellAt(m, Relocatable(t, p))
    <2>1. /\ added \in Memories(SegmentValue) /\ Len(added) = Len(m) + 1
          /\ \A i \in 1..Len(m) : added[i].builtin = m[i].builtin
          /\ added[Len(m) + 1].builtin = "none"
          /\ \A t \in 0..Len(m), p \in Int : CellAt(added, Relocatable(t, p)) =
                 IF t = Len(m) THEN undefined ELSE CellAt(m, Relocatable(t, p))
        BY <1>2, AddSegmentCells
    <2> HIDE DEF added
    <2>2. Len(m) = s
        BY <1>2
    <2> QED
        BY <2>1, <2>2
<1>12. /\ info \in Relocatables /\ info.segmentId = Info /\ info.offset = 3 * n
       /\ base \in SegmentValue
    <2>1. 3 * n \in Int /\ Info \in Nat
        BY DEF Info
    <2> QED
        BY <1>3, <2>1, RelocatableType
<1> HIDE DEF added, info, base
<1> DEFINE write == assertEq(added, info, base)
<1>13. segments' = write.segments /\ thrown' = write.value
    BY <1>9 DEF AssertEq, Written
<1>14. /\ write.value \in {undefined} \cup Errors
       /\ write.value # undefined => write.segments = added
       /\ write.value = undefined => Writes(added, write.segments, Info, 3 * n, base)
    BY <1>11, <1>12, AssertEqWrites
<1>15. Elsewhere(added, write.segments, {Info})
    BY <1>11, <1>12, AssertEqElsewhere
<1> HIDE DEF write
<1>16. /\ segments' \in Memories(SegmentValue) /\ Len(segments') = s + 1
       /\ \A i \in 1..(s + 1) : segments'[i].builtin = added[i].builtin
    BY <1>11, <1>13, <1>15 DEF Elsewhere
<1>17. \A i \in 1..s : m[i].builtin = segments[i].builtin
    BY <1>2 DEF Elsewhere
<1>18. ASSUME NEW t \in 0..s, NEW p \in Int
       PROVE CellOf(t, p)' = IF thrown' = undefined /\ t = Info /\ p = 3 * n
                               THEN base ELSE CellAt(added, Relocatable(t, p))
    <2>1. CASE thrown' # undefined
        BY <1>13, <1>14, <2>1 DEF CellOf
    <2>2. CASE thrown' = undefined
        <3>1. t \in 0..(Len(added) - 1)
            BY <1>3, <1>11
        <3> QED
            BY <1>13, <1>14, <2>2, <3>1 DEF CellOf, Writes
    <2> QED
        BY <2>1, <2>2
<1>19. ASSUME NEW p \in Int
       PROVE CellOf(s, p)' = undefined
    <2>1. s \in 0..s /\ s # Info
        BY <1>3 DEF Info
    <2> QED
        BY <1>11, <1>18, <2>1
<1>20. ASSUME NEW t \in 1..(s - 1), NEW p \in Int
       PROVE CellOf(t, p)' = IF thrown' = undefined /\ t = Info /\ p = 3 * n
                               THEN base ELSE CellOf(t, p)
    <2>1. t \in 0..s /\ t # s /\ t \in (0..(Len(segments) - 1)) \ {0}
        BY <1>3
    <2>2. CellAt(added, Relocatable(t, p)) = CellAt(m, Relocatable(t, p))
        BY <1>11, <2>1
    <2>3. CellAt(m, Relocatable(t, p)) = CellOf(t, p)
        BY <1>2, <2>1 DEF Elsewhere, CellOf
    <2> QED
        BY <1>18, <2>1, <2>2, <2>3
<1>21. \A i \in 1..s : segments'[i].builtin = segments[i].builtin
    BY <1>3, <1>11, <1>16, <1>17
<1>22. segments'[s + 1].builtin = "none"
    BY <1>3, <1>11, <1>16
<1> QED
    BY <1>4, <1>7, <1>10, <1>13, <1>14, <1>16, <1>19, <1>20, <1>21, <1>22 DEF base

LEMMA AllocStep ==
    ASSUME Before, Alloc
    PROVE IInv'
<1>1. PICK s : s = Len(segments)
    OBVIOUS
<1>2. pending = <<>> /\ squash.at = "none"
    BY DEF Alloc, Ready
<1>3. /\ s \in Nat /\ s >= 4 /\ limits \in Limits
      /\ DOMAIN dictManager = 4..(s - 1) /\ DOMAIN dictPtr = 4..(s - 1)
      /\ Cardinality(DOMAIN dictPtr) = s - 4
      /\ arenaPtr \in Nat /\ arenaPtr >= 3 /\ ap \in Nat
    BY <1>1, StateFacts
<1>4. /\ dictManager' = Put(dictManager, s, Dictionary(s - 4))
      /\ UNCHANGED squashedDictManager
      /\ segments' \in Memories(SegmentValue) /\ Len(segments') = s + 1
      /\ \A i \in 1..s : segments'[i].builtin = segments[i].builtin
      /\ segments'[s + 1].builtin = "none"
      /\ thrown' \in {undefined} \cup Errors
      /\ \A p \in Int : CellOf(s, p)' = undefined
      /\ \A t \in 1..(s - 1), p \in Int :
            CellOf(t, p)' = IF thrown' = undefined /\ t = Info /\ p = 3 * (s - 4)
                              THEN Relocatable(s, 0) ELSE CellOf(t, p)
    <2>1. allocFelt252Dict(Framed(Relocatable(Arena, arenaPtr)), Regs, DerefAp(0))
        BY DEF Alloc
    <2> QED
        BY <1>1, <1>2, <2>1, AllocHint
<1>5. limits' = limits
    BY DEF Alloc, Unless, programVars
<1>6. /\ DOMAIN dictManager' = 4..s
      /\ dictManager'[s] = Dictionary(s - 4)
      /\ \A e \in DOMAIN dictManager : dictManager'[e] = dictManager[e]
    BY <1>3, <1>4 DEF Put
<1>7. Managed'
    <2>1. ASSUME NEW d \in 4..s
          PROVE /\ dictManager'[d] \in [tag : {"dictionary"}, id : Felts,
                                        entries : DictionaryMaps]
                /\ dictManager'[d].id = Felt(d - 4)
                /\ segments'[d + 1].builtin = "none"
        <3>1. CASE d = s
            <4>1. Felt(s - 4) \in Felts
                BY <1>3, FeltType
            <4>2. NoCells \in DictionaryMaps
                <5>1. NoCells \in [{} -> SegmentValue] /\ {} \in SUBSET Keys
                    BY DEF NoCells
                <5> QED
                    BY <5>1 DEF DictionaryMaps
            <4> QED
                BY <1>4, <1>6, <3>1, <4>1, <4>2 DEF Dictionary
        <3>2. CASE d # s
            <4>1. d \in DOMAIN dictManager /\ d + 1 \in 1..s
                BY <1>3, <3>2
            <4>2. /\ dictManager[d] \in [tag : {"dictionary"}, id : Felts,
                                         entries : DictionaryMaps]
                  /\ dictManager[d].id = Felt(d - 4)
                  /\ segments[d + 1].builtin = "none"
                BY <4>1, DictionaryFacts
            <4> QED
                BY <1>4, <1>6, <4>1, <4>2
        <3> QED
            BY <3>1, <3>2
    <2> QED
        BY <1>3, <1>4, <1>6, <2>1 DEF Managed
<1>8. ASSUME pending' \in Seq(Assertion)
      PROVE Typed'
    <2>1. Listed'
        BY <1>4, <1>5 DEF Before, IInv, Typed, Listed, IndexLists, squashedDictManager
    <2> QED
        BY <1>3, <1>4, <1>5, <1>7, <1>8, <2>1 DEF Typed
<1>9. ASSUME NEW e \in DOMAIN dictManager, dictPtr'[e] = dictPtr[e],
             e \in open' <=> e \in open, ~About(e)'
      PROVE ReplaysIn(e)' /\ HoldsIn(e)'
    <2>1. dictPtr[e] \in Int /\ e \in 4..(s - 1) /\ e >= 4
        BY <1>3, DictionaryFacts
    <2>2. e \in 1..(s - 1) /\ e # Info
        BY <1>3, <2>1 DEF Info
    <2>3. \A o \in Int : CellOf(e, o)' = CellOf(e, o)
        BY <1>4, <2>2
    <2>4. ~About(e)
        BY <1>2 DEF About
    <2>5. DictKept(e)
        BY <1>5, <1>6, <1>9, <2>3, <2>4, NotAbout DEF DictKept
    <2>6. ReplaysIn(e) /\ HoldsIn(e)
        BY DEF Before, IInv, Replays, DictionariesHold
    <2> QED
        BY <1>3, <2>1, <2>5, <2>6, DictFrame
<1>10. ReplaysIn(s)'
    <2>1. \A i : i \notin Accesses(s)'
        <3>1. ASSUME NEW i, i \in Accesses(s)'
              PROVE FALSE
            <4>1. i \in 0..(limits.accesses - 1) /\ CellOf(s, 3 * i)' # undefined
                BY <1>3, <1>5, <3>1, AccessCellsNext
            <4>2. 3 * i \in Int
                BY <1>3, <4>1, SmallNumbers
            <4> QED
                BY <1>4, <4>1, <4>2
        <3> QED
            BY <3>1
    <2>2. PrevsReplay(s)'
        BY <2>1 DEF PrevsReplay
    <2>3. ASSUME NEW key \in Keys
          PROVE EntryReplays(s, key)'
        <3>1. (Earlier(s, key, limits.accesses) = {})'
            BY <2>1 DEF Earlier
        <3>2. (Replayed(s, key, limits.accesses) = Zero)'
            BY <3>1 DEF Replayed
        <3>3. Entry(dictManager'[s], key) = Zero
            BY <1>6 DEF Entry, Dictionary, NoCells
        <3> QED
            BY <3>2, <3>3 DEF EntryReplays, Entry
    <2> QED
        BY <2>2, <2>3 DEF ReplaysIn
<1>11. CASE thrown' # undefined
    <2>1. UNCHANGED <<dictPtr, open, pending>>
        BY <1>11 DEF Alloc, Unless, programVars
    <2>2. Typed'
        BY <1>8, <2>1 DEF Before, IInv, Typed
    <2>3. \A e : ~About(e)'
        BY <1>2, <2>1 DEF About
    <2>4. \A e \in DOMAIN dictManager : ReplaysIn(e)'
        BY <1>9, <2>1, <2>3
    <2>5. Replays'
        BY <1>3, <1>6, <1>10, <2>4 DEF Replays
    <2> QED
        BY <1>11, <2>2, <2>5 DEF IInv, Running
<1>12. CASE thrown' = undefined
    <2>1. PICK k, b : /\ k = Cardinality(squashed) /\ k \in Nat
                      /\ b = NewBlock(s - 4 + 1, k)
        BY SquashedCount
    <2>2. /\ dictPtr' = Put(dictPtr, s, 0)
          /\ pending' = b
          /\ arenaPtr' = arenaPtr + 3
          /\ ap' = ap + 3
          /\ UNCHANGED <<open, squash, limits, squashed>>
        <3>1. /\ dictPtr' = Put(dictPtr, Len(segments), 0)
              /\ pending' = NewBlock(Cardinality(DOMAIN dictPtr) + 1, Cardinality(squashed))
              /\ arenaPtr' = arenaPtr + 3 /\ ap' = ap + 3
              /\ UNCHANGED <<open, squash, limits, squashed>>
            BY <1>12 DEF Alloc, Unless, FRAME
        <3> QED
            BY <1>1, <1>3, <2>1, <3>1
    <2>3. /\ b \in Seq(Assertion) /\ Len(b) = 3 /\ DOMAIN b = 1..3
          /\ \A i \in 1..3 : b[i].address.segmentId = Arena
          /\ b[1] = Equals(Arena, arenaPtr, Relocatable(Info, 0))
          /\ b[2] = Equals(Arena, arenaPtr + 1, Felt(s - 4 + 1))
        <3>1. s - 4 + 1 \in Nat
            BY <1>3
        <3>2. /\ b \in Seq(Assertion) /\ Len(b) = 3
              /\ \A i \in 1..3 : b[i].address.segmentId = Arena
              /\ b[1] = Equals(Arena, arenaPtr, Relocatable(Info, 0))
              /\ b[2] = Equals(Arena, arenaPtr + 1, Felt(s - 4 + 1))
            BY <2>1, <3>1, BlockType
        <3> QED
            BY <3>2, LenProperties
    <2>4. Typed'
        BY <1>8, <2>2, <2>3
    <2>5. /\ DOMAIN dictPtr' = 4..s /\ dictPtr'[s] = 0
          /\ \A e \in DOMAIN dictPtr : dictPtr'[e] = dictPtr[e]
        BY <1>3, <2>2 DEF Put
    <2>6. \A e : e >= 4 => ~About(e)'
        BY <2>2, <2>3 DEF About, Arena
    <2>7. \A e \in DOMAIN dictManager : ReplaysIn(e)' /\ HoldsIn(e)'
        BY <1>3, <1>9, <2>2, <2>5, <2>6
    <2>8. HoldsIn(s)'
        <3>1. CellsWithin(s)'
            BY <1>4 DEF CellsWithin
        <3>2. s \notin open'
            <4>1. open \subseteq DOMAIN dictPtr
                BY DEF Before, IInv, Controlled
            <4> QED
                BY <1>3, <2>2, <4>1
        <3>3. \A v : ~NewIs(s, v)'
            BY <1>3, <2>6, NotAbout
        <3> QED
            BY <3>1, <3>2, <3>3 DEF HoldsIn
    <2>9. Replays' /\ DictionariesHold'
        BY <1>3, <1>6, <1>10, <2>7, <2>8 DEF Replays, DictionariesHold
    <2>10. Controlled /\ Squashes /\ ArenaHolds
        BY DEF Before, IInv
    <2>11. SquashesBegun' = SquashesBegun /\ squash = NotSquashing /\ SquashesBegun = k
        <3>1. squash = NotSquashing
            BY <1>2, <2>10 DEF Squashes, NotSquashing
        <3> QED
            BY <1>2, <2>1, <2>2, <3>1 DEF SquashesBegun
    <2>12. Cardinality(DOMAIN dictPtr') = s - 4 + 1
        <3>1. Cardinality(4..s) = s - 4 + 1
            BY <1>3, FS_Interval
        <3> QED
            BY <2>5, <3>1
    <2>13. Controlled'
        <3>1. (\A d \in DOMAIN dictPtr : \E n \in 0..limits.accesses : dictPtr[d] = 3 * n)'
            <4>1. ASSUME NEW d \in 4..s
                  PROVE \E n \in 0..limits.accesses : dictPtr'[d] = 3 * n
                <5>1. CASE d = s
                    <6>1. 0 \in 0..limits.accesses /\ dictPtr'[d] = 3 * 0
                        BY <1>3, <2>5, <5>1, SmallNumbers
                    <6> QED
                        BY <6>1
                <5>2. CASE d # s
                    <6>1. d \in DOMAIN dictPtr
                        BY <1>3, <5>2
                    <6>2. \E n \in 0..limits.accesses : dictPtr[d] = 3 * n
                        BY <2>10, <6>1 DEF Controlled
                    <6> QED
                        BY <2>5, <6>1, <6>2
                <5> QED
                    BY <5>1, <5>2
            <4> QED
                BY <1>5, <2>5, <4>1
        <3>2. (Cardinality(DOMAIN dictPtr) <= limits.dicts)'
            <4>1. Cardinality(DOMAIN dictPtr) < limits.dicts
                BY DEF Alloc
            <4> QED
                BY <1>3, <1>5, <2>12, <4>1, SmallNumbers
        <3>3. (arenaPtr = 3 + 3 * (Cardinality(DOMAIN dictPtr) + SquashesBegun))'
            <4>1. arenaPtr = 3 + 3 * (s - 4 + k)
                BY <1>3, <2>10, <2>11 DEF Controlled
            <4>2. arenaPtr' = 3 + 3 * (s - 4 + 1 + k)
                BY <1>3, <2>1, <2>2, <4>1
            <4> QED
                BY <2>11, <2>12, <4>2
        <3>4. ap' \in Nat
            BY <1>3, <2>2
        <3>5. (open \subseteq DOMAIN dictPtr /\ \A d \in open : dictPtr[d] >= 3)'
            BY <1>3, <2>2, <2>5, <2>10 DEF Controlled
        <3>6. (DOMAIN dictPtr = DOMAIN dictManager)'
            BY <1>6, <2>5
        <3> QED
            BY <3>1, <3>2, <3>3, <3>4, <3>5, <3>6 DEF Controlled
    <2>14. Squashes'
        <3>1. squashed' \subseteq DOMAIN dictPtr'
            BY <1>3, <2>2, <2>5, <2>10 DEF Squashes
        <3>2. squash' = NotSquashing
            BY <2>2, <2>11
        <3>3. (SquashesBegun <= limits.squashes)'
            BY <1>5, <2>10, <2>11 DEF Squashes
        <3> QED
            BY <3>1, <3>2, <3>3 DEF Squashes, NotSquashing
    <2>15. PendingKinds'
        BY <2>2, <2>3 DEF PendingKinds
    <2>16. ArenaHolds'
        <3>1. PICK a \in Int : a = arenaPtr /\ arenaPtr' = a + 3
            BY <1>3, <2>2
        <3>2. PICK c : c = s - 4 + 1 /\ c = Cardinality(DOMAIN dictPtr)'
            BY <2>12
        <3>3. /\ Asserts(Arena, a, Relocatable(Info, 0))'
              /\ Asserts(Arena, a + 1, Felt(c))'
            <4>1. 1 \in DOMAIN pending' /\ 2 \in DOMAIN pending'
                BY <2>2, <2>3
            <4>2. /\ pending'[1] = Equals(Arena, a, Relocatable(Info, 0))
                  /\ pending'[2] = Equals(Arena, a + 1, Felt(c))
                BY <2>2, <2>3, <3>1, <3>2
            <4> QED
                BY <4>1, <4>2 DEF Asserts
        <3>4. arenaPtr' - 3 = a /\ arenaPtr' - 2 = a + 1
            BY <3>1
        <3>5. /\ Promised(Arena, arenaPtr - 3, Relocatable(Info, 0))'
              /\ Promised(Arena, arenaPtr - 2, Felt(Cardinality(DOMAIN dictPtr)))'
            BY <3>2, <3>3, <3>4 DEF Promised, Asserts, Equals
        <3>6. ASSUME NEW e \in 4..s
              PROVE CellOf(Info, 3 * (e - 4))' = Relocatable(e, 0)
            <4>1. Info \in 1..(s - 1) /\ 3 * (e - 4) \in Int
                BY <1>3 DEF Info
            <4>2. CASE e = s
                BY <1>4, <1>12, <4>1, <4>2
            <4>3. CASE e # s
                <5>1. CellOf(Info, 3 * (e - 4)) = Relocatable(e, 0)
                    BY <1>3, <2>10, <4>3 DEF ArenaHolds
                <5>2. 3 * (e - 4) # 3 * (s - 4)
                    BY <1>3, <4>3
                <5> QED
                    BY <1>4, <4>1, <5>1, <5>2
            <4> QED
                BY <4>2, <4>3
        <3>7. \A e \in DOMAIN dictManager' : CellOf(Info, 3 * (e - 4))' = Relocatable(e, 0)
            BY <1>6, <3>6
        <3> QED
            BY <3>5, <3>7 DEF ArenaHolds, CellOf
    <2> QED
        BY <2>4, <2>9, <2>13, <2>14, <2>15, <2>16 DEF IInv
<1> QED
    BY <1>11, <1>12

-----------------------------------------------------------------------------
(* The invariant *)

LEMMA ArenaBlockType ==
    ASSUME NEW o \in Int, NEW dicts \in Int, NEW count \in Int
    PROVE /\ ArenaBlock(o, dicts, count) \in CellMaps(SegmentValue)
          /\ DOMAIN ArenaBlock(o, dicts, count) = o..(o + 2)
          /\ ArenaBlock(o, dicts, count)[o] = Relocatable(Info, 0)
          /\ ArenaBlock(o, dicts, count)[o + 1] = Felt(dicts)
<1> DEFINE block == ArenaBlock(o, dicts, count)
<1>1. /\ Relocatable(Info, 0) \in SegmentValue
      /\ Felt(dicts) \in SegmentValue /\ Felt(count) \in SegmentValue
    BY RelocatableType, FeltType, KindsAreValues DEF Info
<1>2. DOMAIN block = o..(o + 2) /\ o..(o + 2) \subseteq Int
    BY DEF ArenaBlock
<1>3. block \in [o..(o + 2) -> SegmentValue]
    BY <1>1 DEF ArenaBlock
<1>4. block[o] = Relocatable(Info, 0) /\ block[o + 1] = Felt(dicts)
    BY DEF ArenaBlock
<1> HIDE DEF block
<1>5. block \in CellMaps(SegmentValue)
    BY <1>2, <1>3, CellMapsDef
<1> QED
    BY <1>2, <1>4, <1>5 DEF block

LEMMA InitialSegments ==
    ASSUME Init
    PROVE /\ segments \in Memories(SegmentValue) /\ Len(segments) = 4
          /\ CellOf(Arena, 0) = Relocatable(Info, 0) /\ CellOf(Arena, 1) = Felt(0)
<1> DEFINE arena == [builtin |-> "segment_arena", cells |-> ArenaBlock(0, 0, 0)]
<1>1. /\ ArenaBlock(0, 0, 0) \in CellMaps(SegmentValue)
      /\ DOMAIN ArenaBlock(0, 0, 0) = 0..(0 + 2)
      /\ ArenaBlock(0, 0, 0)[0] = Relocatable(Info, 0)
      /\ ArenaBlock(0, 0, 0)[0 + 1] = Felt(0)
    <2>1. PICK z \in Int : z = 0
        OBVIOUS
    <2>2. /\ ArenaBlock(z, z, z) \in CellMaps(SegmentValue)
          /\ DOMAIN ArenaBlock(z, z, z) = z..(z + 2)
          /\ ArenaBlock(z, z, z)[z] = Relocatable(Info, 0)
          /\ ArenaBlock(z, z, z)[z + 1] = Felt(z)
        BY ArenaBlockType
    <2> QED
        BY <2>1, <2>2
<1>2. NoCells \in CellMaps(SegmentValue)
    <2>1. DOMAIN NoCells = {} /\ NoCells \in [{} -> SegmentValue]
        BY DEF NoCells
    <2> QED
        BY <2>1, CellMapsDef
<1>3. \A b \in {"none", "segment_arena", "range_check"} :
          Segment(b) \in Segments(SegmentValue)
    BY <1>2, SegmentAssumption DEF Segment, Segments
<1>4. arena \in Segments(SegmentValue)
    BY <1>1, SegmentAssumption DEF Segments
<1>5. segments = <<Segment("none"), Segment("segment_arena"), arena, Segment("range_check")>>
    BY DEF Init
<1>6. segments \in Memories(SegmentValue) /\ Len(segments) = 4 /\ segments[3] = arena
    <2> HIDE DEF arena
    <2> QED
        BY <1>3, <1>4, <1>5 DEF Memories
<1>7. \A o : CellOf(Arena, o) = At(ArenaBlock(0, 0, 0), o)
    BY <1>6 DEF CellOf, CellAt, Relocatable, Arena
<1> QED
    BY <1>1, <1>6, <1>7 DEF At

LEMMA InitIInv == Init => IInv
<1> SUFFICES ASSUME Init
             PROVE IInv
    OBVIOUS
<1>1. /\ segments \in Memories(SegmentValue) /\ Len(segments) = 4
      /\ CellOf(Arena, 0) = Relocatable(Info, 0) /\ CellOf(Arena, 1) = Felt(0)
    BY InitialSegments
<1>2. /\ dictManager = NoCells /\ keys = <<>> /\ keyToIndices = NoCells
      /\ thrown = undefined /\ limits \in Limits /\ ap = 0 /\ arenaPtr = 3
      /\ dictPtr = NoCells /\ open = {} /\ pending = <<>> /\ squash = NotSquashing
      /\ squashed = {}
    BY DEF Init, InitManagers
<1>3. /\ DOMAIN dictManager = {} /\ DOMAIN dictPtr = {} /\ 4..(Len(segments) - 1) = {}
      /\ NoCells \in [{} -> Seq(0..limits.accesses)]
    BY <1>1, <1>2 DEF NoCells
<1>4. Managed
    BY <1>3 DEF Managed
<1>5. Listed
    <2>1. IsFiniteSet({})
        BY FS_EmptySet
    <2>2. keyToIndices \in IndexLists
        BY <1>2, <1>3 DEF IndexLists
    <2>3. DOMAIN keyToIndices = {} /\ keys \in Seq(Keys)
        BY <1>2 DEF NoCells
    <2> QED
        BY <2>1, <2>2, <2>3 DEF Listed
<1>6. Typed
    <2>1. pending \in Seq(Assertion)
        BY <1>2
    <2> QED
        BY <1>1, <1>2, <1>4, <1>5, <2>1 DEF Typed
<1>7. Replays /\ DictionariesHold
    BY <1>3 DEF Replays, DictionariesHold
<1>8. Cardinality({}) = 0 /\ SquashesBegun = 0
    <2>1. Cardinality({}) = 0
        BY FS_EmptySet
    <2>2. squash.at = "none"
        BY <1>2 DEF NotSquashing
    <2> QED
        BY <1>2, <2>1, <2>2 DEF SquashesBegun
<1>9. limits.dicts \in Nat /\ limits.squashes \in Nat
    BY <1>2, SmallNumbers
<1>10. Controlled
    <2>1. Cardinality(DOMAIN dictPtr) = 0
        BY <1>3, <1>8
    <2>2. Cardinality(DOMAIN dictPtr) <= limits.dicts
        BY <1>9, <2>1
    <2>3. arenaPtr = 3 + 3 * (Cardinality(DOMAIN dictPtr) + SquashesBegun)
        BY <1>2, <1>8, <2>1
    <2>4. ap \in Nat /\ open \subseteq DOMAIN dictPtr
        BY <1>2
    <2> QED
        BY <1>2, <1>3, <2>2, <2>3, <2>4 DEF Controlled
<1>11. Squashes
    BY <1>2, <1>8, <1>9 DEF Squashes
<1>12. ArenaHolds
    <2>1. CellOf(Arena, arenaPtr - 3) = Relocatable(Info, 0)
        BY <1>1, <1>2
    <2>2. CellOf(Arena, arenaPtr - 2) = Felt(Cardinality(DOMAIN dictPtr))
        BY <1>1, <1>2, <1>3, <1>8
    <2> QED
        BY <1>3, <2>1, <2>2 DEF ArenaHolds, Promised
<1>13. PendingKinds
    BY <1>2 DEF PendingKinds
<1> QED
    BY <1>6, <1>7, <1>10, <1>11, <1>12, <1>13 DEF IInv

\* A step that changes nothing
LEMMA StutteringStep ==
    ASSUME IInv, UNCHANGED vars
    PROVE IInv'
<1>1. /\ UNCHANGED <<segments, dictManager, keys, keyToIndices, thrown>>
      /\ UNCHANGED <<limits, ap, arenaPtr, dictPtr, open, pending, squash, squashed>>
    BY DEF vars, hintVars, squashedDictManager, programVars
<1>2. /\ \A s, o : CellOf(s, o)' = CellOf(s, o)
      /\ \A s, o, v : Asserts(s, o, v)' <=> Asserts(s, o, v)
      /\ \A d, v : NewIs(d, v)' <=> NewIs(d, v)
    BY <1>1 DEF CellOf, Asserts, NewIs, LastNew
<1>3. limits \in Limits
    BY DEF IInv, Typed
<1>4. ASSUME NEW d \in DOMAIN dictManager
      PROVE DictKept(d)
    BY <1>1, <1>2 DEF DictKept
<1>5. Typed'
    BY <1>1 DEF IInv, Typed, Managed, Listed, IndexLists
<1>6. Replays'
    BY <1>1, <1>3, <1>4, DictFrame DEF IInv, Replays
<1>7. CASE Running
    <2>1. Before
        BY <1>7 DEF Before
    <2>2. Controlled' /\ Squashes'
        BY <1>1, <2>1, ControlKept
    <2>3. ArenaHolds'
        BY <1>1, <1>2, <2>1, ArenaFrame
    <2>4. PendingKinds'
        BY <1>1, <2>1 DEF Before, IInv, PendingKinds, NewPending, NewIs, LastKey, LastNew
    <2>5. DictionariesHold'
        <3>1. ASSUME NEW d \in DOMAIN dictManager
              PROVE HoldsIn(d)'
            <4>1. dictPtr[d] \in Int /\ HoldsIn(d)
                BY <2>1, DictionaryFacts DEF Before, IInv, DictionariesHold
            <4> QED
                BY <1>3, <1>4, <4>1, DictFrame
        <3> QED
            BY <1>1, <3>1 DEF DictionariesHold
    <2> QED
        BY <1>5, <1>6, <2>2, <2>3, <2>4, <2>5 DEF IInv
<1>8. CASE ~Running
    BY <1>1, <1>5, <1>6, <1>8 DEF IInv, Running
<1> QED
    BY <1>7, <1>8

LEMMA StepIInv == IInv /\ [Next]_vars => IInv'
<1> SUFFICES ASSUME IInv, [Next]_vars
             PROVE IInv'
    OBVIOUS
<1>1. CASE AssertInstruction
    BY <1>1, AssertInstructionStep DEF Before, AssertInstruction
<1>2. CASE WriteAhead
    BY <1>2, WriteAheadStep DEF Before, WriteAhead, Ready
<1>3. CASE Alloc
    BY <1>3, AllocStep DEF Before, Alloc, Ready
<1>4. ASSUME NEW d \in DOMAIN dictPtr, NEW key \in limits.keys, EntryGet(d, key)
      PROVE IInv'
    BY <1>4, EntryGetStep DEF Before, EntryGet, Ready
<1>5. ASSUME NEW d \in DOMAIN dictPtr, NEW v \in NewValues, EntryFinalize(d, v)
      PROVE IInv'
    BY <1>5, EntryFinalizeStep DEF Before, EntryFinalize, Ready
<1>6. ASSUME NEW d \in DOMAIN dictPtr, BeginSquash(d)
      PROVE IInv'
    BY <1>6, BeginSquashStep DEF Before, BeginSquash, Ready
<1>7. CASE SquashStep
    <2>1. CASE InitSquash
        BY <2>1, InitSquashStep DEF Before, InitSquash, Squashing
    <2>2. CASE FirstIndex
        BY <2>2, FirstIndexStep DEF Before, FirstIndex, Squashing
    <2>3. CASE SkipLoop
        BY <2>3, SkipLoopStep DEF Before, SkipLoop, Squashing
    <2>4. CASE NextIndex
        BY <2>4, NextIndexStep DEF Before, NextIndex, Squashing
    <2>5. CASE ContinueLoop
        BY <2>5, ContinueLoopStep DEF Before, ContinueLoop, Squashing
    <2>6. CASE NextKey
        BY <2>6, NextKeyStep DEF Before, NextKey, Squashing
    <2>7. CASE EndSquash
        BY <2>7, EndSquashStep DEF Before, EndSquash, Squashing
    <2> QED
        BY <1>7, <2>1, <2>2, <2>3, <2>4, <2>5, <2>6, <2>7 DEF SquashStep
<1>8. CASE UNCHANGED vars
    BY <1>8, StutteringStep
<1> QED
    BY <1>1, <1>2, <1>3, <1>4, <1>5, <1>6, <1>7, <1>8 DEF Next

-----------------------------------------------------------------------------
(* What the invariant implies *)

LEMMA IInvTypes == IInv => TypeOK
<1> SUFFICES ASSUME IInv
             PROVE TypeOK
    OBVIOUS
<1>1. Typed /\ Managed /\ Listed
    BY DEF IInv, Typed
<1>2. ASSUME NEW i \in DOMAIN segments, NEW o \in DOMAIN segments[i].cells
      PROVE segments[i].cells[o] \in SegmentValue
    <2>1. segments \in Memories(SegmentValue)
        BY <1>1 DEF Typed
    <2>2. segments[i].cells \in CellMaps(SegmentValue)
        BY <2>1, MemoryTypes
    <2> QED
        BY <2>2, CellMapsDef
<1>3. DOMAIN dictManager \subseteq RangeCheck + 1..Len(segments) - 1
    BY <1>1 DEF Managed, RangeCheck
<1>4. ASSUME NEW d \in DOMAIN dictManager
      PROVE /\ dictManager[d].id \in Felts
            /\ \A k \in DOMAIN dictManager[d].entries :
                  k \in Keys /\ dictManager[d].entries[k] \in SegmentValue
    BY <1>1 DEF Managed, DictionaryMaps
<1>5. /\ DOMAIN keyToIndices \subseteq Keys
      /\ \A k \in DOMAIN keyToIndices : keyToIndices[k] \in Seq(0..limits.accesses)
    BY <1>1 DEF Listed, IndexLists
<1>6. keys \in Seq(Keys) /\ (Running \/ thrown \in Errors)
    BY <1>1 DEF Typed, Listed, Running
<1> QED
    BY <1>2, <1>3, <1>4, <1>5, <1>6 DEF TypeOK

LEMMA IInvReplays == IInv => DictionariesReplayAccesses
<1> SUFFICES ASSUME IInv, NEW d \in DOMAIN dictManager
             PROVE /\ \A i \in Accesses(d) : PrevOf(d, i) = Replayed(d, KeyOf(d, i).inner, i)
                   /\ pending = <<>> =>
                         \A key \in Keys :
                             Entry(dictManager[d], key) = Replayed(d, key, limits.accesses)
    BY DEF DictionariesReplayAccesses
<1>1. ReplaysIn(d)
    BY DEF IInv, Replays
<1>2. \A i \in Accesses(d) : PrevOf(d, i) = Replayed(d, KeyOf(d, i).inner, i)
    BY <1>1 DEF ReplaysIn, PrevsReplay, PrevReplays
<1>3. pending = <<>> => ~NewPending(d)
    BY DEF NewPending, NewIs
<1> QED
    BY <1>1, <1>2, <1>3 DEF ReplaysIn, EntryReplays

LEMMA IInvNumbers == IInv => ArenaNumbersDictionaries
<1> SUFFICES ASSUME IInv, Running
             PROVE /\ {dictManager[d].id : d \in DOMAIN dictManager}
                          = {Felt(n) : n \in 0..(Cardinality(DOMAIN dictManager) - 1)}
                   /\ \A d \in DOMAIN dictManager :
                         CellOf(Info, 3 * dictManager[d].id.inner) = Relocatable(d, 0)
    BY DEF ArenaNumbersDictionaries
<1>1. Before
    BY DEF Before
<1>2. PICK n \in Nat : n = Len(segments) - 4
    <2>1. Len(segments) \in Nat /\ Len(segments) >= 4
        BY <1>1, StateFacts
    <2>2. Len(segments) - 4 \in Nat
        BY <2>1
    <2> QED
        BY <2>2
<1>3. /\ DOMAIN dictManager = 4..(n + 3) /\ Cardinality(DOMAIN dictManager) = n
      /\ limits \in Limits /\ Top \in Nat /\ 3 * n + 3 <= Top
    <2>1. DOMAIN dictManager = DOMAIN dictPtr /\ DOMAIN dictManager = 4..(Len(segments) - 1)
        BY <1>1, StateFacts
    <2>2. Cardinality(DOMAIN dictManager) = Len(segments) - 4 /\ 3 * (Len(segments) - 4) + 3 <= Top
        BY <1>1, <2>1, StateFacts
    <2>3. Len(segments) - 1 = n + 3
        BY <1>1, <1>2, StateFacts
    <2> QED
        BY <1>1, <1>2, <2>1, <2>2, <2>3, StateFacts
<1>4. \A d \in DOMAIN dictManager : dictManager[d].id = Felt(d - 4)
    BY <1>1, DictionaryFacts
<1>5. {dictManager[d].id : d \in DOMAIN dictManager} = {Felt(x) : x \in 0..(n - 1)}
    <2>1. ASSUME NEW d \in 4..(n + 3)
          PROVE d - 4 \in 0..(n - 1)
        OBVIOUS
    <2>2. ASSUME NEW x \in 0..(n - 1)
          PROVE x + 4 \in 4..(n + 3) /\ x = (x + 4) - 4
        OBVIOUS
    <2>3. ASSUME NEW d \in DOMAIN dictManager
          PROVE dictManager[d].id \in {Felt(x) : x \in 0..(n - 1)}
        BY <1>3, <1>4, <2>1, <2>3
    <2>4. ASSUME NEW x \in 0..(n - 1)
          PROVE Felt(x) \in {dictManager[d].id : d \in DOMAIN dictManager}
        <3>1. x + 4 \in DOMAIN dictManager
            BY <1>3, <2>2
        <3>2. dictManager[x + 4].id = Felt((x + 4) - 4)
            BY <1>4, <3>1
        <3>3. dictManager[x + 4].id = Felt(x)
            BY <2>2, <3>2
        <3> QED
            BY <3>1, <3>3
    <2> QED
        BY <2>3, <2>4
<1>6. ASSUME NEW d \in DOMAIN dictManager
      PROVE CellOf(Info, 3 * dictManager[d].id.inner) = Relocatable(d, 0)
    <2>1. d \in Int /\ d - 4 \in 0..Top
        BY <1>3
    <2>2. dictManager[d].id.inner = d - 4
        BY <1>3, <1>4, <2>1, SmallFelts
    <2>3. CellOf(Info, 3 * (d - 4)) = Relocatable(d, 0)
        BY <1>1 DEF Before, IInv, ArenaHolds
    <2> QED
        BY <2>2, <2>3
<1> QED
    BY <1>3, <1>5, <1>6

-----------------------------------------------------------------------------
(* A hint that throws *)

ContentsKept ==
    \A d \in DOMAIN dictManager, key \in Keys :
        Entry(dictManager'[d], key) = Entry(dictManager[d], key)

LEMMA SquashKeepsContents ==
    ASSUME SquashStep
    PROVE UNCHANGED dictManager
<1>1. CASE InitSquash
    BY <1>1 DEF InitSquash, initSquashData
<1>2. CASE FirstIndex
    BY <1>2 DEF FirstIndex, getCurrentAccessIndex
<1>3. CASE SkipLoop
    BY <1>3 DEF SkipLoop, shouldSkipSquashLoop, AssertMoreIndices
<1>4. CASE NextIndex
    BY <1>4 DEF NextIndex, getCurrentAccessDelta
<1>5. CASE ContinueLoop
    BY <1>5 DEF ContinueLoop, shouldContinueSquashLoop, AssertMoreIndices
<1>6. CASE NextKey
    BY <1>6 DEF NextKey, getNextDictKey
<1>7. CASE EndSquash
    BY <1>7 DEF EndSquash, hintVars
<1> QED
    BY <1>1, <1>2, <1>3, <1>4, <1>5, <1>6, <1>7 DEF SquashStep

\* The entry that the reading of an entry sets is the one there was.
LEMMA EntryGetKeeps ==
    ASSUME Before, NEW d \in DOMAIN dictPtr, NEW key \in limits.keys, EntryGet(d, key)
    PROVE ContentsKept
<1>1. d \in DOMAIN dictManager /\ limits \in Limits
    BY StateFacts
<1>2. key \in Keys
    BY <1>1, SmallNumbers
<1>3. Entry(dictManager[d], key) \in SegmentValue
    BY <1>1, <1>2, DictionaryFacts
<1>4. felt252DictEntryInit(FramedWith(DictEnd(d), Felt(key)), Regs, DerefAp(0), DerefAp(1))
    BY DEF EntryGet
<1>5. SetEntry(d, key, Entry(dictManager[d], key))
    BY <1>2, <1>4, EntryInitHint
<1>6. /\ \A e \in DOMAIN dictManager \ {d} : dictManager'[e] = dictManager[e]
      /\ \A k : Entry(dictManager'[d], k) = Entry(dictManager[d], k)
    BY <1>1, <1>2, <1>3, <1>5, SetEntryFacts
<1>7. ASSUME NEW e \in DOMAIN dictManager, NEW k \in Keys
      PROVE Entry(dictManager'[e], k) = Entry(dictManager[e], k)
    BY <1>6
<1> QED
    BY <1>7 DEF ContentsKept

\* An allocation adds a dictionary.
LEMMA AllocKeeps ==
    ASSUME Before, Alloc
    PROVE ContentsKept
<1>1. PICK s : s = Len(segments)
    OBVIOUS
<1>2. pending = <<>> /\ s \in Nat /\ DOMAIN dictManager = 4..(s - 1)
    BY <1>1, StateFacts DEF Alloc, Ready
<1>3. dictManager' = Put(dictManager, s, Dictionary(s - 4))
    <2>1. allocFelt252Dict(Framed(Relocatable(Arena, arenaPtr)), Regs, DerefAp(0))
        BY DEF Alloc
    <2> QED
        BY <1>1, <1>2, <2>1, AllocHint
<1>4. \A e \in DOMAIN dictManager : dictManager'[e] = dictManager[e]
    BY <1>2, <1>3 DEF Put
<1> QED
    BY <1>4 DEF ContentsKept

LEMMA FailureKeepsContents ==
    ASSUME IInv, Next, thrown' # undefined
    PROVE ContentsKept
<1>1. CASE UNCHANGED dictManager
    BY <1>1 DEF ContentsKept
<1>2. CASE AssertInstruction \/ WriteAhead
    BY <1>1, <1>2 DEF AssertInstruction, WriteAhead
<1>3. CASE Alloc
    BY <1>3, AllocKeeps DEF Before, Alloc, Ready
<1>4. ASSUME NEW d \in DOMAIN dictPtr, NEW key \in limits.keys, EntryGet(d, key)
      PROVE ContentsKept
    BY <1>4, EntryGetKeeps DEF Before, EntryGet, Ready
<1>5. ASSUME NEW d \in DOMAIN dictPtr, NEW v \in NewValues, EntryFinalize(d, v)
      PROVE FALSE
    <2>1. Before
        BY <1>5 DEF Before, EntryFinalize, Ready
    <2> QED
        BY <1>5, <2>1, FinalizeHint
<1>6. ASSUME NEW d \in DOMAIN dictPtr, BeginSquash(d)
      PROVE ContentsKept
    BY <1>1, <1>6 DEF BeginSquash, getSegmentArenaIndex
<1>7. CASE SquashStep
    BY <1>1, <1>7, SquashKeepsContents
<1> QED
    BY <1>2, <1>3, <1>4, <1>5, <1>6, <1>7 DEF Next

-----------------------------------------------------------------------------
(* The lists of a squash *)

\* The greatest first, and no two alike
Descends(list) == \A a, b \in 1..Len(list) : a < b => list[a] > list[b]
Ascends(list) == \A a, b \in 1..Len(list) : a < b => list[a] < list[b]
Distinct(list) == \A a, b \in 1..Len(list) : list[a] = list[b] => a = b
Covers(list, S) == \A x \in S : \E a \in 1..Len(list) : list[a] = x

LEMMA DescendingOrder ==
    ASSUME NEW S, S \subseteq Int, NEW s \in Seq(S), Distinct(s), Covers(s, S)
    PROVE /\ Descending(s) \in Seq(S) /\ Len(Descending(s)) = Len(s)
          /\ Descends(Descending(s)) /\ Covers(Descending(s), S)
<1> DEFINE n == Len(s)
           places == 1..n
<1>1. n \in Nat /\ s \in [places -> S] /\ DOMAIN s = places
    BY LenProperties
<1>2. \A i \in places : s[i] \in Int
    BY <1>1
<1>3. PICK p : Sorts(n, s, p)
    BY <1>1, <1>2, SortingExists
<1> DEFINE r == [i \in places |-> p[i]]
<1>4. /\ r \in Injection(places, places)
      /\ \A i, j \in places : i < j => s[r[i]] >= s[r[j]]
    BY <1>3 DEF Sorts, Injection, IsInjective
<1>5. IsFiniteSet(places)
    BY <1>1, FS_Interval
<1>6. r \in Surjection(places, places)
    <2> HIDE DEF r, places
    <2> QED
        BY <1>4, <1>5, FS_Injection
<1>7. r \in Lists!Bijection(places, places)
    BY <1>4, <1>6
    DEF Injection, IsInjective, Surjection,
        Lists!Bijection, Lists!Injection, Lists!Surjection, Lists!IsInjective
<1> DEFINE Orders(o) == \A i, j \in places : i < j => s[o[i]] >= s[o[j]]
           order == CHOOSE o \in Lists!Bijection(places, places) : Orders(o)
<1>8. order \in Lists!Bijection(places, places) /\ Orders(order)
    <2>1. Orders(r)
        BY <1>4
    <2> HIDE DEF Orders, places, r
    <2> QED
        BY <1>7, <2>1
<1>9. Descending(s) = [i \in places |-> s[order[i]]]
    BY <1>1 DEF Descending
<1> HIDE DEF order
<1>10. /\ order \in [places -> places]
       /\ \A i, j \in places : order[i] = order[j] => i = j
       /\ \A i \in places : \E j \in places : order[j] = i
    BY <1>8 DEF Lists!Bijection, Lists!Injection, Lists!Surjection, Lists!IsInjective
<1>11. Descending(s) \in [1..n -> S]
    BY <1>1, <1>9, <1>10
<1>12. Descending(s) \in Seq(S) /\ Len(Descending(s)) = n
    BY <1>1, <1>11
<1> HIDE DEF places
<1>13. ASSUME NEW i \in places, NEW j \in places, i < j
       PROVE Descending(s)[i] > Descending(s)[j]
    <2>0. i # j /\ i \in 1..n /\ j \in 1..n
        BY <1>1, <1>13 DEF places
    <2>1. order[i] \in places /\ order[j] \in places /\ order[i] # order[j]
        BY <1>10, <2>0 DEF places
    <2>2. s[order[i]] \in Int /\ s[order[j]] \in Int /\ s[order[i]] # s[order[j]]
        BY <1>2, <2>1 DEF places, Distinct
    <2>3. s[order[i]] >= s[order[j]]
        BY <1>8, <1>13
    <2> QED
        BY <1>9, <2>2, <2>3
<1>14. \A i \in places : \E j \in places : Descending(s)[j] = s[i]
    BY <1>9, <1>10
<1>15. Descends(Descending(s))
    BY <1>12, <1>13 DEF Descends, places
<1>16. Covers(Descending(s), S)
    BY <1>12, <1>14 DEF Covers, places
<1> QED
    BY <1>12, <1>15, <1>16

LEMMA AscendingOrder ==
    ASSUME NEW S, S \subseteq Int, IsFiniteSet(S)
    PROVE Ascending(S) \in Seq(S) /\ Ascends(Ascending(S)) /\ Covers(Ascending(S), S)
<1> DEFINE n == Cardinality(S)
           Rises(l) == \A i, j \in DOMAIN l : i < j => l[i] < l[j]
<1>1. n \in Nat /\ ExistsBijection(1..n, S)
    BY FS_CardinalityType
<1>2. PICK b \in Bijection(1..n, S) : TRUE
    BY <1>1 DEF ExistsBijection
<1>3. b \in [1..n -> S] /\ \A i, j \in 1..n : b[i] = b[j] => i = j
    BY <1>2 DEF Bijection, Injection, IsInjective
<1> DEFINE f == [i \in 1..n |-> -b[i]]
<1>4. \A i \in 1..n : f[i] \in Int
    <2>1. \A i \in 1..n : b[i] \in Int
        BY <1>3
    <2> QED
        BY <2>1
<1>5. PICK p : Sorts(n, f, p)
    <2> HIDE DEF f
    <2> QED
        BY <1>1, <1>4, SortingExists
<1> DEFINE list == [i \in 1..n |-> b[p[i]]]
<1>6. /\ \A i \in 1..n : p[i] \in 1..n
      /\ \A i, j \in 1..n : p[i] = p[j] => i = j
    BY <1>5 DEF Sorts
<1>7. \A i \in 1..n : list[i] \in S /\ list[i] \in Int
    BY <1>3, <1>6
<1>8. ASSUME NEW i \in 1..n, NEW j \in 1..n, i < j
      PROVE list[i] < list[j]
    <2>1. f[p[i]] >= f[p[j]]
        BY <1>5, <1>8 DEF Sorts
    <2>2. f[p[i]] = -b[p[i]] /\ f[p[j]] = -b[p[j]]
        BY <1>6
    <2>3. b[p[i]] # b[p[j]]
        BY <1>3, <1>6, <1>8
    <2> QED
        BY <1>7, <2>1, <2>2, <2>3
<1>9. list \in [1..n -> S] /\ Rises(list)
    BY <1>7, <1>8
<1> HIDE DEF list
<1>10. Ascending(S) = CHOOSE l \in [1..n -> S] : Rises(l)
    BY DEF Ascending
<1>11. Ascending(S) \in [1..n -> S] /\ Rises(Ascending(S))
    <2> HIDE DEF Rises
    <2> QED
        BY <1>9, <1>10
<1>12. PICK t : t = Ascending(S)
    OBVIOUS
<1>13. /\ t \in [1..n -> S] /\ t \in Seq(S) /\ Len(t) = n
       /\ \A i, j \in 1..n : i < j => t[i] < t[j]
    BY <1>1, <1>11, <1>12
<1>14. t \in Injection(1..n, S)
    <2>1. ASSUME NEW i \in 1..n, NEW j \in 1..n, t[i] = t[j]
          PROVE i = j
        <3>1. t[i] \in Int /\ t[j] \in Int
            BY <1>13
        <3> QED
            BY <1>1, <1>13, <2>1, <3>1
    <2> QED
        BY <1>13, <2>1 DEF Injection, IsInjective
<1>15. t \in Surjection(1..n, S)
    <2>1. Cardinality(1..n) = n /\ IsFiniteSet(1..n)
        BY <1>1, FS_Interval
    <2> QED
        BY <1>14, <2>1, FS_Injection
<1>16. Covers(t, S)
    BY <1>13, <1>15 DEF Surjection, Covers
<1>17. Ascends(t)
    BY <1>13 DEF Ascends
<1> QED
    BY <1>12, <1>13, <1>16, <1>17

\* A sequence of the members of a finite set has each once.
LEMMA SetToSeqMembers ==
    ASSUME NEW S, IsFiniteSet(S)
    PROVE LET t == Lists!SetToSeq(S)
          IN t \in Seq(S) /\ Len(t) = Cardinality(S) /\ Distinct(t) /\ Covers(t, S)
<1> DEFINE n == Cardinality(S)
<1>1. Lists!Cardinality(S) = n
    BY DEF Lists!Cardinality, Cardinality
<1>2. n \in Nat /\ \E f \in [1..n -> S] : Lists!IsInjective(f)
    BY FS_CardinalityType
    DEF ExistsBijection, Bijection, Injection, IsInjective, Lists!IsInjective
<1>3. PICK t : t = Lists!SetToSeq(S)
    OBVIOUS
<1>4. t \in [1..n -> S] /\ Lists!IsInjective(t)
    BY <1>1, <1>2, <1>3 DEF Lists!SetToSeq
<1>5. t \in Injection(1..n, S)
    BY <1>4 DEF Lists!IsInjective, Injection, IsInjective
<1>6. t \in Surjection(1..n, S)
    <2>1. Cardinality(1..n) = n /\ IsFiniteSet(1..n)
        BY <1>2, FS_Interval
    <2> QED
        BY <1>5, <2>1, FS_Injection
<1>7. t \in Seq(S) /\ Len(t) = n
    BY <1>2, <1>4
<1>8. Distinct(t)
    BY <1>5, <1>7 DEF Injection, IsInjective, Distinct
<1>9. Covers(t, S)
    BY <1>6, <1>7 DEF Surjection, Covers
<1> QED
    BY <1>3, <1>7, <1>8, <1>9

LEMMA ReverseDescends ==
    ASSUME NEW S, S \subseteq Int, NEW s \in Seq(S), Ascends(s), Covers(s, S)
    PROVE /\ Lists!Reverse(s) \in Seq(S)
          /\ Descends(Lists!Reverse(s)) /\ Covers(Lists!Reverse(s), S)
<1>1. PICK t : t = Lists!Reverse(s)
    OBVIOUS
<1>2. PICK n \in Nat : n = Len(s)
    BY LenProperties
<1>3. t = [i \in 1..n |-> s[(n - i) + 1]]
    BY <1>1, <1>2 DEF Lists!Reverse
<1>4. \A i \in 1..n : (n - i) + 1 \in 1..n /\ s[(n - i) + 1] \in S
    BY <1>2, LenProperties
<1>5. t \in Seq(S) /\ Len(t) = n
    <2>1. t \in [1..n -> S]
        BY <1>3, <1>4
    <2> QED
        BY <1>2, <2>1
<1>6. Descends(t)
    <2>1. ASSUME NEW a \in 1..n, NEW b \in 1..n, a < b
          PROVE t[a] > t[b]
        <3>1. PICK c \in 1..n : c = (n - b) + 1
            BY <1>4
        <3>2. PICK d \in 1..n : d = (n - a) + 1
            BY <1>4
        <3>3. c < d
            BY <2>1, <3>1, <3>2
        <3>4. t[a] = s[d] /\ t[b] = s[c] /\ s[c] \in Int /\ s[d] \in Int
            BY <1>3, <1>4, <3>1, <3>2
        <3> QED
            BY <1>2, <3>3, <3>4 DEF Ascends
    <2> QED
        BY <1>5, <2>1 DEF Descends
<1>7. ASSUME NEW i \in 1..n
      PROVE \E j \in 1..n : t[j] = s[i]
    <2>1. PICK j \in 1..n : j = (n - i) + 1
        BY <1>4
    <2>2. (n - j) + 1 = i
        BY <2>1
    <2> QED
        BY <1>3, <2>2
<1>8. Covers(t, S)
    BY <1>2, <1>5, <1>7 DEF Covers
<1> QED
    BY <1>1, <1>5, <1>6, <1>8

-----------------------------------------------------------------------------
(* What a squash still has to visit *)

\* The indexes of the accesses to a key, the greatest first
IndexesOf(log, key, list) ==
    /\ list \in Seq(0..(Len(log) - 1)) /\ Len(list) > 0
    /\ Descends(list)
    /\ \A b \in 1..Len(list) : log[list[b] + 1] = key

\* The keys still to be squashed, the greatest first, each with indexes of its accesses
Ranked(log, ks, lists) ==
    /\ log \in Seq(Keys) /\ ks \in Seq(Keys) /\ Len(ks) > 0
    /\ Descends(ks)
    /\ \A a \in 1..Len(ks) : IndexesOf(log, ks[a], lists[ks[a]])

Current(ks, lists) == lists[Last(ks)]

\* Index i is in a list, and not among the last c of that of the current key.
Waits(ks, lists, c, i) ==
    \E a \in 1..Len(ks) : \E b \in 1..Len(lists[ks[a]]) :
        /\ lists[ks[a]][b] = i
        /\ a = Len(ks) => b + c <= Len(lists[ks[a]])

LEMMA RankedFacts ==
    ASSUME NEW log, NEW ks, NEW lists, Ranked(log, ks, lists)
    PROVE /\ Len(log) \in Nat /\ Len(ks) \in Nat /\ Len(ks) > 0 /\ ks # <<>>
          /\ Len(ks) \in 1..Len(ks) /\ Last(ks) = ks[Len(ks)] /\ Last(ks) \in Keys
          /\ Current(ks, lists) = lists[ks[Len(ks)]]
          /\ IndexesOf(log, Last(ks), Current(ks, lists))
          /\ Len(Current(ks, lists)) \in Nat /\ Len(Current(ks, lists)) > 0
          /\ \A i \in 0..(Len(log) - 1) : log[i + 1] \in Int
          /\ \A a \in 1..Len(ks) : ks[a] \in Keys /\ ks[a] \in Int /\ Len(lists[ks[a]]) \in Nat
                                   /\ Len(lists[ks[a]]) > 0
                                   /\ \A b \in 1..Len(lists[ks[a]]) :
                                         lists[ks[a]][b] \in 0..(Len(log) - 1)
<1>1. Keys \subseteq Int
    BY KeyFelts
<1>2. /\ Len(log) \in Nat /\ Len(ks) \in Nat /\ Len(ks) > 0 /\ ks # <<>>
      /\ Len(ks) \in 1..Len(ks) /\ \A a \in 1..Len(ks) : ks[a] \in Keys
      /\ \A i \in 1..Len(log) : log[i] \in Keys
    BY LenProperties, EmptySeq DEF Ranked
<1>3. ASSUME NEW i \in 0..(Len(log) - 1)
      PROVE log[i + 1] \in Int
    <2>1. i + 1 \in 1..Len(log)
        BY <1>2
    <2> QED
        BY <1>1, <1>2, <2>1
<1>4. ASSUME NEW a \in 1..Len(ks)
      PROVE /\ Len(lists[ks[a]]) \in Nat /\ Len(lists[ks[a]]) > 0
            /\ \A b \in 1..Len(lists[ks[a]]) : lists[ks[a]][b] \in 0..(Len(log) - 1)
    <2>1. lists[ks[a]] \in Seq(0..(Len(log) - 1)) /\ Len(lists[ks[a]]) > 0
        BY DEF Ranked, IndexesOf
    <2> QED
        BY <2>1, LenProperties
<1>5. Last(ks) = ks[Len(ks)] /\ Current(ks, lists) = lists[ks[Len(ks)]]
    BY DEF Last, Current
<1>6. IndexesOf(log, Last(ks), Current(ks, lists))
    BY <1>2, <1>5 DEF Ranked
<1> QED
    BY <1>1, <1>2, <1>3, <1>4, <1>5, <1>6

\* The next index comes before all others that wait.
LEMMA NextWaits ==
    ASSUME NEW log, NEW ks, NEW lists, Ranked(log, ks, lists), NEW c \in Nat,
           c < Len(Current(ks, lists)), NEW i, NEW list, list = Current(ks, lists),
           i = list[Len(list) - c]
    PROVE /\ i \in 0..(Len(log) - 1) /\ Waits(ks, lists, c, i)
          /\ \A j : Waits(ks, lists, c + 1, j) <=> Waits(ks, lists, c, j) /\ j # i
          /\ \A j : Waits(ks, lists, c, j) /\ j # i =>
                \/ log[i + 1] < log[j + 1]
                \/ log[i + 1] = log[j + 1] /\ i < j
<1>1. PICK n \in Nat : n = Len(ks) /\ n > 0
    BY RankedFacts
<1>2. PICK l \in Nat : l = Len(list) /\ l > 0 /\ c < l
    BY RankedFacts
<1>3. list = lists[ks[n]] /\ n \in 1..n /\ l - c \in 1..l /\ i = list[l - c]
    BY <1>1, <1>2, RankedFacts
<1>4. /\ i \in 0..(Len(log) - 1) /\ log[i + 1] = ks[n] /\ i \in Int
    <2>1. IndexesOf(log, ks[n], list)
        BY <1>1, <1>3 DEF Ranked
    <2>2. list \in Seq(0..(Len(log) - 1)) /\ \A b \in 1..l : log[list[b] + 1] = ks[n]
        BY <1>2, <2>1 DEF IndexesOf
    <2>3. i \in 0..(Len(log) - 1)
        <3>1. PICK S, p : S = 0..(Len(log) - 1) /\ p = l - c
            OBVIOUS
        <3>2. list \in Seq(S) /\ p \in 1..Len(list) /\ i = list[p]
            BY <1>2, <1>3, <2>2, <3>1
        <3>3. list \in [1..Len(list) -> S]
            BY <3>2, LenProperties
        <3> QED
            BY <3>1, <3>2, <3>3
    <2>4. i \in Int
        <3>1. Len(log) \in Nat
            BY RankedFacts
        <3> QED
            BY <2>3, <3>1
    <2> QED
        BY <1>3, <2>2, <2>3, <2>4
<1>5. Waits(ks, lists, c, i)
    <2>1. lists[ks[n]][l - c] = i /\ (l - c) + c <= Len(lists[ks[n]])
        BY <1>2, <1>3
    <2> QED
        BY <1>1, <1>2, <1>3, <2>1 DEF Waits
<1>6. \A b \in 1..l : list[b] \in Int
    BY <1>1, <1>2, <1>3, RankedFacts
<1>7. \A a, b \in 1..l : a < b => list[a] > list[b]
    BY <1>2, RankedFacts DEF IndexesOf, Descends
<1>8. \A b \in 1..l : list[b] = i => b = l - c
    <2>1. PICK p \in 1..l : p = l - c
        BY <1>3
    <2>2. ASSUME NEW b \in 1..l, list[b] = list[p]
          PROVE b = p
        <3>1. list[b] \in Int /\ ~(b < p) /\ ~(p < b)
            BY <1>6, <1>7, <2>2
        <3> QED
            BY <3>1
    <2> QED
        BY <1>3, <2>1, <2>2
<1>9. ASSUME NEW a \in 1..n, a # n, NEW b \in 1..Len(lists[ks[a]])
      PROVE ks[n] < log[lists[ks[a]][b] + 1] /\ lists[ks[a]][b] # i
    <2>1. log[lists[ks[a]][b] + 1] = ks[a]
        BY <1>1 DEF Ranked, IndexesOf
    <2>2. ks[a] > ks[n] /\ ks[a] \in Int /\ ks[n] \in Int
        <3>1. ks[a] \in Int /\ ks[n] \in Int
            BY <1>1, <1>3, RankedFacts
        <3>2. a < n
            BY <1>1, <1>9
        <3> QED
            BY <1>1, <1>3, <3>1, <3>2 DEF Ranked, Descends
    <2>3. PICK x, key, lower : x = lists[ks[a]][b] /\ key = ks[a] /\ lower = ks[n]
        OBVIOUS
    <2>4. log[x + 1] = key /\ log[i + 1] = lower /\ lower < key /\ key # lower
        BY <1>4, <2>1, <2>2, <2>3
    <2>5. x # i
        BY <2>4
    <2> QED
        BY <2>3, <2>4, <2>5
<1>10. ASSUME NEW j, Waits(ks, lists, c, j), j # i
       PROVE /\ Waits(ks, lists, c + 1, j)
             /\ \/ log[i + 1] < log[j + 1]
                \/ log[i + 1] = log[j + 1] /\ i < j
    <2>1. PICK a \in 1..n : \E b \in 1..Len(lists[ks[a]]) :
              lists[ks[a]][b] = j /\ (a = n => b + c <= Len(lists[ks[a]]))
        BY <1>1, <1>10 DEF Waits
    <2>2. PICK b \in 1..Len(lists[ks[a]]) :
              lists[ks[a]][b] = j /\ (a = n => b + c <= Len(lists[ks[a]]))
        BY <2>1
    <2>3. CASE a # n
        <3>1. Waits(ks, lists, c + 1, j)
            BY <1>1, <2>2, <2>3 DEF Waits
        <3> QED
            BY <1>4, <1>9, <2>2, <2>3, <3>1
    <2>4. CASE a = n
        <3>1. b \in 1..l /\ list[b] = j /\ b + c <= l
            BY <1>2, <1>3, <2>2, <2>4
        <3>2. b # l - c
            BY <1>3, <1>10, <3>1
        <3>3. b < l - c /\ b + (c + 1) <= l
            BY <1>2, <3>1, <3>2
        <3>4. Waits(ks, lists, c + 1, j)
            BY <1>1, <1>2, <1>3, <2>2, <2>4, <3>3 DEF Waits
        <3>5. j > i
            BY <1>3, <1>7, <3>1, <3>3
        <3>6. log[j + 1] = ks[n]
            BY <1>1, <1>3, <2>2, <2>4 DEF Ranked, IndexesOf
        <3>7. j \in Int
            BY <1>6, <3>1
        <3> QED
            BY <1>4, <3>4, <3>5, <3>6, <3>7
    <2> QED
        BY <2>3, <2>4
<1>11. ASSUME NEW j, Waits(ks, lists, c + 1, j)
       PROVE Waits(ks, lists, c, j) /\ j # i
    <2>1. PICK a \in 1..n : \E b \in 1..Len(lists[ks[a]]) :
              lists[ks[a]][b] = j /\ (a = n => b + (c + 1) <= Len(lists[ks[a]]))
        BY <1>1, <1>11 DEF Waits
    <2>2. PICK b \in 1..Len(lists[ks[a]]) :
              lists[ks[a]][b] = j /\ (a = n => b + (c + 1) <= Len(lists[ks[a]]))
        BY <2>1
    <2>3. a = n => b + c <= Len(lists[ks[a]])
        BY <1>2, <1>3, <2>2
    <2>4. Waits(ks, lists, c, j)
        BY <1>1, <2>2, <2>3 DEF Waits
    <2>5. CASE a # n
        BY <1>9, <2>2, <2>4, <2>5
    <2>6. CASE a = n
        <3>1. b \in 1..l /\ list[b] = j /\ b + (c + 1) <= l
            BY <1>2, <1>3, <2>2, <2>6
        <3>2. b # l - c
            BY <1>2, <3>1
        <3> QED
            BY <1>8, <2>4, <3>1, <3>2
    <2> QED
        BY <2>5, <2>6
<1> QED
    BY <1>4, <1>5, <1>10, <1>11

\* A list loses its last index, which is no longer needed.
Popped(ks, lists) == [lists EXCEPT ![Last(ks)] = Lists!Front(@)]

\* What that leaves: in more, those wait that came before the last c indexes
Leaves(log, ks, lists, more, c) ==
    /\ Ranked(log, ks, more)
    /\ Len(Current(ks, more)) = Len(Current(ks, lists)) - 1
    /\ \A b \in 1..(Len(Current(ks, lists)) - 1) : Current(ks, more)[b] = Current(ks, lists)[b]
    /\ \A j : Waits(ks, more, c, j) <=> Waits(ks, lists, c + 1, j)

LEMMA PopWaits ==
    ASSUME NEW log, NEW ks, NEW lists, Ranked(log, ks, lists), Last(ks) \in DOMAIN lists,
           Len(Current(ks, lists)) > 1, NEW more, NEW c \in Nat,
           more = Popped(ks, lists)
    PROVE Leaves(log, ks, lists, more, c)
<1>1. PICK list : list = Current(ks, lists)
    OBVIOUS
<1>2. PICK n \in Nat : n = Len(ks) /\ n > 0
    BY RankedFacts
<1>3. PICK l \in Nat : l = Len(list) /\ l > 1
    BY <1>1, RankedFacts
<1>4. PICK key : key = Last(ks) /\ key = ks[n] /\ list = lists[key]
    BY <1>1, <1>2, RankedFacts
<1>5. list \in Seq(0..(Len(log) - 1)) /\ Descends(list) /\ \A b \in 1..l : log[list[b] + 1] = key
    <2>1. IndexesOf(log, key, list)
        BY <1>1, <1>4, RankedFacts
    <2> QED
        BY <1>3, <2>1 DEF IndexesOf
<1>6. PICK front : front = Lists!Front(list)
    OBVIOUS
<1>7. front = SubSeq(list, 1, l - 1)
    BY <1>3, <1>6 DEF Lists!Front
<1>8. /\ front \in Seq(0..(Len(log) - 1)) /\ Len(front) = l - 1
      /\ \A b \in 1..(l - 1) : front[b] = list[b]
    <2>1. PICK S : S = 0..(Len(log) - 1)
        OBVIOUS
    <2>2. PICK o \in Int, r \in Int : o = 1 /\ r = l - 1 /\ r >= 1
        BY <1>3
    <2>3. \A b \in o..r : list[b] \in S
        <3>1. \A b \in 1..l : list[b] \in S
            BY <1>3, <1>5, <2>1, LenProperties
        <3> QED
            BY <2>2, <3>1
    <2>4. /\ SubSeq(list, o, r) \in Seq(S)
          /\ Len(SubSeq(list, o, r)) = IF o <= r THEN r - o + 1 ELSE 0
          /\ \A b \in 1..(r - o + 1) : SubSeq(list, o, r)[b] = list[o + b - 1]
        BY <2>3, SubSeqProperties
    <2>5. front = SubSeq(list, o, r)
        BY <1>7, <2>2
    <2>6. ASSUME NEW b \in 1..(l - 1)
          PROVE front[b] = list[b]
        <3>1. b \in 1..(r - o + 1) /\ o + b - 1 = b
            BY <2>2
        <3> QED
            BY <2>4, <2>5, <3>1
    <2>7. Len(front) = l - 1
        BY <2>2, <2>4, <2>5
    <2> QED
        BY <2>1, <2>4, <2>5, <2>6, <2>7
<1>9. more[key] = front /\ \A k : k # key => more[k] = lists[k]
    <2>1. key \in DOMAIN lists
        BY <1>4
    <2> QED
        BY <1>4, <1>6, <2>1 DEF Popped
<1>10. IndexesOf(log, key, front)
    <2>0. \A b \in 1..(l - 1) : b \in 1..l /\ front[b] = list[b]
        BY <1>3, <1>8
    <2>1. Descends(front)
        <3>1. \A a, b \in 1..l : a < b => list[a] > list[b]
            BY <1>3, <1>5 DEF Descends
        <3>2. \A a, b \in 1..(l - 1) : a < b => front[a] > front[b]
            BY <2>0, <3>1
        <3> QED
            BY <1>8, <3>2 DEF Descends
    <2>2. \A b \in 1..(l - 1) : log[front[b] + 1] = key
        BY <1>5, <2>0
    <2> QED
        BY <1>3, <1>8, <2>1, <2>2 DEF IndexesOf
<1>11. Ranked(log, ks, more)
    BY <1>9, <1>10 DEF Ranked
<1>12. Current(ks, more) = front
    BY <1>4, <1>9 DEF Current
<1>13. \A a \in 1..n : ks[a] = key <=> a = n
    <2>1. \A a \in 1..n : ks[a] \in Int
        BY <1>2, RankedFacts
    <2>2. \A a \in 1..n : a < n => ks[a] > ks[n]
        BY <1>2 DEF Ranked, Descends
    <2> QED
        BY <1>2, <1>4, <2>1, <2>2
<1>14. ASSUME NEW j, Waits(ks, more, c, j)
       PROVE Waits(ks, lists, c + 1, j)
    <2>1. PICK a \in 1..n : \E b \in 1..Len(more[ks[a]]) :
              more[ks[a]][b] = j /\ (a = n => b + c <= Len(more[ks[a]]))
        BY <1>2, <1>14 DEF Waits
    <2>2. PICK b \in 1..Len(more[ks[a]]) :
              more[ks[a]][b] = j /\ (a = n => b + c <= Len(more[ks[a]]))
        BY <2>1
    <2>3. CASE a = n
        <3>1. b \in 1..(l - 1) /\ list[b] = j /\ b + c <= l - 1
            BY <1>4, <1>8, <1>9, <2>2, <2>3
        <3>2. b \in 1..l /\ b + (c + 1) <= l
            BY <1>3, <3>1
        <3> QED
            BY <1>2, <1>3, <1>4, <2>3, <3>1, <3>2 DEF Waits
    <2>4. CASE a # n
        <3>1. more[ks[a]] = lists[ks[a]]
            BY <1>9, <1>13, <2>4
        <3> QED
            BY <1>2, <2>2, <2>4, <3>1 DEF Waits
    <2> QED
        BY <2>3, <2>4
<1>15. ASSUME NEW j, Waits(ks, lists, c + 1, j)
       PROVE Waits(ks, more, c, j)
    <2>1. PICK a \in 1..n : \E b \in 1..Len(lists[ks[a]]) :
              lists[ks[a]][b] = j /\ (a = n => b + (c + 1) <= Len(lists[ks[a]]))
        BY <1>2, <1>15 DEF Waits
    <2>2. PICK b \in 1..Len(lists[ks[a]]) :
              lists[ks[a]][b] = j /\ (a = n => b + (c + 1) <= Len(lists[ks[a]]))
        BY <2>1
    <2>3. CASE a = n
        <3>1. b \in 1..l /\ list[b] = j /\ b + (c + 1) <= l
            BY <1>3, <1>4, <2>2, <2>3
        <3>2. b \in 1..(l - 1) /\ b + c <= l - 1
            BY <1>3, <3>1
        <3>3. more[ks[n]][b] = j /\ Len(more[ks[n]]) = l - 1 /\ n \in 1..n
            BY <1>2, <1>4, <1>8, <1>9, <3>1, <3>2
        <3> QED
            BY <1>2, <3>2, <3>3 DEF Waits
    <2>4. CASE a # n
        <3>1. more[ks[a]] = lists[ks[a]]
            BY <1>9, <1>13, <2>4
        <3> QED
            BY <1>2, <2>2, <2>4, <3>1 DEF Waits
    <2> QED
        BY <2>3, <2>4
<1> QED
    <2>1. Len(front) = Len(list) - 1 /\ \A b \in 1..(Len(list) - 1) : front[b] = list[b]
        BY <1>3, <1>8
    <2>2. \A j : Waits(ks, more, c, j) <=> Waits(ks, lists, c + 1, j)
        BY <1>14, <1>15
    <2> QED
        BY <1>1, <1>11, <1>12, <2>1, <2>2 DEF Leaves

\* A key with one index left, which was visited, gives way to the next.
LEMMA NextKeyWaits ==
    ASSUME NEW log, NEW ks, NEW lists, Ranked(log, ks, lists),
           Len(Current(ks, lists)) = 1, NEW rest, rest = Lists!Front(ks), rest # <<>>
    PROVE /\ Ranked(log, rest, lists)
          /\ \A j : Waits(rest, lists, 0, j) <=> Waits(ks, lists, 1, j)
<1>1. PICK n \in Nat : n = Len(ks) /\ n > 0
    BY RankedFacts
<1>2. ks \in Seq(Keys) /\ rest = SubSeq(ks, 1, n - 1)
    BY <1>1 DEF Ranked, Lists!Front
<1>3. \A a \in 1..(n - 1) : ks[a] \in Keys
    BY <1>1, RankedFacts
<1>4. /\ rest \in Seq(Keys) /\ Len(rest) = n - 1
      /\ \A a \in 1..(n - 1) : rest[a] = ks[a]
    BY <1>1, <1>2, <1>3, SubSeqProperties
<1>5. n - 1 > 0
    BY <1>1, <1>4, EmptySeq
<1>6. Ranked(log, rest, lists)
    <2>1. Descends(rest)
        <3>1. \A a, b \in 1..n : a < b => ks[a] > ks[b]
            BY <1>1 DEF Ranked, Descends
        <3>2. ASSUME NEW a \in 1..(n - 1), NEW b \in 1..(n - 1), a < b
              PROVE rest[a] > rest[b]
            <4>1. a \in 1..n /\ b \in 1..n
                BY <1>1
            <4> QED
                BY <1>4, <3>1, <3>2, <4>1
        <3> QED
            BY <1>4, <3>2 DEF Descends
    <2>2. \A a \in 1..(n - 1) : IndexesOf(log, rest[a], lists[rest[a]])
        BY <1>1, <1>4 DEF Ranked
    <2>3. log \in Seq(Keys)
        BY DEF Ranked
    <2> QED
        BY <1>4, <1>5, <2>1, <2>2, <2>3 DEF Ranked
<1>7. Len(lists[ks[n]]) = 1
    BY <1>1, RankedFacts
<1>8. ASSUME NEW j, Waits(rest, lists, 0, j)
      PROVE Waits(ks, lists, 1, j)
    <2>1. PICK a \in 1..(n - 1) : \E b \in 1..Len(lists[rest[a]]) : lists[rest[a]][b] = j
        BY <1>4, <1>8 DEF Waits
    <2>2. a \in 1..n /\ a # n /\ rest[a] = ks[a]
        BY <1>1, <1>4
    <2> QED
        BY <1>1, <2>1, <2>2 DEF Waits
<1>9. ASSUME NEW j, Waits(ks, lists, 1, j)
      PROVE Waits(rest, lists, 0, j)
    <2>1. PICK a \in 1..n : \E b \in 1..Len(lists[ks[a]]) :
              lists[ks[a]][b] = j /\ (a = n => b + 1 <= Len(lists[ks[a]]))
        BY <1>1, <1>9 DEF Waits
    <2>2. PICK b \in 1..Len(lists[ks[a]]) :
              lists[ks[a]][b] = j /\ (a = n => b + 1 <= Len(lists[ks[a]]))
        BY <2>1
    <2>3. a # n
        <3>1. ASSUME a = n
              PROVE FALSE
            <4>1. Len(lists[ks[a]]) = 1
                BY <1>7, <3>1
            <4>2. b \in 1..1 /\ b + 1 <= 1
                BY <2>2, <3>1, <4>1
            <4> QED
                BY <4>2
        <3> QED
            BY <3>1
    <2>4. a \in 1..(n - 1) /\ rest[a] = ks[a]
        BY <1>1, <1>4, <2>3
    <2>5. Len(lists[rest[a]]) \in Nat
        BY <1>1, <2>4, RankedFacts
    <2>6. b + 0 <= Len(lists[rest[a]])
        BY <2>2, <2>4, <2>5
    <2> QED
        BY <1>4, <2>2, <2>4, <2>6 DEF Waits
<1> QED
    BY <1>6, <1>8, <1>9

LEMMA IntervalSize ==
    ASSUME NEW n \in Nat
    PROVE /\ IsFiniteSet(1..n) /\ Cardinality(1..n) = n
          /\ IsFiniteSet(0..(n - 1)) /\ Cardinality(0..(n - 1)) = n
<1>1. IsFiniteSet(1..n)
    BY FS_Interval
<1>2. Cardinality(1..n) = n
    BY FS_Interval
<1>3. IsFiniteSet(0..(n - 1))
    BY FS_Interval
<1>4. Cardinality(0..(n - 1)) = n
    BY FS_Interval
<1> QED
    BY <1>1, <1>2, <1>3, <1>4

\* As many visits as there are accesses, no two alike, are all.
LEMMA AllVisited ==
    ASSUME NEW n \in Nat, NEW seen \in Seq(0..(n - 1)), Len(seen) >= n, Distinct(seen)
    PROVE Covers(seen, 0..(n - 1))
<1>1. PICK l \in Nat : l = Len(seen)
    BY LenProperties
<1>2. seen \in Injection(1..l, 0..(n - 1))
    BY <1>1, LenProperties DEF Injection, IsInjective, Distinct
<1>3. /\ IsFiniteSet(1..l) /\ Cardinality(1..l) = l
      /\ IsFiniteSet(0..(n - 1)) /\ Cardinality(0..(n - 1)) = n
    BY <1>1, IntervalSize
<1>4. seen \in Surjection(1..l, 0..(n - 1))
    <2>1. /\ Cardinality(1..l) <= Cardinality(0..(n - 1))
          /\ Cardinality(1..l) = Cardinality(0..(n - 1)) <=> seen \in Surjection(1..l, 0..(n - 1))
        BY <1>2, <1>3, FS_Injection
    <2> QED
        BY <1>1, <1>3, <2>1
<1> QED
    BY <1>1, <1>4 DEF Surjection, Covers

\* The lists a squash starts with: its keys, and the indexes of each
LEMMA SortedKeys ==
    ASSUME NEW D, D \subseteq Keys, IsFiniteSet(D), D # {}, NEW ks,
           ks = Descending(Lists!SetToSeq(D))
    PROVE ks \in Seq(D) /\ ks \in Seq(Keys) /\ Len(ks) > 0 /\ Descends(ks) /\ Covers(ks, D)
<1>1. PICK s : s = Lists!SetToSeq(D)
    OBVIOUS
<1>2. s \in Seq(D) /\ Distinct(s) /\ Covers(s, D)
    BY <1>1, SetToSeqMembers
<1>3. D \subseteq Int
    BY KeyFelts
<1>4. ks \in Seq(D) /\ Descends(ks) /\ Covers(ks, D)
    BY <1>1, <1>2, <1>3, DescendingOrder
<1>5. ks \in Seq(Keys)
    BY <1>4, SeqWidens
<1>6. Len(ks) > 0
    BY <1>4, LenProperties DEF Covers
<1> QED
    BY <1>4, <1>5, <1>6

LEMMA SortedIndexes ==
    ASSUME NEW n \in Nat, NEW S, S \subseteq 0..(n - 1), S # {}, NEW list,
           list = Lists!Reverse(Ascending(S))
    PROVE list \in Seq(S) /\ list \in Seq(0..(n - 1)) /\ Len(list) > 0 /\ Descends(list)
          /\ Covers(list, S)
<1>1. S \subseteq Int /\ IsFiniteSet(S)
    <2>1. IsFiniteSet(0..(n - 1))
        BY IntervalSize
    <2>2. IsFiniteSet(S)
        BY <2>1, FS_Subset
    <2> QED
        BY <2>2
<1>2. PICK t : t = Ascending(S)
    OBVIOUS
<1>3. t \in Seq(S) /\ Ascends(t) /\ Covers(t, S)
    BY <1>1, <1>2, AscendingOrder
<1>4. list \in Seq(S) /\ Descends(list) /\ Covers(list, S)
    BY <1>1, <1>2, <1>3, ReverseDescends
<1>5. list \in Seq(0..(n - 1))
    BY <1>4, SeqWidens
<1>6. Len(list) > 0
    <2>1. PICK x \in S : TRUE
        OBVIOUS
    <2>2. PICK a \in 1..Len(list) : list[a] = x
        BY <1>4, <2>1 DEF Covers
    <2>3. Len(list) \in Nat
        BY <1>5, LenProperties
    <2> QED
        BY <2>2, <2>3
<1> QED
    BY <1>4, <1>5, <1>6

AccessesTo(log, key) == {i \in 0..(Len(log) - 1) : log[i + 1] = key}

LEMMA StartWaits ==
    ASSUME NEW log \in Seq(Keys), NEW ks, NEW lists, NEW D, IsFiniteSet(D), D # {},
           \A i \in 0..(Len(log) - 1) : log[i + 1] \in D,
           \A x \in D : AccessesTo(log, x) # {},
           ks = Descending(Lists!SetToSeq(D)),
           \A x \in D : lists[x] = Lists!Reverse(Ascending(AccessesTo(log, x)))
    PROVE /\ Ranked(log, ks, lists)
          /\ \A j \in 0..(Len(log) - 1) : Waits(ks, lists, 0, j)
<1>1. PICK n \in Nat : n = Len(log)
    BY LenProperties
<1>2. \A x, i : i \in AccessesTo(log, x) => i \in 0..(n - 1) /\ log[i + 1] = x
    BY <1>1 DEF AccessesTo
<1>3. D \subseteq Keys
    <2>1. ASSUME NEW x \in D
          PROVE x \in Keys
        <3>1. PICK i : i \in AccessesTo(log, x)
            OBVIOUS
        <3>2. i + 1 \in 1..n /\ log[i + 1] = x
            BY <1>2, <3>1
        <3> QED
            BY <1>1, <3>2, LenProperties
    <2> QED
        BY <2>1
<1>4. /\ ks \in Seq(Keys) /\ Len(ks) > 0 /\ Descends(ks) /\ Covers(ks, D)
      /\ ks \in Seq(D)
    BY <1>3, SortedKeys
<1>8. \A a \in 1..Len(ks) : ks[a] \in D
    BY <1>4, LenProperties
<1>5. ASSUME NEW x \in D
      PROVE /\ IndexesOf(log, x, lists[x])
            /\ Covers(lists[x], AccessesTo(log, x))
    <2>1. PICK S : S = AccessesTo(log, x)
        OBVIOUS
    <2>2. S \subseteq 0..(n - 1) /\ S # {} /\ lists[x] = Lists!Reverse(Ascending(S))
        BY <1>2, <2>1
    <2>3. PICK list : list = lists[x]
        OBVIOUS
    <2>4. /\ list \in Seq(0..(n - 1)) /\ Len(list) > 0 /\ Descends(list) /\ Covers(list, S)
          /\ list \in Seq(S)
        <3>1. list = Lists!Reverse(Ascending(S))
            BY <2>2, <2>3
        <3> HIDE <2>3
        <3> QED
            BY <2>2, <3>1, SortedIndexes
    <2>5. \A b \in 1..Len(list) : log[list[b] + 1] = x
        <3>1. ASSUME NEW b \in 1..Len(list)
              PROVE log[list[b] + 1] = x
            <4>1. list \in [1..Len(list) -> S]
                BY <2>4, LenProperties
            <4>2. list[b] \in AccessesTo(log, x)
                BY <2>1, <4>1
            <4> QED
                BY <1>2, <4>2
        <3> QED
            BY <3>1
    <2>6. IndexesOf(log, x, list)
        BY <1>1, <2>4, <2>5 DEF IndexesOf
    <2> QED
        BY <2>1, <2>3, <2>4, <2>6
<1>6. Ranked(log, ks, lists)
    BY <1>4, <1>5, <1>8 DEF Ranked
<1>7. ASSUME NEW j \in 0..(n - 1)
      PROVE Waits(ks, lists, 0, j)
    <2>1. PICK x \in D : x = log[j + 1]
        BY <1>1
    <2>2. j \in AccessesTo(log, x)
        BY <1>1, <2>1 DEF AccessesTo
    <2>3. PICK a \in 1..Len(ks) : ks[a] = x
        BY <1>4 DEF Covers
    <2>4. PICK b \in 1..Len(lists[x]) : lists[x][b] = j
        BY <1>5, <2>2 DEF Covers
    <2>5. Len(lists[x]) \in Nat
        BY <1>6, <2>3, RankedFacts
    <2>6. b + 0 <= Len(lists[x])
        BY <2>4, <2>5
    <2> QED
        BY <2>3, <2>4, <2>6 DEF Waits
<1> QED
    BY <1>1, <1>6, <1>7

-----------------------------------------------------------------------------
(* A visit so far *)

Seen(seen, i) == \E a \in 1..Len(seen) : seen[a] = i

\* The accesses that were not seen wait in the lists, less the last c of the current key.
InOrder(log, seen, ks, lists, c) ==
    /\ Ranked(log, ks, lists)
    /\ \A a \in 1..Len(ks) : ks[a] \in DOMAIN lists
    /\ seen \in Seq(0..(Len(log) - 1)) /\ Distinct(seen)
    /\ \A i \in 0..(Len(log) - 1) : Waits(ks, lists, c, i) <=> ~Seen(seen, i)

LEMMA AppendSeen ==
    ASSUME NEW S, NEW seen \in Seq(S), Distinct(seen), NEW i \in S, ~Seen(seen, i)
    PROVE /\ Append(seen, i) \in Seq(S) /\ Distinct(Append(seen, i))
          /\ Len(Append(seen, i)) = Len(seen) + 1
          /\ Append(seen, i) # <<>> /\ Last(Append(seen, i)) = i
          /\ \A j : Seen(Append(seen, i), j) <=> Seen(seen, j) \/ j = i
<1>0. PICK more : more = Append(seen, i)
    OBVIOUS
<1>1. PICK n \in Nat : n = Len(seen)
    BY LenProperties
<1>2. /\ more \in Seq(S) /\ Len(more) = n + 1
      /\ \A a \in 1..n : more[a] = seen[a]
      /\ more[n + 1] = i
    BY <1>0, <1>1, AppendProperties
<1>3. more # <<>> /\ Last(more) = i
    BY <1>1, <1>2, EmptySeq DEF Last
<1>4. Distinct(more)
    <2>1. ASSUME NEW a \in 1..(n + 1), NEW b \in 1..(n + 1), more[a] = more[b]
          PROVE a = b
        <3>1. CASE a \in 1..n /\ b \in 1..n
            BY <1>1, <1>2, <2>1, <3>1 DEF Distinct
        <3>2. CASE a = n + 1 /\ b \in 1..n
            BY <1>1, <1>2, <2>1, <3>2 DEF Seen
        <3>3. CASE a \in 1..n /\ b = n + 1
            BY <1>1, <1>2, <2>1, <3>3 DEF Seen
        <3> QED
            BY <3>1, <3>2, <3>3
    <2> QED
        BY <1>2, <2>1 DEF Distinct
<1>5. ASSUME NEW j
      PROVE Seen(more, j) <=> Seen(seen, j) \/ j = i
    <2>1. ASSUME Seen(more, j)
          PROVE Seen(seen, j) \/ j = i
        <3>1. PICK a \in 1..(n + 1) : more[a] = j
            BY <1>2, <2>1 DEF Seen
        <3> QED
            BY <1>1, <1>2, <3>1 DEF Seen
    <2>2. ASSUME Seen(seen, j)
          PROVE Seen(more, j)
        <3>1. PICK a \in 1..n : seen[a] = j
            BY <1>1, <2>2 DEF Seen
        <3>2. a \in 1..(n + 1) /\ more[a] = j
            BY <1>2, <3>1
        <3> QED
            BY <1>2, <3>2 DEF Seen
    <2>3. Seen(more, i)
        <3>1. n + 1 \in 1..(n + 1)
            OBVIOUS
        <3> QED
            BY <1>2, <3>1 DEF Seen
    <2> QED
        BY <2>1, <2>2, <2>3
<1> QED
    BY <1>0, <1>1, <1>2, <1>3, <1>4, <1>5

LEMMA AppendVisit ==
    ASSUME NEW log, NEW seen, NEW ks, NEW lists, NEW c, InOrder(log, seen, ks, lists, c),
           NEW i \in 0..(Len(log) - 1), ~Seen(seen, i),
           \A j : Waits(ks, lists, c + 1, j) <=> Waits(ks, lists, c, j) /\ j # i
    PROVE InOrder(log, Append(seen, i), ks, lists, c + 1)
<1>1. /\ Ranked(log, ks, lists)
      /\ \A a \in 1..Len(ks) : ks[a] \in DOMAIN lists
    BY DEF InOrder
<1>2. seen \in Seq(0..(Len(log) - 1)) /\ Distinct(seen)
    BY DEF InOrder
<1>3. \A j \in 0..(Len(log) - 1) : Waits(ks, lists, c, j) <=> ~Seen(seen, j)
    BY DEF InOrder
<1> PICK S : S \subseteq 0..(Len(log) - 1) /\ seen \in Seq(S) /\ i \in S
    BY <1>2
<1>4. Append(seen, i) \in Seq(S) /\ Distinct(Append(seen, i))
    BY <1>2, AppendSeen
<1>5. \A j : Seen(Append(seen, i), j) <=> Seen(seen, j) \/ j = i
    BY <1>2, AppendSeen
<1>7. Append(seen, i) \in Seq(0..(Len(log) - 1))
    BY <1>4, SeqWidens
<1>6. \A j \in 0..(Len(log) - 1) : Waits(ks, lists, c + 1, j) <=> ~Seen(Append(seen, i), j)
    BY <1>3, <1>5
<1> QED
    BY <1>1, <1>4, <1>6, <1>7 DEF InOrder

\* The next index of the current key is the first of those not seen.
LEMMA VisitNext ==
    ASSUME NEW log, NEW seen, NEW ks, NEW lists, NEW c \in Nat,
           InOrder(log, seen, ks, lists, c), c < Len(Current(ks, lists)), NEW i,
           i = Current(ks, lists)[Len(Current(ks, lists)) - c]
    PROVE /\ InOrder(log, Append(seen, i), ks, lists, c + 1)
          /\ i \in 0..(Len(log) - 1) /\ ~Seen(seen, i)
          /\ \A j \in 0..(Len(log) - 1) : ~Seen(seen, j) /\ j # i =>
                \/ log[i + 1] < log[j + 1]
                \/ log[i + 1] = log[j + 1] /\ i < j
<1>1. /\ Ranked(log, ks, lists)
      /\ \A j \in 0..(Len(log) - 1) : Waits(ks, lists, c, j) <=> ~Seen(seen, j)
    BY DEF InOrder
<1>2. /\ i \in 0..(Len(log) - 1) /\ Waits(ks, lists, c, i)
      /\ \A j : Waits(ks, lists, c + 1, j) <=> Waits(ks, lists, c, j) /\ j # i
      /\ \A j : Waits(ks, lists, c, j) /\ j # i =>
            \/ log[i + 1] < log[j + 1]
            \/ log[i + 1] = log[j + 1] /\ i < j
    <2> PICK list : list = Current(ks, lists)
        OBVIOUS
    <2> QED
        BY <1>1, NextWaits
<1>3. ~Seen(seen, i)
    BY <1>1, <1>2
<1>4. InOrder(log, Append(seen, i), ks, lists, c + 1)
    <2>1. \A j : Waits(ks, lists, c + 1, j) <=> Waits(ks, lists, c, j) /\ j # i
        BY <1>2
    <2>2. i \in 0..(Len(log) - 1)
        BY <1>2
    <2> QED
        BY <1>3, <2>1, <2>2, AppendVisit
<1> QED
    BY <1>1, <1>2, <1>3, <1>4

\* As a step of the specification
LEMMA VisitStep ==
    ASSUME NEW i, i \in 0..(Len(SquashLog) - 1), ~Seen(visited, i),
           visited \in Seq(0..(Len(SquashLog) - 1)),
           visited' = Append(visited, i), SquashLog' = SquashLog,
           \A j \in 0..(Len(SquashLog) - 1) : ~Seen(visited, j) /\ j # i =>
               \/ SquashLog[i + 1] < SquashLog[j + 1]
               \/ SquashLog[i + 1] = SquashLog[j + 1] /\ i < j
    PROVE Ordered!Visit
<1>1. DOMAIN visited = 1..Len(visited)
    BY LenProperties
<1>2. \A j : j \in Ordered!Unvisited <=> j \in 0..(Len(SquashLog) - 1) /\ ~Seen(visited, j)
    BY <1>1 DEF Ordered!Unvisited, Ordered!Indexes, Seen
<1>3. i \in Ordered!Unvisited
    BY <1>2
<1>4. \A j \in Ordered!Unvisited \ {i} : Ordered!Before(i, j)
    BY <1>2 DEF Ordered!Before, Ordered!KeyOf
<1> QED
    BY <1>3, <1>4 DEF Ordered!Visit

\* When every access was seen, none is unvisited.
LEMMA VisitEnds ==
    ASSUME visited \in Seq(0..(Len(SquashLog) - 1)), Distinct(visited),
           Len(SquashLog) \in Nat, Len(SquashLog) > 0, Len(visited) >= Len(SquashLog),
           SquashLog' = <<>>, visited' = <<>>
    PROVE Ordered!End
<1>1. Covers(visited, 0..(Len(SquashLog) - 1))
    <2> PICK n : n = Len(SquashLog)
        OBVIOUS
    <2>1. Covers(visited, 0..(n - 1))
        BY AllVisited
    <2> QED
        BY <2>1
<1>2. DOMAIN visited = 1..Len(visited)
    BY LenProperties
<1>3. Ordered!Unvisited = {}
    BY <1>1, <1>2 DEF Ordered!Unvisited, Ordered!Indexes, Covers
<1>4. SquashLog # <<>>
    BY EmptySeq
<1> QED
    BY <1>3, <1>4 DEF Ordered!End

-----------------------------------------------------------------------------
(* The keys of the accesses, in memory *)

KeyGiven(d, i) == \E key \in Keys : Promised(d, 3 * i, Felt(key))
KeysThere == \A d \in DOMAIN dictPtr : \A i \in 0..(AccessCount(d) - 1) : KeyGiven(d, i)

KeyIn(d, i) == \E key \in Keys : CellOf(d, 3 * i) = Felt(key)
LogThere == \A i \in 0..(AccessCount(squash.dict) - 1) : KeyIn(squash.dict, i)

\* No cell of a dictionary that has a value changes.
DictionariesStay ==
    \A d \in DOMAIN dictPtr : \A o \in Int :
        CellOf(d, o) # undefined => CellOf(d, o)' = CellOf(d, o)

LEMMA ElsewhereStays ==
    ASSUME Before, NEW T, T \subseteq 0..3, Elsewhere(segments, segments', T)
    PROVE DictionariesStay
<1>1. ASSUME NEW d \in DOMAIN dictPtr, NEW o \in Int
      PROVE CellOf(d, o)' = CellOf(d, o)
    <2>1. d \in 0..(Len(segments) - 1) /\ d \notin T
        BY StateFacts
    <2> QED
        BY <2>1, CellsElsewhere
<1> QED
    BY <1>1 DEF DictionariesStay

LEMMA KeysStay ==
    ASSUME Before, KeysThere, DictionariesStay, dictPtr' = dictPtr,
           \A d \in DOMAIN dictPtr : \A o \in Int : \A v :
               Asserts(d, o, v) => Promised(d, o, v)'
    PROVE KeysThere'
<1>1. ASSUME NEW d \in DOMAIN dictPtr, NEW i \in 0..(AccessCount(d) - 1)
      PROVE KeyGiven(d, i)'
    <2>1. PICK key \in Keys : Promised(d, 3 * i, Felt(key))
        BY DEF KeysThere, KeyGiven
    <2>2. Felt(key) # undefined /\ 3 * i \in Int
        BY KeyFelts, Tags
    <2>3. CASE CellOf(d, 3 * i) = Felt(key)
        <3>1. CellOf(d, 3 * i)' = Felt(key)
            BY <2>2, <2>3 DEF DictionariesStay
        <3> QED
            BY <3>1 DEF KeyGiven, Promised
    <2>4. CASE Asserts(d, 3 * i, Felt(key))
        <3>1. Promised(d, 3 * i, Felt(key))'
            BY <2>2, <2>4
        <3> QED
            BY <3>1 DEF KeyGiven
    <2> QED
        BY <2>1, <2>3, <2>4 DEF Promised
<1>2. \A d : AccessCount(d)' = AccessCount(d)
    BY DEF AccessCount
<1> QED
    BY <1>1, <1>2 DEF KeysThere

LEMMA LogFacts ==
    ASSUME Before, squash.at # "none", LogThere, NEW d, d = squash.dict
    PROVE /\ d \in DOMAIN dictManager /\ d \in DOMAIN dictPtr /\ AccessCount(d) \in Nat
          /\ AccessCount(d) > 0 /\ AccessCount(d) <= limits.accesses
          /\ SquashLog \in Seq(Keys) /\ Len(SquashLog) = AccessCount(d)
          /\ \A i \in 0..(AccessCount(d) - 1) :
                SquashLog[i + 1] \in Keys /\ CellOf(d, 3 * i) = Felt(SquashLog[i + 1])
<1>1. /\ d \in DOMAIN dictManager /\ d \in DOMAIN dictPtr /\ AccessCount(d) \in Nat
      /\ AccessCount(d) > 0 /\ AccessCount(d) <= limits.accesses
    <2>1. d \in DOMAIN dictPtr /\ dictPtr[d] > 0
        BY DEF Before, IInv, Squashes, NotSquashing
    <2>2. d \in DOMAIN dictManager
        BY <2>1, StateFacts
    <2>3. AccessCount(d) \in Nat /\ AccessCount(d) <= limits.accesses
          /\ dictPtr[d] = 3 * AccessCount(d)
        BY <2>2, DictionaryFacts
    <2> QED
        BY <2>1, <2>2, <2>3
<1>2. PICK n \in Nat : n = AccessCount(d)
    BY <1>1
<1>3. SquashLog = [i \in 1..n |-> KeyOf(d, i - 1).inner]
    BY <1>2 DEF SquashLog
<1>4. ASSUME NEW i \in 0..(n - 1)
      PROVE SquashLog[i + 1] \in Keys /\ CellOf(d, 3 * i) = Felt(SquashLog[i + 1])
    <2>1. PICK key \in Keys : CellOf(d, 3 * i) = Felt(key)
        BY <1>2 DEF LogThere, KeyIn
    <2>2. i + 1 \in 1..n /\ (i + 1) - 1 = i
        OBVIOUS
    <2>3. SquashLog[i + 1] = KeyOf(d, i).inner
        BY <1>3, <2>2
    <2>4. SquashLog[i + 1] = key
        BY <2>1, <2>3, KeyFelts DEF KeyOf, DICT_ACCESS_SIZE
    <2> QED
        BY <2>1, <2>4
<1>5. \A i \in 1..n : KeyOf(d, i - 1).inner \in Keys
    <2>1. ASSUME NEW i \in 1..n
          PROVE SquashLog[i] \in Keys
        <3>1. i - 1 \in 0..(n - 1) /\ (i - 1) + 1 = i
            OBVIOUS
        <3> QED
            BY <1>4, <3>1
    <2> QED
        BY <1>3, <2>1
<1>6. SquashLog \in Seq(Keys) /\ Len(SquashLog) = n
    BY <1>3, <1>5, IsASeq
<1> QED
    BY <1>1, <1>2, <1>4, <1>6

LEMMA LogStays ==
    ASSUME Before, squash.at # "none", LogThere, DictionariesStay, dictPtr' = dictPtr,
           squash'.at # "none", squash'.dict = squash.dict
    PROVE LogThere' /\ SquashLog' = SquashLog
<1>1. PICK d : d = squash.dict
    OBVIOUS
<1>2. d \in DOMAIN dictPtr /\ AccessCount(d) \in Nat
    BY <1>1, LogFacts
<1>3. PICK n \in Nat : n = AccessCount(d) /\ n = AccessCount(d)'
    BY <1>2 DEF AccessCount
<1>4. ASSUME NEW i \in 0..(n - 1)
      PROVE CellOf(d, 3 * i)' = CellOf(d, 3 * i) /\ KeyIn(d, i)'
    <2>1. PICK key \in Keys : CellOf(d, 3 * i) = Felt(key)
        BY <1>1, <1>3 DEF LogThere, KeyIn
    <2>2. Felt(key) # undefined /\ 3 * i \in Int
        BY KeyFelts, Tags
    <2>3. CellOf(d, 3 * i)' = CellOf(d, 3 * i)
        BY <1>2, <2>1, <2>2 DEF DictionariesStay
    <2> QED
        BY <2>1, <2>3 DEF KeyIn
<1>5. LogThere'
    BY <1>1, <1>3, <1>4 DEF LogThere
<1>6. \A i \in 1..n : KeyOf(d, i - 1)' = KeyOf(d, i - 1)
    <2>1. ASSUME NEW i \in 1..n
          PROVE CellOf(d, 3 * (i - 1))' = CellOf(d, 3 * (i - 1))
        <3>1. i - 1 \in 0..(n - 1)
            OBVIOUS
        <3> QED
            BY <1>4, <3>1
    <2> QED
        BY <2>1 DEF KeyOf, DICT_ACCESS_SIZE
<1>7. SquashLog = [i \in 1..n |-> KeyOf(d, i - 1).inner]
    BY <1>1, <1>3 DEF SquashLog
<1>8. SquashLog' = [i \in 1..n |-> KeyOf(d, i - 1)'.inner]
    BY <1>1, <1>3 DEF SquashLog
<1> QED
    BY <1>5, <1>6, <1>7, <1>8

-----------------------------------------------------------------------------
(* The invariant of a first squash *)

LoopSteps == {"index", "skip", "delta", "continue", "key"}

\* In the loops: what was visited, what waits in the lists, and where the loop over the
\* indexes of the current key is.  Before the first of them is asserted none is gone.
Looping ==
    /\ InOrder(SquashLog, visited, keys, keyToIndices, IF squash.at = "index" THEN 0 ELSE 1)
    /\ squash.at # "index" => Last(visited) = Last(Current(keys, keyToIndices))
    /\ squash.at = "delta" => Len(Current(keys, keyToIndices)) > 1
    /\ squash.at = "key" => Len(Current(keys, keyToIndices)) = 1

NothingListed == keys = <<>> /\ DOMAIN keyToIndices = {}

\* The range check segment holds one cell for each key visited, at most.
RangeChecksCounted ==
    \A o \in Int : CellOf(RangeCheck, o) # undefined => 0 <= o /\ o < Len(visited)

VisitHolds ==
    /\ squash.at \in {"none", "init"} \cup LoopSteps
    /\ squash.at \in {"none", "init"} => visited = <<>>
    /\ squash.at \in {"none", "init"} /\ squashed = {} => NothingListed
    /\ squash.at # "none" => LogThere
    /\ squash.at \in LoopSteps => Looping
    /\ squashed = {} => RangeChecksCounted

OneSquash == limits.squashes <= 1

BeforeVisit == Before /\ OneSquash /\ KeysThere /\ VisitHolds

LEMMA FirstSquash ==
    ASSUME Before, OneSquash, squash.at # "none"
    PROVE squashed = {}
<1>1. Cardinality(squashed) \in Nat /\ IsFiniteSet(squashed)
    <2>1. squashed \subseteq DOMAIN dictPtr
        BY DEF Before, IInv, Squashes
    <2> QED
        BY <2>1, SquashedCount, StateFacts, FS_Subset
<1>2. Cardinality(squashed) + 1 <= limits.squashes
    BY DEF Before, IInv, Squashes, SquashesBegun
<1>3. limits.squashes \in Nat
    BY StateFacts, SmallNumbers
<1>4. Cardinality(squashed) = 0
    BY <1>1, <1>2, <1>3 DEF OneSquash
<1> QED
    BY <1>1, <1>4, FS_EmptySet

\* What every hint of a squash leaves alone
LEMMA LoopFrame ==
    ASSUME BeforeVisit, pending = <<>>, squash.at # "none", SquashGoesOn,
           Elsewhere(segments, segments', {0, RangeCheck})
    PROVE SquashLog' = SquashLog /\ KeysThere' /\ LogThere' /\ squashed' = {} /\ squashed = {}
<1>1. Before /\ LogThere /\ KeysThere /\ OneSquash
    BY DEF BeforeVisit, VisitHolds
<1>2. UNCHANGED <<dictPtr, pending, squashed>>
    BY DEF SquashGoesOn, programVars
<1>3. squash'.at # "none" /\ squash'.dict = squash.dict
    <2>1. \E at, d : squash = [at |-> at, dict |-> d]
        BY <1>1 DEF Before, IInv, Squashes, NotSquashing
    <2>2. CASE thrown' # undefined
        BY <2>2 DEF SquashGoesOn, programVars
    <2>3. CASE thrown' = undefined
        BY <2>1, <2>3 DEF SquashGoesOn
    <2> QED
        BY <2>2, <2>3
<1>4. DictionariesStay
    <2>1. {0, RangeCheck} \subseteq 0..3
        BY DEF RangeCheck
    <2> QED
        BY <1>1, <2>1, ElsewhereStays
<1>5. SquashLog' = SquashLog /\ LogThere'
    BY <1>1, <1>2, <1>3, <1>4, LogStays
<1>6. \A d \in DOMAIN dictPtr : \A o \in Int : \A v :
          Asserts(d, o, v) => Promised(d, o, v)'
    BY DEF Asserts
<1>7. KeysThere'
    BY <1>1, <1>2, <1>4, <1>6, KeysStay
<1>8. squashed = {}
    BY <1>1, FirstSquash
<1> QED
    BY <1>2, <1>5, <1>7, <1>8

\* A hint that writes only to the execution segment, and visits no access
LEMMA RangeCheckedStays ==
    ASSUME Before, RangeChecksCounted, Elsewhere(segments, segments', {0}),
           Len(visited) \in Nat, Len(visited') \in Nat, Len(visited') >= Len(visited)
    PROVE RangeChecksCounted'
<1>1. \A o \in Int : CellOf(RangeCheck, o)' = CellOf(RangeCheck, o)
    <2>1. RangeCheck \in 0..(Len(segments) - 1) /\ RangeCheck \notin {0}
        BY StateFacts DEF RangeCheck
    <2> QED
        BY <2>1, CellsElsewhere
<1> QED
    BY <1>1 DEF RangeChecksCounted

-----------------------------------------------------------------------------
(* The steps of a first squash *)

\* A step is one of the ordered visit, or none, and keeps what it is known by.
Visits ==
    /\ Ordered!Next \/ UNCHANGED <<SquashLog, visited>>
    /\ thrown' = undefined => KeysThere' /\ VisitHolds'

LEMMA LoopFacts ==
    ASSUME BeforeVisit, squash.at \in LoopSteps, NEW list, list = Current(keys, keyToIndices)
    PROVE /\ Before /\ Looping /\ squash.at # "none" /\ squashed = {} /\ RangeChecksCounted
          /\ Ranked(SquashLog, keys, keyToIndices)
          /\ keys # <<>> /\ Last(keys) \in DOMAIN keyToIndices
          /\ ~isError(lastIndices) /\ lastIndices = [tag |-> "indices", list |-> list]
          /\ Len(list) \in Nat /\ Len(list) > 0 /\ list # <<>>
          /\ IndexesOf(SquashLog, Last(keys), list)
          /\ visited \in Seq(0..(Len(SquashLog) - 1)) /\ Distinct(visited)
          /\ Len(visited) \in Nat
          /\ Len(SquashLog) \in Nat /\ Len(SquashLog) > 0
          /\ Len(SquashLog) = AccessCount(squash.dict)
          /\ Len(SquashLog) <= limits.accesses /\ limits.accesses \in Nat
<1>1. /\ Before /\ OneSquash /\ LogThere /\ Looping /\ squash.at # "none"
    BY DEF BeforeVisit, VisitHolds, LoopSteps
<1>2. squashed = {} /\ RangeChecksCounted
    BY <1>1, FirstSquash DEF BeforeVisit, VisitHolds
<1>3. /\ Ranked(SquashLog, keys, keyToIndices)
      /\ \A a \in 1..Len(keys) : keys[a] \in DOMAIN keyToIndices
      /\ visited \in Seq(0..(Len(SquashLog) - 1)) /\ Distinct(visited)
    BY <1>1 DEF Looping, InOrder
<1>4. /\ keys # <<>> /\ Len(keys) \in 1..Len(keys) /\ Last(keys) = keys[Len(keys)]
      /\ Len(list) \in Nat /\ Len(list) > 0
      /\ IndexesOf(SquashLog, Last(keys), list)
    BY <1>3, RankedFacts
<1>5. Last(keys) \in DOMAIN keyToIndices /\ list # <<>> /\ list = keyToIndices[Last(keys)]
    BY <1>3, <1>4, EmptySeq DEF Current
<1>6. lastIndices = [tag |-> "indices", list |-> list]
    BY <1>4, <1>5 DEF lastIndices
<1>7. ~isError(lastIndices)
    BY <1>6 DEF isError
<1>8. Len(visited) \in Nat
    BY <1>3, LenProperties
<1>9. /\ Len(SquashLog) \in Nat /\ Len(SquashLog) > 0
      /\ Len(SquashLog) = AccessCount(squash.dict)
      /\ Len(SquashLog) <= limits.accesses
    BY <1>1, LogFacts
<1>10. limits.accesses \in Nat
    BY <1>1, StateFacts, SmallNumbers
<1> QED
    BY <1>1, <1>2, <1>3, <1>4, <1>5, <1>6, <1>7, <1>8, <1>9, <1>10

\* What a hint has asserted after the pointer at ap
LEMMA FilledCell ==
    ASSUME Before, NEW v \in SegmentValue, thrown' = undefined,
           AssertEq(segments, cellRefToRelocatable(Regs, Cell(1)), v)
    PROVE Filled(1) = v
<1>1. PICK a : a = cellRefToRelocatable(Regs, Cell(1))
    OBVIOUS
<1>2. /\ segments \in Memories(SegmentValue) /\ ap + 1 \in Int /\ 0 \in 0..(Len(segments) - 1)
      /\ a = Relocatable(0, ap + 1) /\ a \in Relocatables /\ a.segmentId = 0
      /\ a.offset = ap + 1
    BY <1>1, StateFacts, CellReference, RelocatableType
<1>3. segments' = assertEq(segments, a, v).segments /\ assertEq(segments, a, v).value = undefined
    BY <1>1 DEF AssertEq, Written
<1>4. Writes(segments, segments', 0, ap + 1, v)
    BY <1>2, <1>3, AssertEqWrites
<1>5. CellAt(segments', Relocatable(0, ap + 1)) = v
    BY <1>2, <1>4 DEF Writes
<1> QED
    BY <1>5 DEF Filled

\* A step of the loops that visits no access
LEMMA QuietVisit ==
    ASSUME BeforeVisit, pending = <<>>, squash.at # "none", SquashGoesOn,
           Elsewhere(segments, segments', {0}), visited' = visited,
           thrown' = undefined => squash'.at \in LoopSteps /\ Looping'
    PROVE Visits
<1>1. Elsewhere(segments, segments', {0, RangeCheck})
    BY ElsewhereWidens
<1>2. SquashLog' = SquashLog /\ KeysThere' /\ LogThere' /\ squashed' = {} /\ squashed = {}
    BY <1>1, LoopFrame
<1>3. ASSUME thrown' = undefined
      PROVE VisitHolds'
    <2>1. Before /\ RangeChecksCounted
        BY <1>2 DEF BeforeVisit, VisitHolds
    <2>2. RangeChecksCounted'
        <3>1. \A o \in Int : CellOf(RangeCheck, o)' = CellOf(RangeCheck, o)
            <4>1. RangeCheck \in 0..(Len(segments) - 1) /\ RangeCheck \notin {0}
                BY <2>1, StateFacts DEF RangeCheck
            <4> QED
                BY <2>1, <4>1, CellsElsewhere
        <3> QED
            BY <2>1, <3>1 DEF RangeChecksCounted
    <2> QED
        BY <1>2, <1>3, <2>2 DEF VisitHolds, LoopSteps
<1> QED
    BY <1>2, <1>3 DEF Visits

\* The flag of the loop, and where it leads
LEMMA FlagVisit ==
    ASSUME BeforeVisit, pending = <<>>, squash.at \in {"skip", "continue"},
           NEW more \in {0, 1}, NEW noMore \in {0, 1},
           AssertMoreIndices(segments, Regs, Cell(1), Felt(more), Felt(noMore)),
           Elsewhere(segments, segments', {0}), NEW next \in {"delta", "key"},
           Continue(thrown' # undefined, next, visited),
           Filled(1) = Felt(more) => next = "delta", Filled(1) = Felt(noMore) => next = "key"
    PROVE Visits
<1>1. PICK list : list = Current(keys, keyToIndices)
    OBVIOUS
<1>2. /\ Before /\ Looping /\ squash.at # "none"
      /\ ~isError(lastIndices) /\ lastIndices = [tag |-> "indices", list |-> list]
      /\ Len(list) \in Nat /\ Len(list) > 0
    BY <1>1, LoopFacts DEF LoopSteps
<1>3. SquashGoesOn /\ visited' = visited
    <2>1. next # "none"
        OBVIOUS
    <2>2. SquashGoesOn
        BY <2>1, ContinueGoesOn
    <2>3. visited' = visited
        BY DEF Continue, Unless, programVars
    <2> QED
        BY <2>2, <2>3
<1>4. ASSUME thrown' = undefined
      PROVE squash'.at \in LoopSteps /\ Looping'
    <2> DEFINE flag == IF Len(list) > 1 THEN more ELSE noMore
    <2>1. /\ AssertEq(segments, cellRefToRelocatable(Regs, Cell(1)), Felt(flag))
          /\ keys' = keys /\ keyToIndices' = keyToIndices
        BY <1>2 DEF AssertMoreIndices, squashedDictManager
    <2>2. Filled(1) = Felt(flag)
        <3>1. Felt(flag) \in SegmentValue
            BY FeltType, KindsAreValues
        <3> HIDE DEF flag
        <3> QED
            BY <1>2, <1>4, <2>1, <3>1, FilledCell
    <2>4. /\ Len(list) > 1 => next = "delta"
          /\ ~(Len(list) > 1) => next = "key"
        BY <2>2
    <2>5. squash'.at = next
        <3>1. \E at, d : squash = [at |-> at, dict |-> d]
            BY <1>2 DEF Before, IInv, Squashes, NotSquashing
        <3> QED
            BY <1>4, <3>1 DEF Continue, Unless, Jump
    <2>6. SquashLog' = SquashLog
        <3>1. Elsewhere(segments, segments', {0, RangeCheck})
            BY ElsewhereWidens
        <3> QED
            BY <1>2, <1>3, <3>1, LoopFrame
    <2>7. /\ InOrder(SquashLog, visited, keys, keyToIndices, 1)
          /\ Last(visited) = Last(list)
        BY <1>1, <1>2 DEF Looping
    <2>8. /\ InOrder(SquashLog', visited', keys', keyToIndices', 1)
          /\ Last(visited') = Last(list)
          /\ Current(keys', keyToIndices') = list
        BY <1>1, <1>3, <2>1, <2>6, <2>7
    <2>9. squash'.at \in {"delta", "key"} /\ squash'.at # "index"
        BY <2>5
    <2>10. ~(Len(list) > 1) => Len(list) = 1
        <3>1. PICK n \in Nat : n = Len(list) /\ n > 0
            BY <1>2
        <3> QED
            BY <3>1
    <2>11. /\ squash'.at = "delta" => Len(list) > 1
           /\ squash'.at = "key" => Len(list) = 1
        BY <2>4, <2>5, <2>10
    <2> QED
        BY <2>8, <2>9, <2>11 DEF Looping, LoopSteps
<1> QED
    BY <1>2, <1>3, <1>4, QuietVisit

\* What flag of the loop leads where: the two felts differ.
LEMMA FlagFelts ==
    ASSUME Before
    PROVE Felt(0) # Felt(1)
<1>1. limits \in Limits /\ 0 \in 0..Top /\ 1 \in 0..Top
    BY StateFacts, SmallNumbers DEF Top
<1> QED
    BY <1>1, SmallFelts

LEMMA SkipLoopVisit ==
    ASSUME BeforeVisit, SkipLoop
    PROVE Visits
<1>1. /\ pending = <<>> /\ squash.at = "skip"
      /\ AssertMoreIndices(segments, Regs, Cell(1), Felt(0), Felt(1))
      /\ Continue(thrown' # undefined, IF Filled(1) = Zero THEN "delta" ELSE "key", visited)
    BY DEF SkipLoop, Squashing, shouldSkipSquashLoop
<1>2. Elsewhere(segments, segments', {0}) /\ Felt(0) # Felt(1)
    BY SkipLoopStep, FlagFelts DEF BeforeVisit
<1> QED
    BY <1>1, <1>2, FlagVisit DEF Zero

LEMMA ContinueLoopVisit ==
    ASSUME BeforeVisit, ContinueLoop
    PROVE Visits
<1>1. /\ pending = <<>> /\ squash.at = "continue"
      /\ AssertMoreIndices(segments, Regs, Cell(1), Felt(1), Felt(0))
      /\ Continue(thrown' # undefined, IF Filled(1) = Zero THEN "key" ELSE "delta", visited)
    BY DEF ContinueLoop, Squashing, shouldContinueSquashLoop
<1>2. Elsewhere(segments, segments', {0}) /\ Felt(0) # Felt(1)
    BY ContinueLoopStep, FlagFelts DEF BeforeVisit
<1> QED
    BY <1>1, <1>2, FlagVisit DEF Zero

\* What is in order once a key, or an index, is popped
LEMMA NextKeyOrder ==
    ASSUME NEW log, NEW seen, NEW ks, NEW lists, InOrder(log, seen, ks, lists, 1),
           Len(Current(ks, lists)) = 1, NEW rest, rest = Lists!Front(ks), rest # <<>>
    PROVE InOrder(log, seen, rest, lists, 0)
<1>1. /\ Ranked(log, ks, lists) /\ \A a \in 1..Len(ks) : ks[a] \in DOMAIN lists
      /\ seen \in Seq(0..(Len(log) - 1)) /\ Distinct(seen)
      /\ \A i \in 0..(Len(log) - 1) : Waits(ks, lists, 1, i) <=> ~Seen(seen, i)
    BY DEF InOrder
<1>2. Ranked(log, rest, lists) /\ \A j : Waits(rest, lists, 0, j) <=> Waits(ks, lists, 1, j)
    BY <1>1, NextKeyWaits
<1>3. \A a \in 1..Len(rest) : rest[a] \in DOMAIN lists
    <2>1. PICK n \in Nat : n = Len(ks) /\ n > 0
        BY <1>1, RankedFacts
    <2>2. \A a \in 1..(n - 1) : ks[a] \in Keys
        BY <1>1, <2>1, RankedFacts
    <2>3. ks \in Seq(Keys) /\ rest = SubSeq(ks, 1, n - 1)
        BY <1>1, <2>1 DEF Ranked, Lists!Front
    <2>4. Len(rest) = n - 1 /\ \A a \in 1..(n - 1) : rest[a] = ks[a]
        BY <2>1, <2>2, <2>3, SubSeqProperties
    <2> QED
        BY <1>1, <2>1, <2>4
<1> QED
    BY <1>1, <1>2, <1>3 DEF InOrder

LEMMA PopOrder ==
    ASSUME NEW log, NEW seen, NEW ks, NEW lists, InOrder(log, seen, ks, lists, 2),
           Len(Current(ks, lists)) > 1, NEW more, more = Popped(ks, lists)
    PROVE /\ InOrder(log, seen, ks, more, 1)
          /\ Last(Current(ks, more)) = Current(ks, lists)[Len(Current(ks, lists)) - 1]
<1>1. /\ Ranked(log, ks, lists) /\ \A a \in 1..Len(ks) : ks[a] \in DOMAIN lists
      /\ seen \in Seq(0..(Len(log) - 1)) /\ Distinct(seen)
      /\ \A i \in 0..(Len(log) - 1) : Waits(ks, lists, 2, i) <=> ~Seen(seen, i)
    BY DEF InOrder
<1>2. Last(ks) \in DOMAIN lists
    BY <1>1, RankedFacts
<1>3. PICK c \in Nat : c = 1
    OBVIOUS
<1>4. /\ Ranked(log, ks, more)
      /\ Len(Current(ks, more)) = Len(Current(ks, lists)) - 1
      /\ \A b \in 1..(Len(Current(ks, lists)) - 1) : Current(ks, more)[b] = Current(ks, lists)[b]
      /\ \A j : Waits(ks, more, c, j) <=> Waits(ks, lists, c + 1, j)
    <2> HIDE <1>3
    <2>1. Ranked(log, ks, lists) /\ Last(ks) \in DOMAIN lists
        BY <1>1, <1>2
    <2>2. Leaves(log, ks, lists, more, c)
        BY <2>1, PopWaits
    <2> QED
        BY <2>2 DEF Leaves
<1>5. \A j : Waits(ks, more, 1, j) <=> Waits(ks, lists, 2, j)
    <2>1. c + 1 = 2
        BY <1>3
    <2> QED
        BY <1>3, <1>4, <2>1
<1>6. \A i \in 0..(Len(log) - 1) : Waits(ks, more, 1, i) <=> ~Seen(seen, i)
    BY <1>1, <1>5
<1>7. \A a \in 1..Len(ks) : ks[a] \in DOMAIN more
    BY <1>1 DEF Popped
<1>8. Last(Current(ks, more)) = Current(ks, lists)[Len(Current(ks, lists)) - 1]
    <2>1. PICK l \in Nat : l = Len(Current(ks, lists)) /\ l > 1
        BY <1>1, RankedFacts
    <2>2. l - 1 \in 1..(l - 1)
        BY <2>1
    <2> QED
        BY <1>4, <2>1, <2>2 DEF Last
<1> QED
    BY <1>1, <1>4, <1>6, <1>7, <1>8 DEF InOrder

\* Where a hint that does not throw leads
LEMMA ContinueFacts ==
    ASSUME Before, squash.at # "none", NEW next, next # "none", NEW visits,
           Continue(thrown' # undefined, next, visits)
    PROVE /\ SquashGoesOn
          /\ thrown' # undefined => visited' = visited
          /\ thrown' = undefined => visited' = visits /\ squash'.at = next
<1>1. SquashGoesOn
    BY ContinueGoesOn
<1>2. thrown' # undefined => visited' = visited
    BY DEF Continue, Unless, programVars
<1>3. thrown' = undefined => visited' = visits
    BY DEF Continue, Unless
<1>4. thrown' = undefined => squash'.at = next
    <2>1. \E at, d : squash = [at |-> at, dict |-> d]
        BY DEF Before, IInv, Squashes, NotSquashing
    <2> QED
        BY <2>1 DEF Continue, Unless, Jump
<1> QED
    BY <1>1, <1>2, <1>3, <1>4

LEMMA NextKeyVisit ==
    ASSUME BeforeVisit, NextKey
    PROVE Visits
<1>1. /\ pending = <<>> /\ squash.at = "key" /\ squash.at # "none" /\ squash.at \in LoopSteps
      /\ getNextDictKey(segments, Regs, Cell(1))
      /\ Continue(thrown' # undefined, "index", visited)
    BY DEF NextKey, Squashing, LoopSteps
<1>2. Before
    BY DEF BeforeVisit
<1>3. Elsewhere(segments, segments', {0}) /\ Elsewhere(segments, segments', {0, RangeCheck})
    <2>1. Elsewhere(segments, segments', {0})
        BY <1>2, NextKeyStep
    <2> QED
        BY <2>1, ElsewhereWidens
<1>4. SquashGoesOn /\ visited' = visited /\ (thrown' = undefined => squash'.at = "index")
    <2>1. "index" # "none"
        OBVIOUS
    <2> QED
        BY <1>1, <1>2, <2>1, ContinueFacts
<1>5. SquashLog' = SquashLog
    BY <1>1, <1>3, <1>4, LoopFrame
<1>6. Looping /\ keys # <<>>
    <2> PICK list : list = Current(keys, keyToIndices)
        OBVIOUS
    <2> QED
        BY <1>1, LoopFacts
<1>7. ASSUME thrown' = undefined
      PROVE squash'.at \in LoopSteps /\ Looping'
    <2>1. keys' = Lists!Front(keys) /\ keyToIndices' = keyToIndices
        BY <1>1, <1>6 DEF getNextDictKey
    <2>2. keys' # <<>>
        <3>1. Error("EmptyKeys") # undefined
            BY ErrorType, Tags DEF ErrorNames
        <3> QED
            BY <1>1, <1>6, <1>7, <3>1 DEF getNextDictKey, Throw
    <2>3. /\ InOrder(SquashLog, visited, keys, keyToIndices, 1)
          /\ Len(Current(keys, keyToIndices)) = 1
        BY <1>1, <1>6 DEF Looping
    <2>4. InOrder(SquashLog, visited, keys', keyToIndices, 0)
        BY <2>1, <2>2, <2>3, NextKeyOrder
    <2>5. InOrder(SquashLog', visited', keys', keyToIndices', 0)
        BY <1>4, <1>5, <2>1, <2>4
    <2>6. squash'.at = "index"
        BY <1>4, <1>7
    <2> QED
        BY <2>5, <2>6 DEF Looping, LoopSteps
<1> QED
    BY <1>1, <1>3, <1>4, <1>7, QuietVisit

\* A step of the loops that visits access i
LEMMA NextVisit ==
    ASSUME BeforeVisit, squash.at \in LoopSteps, pending = <<>>, SquashGoesOn,
           Elsewhere(segments, segments', {0, RangeCheck}), NEW c \in Nat,
           InOrder(SquashLog, visited, keys, keyToIndices, c),
           c < Len(Current(keys, keyToIndices)), NEW i,
           i = Current(keys, keyToIndices)[Len(Current(keys, keyToIndices)) - c],
           visited' = Append(visited, i)
    PROVE /\ Ordered!Next /\ KeysThere' /\ LogThere' /\ squashed' = {}
          /\ InOrder(SquashLog', visited', keys, keyToIndices, c + 1)
          /\ Last(visited') = i /\ Len(visited') = Len(visited) + 1
          /\ SquashLog' = SquashLog /\ i \in 0..(Len(SquashLog) - 1) /\ ~Seen(visited, i)
<1>1. squash.at # "none"
    BY DEF LoopSteps
<1>2. SquashLog' = SquashLog /\ KeysThere' /\ LogThere' /\ squashed' = {}
    BY <1>1, LoopFrame
<1>3. PICK log, seen : log = SquashLog /\ seen = visited
    OBVIOUS
<1>4. /\ InOrder(log, Append(seen, i), keys, keyToIndices, c + 1)
      /\ i \in 0..(Len(log) - 1) /\ ~Seen(seen, i)
      /\ \A j \in 0..(Len(log) - 1) : ~Seen(seen, j) /\ j # i =>
            \/ log[i + 1] < log[j + 1]
            \/ log[i + 1] = log[j + 1] /\ i < j
    BY <1>3, VisitNext
<1>5. seen \in Seq(0..(Len(log) - 1)) /\ Distinct(seen)
    BY <1>3 DEF InOrder
<1>6. Ordered!Visit
    BY <1>2, <1>3, <1>4, <1>5, VisitStep
<1>7. Last(Append(seen, i)) = i /\ Len(Append(seen, i)) = Len(seen) + 1
    <2> PICK S : S \subseteq 0..(Len(log) - 1) /\ seen \in Seq(S) /\ i \in S
        BY <1>4, <1>5
    <2> QED
        BY <1>4, <1>5, AppendSeen
<1> QED
    BY <1>2, <1>3, <1>4, <1>6, <1>7 DEF Ordered!Next

\* An index of an access is a felt, and so is what lies between two of them.
LEMMA IndexFelts ==
    ASSUME Before, NEW n \in Nat, n <= limits.accesses, NEW i \in 0..(n - 1)
    PROVE /\ i \in 0..Top /\ i < limits.accesses
          /\ Felt(i) \in Felts /\ Felt(i).inner = i /\ ~isError(Felt(i))
<1>1. /\ limits \in Limits /\ limits.dicts \in Nat /\ limits.accesses \in Nat
      /\ limits.squashes \in Nat
    BY StateFacts, SmallNumbers
<1>2. i \in 0..Top /\ i < limits.accesses
    BY <1>1 DEF Top
<1>3. Felt(i) \in Felts /\ Felt(i).inner = i
    BY <1>1, <1>2, SmallFelts
<1> QED
    BY <1>2, <1>3, Tags

LEMMA NextIndexVisit ==
    ASSUME BeforeVisit, NextIndex
    PROVE Visits
<1>1. /\ pending = <<>> /\ squash.at = "delta" /\ squash.at # "none" /\ squash.at \in LoopSteps
      /\ getCurrentAccessDelta(segments, Regs, Cell(1))
      /\ Continue(thrown' # undefined, "continue",
                  Append(visited, Last(visited) + Filled(1).inner + 1))
    BY DEF NextIndex, Squashing, LoopSteps
<1>2. Before
    BY DEF BeforeVisit
<1>3. Elsewhere(segments, segments', {0}) /\ Elsewhere(segments, segments', {0, RangeCheck})
    <2>1. Elsewhere(segments, segments', {0})
        BY <1>2, NextIndexStep
    <2> QED
        BY <2>1, ElsewhereWidens
<1>4. /\ SquashGoesOn /\ (thrown' # undefined => visited' = visited)
      /\ thrown' = undefined =>
            /\ squash'.at = "continue"
            /\ visited' = Append(visited, Last(visited) + Filled(1).inner + 1)
    <2>1. "continue" # "none"
        OBVIOUS
    <2> QED
        BY <1>1, <1>2, <2>1, ContinueFacts
<1>5. PICK list : list = Current(keys, keyToIndices)
    OBVIOUS
<1>6. /\ Looping /\ keys # <<>> /\ Last(keys) \in DOMAIN keyToIndices
      /\ ~isError(lastIndices) /\ lastIndices = [tag |-> "indices", list |-> list]
      /\ Len(list) \in Nat /\ list # <<>>
      /\ IndexesOf(SquashLog, Last(keys), list)
      /\ Len(SquashLog) \in Nat /\ Len(SquashLog) <= limits.accesses
      /\ RangeChecksCounted /\ Len(visited) \in Nat
    BY <1>1, <1>5, LoopFacts
<1>7. /\ InOrder(SquashLog, visited, keys, keyToIndices, 1)
      /\ Last(visited) = Last(list) /\ Len(list) > 1
    BY <1>1, <1>5, <1>6 DEF Looping
<1>8. PICK l \in Nat : l = Len(list) /\ l > 1
    BY <1>6, <1>7
<1>9. PICK n \in Nat : n = Len(SquashLog) /\ n <= limits.accesses
    BY <1>6
<1>10. PICK i, prev : i = list[l - 1] /\ prev = list[l]
    OBVIOUS
<1>11. /\ i \in 0..(n - 1) /\ prev \in 0..(n - 1) /\ i > prev
       /\ list \in Seq(0..(n - 1))
    <2>1. list \in Seq(0..(n - 1)) /\ Descends(list)
        BY <1>6, <1>9 DEF IndexesOf
    <2>2. l \in 1..l /\ l - 1 \in 1..l /\ l - 1 < l
        BY <1>8
    <2>3. list[l - 1] > list[l]
        BY <1>8, <2>1, <2>2 DEF Descends
    <2>4. list[l - 1] \in 0..(n - 1) /\ list[l] \in 0..(n - 1)
        BY <1>8, <2>1, <2>2, LenProperties
    <2> QED
        BY <1>10, <2>1, <2>3, <2>4
<1>12. ASSUME thrown' = undefined
       PROVE visited' = Append(visited, i) /\ keyToIndices' = Popped(keys, keyToIndices)
             /\ keys' = keys
    <2>1. lastIndex(lastIndices) = Felt(prev)
        BY <1>6, <1>8, <1>10 DEF lastIndex, Last
    <2>2. Felt(prev).inner = prev /\ ~isError(Felt(prev))
        BY <1>2, <1>9, <1>11, IndexFelts
    <2>3. Felt(i).inner = i /\ ~isError(Felt(i))
        BY <1>2, <1>9, <1>11, IndexFelts
    <2> PICK front : front = Lists!Front(list)
        OBVIOUS
    <2>4. front # <<>> /\ Last(front) = i
        <3>1. front = SubSeq(list, 1, l - 1)
            BY <1>8 DEF Lists!Front
        <3>2. \A b \in 1..(l - 1) : b \in 1..l /\ list[b] \in 0..(n - 1)
            BY <1>8, <1>11, LenProperties
        <3>3. front \in Seq(0..(n - 1)) /\ Len(front) = l - 1
              /\ \A b \in 1..(l - 1) : front[b] = list[b]
            BY <1>8, <3>1, <3>2, SubSeqProperties
        <3>4. l - 1 \in 1..(l - 1) /\ l - 1 # 0
            BY <1>8
        <3> QED
            BY <1>10, <3>3, <3>4, EmptySeq DEF Last
    <2>5. PICK rest : rest = [lastIndices EXCEPT !.list = Lists!Front(@)]
        OBVIOUS
    <2>6. rest = [tag |-> "indices", list |-> front]
        BY <1>6, <2>5
    <2>7. lastIndex(rest) = Felt(i)
        <3>1. ~isError(rest) /\ rest.list = front
            BY <2>6 DEF isError
        <3> QED
            BY <2>4, <3>1 DEF lastIndex
    <2>8. popIndex /\ keys' = keys
        BY <1>1, <2>1, <2>2 DEF getCurrentAccessDelta
    <2>9. AssertEq(segments, cellRefToRelocatable(Regs, Cell(1)), Felt(i - prev - 1))
        BY <1>1, <2>1, <2>2, <2>3, <2>5, <2>7 DEF getCurrentAccessDelta
    <2>10. Filled(1) = Felt(i - prev - 1)
        <3>1. Felt(i - prev - 1) \in SegmentValue
            BY <1>11, FeltType, KindsAreValues
        <3> QED
            BY <1>2, <1>12, <2>9, <3>1, FilledCell
    <2>11. Filled(1).inner = i - prev - 1
        <3>1. i - prev - 1 \in 0..(n - 1)
            BY <1>11
        <3> QED
            BY <1>2, <1>9, <2>10, <3>1, IndexFelts
    <2>12. Last(visited) = prev
        BY <1>7, <1>8, <1>10 DEF Last
    <2>13. Last(visited) + Filled(1).inner + 1 = i
        BY <1>11, <2>11, <2>12
    <2> QED
        BY <1>4, <1>12, <2>8, <2>13 DEF popIndex, Popped
<1>13. CASE thrown' # undefined
    BY <1>1, <1>3, <1>4, <1>13, QuietVisit
<1>14. CASE thrown' = undefined
    <2>0. PICK c \in Nat : c = 1
        OBVIOUS
    <2>1. /\ Ordered!Next /\ KeysThere' /\ LogThere' /\ squashed' = {}
          /\ InOrder(SquashLog', visited', keys, keyToIndices, c + 1)
          /\ Last(visited') = i /\ Len(visited') = Len(visited) + 1
        <3>1. /\ InOrder(SquashLog, visited, keys, keyToIndices, c)
              /\ c < Len(Current(keys, keyToIndices))
              /\ i = Current(keys, keyToIndices)[Len(Current(keys, keyToIndices)) - c]
            BY <1>5, <1>7, <1>8, <1>10, <2>0
        <3>2. visited' = Append(visited, i)
            BY <1>12, <1>14
        <3> HIDE <2>0
        <3> QED
            BY <1>1, <1>3, <1>4, <3>1, <3>2, NextVisit
    <2>2. InOrder(SquashLog', visited', keys, keyToIndices, 2)
        <3>1. c + 1 = 2
            BY <2>0
        <3> QED
            BY <2>1, <3>1
    <2>3. /\ InOrder(SquashLog', visited', keys', keyToIndices', 1)
          /\ Last(Current(keys', keyToIndices')) = i
        <3>1. keyToIndices' = Popped(keys, keyToIndices) /\ keys' = keys
            BY <1>12, <1>14
        <3>2. PICK more : more = Popped(keys, keyToIndices)
            OBVIOUS
        <3>3. Len(Current(keys, keyToIndices)) > 1
            BY <1>5, <1>7
        <3>4. /\ InOrder(SquashLog', visited', keys, more, 1)
              /\ Last(Current(keys, more))
                    = Current(keys, keyToIndices)[Len(Current(keys, keyToIndices)) - 1]
            BY <2>2, <3>2, <3>3, PopOrder
        <3> QED
            BY <1>5, <1>8, <1>10, <3>1, <3>2, <3>4
    <2>4. squash'.at = "continue"
        BY <1>4, <1>14
    <2>5. Looping'
        BY <2>1, <2>3, <2>4 DEF Looping
    <2>6. RangeChecksCounted'
        BY <1>2, <1>3, <1>6, <2>1, RangeCheckedStays
    <2>7. VisitHolds'
        BY <2>1, <2>4, <2>5, <2>6 DEF VisitHolds, LoopSteps
    <2> QED
        BY <2>1, <2>7 DEF Visits
<1> QED
    BY <1>13, <1>14

\* Before the first index of a key is asserted, the cells of the range check segment are
\* fewer than the accesses.
LEMMA RangeCheckRoom ==
    ASSUME Before, RangeChecksCounted, NEW n \in Nat, n <= limits.accesses,
           visited \in Seq(0..(n - 1)), Distinct(visited), NEW i \in 0..(n - 1), ~Seen(visited, i)
    PROVE LET len == Length(segments[RangeCheck + 1].cells)
          IN /\ len \in Nat /\ len <= Len(visited) /\ Len(visited) < n
             /\ AddFelt(RangeCheckPtr, Zero) = Relocatable(RangeCheck, len)
             /\ RangeCheckPtr = Relocatable(RangeCheck, len)
<1> DEFINE cells == segments[RangeCheck + 1].cells
<1>1. PICK len : len = Length(cells)
    OBVIOUS
<1>2. PICK v \in Nat : v = Len(visited)
    BY LenProperties
<1>3. cells \in CellMaps(SegmentValue)
    <2>1. RangeCheck + 1 \in 1..Len(segments) /\ segments \in Memories(SegmentValue)
        BY StateFacts DEF RangeCheck
    <2> QED
        BY <2>1, MemoryTypes
<1>4. len \in Nat /\ (len # 0 => len - 1 \in DOMAIN cells)
    BY <1>1, <1>3, LengthType
<1>5. len <= v
    <2>1. CASE len = 0
        BY <1>2, <2>1
    <2>2. CASE len # 0
        <3>1. CellOf(RangeCheck, len - 1) = cells[len - 1]
            BY <1>4, <2>2 DEF CellOf, CellAt, Relocatable, At
        <3>2. cells[len - 1] \in SegmentValue
            BY <1>3, <1>4, <2>2, CellMapsDef
        <3>3. CellOf(RangeCheck, len - 1) # undefined
            BY <3>1, <3>2, AnyValueIsClosed
        <3>4. len - 1 < v
            BY <1>2, <1>4, <3>3 DEF RangeChecksCounted
        <3> QED
            BY <1>2, <1>4, <3>4
    <2> QED
        BY <2>1, <2>2
<1>6. v < n
    <2>1. SUFFICES ASSUME v >= n PROVE FALSE
        BY <1>2
    <2>2. Covers(visited, 0..(n - 1))
        BY <1>2, <2>1, AllVisited
    <2> QED
        BY <2>2 DEF Covers, Seen
<1>7. RangeCheckPtr = Relocatable(RangeCheck, len)
    BY <1>1 DEF RangeCheckPtr
<1>8. AddFelt(Relocatable(RangeCheck, len), Felt(0)) = Relocatable(RangeCheck, len + 0)
    <2>1. limits \in Limits /\ limits.accesses \in Nat /\ limits.dicts \in Nat
          /\ limits.squashes \in Nat
        BY StateFacts, SmallNumbers
    <2>2. len + 0 <= Top
        BY <1>2, <1>4, <1>5, <1>6, <2>1 DEF Top
    <2> QED
        BY <1>4, <2>1, <2>2, SmallSums
<1>9. AddFelt(RangeCheckPtr, Zero) = Relocatable(RangeCheck, len)
    BY <1>4, <1>7, <1>8 DEF Zero
<1> HIDE DEF cells
<1>10. len \in Nat /\ len <= Len(visited) /\ Len(visited) < n
    BY <1>2, <1>4, <1>5, <1>6
<1> QED
    BY <1>1, <1>7, <1>9, <1>10 DEF cells

LEMMA FirstIndexVisit ==
    ASSUME BeforeVisit, FirstIndex
    PROVE Visits
<1>1. /\ pending = <<>> /\ squash.at = "index" /\ squash.at # "none" /\ squash.at \in LoopSteps
      /\ getCurrentAccessIndex(Framed(RangeCheckPtr), Regs, DerefAp(0))
      /\ Continue(thrown' # undefined, "skip",
                  Append(visited, CellAt(segments', RangeCheckPtr).inner))
    BY DEF FirstIndex, Squashing, LoopSteps
<1>2. Before
    BY DEF BeforeVisit
<1>3. Elsewhere(segments, segments', {0, RangeCheck})
    BY <1>1, <1>2, FirstIndexStep
<1>4. /\ SquashGoesOn /\ (thrown' # undefined => visited' = visited)
      /\ thrown' = undefined =>
            /\ squash'.at = "skip"
            /\ visited' = Append(visited, CellAt(segments', RangeCheckPtr).inner)
    <2>1. "skip" # "none"
        OBVIOUS
    <2> QED
        BY <1>1, <1>2, <2>1, ContinueFacts
<1>5. PICK list : list = Current(keys, keyToIndices)
    OBVIOUS
<1>6. /\ Looping /\ ~isError(lastIndices) /\ lastIndices = [tag |-> "indices", list |-> list]
      /\ Len(list) \in Nat /\ Len(list) > 0 /\ list # <<>>
      /\ IndexesOf(SquashLog, Last(keys), list)
      /\ Len(SquashLog) \in Nat /\ Len(SquashLog) <= limits.accesses
      /\ RangeChecksCounted /\ Len(visited) \in Nat
      /\ visited \in Seq(0..(Len(SquashLog) - 1)) /\ Distinct(visited)
    BY <1>1, <1>5, LoopFacts
<1>7. InOrder(SquashLog, visited, keys, keyToIndices, 0)
    BY <1>1, <1>6 DEF Looping
<1>8. PICK l \in Nat : l = Len(list) /\ l > 0
    BY <1>6
<1>9. PICK n \in Nat : n = Len(SquashLog) /\ n <= limits.accesses
    BY <1>6
<1>10. PICK i : i = list[l]
    OBVIOUS
<1>11. i \in 0..(n - 1)
    BY <1>6, <1>8, <1>9, <1>10, LenProperties DEF IndexesOf
<1>12. ~Seen(visited, i)
    <2>1. i = Current(keys, keyToIndices)[Len(Current(keys, keyToIndices)) - 0]
        BY <1>5, <1>8, <1>10
    <2>2. 0 \in Nat /\ 0 < Len(Current(keys, keyToIndices))
        BY <1>5, <1>8
    <2> PICK log : log = SquashLog
        OBVIOUS
    <2> QED
        BY <1>7, <2>1, <2>2, VisitNext
<1>13. Felt(i).inner = i /\ ~isError(Felt(i)) /\ Felt(i) \in SegmentValue
    BY <1>2, <1>9, <1>11, IndexFelts, KindsAreValues
<1> DEFINE len == Length(segments[RangeCheck + 1].cells)
<1>14. /\ len \in Nat /\ len <= Len(visited)
       /\ AddFelt(RangeCheckPtr, Zero) = Relocatable(RangeCheck, len)
       /\ RangeCheckPtr = Relocatable(RangeCheck, len)
    BY <1>2, <1>6, <1>9, <1>11, <1>12, RangeCheckRoom
<1> HIDE DEF len
<1>15. PICK m : m = Framed(RangeCheckPtr)
    OBVIOUS
<1>16. /\ m \in Memories(SegmentValue) /\ Len(m) = Len(segments)
       /\ Elsewhere(segments, m, {0})
       /\ PointerOf(m, Regs, DerefAp(0)) = AddFelt(RangeCheckPtr, Zero)
    BY <1>2, <1>15, RangeCheckFrame
<1>17. PICK a : a = Relocatable(RangeCheck, len)
    OBVIOUS
<1>18. /\ a \in Relocatables /\ a.segmentId = RangeCheck /\ a.offset = len /\ ~isError(a)
       /\ RangeCheck \in 0..(Len(m) - 1)
    <2>1. RangeCheck \in Nat /\ len \in Int
        BY <1>14 DEF RangeCheck
    <2>2. RangeCheck \in 0..(Len(m) - 1)
        BY <1>2, <1>16, StateFacts DEF RangeCheck
    <2> QED
        BY <1>17, <2>1, <2>2, RelocatableType
<1>19. AssertEq(m, a, Felt(i)) /\ UNCHANGED <<keys, keyToIndices>>
    <2>1. lastIndex(lastIndices) = Felt(i)
        BY <1>6, <1>8, <1>10 DEF lastIndex, Last
    <2>2. FirstError(<<a, Felt(i)>>) = undefined
        BY <1>13, <1>18, SecondError
    <2>3. PointerOf(m, Regs, DerefAp(0)) = a
        BY <1>14, <1>16, <1>17
    <2> QED
        BY <1>1, <1>15, <2>1, <2>2, <2>3, Tags DEF getCurrentAccessIndex, squashedDictManager
<1>20. CASE thrown' # undefined
    <2>1. SquashLog' = SquashLog
        BY <1>1, <1>3, <1>4, LoopFrame
    <2> QED
        BY <1>4, <1>20, <2>1 DEF Visits
<1>21. CASE thrown' = undefined
    <2>1. Writes(m, segments', RangeCheck, len, Felt(i))
        <3>1. segments' = assertEq(m, a, Felt(i)).segments
              /\ assertEq(m, a, Felt(i)).value = undefined
            BY <1>19, <1>21 DEF AssertEq, Written
        <3> QED
            BY <1>13, <1>16, <1>18, <3>1, AssertEqWrites
    <2>2. CellAt(segments', RangeCheckPtr).inner = i
        <3>1. CellAt(segments', Relocatable(RangeCheck, len)) = Felt(i)
            BY <1>14, <1>18, <2>1 DEF Writes
        <3> QED
            BY <1>13, <1>14, <3>1
    <2>3. visited' = Append(visited, i)
        BY <1>4, <1>21, <2>2
    <2>4. PICK c \in Nat : c = 0
        OBVIOUS
    <2>5. /\ Ordered!Next /\ KeysThere' /\ LogThere' /\ squashed' = {}
          /\ InOrder(SquashLog', visited', keys, keyToIndices, c + 1)
          /\ Last(visited') = i /\ Len(visited') = Len(visited) + 1
        <3>1. /\ InOrder(SquashLog, visited, keys, keyToIndices, c)
              /\ c < Len(Current(keys, keyToIndices))
              /\ i = Current(keys, keyToIndices)[Len(Current(keys, keyToIndices)) - c]
            BY <1>5, <1>7, <1>8, <1>10, <2>4
        <3> HIDE <2>4
        <3> QED
            BY <1>1, <1>3, <1>4, <2>3, <3>1, NextVisit
    <2>6. /\ InOrder(SquashLog', visited', keys', keyToIndices', 1)
          /\ Last(Current(keys', keyToIndices')) = i
        <3>1. c + 1 = 1
            BY <2>4
        <3> QED
            BY <1>5, <1>8, <1>10, <1>19, <2>5, <3>1 DEF Last
    <2>7. squash'.at = "skip"
        BY <1>4, <1>21
    <2>8. Looping'
        BY <2>5, <2>6, <2>7 DEF Looping
    <2>9. RangeChecksCounted'
        <3>1. ASSUME NEW o \in Int, CellOf(RangeCheck, o)' # undefined
              PROVE 0 <= o /\ o < Len(visited) + 1
            <4>1. CASE o = len
                BY <1>6, <1>14, <4>1
            <4>2. CASE o # len
                <5>1. CellAt(segments', Relocatable(RangeCheck, o))
                        = CellAt(m, Relocatable(RangeCheck, o))
                    BY <1>18, <2>1, <4>2 DEF Writes
                <5>2. CellAt(m, Relocatable(RangeCheck, o)) = CellOf(RangeCheck, o)
                    BY <1>16, <1>18 DEF Elsewhere, CellOf, RangeCheck
                <5>3. CellOf(RangeCheck, o) # undefined
                    BY <3>1, <5>1, <5>2 DEF CellOf
                <5>4. 0 <= o /\ o < Len(visited)
                    BY <1>6, <5>3 DEF RangeChecksCounted
                <5> QED
                    BY <1>6, <5>4
            <4> QED
                BY <4>1, <4>2
        <3> QED
            BY <2>5, <3>1 DEF RangeChecksCounted
    <2>10. VisitHolds'
        BY <2>5, <2>7, <2>8, <2>9 DEF VisitHolds, LoopSteps
    <2> QED
        BY <2>5, <2>10 DEF Visits
<1> QED
    BY <1>20, <1>21

LEMMA EndSquashVisit ==
    ASSUME BeforeVisit, EndSquash
    PROVE Visits
<1>1. /\ pending = <<>> /\ squash.at = "key" /\ squash.at \in LoopSteps
      /\ Len(visited) >= AccessCount(squash.dict)
      /\ squash' = NotSquashing /\ visited' = <<>> /\ squashed' = squashed \cup {squash.dict}
      /\ UNCHANGED <<segments, dictPtr, pending>>
    BY DEF EndSquash, Squashing, hintVars, LoopSteps
<1>2. /\ visited \in Seq(0..(Len(SquashLog) - 1)) /\ Distinct(visited)
      /\ Len(SquashLog) \in Nat /\ Len(SquashLog) > 0
      /\ Len(SquashLog) = AccessCount(squash.dict)
    <2> PICK list : list = Current(keys, keyToIndices)
        OBVIOUS
    <2> QED
        BY <1>1, LoopFacts
<1>3. squash'.at = "none" /\ SquashLog' = <<>>
    BY <1>1 DEF SquashLog, NotSquashing
<1>4. Len(visited) >= Len(SquashLog)
    BY <1>1, <1>2
<1>5. Ordered!End
    BY <1>1, <1>2, <1>3, <1>4, VisitEnds
<1>6. KeysThere'
    <2>1. KeysThere
        BY DEF BeforeVisit
    <2> QED
        BY <1>1, <2>1 DEF KeysThere, KeyGiven, Promised, Asserts, CellOf, AccessCount
<1>7. VisitHolds'
    <2>1. squashed' # {}
        BY <1>1
    <2> QED
        BY <1>1, <1>3, <2>1 DEF VisitHolds, LoopSteps
<1> QED
    BY <1>5, <1>6, <1>7 DEF Visits, Ordered!Next

\* The key of an access is read as memory has it.
LEMMA ReadKey ==
    ASSUME Before, NEW d \in DOMAIN dictManager, NEW m \in Memories(SegmentValue),
           Elsewhere(segments, m, {0}), NEW i \in Nat, NEW key \in Keys,
           CellOf(d, 3 * i) = Felt(key)
    PROVE LoadFelt(m, AddOffset(Relocatable(d, 0), i * DICT_ACCESS_SIZE)) = Felt(key)
<1>1. /\ d \in 0..(Len(segments) - 1) /\ d # 0 /\ 3 * i \in Int
    BY DictionaryFacts
<1>2. AddOffset(Relocatable(d, 0), i * DICT_ACCESS_SIZE) = Relocatable(d, 3 * i)
    BY DEF AddOffset, Relocatable, DICT_ACCESS_SIZE
<1>3. Len(m) = Len(segments) /\ CellAt(m, Relocatable(d, 3 * i)) = Felt(key)
    BY <1>1 DEF Elsewhere, CellOf
<1>4. Load(m, Relocatable(d, 3 * i)) = Felt(key)
    BY <1>1, <1>3, LoadIsTheCell
<1>5. LoadFelt(m, Relocatable(d, 3 * i)) = Expect(Felt(key), isFelt(Felt(key)), "ExpectedFelt")
    BY <1>4 DEF LoadFelt
<1>6. isFelt(Felt(key)) /\ ~isError(Felt(key)) /\ Felt(key) # undefined
    BY KeyFelts, Tags
<1> QED
    BY <1>2, <1>5, <1>6 DEF Expect

\* What the hint makes of the keys it reads, when nothing was listed before
LEMMA StartOrder ==
    ASSUME NEW log \in Seq(Keys), NEW n \in Nat, n = Len(log), n > 0, NothingListed, NEW read,
           \A i \in 0..(n - 1) : read[i].inner = log[i + 1],
           NEW inserted, inserted = Inserted(read, n), NEW ks,
           ks = Descending(keys \o Lists!SetToSeq(DOMAIN inserted)), NEW lists,
           lists = [key \in DOMAIN inserted |-> Lists!Reverse(inserted[key])]
    PROVE InOrder(log, <<>>, ks, lists, 0)
<1>1. PICK D : D = {read[i].inner : i \in 0..(n - 1)}
    OBVIOUS
<1>2. IsFiniteSet(D) /\ D # {}
    <2> DEFINE f == [i \in 0..(n - 1) |-> read[i].inner]
    <2>1. f \in Surjection(0..(n - 1), D)
        BY <1>1 DEF Surjection
    <2>2. IsFiniteSet(0..(n - 1))
        BY IntervalSize
    <2>3. IsFiniteSet(D)
        <3> HIDE DEF f
        <3> QED
            BY <2>1, <2>2, FS_Surjection
    <2>4. 0 \in 0..(n - 1)
        OBVIOUS
    <2> QED
        BY <1>1, <2>3, <2>4
<1>3. keys = <<>> /\ DOMAIN keyToIndices = {}
    BY DEF NothingListed
<1>4. DOMAIN inserted = D
    BY <1>1, <1>3 DEF Inserted
<1>5. ASSUME NEW x \in D
      PROVE AccessesTo(log, x) # {} /\ inserted[x] = Ascending(AccessesTo(log, x))
    <2>1. PICK i \in 0..(n - 1) : x = log[i + 1]
        BY <1>1
    <2>2. i \in AccessesTo(log, x)
        BY <2>1 DEF AccessesTo
    <2>3. PICK S : S = AccessesTo(log, x)
        OBVIOUS
    <2>4. {j \in 0..(n - 1) : read[j].inner = x} = S
        BY <2>3 DEF AccessesTo
    <2>5. inserted[x] = IndicesOf(x) \o Ascending(S)
        BY <1>1, <1>3, <2>4 DEF Inserted
    <2>6. IndicesOf(x) = <<>>
        BY <1>3 DEF IndicesOf
    <2>7. Ascending(S) \in Seq(S)
        <3>1. PICK T : T \subseteq Int /\ IsFiniteSet(T) /\ S \subseteq T
            <4>1. S \subseteq 0..(n - 1)
                BY <2>3 DEF AccessesTo
            <4>2. IsFiniteSet(0..(n - 1)) /\ 0..(n - 1) \subseteq Int
                BY IntervalSize
            <4> QED
                BY <4>1, <4>2
        <3>2. S \subseteq Int /\ IsFiniteSet(S)
            BY <3>1, FS_Subset
        <3> QED
            BY <3>2, AscendingOrder
    <2>8. <<>> \o Ascending(S) = Ascending(S)
        BY <2>7, ConcatEmptySeq
    <2> QED
        BY <2>2, <2>3, <2>5, <2>6, <2>8
<1>6. \A i \in 0..(Len(log) - 1) : log[i + 1] \in D
    BY <1>1
<1>7. ks = Descending(Lists!SetToSeq(D))
    <2>1. D \subseteq Keys
        <3>1. ASSUME NEW x \in D
              PROVE x \in Keys
            <4>1. PICK i \in 0..(n - 1) : x = log[i + 1]
                BY <1>1
            <4>2. i + 1 \in 1..n
                OBVIOUS
            <4> QED
                BY <4>1, <4>2, LenProperties
        <3> QED
            BY <3>1
    <2>2. Lists!SetToSeq(D) \in Seq(D)
        BY <1>2, SetToSeqMembers
    <2>3. <<>> \o Lists!SetToSeq(D) = Lists!SetToSeq(D)
        BY <2>2, ConcatEmptySeq
    <2> QED
        BY <1>3, <1>4, <2>3
<1>8. \A x \in D : lists[x] = Lists!Reverse(Ascending(AccessesTo(log, x)))
    BY <1>4, <1>5
<1>9. /\ Ranked(log, ks, lists)
      /\ \A j \in 0..(Len(log) - 1) : Waits(ks, lists, 0, j)
    BY <1>2, <1>5, <1>6, <1>7, <1>8, StartWaits
<1>10. \A a \in 1..Len(ks) : ks[a] \in DOMAIN lists
    <2>1. DOMAIN lists = D
        BY <1>4
    <2>2. ASSUME NEW a \in 1..Len(ks)
          PROVE ks[a] \in D
        <3>0. PICK key, list : key = ks[a] /\ list = lists[key]
            OBVIOUS
        <3>1. IndexesOf(log, key, list)
            BY <1>9, <3>0 DEF Ranked
        <3>2. PICK l \in Nat : l = Len(list) /\ l > 0
            BY <1>9, <3>0, RankedFacts
        <3>3. list[1] \in 0..(n - 1) /\ log[list[1] + 1] = ks[a]
            <4>1. 1 \in 1..l
                BY <3>2
            <4>2. list \in Seq(0..(n - 1)) /\ log[list[1] + 1] = key
                BY <3>1, <3>2, <4>1 DEF IndexesOf
            <4> QED
                BY <3>0, <3>2, <4>1, <4>2, LenProperties
        <3> QED
            BY <1>6, <3>3
    <2> QED
        BY <2>1, <2>2
<1>11. \A j : ~Seen(<<>>, j)
    BY DEF Seen
<1>12. <<>> \in Seq(0..(Len(log) - 1)) /\ Distinct(<<>>)
    BY EmptySeq DEF Distinct
<1> QED
    BY <1>9, <1>10, <1>11, <1>12 DEF InOrder

LEMMA InitSquashVisit ==
    ASSUME BeforeVisit, InitSquash
    PROVE Visits
<1>1. /\ pending = <<>> /\ squash.at = "init" /\ squash.at # "none"
      /\ Continue(thrown' # undefined, "index", visited)
    BY DEF InitSquash, Squashing
<1>2. Before /\ LogThere /\ visited = <<>> /\ squashed = {} /\ NothingListed
    <2>1. squashed = {}
        BY <1>1, FirstSquash DEF BeforeVisit
    <2> QED
        BY <1>1, <2>1 DEF BeforeVisit, VisitHolds
<1>3. Elsewhere(segments, segments', {0}) /\ Elsewhere(segments, segments', {0, RangeCheck})
    <2>1. Elsewhere(segments, segments', {0})
        BY <1>2, InitSquashStep
    <2> QED
        BY <2>1, ElsewhereWidens
<1>4. SquashGoesOn /\ visited' = visited /\ (thrown' = undefined => squash'.at = "index")
    <2>1. "index" # "none"
        OBVIOUS
    <2> QED
        BY <1>1, <1>2, <2>1, ContinueFacts
<1>5. SquashLog' = SquashLog
    BY <1>1, <1>3, <1>4, LoopFrame
<1>6. PICK d, n : d = squash.dict /\ n = AccessCount(d)
    OBVIOUS
<1>7. /\ d \in DOMAIN dictManager /\ n \in Nat /\ n > 0
      /\ \E m, read : InitReads(m, read, d, n) /\ InitOutcome(m, read, n)
    BY <1>2, <1>6, InitSquashHint
<1>8. PICK m, read : InitReads(m, read, d, n) /\ InitOutcome(m, read, n)
    BY <1>7
<1>9. PICK log : log = SquashLog
    OBVIOUS
<1>10. /\ log \in Seq(Keys) /\ Len(log) = n
       /\ \A i \in 0..(n - 1) : log[i + 1] \in Keys /\ CellOf(d, 3 * i) = Felt(log[i + 1])
    BY <1>1, <1>2, <1>6, <1>9, LogFacts
<1>11. \A i \in 0..(n - 1) : read[i].inner = log[i + 1] /\ ~isError(read[i])
    <2>1. ASSUME NEW i \in 0..(n - 1)
          PROVE read[i].inner = log[i + 1] /\ ~isError(read[i])
        <3>1. i \in Nat /\ m \in Memories(SegmentValue) /\ Elsewhere(segments, m, {0})
            BY <1>8 DEF InitReads
        <3>2. PICK key \in Keys : key = log[i + 1] /\ CellOf(d, 3 * i) = Felt(key)
            BY <1>10
        <3>3. LoadFelt(m, AddOffset(Relocatable(d, 0), i * DICT_ACCESS_SIZE)) = Felt(key)
            BY <1>2, <1>7, <3>1, <3>2, ReadKey
        <3>4. read[i] = Felt(key)
            BY <1>8, <3>3 DEF InitReads
        <3> QED
            BY <3>2, <3>4, KeyFelts, Tags
    <2> QED
        BY <2>1
<1>12. InsertedCount(read, n) = n
    <2>1. {i \in 0..(n - 1) : isError(read[i])} = {}
        BY <1>11
    <2> QED
        BY <2>1 DEF InsertedCount
<1>13. ASSUME thrown' = undefined
       PROVE squash'.at \in LoopSteps /\ Looping'
    <2>1. ~(\E e \in Errors : Throw(m, e))
        BY <1>13, Tags DEF Throw
    <2>2. StartSquash(m, Inserted(read, n), cellRefToRelocatable(Regs, Cell(1)),
                      cellRefToRelocatable(Regs, Cell(2)))
        BY <1>7, <1>8, <1>12, <2>1 DEF InitOutcome
    <2>3. PICK inserted : inserted = Inserted(read, n)
        OBVIOUS
    <2>4. /\ keyToIndices' = [key \in DOMAIN inserted |-> Lists!Reverse(inserted[key])]
          /\ keys' = Descending(keys \o Lists!SetToSeq(DOMAIN inserted))
        BY <2>2, <2>3 DEF StartSquash
    <2>5. \A i \in 0..(n - 1) : read[i].inner = log[i + 1]
        BY <1>11
    <2>6. InOrder(log, <<>>, keys', keyToIndices', 0)
        BY <1>2, <1>7, <1>10, <2>3, <2>4, <2>5, StartOrder
    <2>7. InOrder(SquashLog', visited', keys', keyToIndices', 0)
        BY <1>2, <1>4, <1>5, <1>9, <2>6
    <2>8. squash'.at = "index"
        BY <1>4, <1>13
    <2> QED
        BY <2>7, <2>8 DEF Looping, LoopSteps
<1> QED
    BY <1>1, <1>3, <1>4, <1>13, QuietVisit

-----------------------------------------------------------------------------
(* The other steps *)

\* The range check segment stays as it is, and what was to be asserted is asserted, or
\* still to be.
RangeChecksStay == \A o \in Int : CellOf(RangeCheck, o)' = CellOf(RangeCheck, o)
AssertsStay ==
    \A d \in DOMAIN dictPtr : \A o \in Int : \A v : Asserts(d, o, v) => Promised(d, o, v)'

\* A step of the program that counts no access and is none of a squash
LEMMA ProgramVisit ==
    ASSUME BeforeVisit, DictionariesStay, RangeChecksStay, thrown' = undefined => AssertsStay,
           UNCHANGED <<keys, keyToIndices, dictPtr, squash, visited, squashed>>
    PROVE Visits
<1>1. Before /\ KeysThere /\ VisitHolds
    BY DEF BeforeVisit
<1>2. CASE squash.at = "none"
    <2>1. SquashLog' = SquashLog
        BY <1>2 DEF SquashLog
    <2>2. ASSUME thrown' = undefined
          PROVE KeysThere'
        BY <1>1, <2>2, KeysStay DEF AssertsStay
    <2>3. VisitHolds'
        BY <1>1, <1>2 DEF VisitHolds, LoopSteps, NothingListed, RangeChecksCounted, RangeChecksStay
    <2> QED
        BY <2>1, <2>2, <2>3 DEF Visits
<1>3. CASE squash.at # "none"
    <2>1. LogThere' /\ SquashLog' = SquashLog
        BY <1>1, <1>3, LogStays DEF VisitHolds
    <2>2. ASSUME thrown' = undefined
          PROVE KeysThere'
        BY <1>1, <2>2, KeysStay DEF AssertsStay
    <2>3. squash.at \in LoopSteps => Looping'
        BY <1>1, <2>1 DEF VisitHolds, Looping
    <2>4. squashed = {} => RangeChecksCounted'
        BY <1>1 DEF VisitHolds, RangeChecksCounted, RangeChecksStay
    <2>5. squash.at \in {"none", "init"} /\ squashed = {} => NothingListed'
        BY <1>1 DEF VisitHolds, NothingListed
    <2>6. VisitHolds'
        <3>1. /\ squash.at \in {"none", "init"} \cup LoopSteps
              /\ squash.at \in {"none", "init"} => visited = <<>>
            BY <1>1 DEF VisitHolds
        <3> HIDE DEF Looping, RangeChecksCounted, NothingListed, LoopSteps
        <3> QED
            BY <2>1, <2>3, <2>4, <2>5, <3>1 DEF VisitHolds
    <2> QED
        BY <2>1, <2>2, <2>6 DEF Visits
<1> QED
    BY <1>2, <1>3

\* What a step that writes to some segments leaves alone
LEMMA OthersStay ==
    ASSUME Before, NEW T, T \subseteq 0..2, Elsewhere(segments, segments', T)
    PROVE DictionariesStay /\ RangeChecksStay
<1>1. DictionariesStay
    <2>1. T \subseteq 0..3
        OBVIOUS
    <2> QED
        BY <2>1, ElsewhereStays
<1>2. RangeChecksStay
    <2>1. RangeCheck \in 0..(Len(segments) - 1) /\ RangeCheck \notin T
        BY StateFacts DEF RangeCheck
    <2> QED
        BY <2>1, CellsElsewhere DEF RangeChecksStay
<1> QED
    BY <1>1, <1>2

\* A cell that is written was empty, or held the value, and is none of the range check
\* segment.
LEMMA OneWriteStays ==
    ASSUME Before, NEW a \in Relocatables, NEW v, a.segmentId # RangeCheck,
           CellAt(segments, a) \in {undefined, v},
           Writes(segments, segments', a.segmentId, a.offset, v)
    PROVE DictionariesStay /\ RangeChecksStay
<1>1. PICK s, o : s = a.segmentId /\ o = a.offset
    OBVIOUS
<1>2. a = Relocatable(s, o)
    BY <1>1 DEF Relocatables, Relocatable
<1>3. ASSUME NEW t \in 0..(Len(segments) - 1), NEW p \in Int
      PROVE CellOf(t, p)' = IF t = s /\ p = o THEN v ELSE CellOf(t, p)
    BY <1>1, <1>3 DEF Writes, CellOf
<1>4. CellOf(s, o) \in {undefined, v}
    BY <1>2 DEF CellOf
<1>5. DictionariesStay
    <2>1. ASSUME NEW d \in DOMAIN dictPtr, NEW p \in Int, CellOf(d, p) # undefined
          PROVE CellOf(d, p)' = CellOf(d, p)
        <3>1. d \in 0..(Len(segments) - 1)
            BY StateFacts
        <3> QED
            BY <1>3, <1>4, <2>1, <3>1
    <2> QED
        BY <2>1 DEF DictionariesStay
<1>6. RangeChecksStay
    <2>1. RangeCheck \in 0..(Len(segments) - 1)
        BY StateFacts DEF RangeCheck
    <2> QED
        BY <1>1, <1>3, <2>1 DEF RangeChecksStay
<1> QED
    BY <1>5, <1>6

LEMMA AssertInstructionVisit ==
    ASSUME BeforeVisit, AssertInstruction
    PROVE Visits
<1>1. Before
    BY DEF BeforeVisit
<1>2. PICK h : h = Head(pending)
    OBVIOUS
<1>3. /\ h \in Assertion /\ h = pending[1] /\ Len(pending) \in Nat /\ Len(pending) > 0
      /\ \A i \in 1..Len(pending) : i # 1 => i - 1 \in 1..Len(pending')
                                            /\ pending'[i - 1] = pending[i]
      /\ UNCHANGED <<keys, keyToIndices, dictPtr, squash, visited, squashed>>
      /\ thrown' # undefined => segments' = segments
      /\ thrown' = undefined =>
            /\ CellAt(segments, h.address) \in {undefined, h.value}
            /\ Writes(segments, segments', h.address.segmentId, h.address.offset, h.value)
      /\ DOMAIN pending = 1..Len(pending) /\ DOMAIN pending' = 1..Len(pending')
    <2>1. pending \in Seq(Assertion)
        BY <1>1 DEF Before, IInv, Typed
    <2>2. pending' \in Seq(Assertion)
        BY <1>1, <1>2, HeadFacts
    <2>3. DOMAIN pending = 1..Len(pending) /\ DOMAIN pending' = 1..Len(pending')
        BY <2>1, <2>2, LenProperties
    <2> QED
        BY <1>1, <1>2, <2>3, HeadFacts DEF squashedDictManager
<1>4. h.address \in Relocatables /\ h.value \in SegmentValue
    BY <1>3 DEF Assertion
<1>5. h.address.segmentId # RangeCheck
    <2>1. 1 \in DOMAIN pending
        BY <1>3
    <2>2. PendingKinds /\ \A d \in DOMAIN dictPtr : d # RangeCheck
        BY <1>1, StateFacts DEF Before, IInv, RangeCheck
    <2>3. open \subseteq DOMAIN dictPtr
        BY <1>1 DEF Before, IInv, Controlled
    <2>4. CASE \A k \in DOMAIN pending : pending[k].address.segmentId \in {Info, Arena}
        BY <1>3, <2>1, <2>4 DEF Info, Arena, RangeCheck
    <2>5. CASE \E d \in open, key \in Keys : pending = <<Equals(d, LastKey(d), Felt(key))>>
        BY <1>3, <2>2, <2>3, <2>5 DEF Equals, Relocatable
    <2>6. CASE \E d \in DOMAIN dictPtr \ open : NewPending(d)
        BY <1>3, <2>2, <2>6 DEF NewPending, NewIs, Equals, Relocatable
    <2> QED
        BY <2>2, <2>4, <2>5, <2>6 DEF PendingKinds
<1>6. DictionariesStay /\ RangeChecksStay
    <2>1. CASE thrown' # undefined
        BY <1>3, <2>1 DEF DictionariesStay, RangeChecksStay, CellOf
    <2>2. CASE thrown' = undefined
        BY <1>1, <1>3, <1>4, <1>5, <2>2, OneWriteStays
    <2> QED
        BY <2>1, <2>2
<1>7. ASSUME thrown' = undefined
      PROVE AssertsStay
    <2>1. ASSUME NEW d \in DOMAIN dictPtr, NEW o \in Int, NEW v, Asserts(d, o, v)
          PROVE Promised(d, o, v)'
        <3>1. PICK k \in 1..Len(pending) : pending[k] = Equals(d, o, v)
            BY <1>3, <2>1 DEF Asserts
        <3>2. CASE k = 1
            <4>1. h = Equals(d, o, v)
                BY <1>3, <3>1, <3>2
            <4>2. h.address.segmentId = d /\ h.address.offset = o /\ h.value = v
                BY <4>1 DEF Equals, Relocatable
            <4>3. d \in 0..(Len(segments) - 1)
                BY <1>1, StateFacts
            <4>4. CellOf(d, o)' = v
                BY <1>3, <1>7, <4>2, <4>3 DEF Writes, CellOf
            <4> QED
                BY <4>4 DEF Promised
        <3>3. CASE k # 1
            <4>1. k - 1 \in DOMAIN pending' /\ pending'[k - 1] = Equals(d, o, v)
                BY <1>3, <3>1, <3>3
            <4>2. Asserts(d, o, v)'
                BY <4>1 DEF Asserts
            <4> QED
                BY <4>2 DEF Promised
        <3> QED
            BY <3>2, <3>3
    <2> QED
        BY <2>1 DEF AssertsStay
<1> QED
    BY <1>3, <1>6, <1>7, ProgramVisit

LEMMA WriteAheadVisit ==
    ASSUME BeforeVisit, WriteAhead
    PROVE Visits
<1>1. Before
    BY DEF BeforeVisit
<1>2. /\ UNCHANGED <<dictManager, squashedDictManager, limits, ap, arenaPtr, dictPtr, open,
                     pending, squash, squashed>>
      /\ UNCHANGED <<keys, keyToIndices, dictPtr, squash, visited, squashed>>
    BY DEF WriteAhead, squashedDictManager
<1>3. PICK address \in {Relocatable(d, dictPtr[d] + PREV_VALUE_OFFSET) :
                            d \in DOMAIN dictPtr \ (open \cup squashed)}
                       \cup {Relocatable(Info,
                                         DICT_ACCESS_SIZE * Cardinality(DOMAIN dictPtr))},
           v \in AheadValues :
          /\ CellAt(segments, address) = undefined
          /\ Written(assertEq(segments, address, v))
    BY DEF WriteAhead
<1>4. v \in SegmentValue
    BY ProgramAssumption
<1>5. address \in Relocatables /\ address.segmentId # RangeCheck
    <2>1. CASE address = Relocatable(Info, DICT_ACCESS_SIZE * Cardinality(DOMAIN dictPtr))
        <3>1. DICT_ACCESS_SIZE * Cardinality(DOMAIN dictPtr) \in Int
            BY <1>1, StateFacts, FS_CardinalityType DEF DICT_ACCESS_SIZE
        <3>2. Info \in Nat /\ Info # RangeCheck
            BY DEF Info, RangeCheck
        <3> QED
            BY <2>1, <3>1, <3>2, RelocatableType
    <2>2. CASE \E d \in DOMAIN dictPtr : address = Relocatable(d, dictPtr[d] + PREV_VALUE_OFFSET)
        <3>1. PICK d \in DOMAIN dictPtr :
                  address = Relocatable(d, dictPtr[d] + PREV_VALUE_OFFSET)
            BY <2>2
        <3>2. d \in DOMAIN dictManager
            BY <1>1, StateFacts
        <3>3. d \in Nat /\ d >= 4 /\ dictPtr[d] \in Nat
            BY <1>1, <3>2, DictionaryFacts
        <3>4. dictPtr[d] + PREV_VALUE_OFFSET \in Int /\ d # RangeCheck
            BY <3>3 DEF PREV_VALUE_OFFSET, RangeCheck
        <3> QED
            BY <3>1, <3>3, <3>4, RelocatableType
    <2> QED
        BY <1>3, <2>1, <2>2
<1>6. /\ thrown' # undefined => segments' = segments
      /\ thrown' = undefined =>
            Writes(segments, segments', address.segmentId, address.offset, v)
    BY <1>1, <1>2, <1>3, <1>4, <1>5, AheadFacts
<1>7. DictionariesStay /\ RangeChecksStay
    <2>1. CASE thrown' # undefined
        BY <1>6, <2>1 DEF DictionariesStay, RangeChecksStay, CellOf
    <2>2. CASE thrown' = undefined
        BY <1>1, <1>3, <1>5, <1>6, <2>2, OneWriteStays
    <2> QED
        BY <2>1, <2>2
<1>8. AssertsStay
    BY <1>2 DEF AssertsStay, Asserts, Promised
<1> QED
    BY <1>2, <1>7, <1>8, ProgramVisit

LEMMA EntryFinalizeVisit ==
    ASSUME BeforeVisit, NEW d \in DOMAIN dictPtr, NEW v \in NewValues, EntryFinalize(d, v)
    PROVE Visits
<1>1. Before
    BY DEF BeforeVisit
<1>2. /\ Elsewhere(segments, segments', {0}) /\ thrown' = undefined
      /\ UNCHANGED squashedDictManager
    BY <1>1, FinalizeHint
<1>3. pending = <<>> /\ UNCHANGED <<keys, keyToIndices, dictPtr, squash, visited, squashed>>
    BY <1>2 DEF EntryFinalize, Ready, Unless, squashedDictManager
<1>4. DictionariesStay /\ RangeChecksStay
    <2>1. {0} \subseteq 0..2
        OBVIOUS
    <2> QED
        BY <1>1, <1>2, <2>1, OthersStay
<1>5. AssertsStay
    BY <1>3 DEF AssertsStay, Asserts
<1> QED
    BY <1>3, <1>4, <1>5, ProgramVisit

\* A step of the program that may count accesses, outside a squash
LEMMA CountingVisit ==
    ASSUME BeforeVisit, squash.at = "none", RangeChecksStay,
           thrown' = undefined => KeysThere',
           UNCHANGED <<keys, keyToIndices, squash, visited, squashed>>
    PROVE Visits
<1>1. SquashLog' = SquashLog
    BY DEF SquashLog
<1>2. VisitHolds
    BY DEF BeforeVisit
<1>3. VisitHolds'
    BY <1>2 DEF VisitHolds, LoopSteps, NothingListed, RangeChecksCounted, RangeChecksStay
<1> QED
    BY <1>1, <1>3 DEF Visits

LEMMA EntryGetVisit ==
    ASSUME BeforeVisit, NEW d \in DOMAIN dictPtr, NEW key \in limits.keys, EntryGet(d, key)
    PROVE Visits
<1>1. Before /\ KeysThere
    BY DEF BeforeVisit
<1>2. pending = <<>> /\ squash.at = "none"
    BY DEF EntryGet, Ready
<1>3. /\ d \in DOMAIN dictManager /\ key \in Keys
      /\ d \in Nat /\ d >= 4 /\ AccessCount(d) \in Nat /\ dictPtr[d] = 3 * AccessCount(d)
    <2>1. d \in DOMAIN dictManager /\ key \in Keys
        BY <1>1, StateFacts, SmallNumbers
    <2> QED
        BY <1>1, <2>1, DictionaryFacts
<1>4. /\ Elsewhere(segments, segments', {0, d}) /\ UNCHANGED squashedDictManager
      /\ \A o \in Int : CellOf(d, o)' =
             IF thrown' = undefined /\ o = dictPtr[d] + 1 THEN Entry(dictManager[d], key)
                                                          ELSE CellOf(d, o)
    <2>1. felt252DictEntryInit(FramedWith(DictEnd(d), Felt(key)), Regs, DerefAp(0), DerefAp(1))
        BY DEF EntryGet
    <2> QED
        BY <1>1, <1>3, <2>1, EntryInitHint
<1>5. RangeChecksStay
    <2>1. RangeCheck \in 0..(Len(segments) - 1) /\ RangeCheck \notin {0, d}
        BY <1>1, <1>3, StateFacts DEF RangeCheck
    <2> QED
        BY <1>1, <1>4, <2>1, CellsElsewhere DEF RangeChecksStay
<1>6. UNCHANGED <<keys, keyToIndices, squash, visited, squashed>>
    BY <1>4 DEF EntryGet, Unless, programVars, squashedDictManager
<1>7. ASSUME thrown' = undefined
      PROVE KeysThere'
    <2>1. /\ pending' = <<Equals(d, dictPtr[d], Felt(key))>>
          /\ dictPtr' = [dictPtr EXCEPT ![d] = @ + DICT_ACCESS_SIZE]
        BY <1>7 DEF EntryGet, Unless
    <2>2. PICK n \in Nat : n = AccessCount(d)
        BY <1>3
    <2>3. AccessCount(d)' = n + 1
        <3>1. dictPtr'[d] = 3 * (n + 1)
            BY <1>3, <2>1, <2>2 DEF DICT_ACCESS_SIZE
        <3>2. (3 * (n + 1)) \div 3 = n + 1
            BY <2>2
        <3> QED
            BY <3>1, <3>2 DEF AccessCount, DICT_ACCESS_SIZE
    <2>4. \A e \in DOMAIN dictPtr : e # d => AccessCount(e)' = AccessCount(e)
        BY <2>1 DEF AccessCount
    <2>5. ASSUME NEW e \in DOMAIN dictPtr, NEW i \in 0..(AccessCount(e) - 1)
          PROVE KeyGiven(e, i)'
        <3>0. /\ e \in DOMAIN dictManager /\ e \in 0..(Len(segments) - 1) /\ e >= 4
              /\ AccessCount(e) \in Nat
            BY <1>1, StateFacts, DictionaryFacts
        <3>1. PICK k \in Keys : Promised(e, 3 * i, Felt(k))
            BY <1>1 DEF KeysThere, KeyGiven
        <3>2. CellOf(e, 3 * i) = Felt(k)
            BY <1>2, <3>1 DEF Promised, Asserts
        <3>3. CellOf(e, 3 * i)' = CellOf(e, 3 * i)
            <4>1. CASE e = d
                <5>1. 3 * i \in Int /\ 3 * i # dictPtr[d] + 1
                    BY <1>3, <2>2, <3>0, <4>1
                <5> QED
                    BY <1>4, <4>1, <5>1
            <4>2. CASE e # d
                <5>1. e \notin {0, d} /\ 3 * i \in Int
                    BY <3>0, <4>2
                <5> QED
                    BY <1>1, <1>4, <3>0, <5>1, CellsElsewhere
            <4> QED
                BY <4>1, <4>2
        <3> QED
            BY <3>2, <3>3 DEF KeyGiven, Promised
    <2>6. KeyGiven(d, n)'
        <3>1. Asserts(d, 3 * n, Felt(key))'
            <4>1. 1 \in DOMAIN pending' /\ pending'[1] = Equals(d, 3 * n, Felt(key))
                BY <1>3, <2>1, <2>2
            <4> QED
                BY <4>1 DEF Asserts
        <3> QED
            BY <1>3, <3>1 DEF KeyGiven, Promised
    <2>7. DOMAIN dictPtr' = DOMAIN dictPtr
        BY <2>1
    <2>8. ASSUME NEW e \in DOMAIN dictPtr, NEW i \in 0..(AccessCount(e)' - 1)
          PROVE KeyGiven(e, i)'
        <3>1. CASE e = d
            <4>1. i = n \/ i \in 0..(AccessCount(d) - 1)
                BY <2>2, <2>3, <3>1
            <4> QED
                BY <2>5, <2>6, <3>1, <4>1
        <3>2. CASE e # d
            BY <2>4, <2>5, <3>2
        <3> QED
            BY <3>1, <3>2
    <2> QED
        BY <2>7, <2>8 DEF KeysThere
<1> QED
    BY <1>2, <1>5, <1>6, <1>7, CountingVisit


LEMMA AllocVisit ==
    ASSUME BeforeVisit, Alloc
    PROVE Visits
<1>1. Before /\ KeysThere
    BY DEF BeforeVisit
<1>2. PICK s : s = Len(segments)
    OBVIOUS
<1>3. /\ pending = <<>> /\ squash.at = "none"
      /\ s \in Nat /\ s >= 4 /\ DOMAIN dictPtr = 4..(s - 1)
    BY <1>1, <1>2, StateFacts DEF Alloc, Ready
<1>4. /\ UNCHANGED squashedDictManager
      /\ \A t \in 1..(s - 1), p \in Int :
            CellOf(t, p)' = IF thrown' = undefined /\ t = Info /\ p = 3 * (s - 4)
                              THEN Relocatable(s, 0) ELSE CellOf(t, p)
    <2>1. allocFelt252Dict(Framed(Relocatable(Arena, arenaPtr)), Regs, DerefAp(0))
        BY DEF Alloc
    <2> QED
        BY <1>1, <1>2, <1>3, <2>1, AllocHint
<1>5. RangeChecksStay
    <2>1. RangeCheck \in 1..(s - 1) /\ RangeCheck # Info
        BY <1>3 DEF RangeCheck, Info
    <2> QED
        BY <1>4, <2>1 DEF RangeChecksStay
<1>6. UNCHANGED <<keys, keyToIndices, squash, visited, squashed>>
    BY <1>4 DEF Alloc, Unless, programVars, squashedDictManager
<1>7. ASSUME thrown' = undefined
      PROVE KeysThere'
    <2>1. dictPtr' = Put(dictPtr, s, 0)
        BY <1>2, <1>7 DEF Alloc, Unless
    <2>2. /\ DOMAIN dictPtr' = DOMAIN dictPtr \cup {s} /\ dictPtr'[s] = 0
          /\ \A d \in DOMAIN dictPtr : d # s => dictPtr'[d] = dictPtr[d]
        BY <2>1 DEF Put
    <2>3. ASSUME NEW d \in DOMAIN dictPtr, NEW i \in 0..(AccessCount(d)' - 1)
          PROVE KeyGiven(d, i)'
        <3>1. d # s /\ d \in 1..(s - 1) /\ d # Info /\ d \in DOMAIN dictManager
            BY <1>1, <1>3, StateFacts DEF Info
        <3>2. AccessCount(d)' = AccessCount(d) /\ AccessCount(d) \in Nat
            BY <1>1, <2>2, <3>1, DictionaryFacts DEF AccessCount
        <3>3. i \in 0..(AccessCount(d) - 1) /\ 3 * i \in Int
            BY <3>2
        <3>4. PICK k \in Keys : Promised(d, 3 * i, Felt(k))
            BY <1>1, <3>3 DEF KeysThere, KeyGiven
        <3>5. CellOf(d, 3 * i) = Felt(k)
            BY <1>3, <3>4 DEF Promised, Asserts
        <3>6. CellOf(d, 3 * i)' = Felt(k)
            BY <1>4, <3>1, <3>3, <3>5
        <3> QED
            BY <3>6 DEF KeyGiven, Promised
    <2>4. AccessCount(s)' = 0
        BY <2>2 DEF AccessCount, DICT_ACCESS_SIZE
    <2>5. ASSUME NEW i \in 0..(AccessCount(s)' - 1)
          PROVE FALSE
        BY <2>4
    <2> QED
        BY <2>2, <2>3, <2>5 DEF KeysThere
<1> QED
    BY <1>3, <1>5, <1>6, <1>7, CountingVisit


LEMMA BeginSquashVisit ==
    ASSUME BeforeVisit, NEW d \in DOMAIN dictPtr, BeginSquash(d)
    PROVE Visits
<1>1. Before /\ KeysThere /\ VisitHolds /\ OneSquash
    BY DEF BeforeVisit
<1>2. /\ pending = <<>> /\ squash.at = "none" /\ AccessCount(d) > 0
      /\ Cardinality(squashed) < limits.squashes
    BY DEF BeginSquash, Ready
<1>3. Elsewhere(segments, segments', {0}) /\ UNCHANGED squashedDictManager
    <2>1. getSegmentArenaIndex(Framed(DictEnd(d)), Regs, DerefAp(0), Cell(1))
        BY DEF BeginSquash
    <2> QED
        BY <1>1, <2>1, ArenaIndexHint
<1>4. DictionariesStay /\ RangeChecksStay
    <2>1. {0} \subseteq 0..2
        OBVIOUS
    <2> QED
        BY <1>1, <1>3, <2>1, OthersStay
<1>5. UNCHANGED <<keys, keyToIndices, dictPtr, visited, squashed>>
    BY <1>3 DEF BeginSquash, Unless, programVars, squashedDictManager
<1>6. CASE thrown' # undefined
    <2>1. UNCHANGED squash
        BY <1>6 DEF BeginSquash, Unless, programVars
    <2> QED
        BY <1>2, <1>4, <1>5, <1>6, <2>1, CountingVisit
<1>7. CASE thrown' = undefined
    <2>1. squash' = [at |-> "init", dict |-> d]
        BY <1>7 DEF BeginSquash, Unless
    <2>2. squashed = {}
        <3>1. Cardinality(squashed) \in Nat /\ IsFiniteSet(squashed)
            <4>1. squashed \subseteq DOMAIN dictPtr
                BY <1>1 DEF Before, IInv, Squashes
            <4> QED
                BY <1>1, <4>1, SquashedCount, StateFacts, FS_Subset
        <3>2. limits.squashes \in Nat
            BY <1>1, StateFacts, SmallNumbers
        <3>3. Cardinality(squashed) = 0
            BY <1>1, <1>2, <3>1, <3>2 DEF OneSquash
        <3> QED
            BY <3>1, <3>3, FS_EmptySet
    <2>3. visited = <<>> /\ NothingListed /\ RangeChecksCounted
        BY <1>1, <1>2, <2>2 DEF VisitHolds
    <2>4. PICK n \in Nat : n = AccessCount(d) /\ n > 0
        <3>1. d \in DOMAIN dictManager
            BY <1>1, StateFacts
        <3> QED
            BY <1>1, <1>2, <3>1, DictionaryFacts
    <2>5. AccessCount(d)' = n
        BY <1>5, <2>4 DEF AccessCount
    <2>6. ASSUME NEW i \in 0..(n - 1)
          PROVE KeyIn(d, i)'
        <3>1. PICK k \in Keys : Promised(d, 3 * i, Felt(k))
            BY <1>1, <2>4 DEF KeysThere, KeyGiven
        <3>2. CellOf(d, 3 * i) = Felt(k)
            BY <1>2, <3>1 DEF Promised, Asserts
        <3>3. Felt(k) # undefined /\ 3 * i \in Int
            BY KeyFelts, Tags
        <3>4. CellOf(d, 3 * i)' = Felt(k)
            BY <1>4, <3>2, <3>3 DEF DictionariesStay
        <3> QED
            BY <3>4 DEF KeyIn
    <2>7. LogThere'
        BY <2>1, <2>5, <2>6 DEF LogThere
    <2>8. KeysThere'
        <3>1. \A e \in DOMAIN dictPtr : \A o \in Int : \A v : ~Asserts(e, o, v)
            BY <1>2 DEF Asserts
        <3> QED
            BY <1>1, <1>4, <1>5, <3>1, KeysStay
    <2>9. SquashLog' \in Seq(Keys) \ {<<>>}
        <3>1. SquashLog' = [i \in 1..n |-> KeyOf(d, i - 1)'.inner]
            BY <2>1, <2>5 DEF SquashLog
        <3>2. \A i \in 1..n : KeyOf(d, i - 1)'.inner \in Keys
            <4>1. ASSUME NEW i \in 1..n
                  PROVE KeyOf(d, i - 1)'.inner \in Keys
                <5>1. i - 1 \in 0..(n - 1)
                    OBVIOUS
                <5>2. PICK k \in Keys : CellOf(d, 3 * (i - 1))' = Felt(k)
                    BY <2>6, <5>1 DEF KeyIn
                <5> QED
                    BY <5>2, KeyFelts DEF KeyOf, DICT_ACCESS_SIZE
            <4> QED
                BY <4>1
        <3>3. SquashLog' \in Seq(Keys) /\ Len(SquashLog') = n
            BY <3>1, <3>2, IsASeq
        <3> QED
            BY <2>4, <3>3, EmptySeq
    <2>10. Ordered!Next
        <3>1. SquashLog = <<>>
            BY <1>2 DEF SquashLog
        <3>2. Ordered!Begin
            BY <1>5, <2>9, <3>1 DEF Ordered!Begin
        <3> QED
            BY <3>2 DEF Ordered!Next
    <2>11. VisitHolds'
        <3>1. RangeChecksCounted'
            BY <1>4, <1>5, <2>3 DEF RangeChecksCounted, RangeChecksStay
        <3>2. NothingListed'
            BY <1>5, <2>3 DEF NothingListed
        <3> QED
            BY <1>5, <2>1, <2>3, <2>7, <3>1, <3>2 DEF VisitHolds, LoopSteps
    <2> QED
        BY <2>8, <2>10, <2>11 DEF Visits
<1> QED
    BY <1>6, <1>7


-----------------------------------------------------------------------------
(* A first squash *)

\* What holds of a program with one squash at most
OrderInv == IInv /\ OneSquash /\ (Running => KeysThere /\ VisitHolds)

LEMMA InitVisit ==
    ASSUME Init
    PROVE KeysThere /\ VisitHolds /\ Ordered!Init
<1>1. /\ keys = <<>> /\ keyToIndices = NoCells /\ dictPtr = NoCells
      /\ squash = NotSquashing /\ visited = <<>>
      /\ segments[4] = Segment("range_check")
    BY DEF Init, InitManagers
<1>2. DOMAIN dictPtr = {} /\ DOMAIN keyToIndices = {} /\ squash.at = "none"
    BY <1>1 DEF NoCells, NotSquashing
<1>3. \A o \in Int : CellOf(RangeCheck, o) = undefined
    <2>1. segments[RangeCheck + 1].cells = NoCells /\ DOMAIN NoCells = {}
        BY <1>1 DEF RangeCheck, Segment, NoCells
    <2> QED
        BY <2>1 DEF CellOf, CellAt, Relocatable, At
<1>4. KeysThere
    BY <1>2 DEF KeysThere
<1>5. VisitHolds
    BY <1>1, <1>2, <1>3 DEF VisitHolds, LoopSteps, NothingListed, RangeChecksCounted
<1>6. Ordered!Init
    BY <1>1, <1>2 DEF Ordered!Init, SquashLog
<1> QED
    BY <1>4, <1>5, <1>6

LEMMA StepsRun == Next => Running /\ limits' = limits
<1> SUFFICES ASSUME Next
             PROVE Running /\ limits' = limits
    OBVIOUS
<1>1. CASE AssertInstruction
    BY <1>1 DEF AssertInstruction
<1>2. CASE WriteAhead
    BY <1>2 DEF WriteAhead, Ready
<1>3. CASE Alloc
    BY <1>3 DEF Alloc, Ready, Unless, programVars
<1>4. ASSUME NEW d \in DOMAIN dictPtr, NEW key \in limits.keys, EntryGet(d, key)
      PROVE Running /\ limits' = limits
    BY <1>4 DEF EntryGet, Ready, Unless, programVars
<1>5. ASSUME NEW d \in DOMAIN dictPtr, NEW v \in NewValues, EntryFinalize(d, v)
      PROVE Running /\ limits' = limits
    BY <1>5 DEF EntryFinalize, Ready, Unless, programVars
<1>6. ASSUME NEW d \in DOMAIN dictPtr, BeginSquash(d)
      PROVE Running /\ limits' = limits
    BY <1>6 DEF BeginSquash, Ready, Unless, programVars
<1>7. CASE SquashStep
    <2>1. CASE InitSquash
        BY <2>1 DEF InitSquash, Squashing, Continue, Unless, programVars
    <2>2. CASE FirstIndex
        BY <2>2 DEF FirstIndex, Squashing, Continue, Unless, programVars
    <2>3. CASE SkipLoop
        BY <2>3 DEF SkipLoop, Squashing, Continue, Unless, programVars
    <2>4. CASE NextIndex
        BY <2>4 DEF NextIndex, Squashing, Continue, Unless, programVars
    <2>5. CASE ContinueLoop
        BY <2>5 DEF ContinueLoop, Squashing, Continue, Unless, programVars
    <2>6. CASE NextKey
        BY <2>6 DEF NextKey, Squashing, Continue, Unless, programVars
    <2>7. CASE EndSquash
        BY <2>7 DEF EndSquash, Squashing
    <2> QED
        BY <1>7, <2>1, <2>2, <2>3, <2>4, <2>5, <2>6, <2>7 DEF SquashStep
<1> QED
    BY <1>1, <1>2, <1>3, <1>4, <1>5, <1>6, <1>7 DEF Next

LEMMA StepVisits ==
    ASSUME BeforeVisit, Next
    PROVE Visits
<1>1. ASSUME NEW d \in DOMAIN dictPtr, NEW key \in limits.keys, EntryGet(d, key)
      PROVE Visits
    BY <1>1, EntryGetVisit
<1>2. ASSUME NEW d \in DOMAIN dictPtr, NEW v \in NewValues, EntryFinalize(d, v)
      PROVE Visits
    BY <1>2, EntryFinalizeVisit
<1>3. ASSUME NEW d \in DOMAIN dictPtr, BeginSquash(d)
      PROVE Visits
    BY <1>3, BeginSquashVisit
<1>4. CASE SquashStep
    BY <1>4, InitSquashVisit, FirstIndexVisit, SkipLoopVisit, NextIndexVisit,
       ContinueLoopVisit, NextKeyVisit, EndSquashVisit DEF SquashStep
<1>5. CASE AssertInstruction \/ WriteAhead \/ Alloc
    BY <1>5, AssertInstructionVisit, WriteAheadVisit, AllocVisit
<1> QED
    BY <1>1, <1>2, <1>3, <1>4, <1>5 DEF Next

\* A step that changes nothing
LEMMA StutterVisits ==
    ASSUME UNCHANGED vars
    PROVE /\ UNCHANGED <<SquashLog, visited, limits, thrown>>
          /\ KeysThere /\ VisitHolds => KeysThere' /\ VisitHolds'
<1>1. /\ UNCHANGED <<segments, keys, keyToIndices, thrown>>
      /\ UNCHANGED <<limits, dictPtr, pending, squash, visited, squashed>>
    BY DEF vars, hintVars, squashedDictManager, programVars
<1>2. UNCHANGED SquashLog
    BY <1>1 DEF SquashLog, KeyOf, CellOf, AccessCount
<1>3. KeysThere => KeysThere'
    BY <1>1 DEF KeysThere, KeyGiven, Promised, Asserts, CellOf, AccessCount
<1>4. VisitHolds => VisitHolds'
    BY <1>1, <1>2 DEF VisitHolds, Looping, LogThere, KeyIn, CellOf, AccessCount,
                      NothingListed, RangeChecksCounted
<1> QED
    BY <1>1, <1>2, <1>3, <1>4

LEMMA StepOrdered ==
    OrderInv /\ [Next]_vars => OrderInv' /\ [Ordered!Next]_(Ordered!vars)
<1> SUFFICES ASSUME OrderInv, [Next]_vars
             PROVE OrderInv' /\ [Ordered!Next]_(Ordered!vars)
    OBVIOUS
<1>1. IInv'
    BY StepIInv DEF OrderInv
<1>2. CASE Next
    <2>1. Running /\ limits' = limits
        BY <1>2, StepsRun
    <2>2. BeforeVisit
        BY <2>1 DEF OrderInv, BeforeVisit, Before
    <2>3. Visits
        BY <1>2, <2>2, StepVisits
    <2>4. OneSquash'
        BY <2>1 DEF OrderInv, OneSquash
    <2>5. [Ordered!Next]_(Ordered!vars)
        BY <2>3 DEF Visits, Ordered!vars
    <2>6. Running' => KeysThere' /\ VisitHolds'
        BY <2>3 DEF Visits, Running
    <2> QED
        BY <1>1, <2>4, <2>5, <2>6 DEF OrderInv
<1>3. CASE UNCHANGED vars
    <2>1. /\ UNCHANGED <<SquashLog, visited, limits, thrown>>
          /\ KeysThere /\ VisitHolds => KeysThere' /\ VisitHolds'
        BY <1>3, StutterVisits
    <2>2. OneSquash' /\ (Running' => KeysThere' /\ VisitHolds')
        BY <2>1 DEF OrderInv, OneSquash, Running
    <2>3. UNCHANGED Ordered!vars
        BY <2>1 DEF Ordered!vars
    <2> QED
        BY <1>1, <2>2, <2>3 DEF OrderInv
<1> QED
    BY <1>2, <1>3

-----------------------------------------------------------------------------
(* The theorems *)

\* Whatever a program does with its dictionaries, cells, entries and lists hold what
\* their types say, every dictionary is that of a segment, and what ends a run is an
\* error.
THEOREM DictionariesAreTyped == Spec => []TypeOK
BY InitIInv, StepIInv, IInvTypes, PTL DEF Spec

\* Whatever the accesses and however those to several dictionaries and keys interleave,
\* the Map behind a dictionary holds what replaying its accesses in memory gives, and
\* the previous value of an access is the new value of the access before it to its key.
THEOREM AccessesAreReplayed == Spec => []DictionariesReplayAccesses
BY InitIInv, StepIInv, IInvReplays, PTL DEF Spec

\* Until a hint throws, the dictionaries are numbered without a gap, and the number of
\* each leads to its info in the arena, however many there are and whatever is squashed.
THEOREM ArenaIsNumbered == Spec => []ArenaNumbersDictionaries
BY InitIInv, StepIInv, IInvNumbers, PTL DEF Spec

\* A hint that throws leaves the contents of every dictionary as they were, the entry
\* that it may have set before included.
THEOREM FailedHintsAreHarmless == Spec => FailedHintsKeepContents
<1>1. IInv /\ [Next]_vars =>
          [thrown' # undefined =>
              \A d \in DOMAIN dictManager, key \in Keys :
                  Entry(dictManager'[d], key) = Entry(dictManager[d], key)]_vars
    BY FailureKeepsContents DEF ContentsKept
<1> QED
    BY <1>1, InitIInv, StepIInv, PTL DEF Spec, FailedHintsKeepContents

\* Of a program that squashes one dictionary at most, every behaviour is one of the
\* ordered visit, its fairness left aside: whatever the accesses, and whatever other
\* dictionaries, keys and hints are between them, the squash goes through every access of
\* its dictionary once, by ascending key and in the order of the accesses to one key, and
\* does not end before the last.
THEOREM FirstSquashIsOrdered ==
    Spec /\ limits.squashes <= 1 => Ordered!Init /\ [][Ordered!Next]_(Ordered!vars)
<1>1. Init /\ limits.squashes <= 1 => OrderInv /\ Ordered!Init
    BY InitIInv, InitVisit DEF OrderInv, OneSquash
<1> QED
    BY <1>1, StepOrdered, PTL DEF Spec
=============================================================================
