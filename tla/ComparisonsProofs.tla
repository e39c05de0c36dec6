--------------------------- MODULE ComparisonsProofs ---------------------------
(***************************************************************************)
(* The hints that compare keep their types, and what the range check       *)
(* accepts is enough for the arcs to be rebuilt without wrapping around.   *)
(***************************************************************************)
EXTENDS Comparisons, HintsProofs

-----------------------------------------------------------------------------
(* Arithmetic *)

\* The numbers of a factor times a quotient below the range check bound do not
\* reach past the field.
High == {PrimeOver3High, PrimeOver2High}

LEMMA HighFacts ==
    ASSUME NEW high \in High
    PROVE /\ high \in 1..(P - 1) /\ high * RangeBound <= P
          /\ \A q \in Nat : q < RangeBound => high * q < P
<1>0. P \in Nat /\ P > 1 /\ RangeBound \in Nat /\ RangeBound > 0
    BY FieldAssumption, BoundAssumption, HighAssumption
<1>1. high < P /\ high * RangeBound <= P
    BY HighAssumption DEF High
<1>2. high \in Nat /\ high >= 1
    <2>1. (P \div 3) \in Nat /\ (P \div 2) \in Nat
        BY <1>0
    <2>2. ((P \div 3) \div RangeBound) \in Nat /\ ((P \div 2) \div RangeBound) \in Nat
        BY <1>0, <2>1
    <2> QED
        BY <2>2 DEF High, PrimeOver3High, PrimeOver2High
<1>3. ASSUME NEW q \in Nat, q < RangeBound
      PROVE high * q < P
    <2>1. high * q + high <= high * RangeBound
        <3>1. q + 1 <= RangeBound
            BY <1>0, <1>3
        <3>2. high * (q + 1) <= high * RangeBound
            BY <1>0, <1>2, <3>1
        <3> QED
            BY <1>0, <1>2, <3>2
    <2>2. high * q \in Nat /\ high * RangeBound \in Nat
        BY <1>0, <1>2
    <2> QED
        BY <1>0, <1>1, <1>2, <2>1, <2>2
<1> QED
    BY <1>0, <1>1, <1>2, <1>3

\* A multiple of P between -P and P is zero.
LEMMA NoMultiple ==
    ASSUME NEW t \in Int, NEW x \in Int, x = P * t, x < P, -x < P
    PROVE x = 0
<1>0. P \in Nat /\ P > 1
    BY FieldAssumption
<1>1. CASE t >= 1
    <2>1. P * t >= P
        BY <1>0, <1>1
    <2> QED
        BY <1>0, <2>1
<1>2. CASE t <= -1
    <2>1. P * t <= -P
        BY <1>0, <1>2
    <2> QED
        BY <1>0, <2>1
<1>3. CASE t = 0
    BY <1>0, <1>3
<1> QED
    BY <1>1, <1>2, <1>3

\* A quotient of the field that is within the bound is that of the integers,
\* and the division is exact.
LEMMA ExactQuotient ==
    ASSUME NEW high \in High, NEW v \in 0..(P - 1),
           NEW q, q = (v * Inv(high)) % P, q < RangeBound
    PROVE high * q = v /\ v % high = 0
<1> DEFINE b == Inv(high)
           k == (v * b) \div P
           j == (high * b) \div P
           t == high * k - v * j
<1>0. P \in Nat /\ P > 1 /\ high \in 1..(P - 1) /\ v \in Nat /\ v < P /\ high \in Nat
    BY FieldAssumption, HighFacts
<1>1. b \in Nat /\ (high * b) % P = 1
    BY <1>0, InvType
<1> HIDE DEF b
<1>2. v * b \in Nat /\ high * b \in Nat
    BY <1>0, <1>1
<1>3. /\ k \in Int /\ j \in Int /\ q \in Nat
      /\ v * b = P * k + q
      /\ high * b = P * j + 1
    <2>1. \A x \in Nat : x \div P \in Int /\ x % P \in Nat /\ x = P * (x \div P) + (x % P)
        BY <1>0
    <2>2. q = (v * b) % P
        BY DEF b
    <2> QED
        BY <1>1, <1>2, <2>1, <2>2
<1> HIDE DEF k, j
<1>4. v - high * q = P * t
    <2>1. v * (high * b) = high * (v * b)
        BY <1>0, <1>1
    <2>2. v * (P * j + 1) = high * (P * k + q)
        BY <1>3, <2>1
    <2>3. v * (P * j + 1) = P * (v * j) + v
        BY <1>0, <1>3
    <2>4. high * (P * k + q) = P * (high * k) + high * q
        BY <1>0, <1>3
    <2>5. v * j \in Int /\ high * k \in Int /\ high * q \in Int
        BY <1>0, <1>3
    <2>6. P * t = P * (high * k) - P * (v * j)
        BY <1>0, <2>5
    <2>7. P * (high * k) \in Int /\ P * (v * j) \in Int
        BY <1>0, <2>5
    <2> HIDE DEF t
    <2> QED
        BY <1>0, <2>2, <2>3, <2>4, <2>5, <2>6, <2>7
<1>5. t \in Int
    BY <1>0, <1>3
<1> HIDE DEF t
<1>6. high * q \in Nat /\ high * q < P
    BY <1>0, <1>3, HighFacts
<1>7. v - high * q \in Int /\ v - high * q < P /\ -(v - high * q) < P
    BY <1>0, <1>6
<1>8. v - high * q = 0
    BY <1>4, <1>5, <1>7, NoMultiple
<1>9. v = high * q
    BY <1>0, <1>6, <1>8
<1>10. (high * q) % high = 0
    <2> DEFINE d == (high * q) \div high
               r == (high * q) % high
    <2>1. d \in Int /\ r \in 0..(high - 1) /\ high * q = high * d + r
        BY <1>0, <1>6
    <2> HIDE DEF d, r
    <2>2. high * (q - d) = r
        BY <1>0, <1>3, <2>1
    <2>3. q - d = 0
        <3>1. CASE q - d >= 1
            <4>1. high * (q - d) >= high
                BY <1>0, <1>3, <2>1, <3>1
            <4> QED
                BY <1>0, <2>1, <2>2, <4>1
        <3>2. CASE q - d <= -1
            <4>1. high * (q - d) <= -high
                BY <1>0, <1>3, <2>1, <3>2
            <4> QED
                BY <1>0, <2>1, <2>2, <4>1
        <3> QED
            BY <1>3, <2>1, <3>1, <3>2
    <2>4. high * (q - d) = 0
        BY <1>0, <2>3
    <2> QED
        BY <2>2, <2>4 DEF r
<1> QED
    BY <1>9, <1>10

-----------------------------------------------------------------------------
(* The order of the arcs *)

\* The arcs of felts a and b, and the lengths they stand for
ArcOf(i, v) == [tag |-> "arc", value |-> [tag |-> "felt", inner |-> v], pos |-> Number(i - 1)]

LengthsOf(a, b) == <<a.inner, (b.inner - a.inner) % P, (-1 - b.inner) % P>>

LEMMA LengthsType ==
    ASSUME NEW a \in Felts, NEW b \in Felts
    PROVE /\ LengthsOf(a, b) \in [1..3 -> 0..(P - 1)]
          /\ DOMAIN Arcs(a, b) = 1..3
          /\ \A i \in 1..3 : Arcs(a, b)[i] = ArcOf(i, LengthsOf(a, b)[i])
<1>1. P \in Nat /\ P > 1 /\ a.inner \in 0..(P - 1) /\ b.inner \in 0..(P - 1)
    BY FieldAssumption DEF Felts
<1>2. a.inner % P = a.inner
    BY <1>1
<1>3. (b.inner - a.inner) % P \in 0..(P - 1) /\ (-1 - b.inner) % P \in 0..(P - 1)
    BY <1>1
<1>4. LengthsOf(a, b) \in [1..3 -> 0..(P - 1)]
    BY <1>1, <1>3 DEF LengthsOf
<1>5. /\ LengthsOf(a, b)[1] = a.inner
      /\ LengthsOf(a, b)[2] = (b.inner - a.inner) % P
      /\ LengthsOf(a, b)[3] = (-1 - b.inner) % P
    BY DEF LengthsOf
<1>6. /\ Arcs(a, b)[1] = ArcOf(1, a.inner)
      /\ Arcs(a, b)[2] = ArcOf(2, (b.inner - a.inner) % P)
      /\ Arcs(a, b)[3] = ArcOf(3, (-1 - b.inner) % P)
    BY <1>2 DEF Arcs, Arc, ArcOf, Felt
<1> QED
    BY <1>4, <1>5, <1>6 DEF Arcs

\* The order is total: three arcs at different positions can be sorted.
LEMMA SortedOrder ==
    ASSUME NEW n \in [1..3 -> Int], NEW arcs,
           \A i \in 1..3 : arcs[i] = ArcOf(i, n[i])
    PROVE \E order \in [1..3 -> 1..3] :
              /\ {order[i] : i \in 1..3} = 1..3
              /\ \A i \in 1..3 : Sorted(arcs)[i] = ArcOf(order[i], n[order[i]])
              /\ \A i \in 1..2 : n[order[i]] <= n[order[3]]
<1> DEFINE Below(i, j) == n[i] < n[j] \/ (n[i] = n[j] /\ i < j)
           S == [1..3 -> {arcs[i] : i \in 1..3}]
           IsSorted(s) == Shorter(s[1], s[2]) /\ Shorter(s[2], s[3])
<1>1. \A i, j \in 1..3 : Shorter(arcs[i], arcs[j]) <=> Below(i, j)
    <2> SUFFICES ASSUME NEW i \in 1..3, NEW j \in 1..3
                 PROVE Shorter(arcs[i], arcs[j]) <=> Below(i, j)
        OBVIOUS
    <2>1. n[i] \in Int /\ n[j] \in Int
        OBVIOUS
    <2>2. /\ arcs[i].value = [tag |-> "felt", inner |-> n[i]] /\ arcs[i].pos.n = i - 1
          /\ arcs[j].value = [tag |-> "felt", inner |-> n[j]] /\ arcs[j].pos.n = j - 1
        BY DEF ArcOf, Number
    <2>3. arcs[i].value = arcs[j].value <=> n[i] = n[j]
        BY <2>2
    <2> QED
        BY <2>1, <2>2, <2>3 DEF Shorter
<1>2. \E i, j, k \in 1..3 : Below(i, j) /\ Below(j, k)
    <2>1. n[1] \in Int /\ n[2] \in Int /\ n[3] \in Int
        OBVIOUS
    <2>2. CASE Below(1, 2) /\ Below(2, 3)
        BY <2>2
    <2>3. CASE Below(1, 2) /\ Below(3, 2)
        <3>1. CASE Below(1, 3)
            BY <2>3, <3>1
        <3>2. CASE Below(3, 1)
            BY <2>3, <3>2
        <3> QED
            BY <2>1, <3>1, <3>2
    <2>4. CASE Below(2, 1) /\ Below(1, 3)
        BY <2>4
    <2>5. CASE Below(2, 1) /\ Below(3, 1)
        <3>1. CASE Below(2, 3)
            BY <2>5, <3>1
        <3>2. CASE Below(3, 2)
            BY <2>5, <3>2
        <3> QED
            BY <2>1, <3>1, <3>2
    <2> QED
        BY <2>1, <2>2, <2>3, <2>4, <2>5
<1>3. \E s \in S : IsSorted(s)
    <2>1. PICK i \in 1..3, j \in 1..3, k \in 1..3 : Below(i, j) /\ Below(j, k)
        BY <1>2
    <2> DEFINE s == [x \in 1..3 |-> IF x = 1 THEN arcs[i] ELSE IF x = 2 THEN arcs[j] ELSE arcs[k]]
    <2>2. s \in S /\ s[1] = arcs[i] /\ s[2] = arcs[j] /\ s[3] = arcs[k]
        OBVIOUS
    <2> HIDE DEF s
    <2>3. IsSorted(s)
        BY <1>1, <2>1, <2>2
    <2> QED
        BY <2>2, <2>3
<1> DEFINE s == Sorted(arcs)
<1>4. s \in S /\ IsSorted(s)
    BY <1>3 DEF Sorted
<1> HIDE DEF s
<1>5. PICK p \in 1..3 : s[1] = arcs[p]
    BY <1>4
<1>6. PICK q \in 1..3 : s[2] = arcs[q]
    BY <1>4
<1>7. PICK r \in 1..3 : s[3] = arcs[r]
    BY <1>4
<1>8. Below(p, q) /\ Below(q, r)
    BY <1>1, <1>4, <1>5, <1>6, <1>7
<1> DEFINE order == [x \in 1..3 |-> IF x = 1 THEN p ELSE IF x = 2 THEN q ELSE r]
<1>9. order \in [1..3 -> 1..3] /\ order[1] = p /\ order[2] = q /\ order[3] = r
    OBVIOUS
<1> HIDE DEF order
<1>10. n[p] \in Int /\ n[q] \in Int /\ n[r] \in Int
    OBVIOUS
<1>11. p # q /\ q # r /\ p # r /\ n[p] <= n[r] /\ n[q] <= n[r]
    BY <1>8, <1>10
<1>12. {order[i] : i \in 1..3} = 1..3
    <2>1. {order[i] : i \in 1..3} = {p, q, r}
        BY <1>9
    <2> QED
        BY <1>11, <2>1
<1>13. \A i \in 1..3 : s[i] = ArcOf(order[i], n[order[i]])
    <2>1. /\ s[1] = ArcOf(order[1], n[order[1]])
          /\ s[2] = ArcOf(order[2], n[order[2]])
          /\ s[3] = ArcOf(order[3], n[order[3]])
        BY <1>5, <1>6, <1>7, <1>9
    <2> QED
        BY <2>1
<1>14. \A i \in 1..2 : n[order[i]] <= n[order[3]]
    BY <1>9, <1>11
<1> QED
    BY <1>9, <1>12, <1>13, <1>14 DEF s

-----------------------------------------------------------------------------
(* The cells of an arc *)

RebuiltIn(m, at, high) == CellAt(m, at).inner + high * CellAt(m, AddOffset(at, 1)).inner

LEMMA ArcParts ==
    ASSUME NEW high \in High, NEW x \in Felts
    PROVE /\ Mod(x, high) = [tag |-> "felt", inner |-> x.inner % high]
          /\ Mod(x, high) \in Felts
          /\ DivHigh(x, high) = [tag |-> "felt", inner |-> (x.inner * Inv(high)) % P]
          /\ DivHigh(x, high) \in Felts
<1> DEFINE v == x.inner
<1>0. P \in Nat /\ P > 1 /\ high \in 1..(P - 1) /\ v \in Nat /\ v < P /\ high \in Nat
    BY FieldAssumption, HighFacts DEF Felts
<1> HIDE DEF v
<1>2. v % high \in Nat /\ v % high < P
    BY <1>0
<1>3. Mod(x, high) = [tag |-> "felt", inner |-> v % high]
    <2>1. (v % high) % P = v % high
        BY <1>0, <1>2
    <2> QED
        BY <2>1 DEF Mod, Felt, v
<1>4. Felt(high) = [tag |-> "felt", inner |-> high] /\ isFelt(Felt(high)) /\ high # 0
    <2>1. high % P = high
        BY <1>0
    <2> QED
        BY <1>0, <2>1 DEF Felt, isFelt
<1>5. DivHigh(x, high) = Felt(v * Inv(high))
    BY <1>4 DEF DivHigh, Div, v
<1>6. v * Inv(high) \in Int
    BY <1>0, InvType
<1>7. [tag |-> "felt", inner |-> v % high] \in Felts
    BY <1>0, <1>2 DEF Felts
<1> QED
    BY <1>3, <1>5, <1>6, <1>7, FeltType DEF Felt, v

\* What storing an arc leaves
Stored(n, m, write, at, arc, high) ==
    LET r == StoreArc(write, at, arc, high)
    IN /\ Kept(n, m, r.segments)
       /\ Grows(write.segments, r.segments)
       /\ isError(r.value) => r.value \in Errors
       /\ \/ isError(r.value)
          \/ /\ ~isError(write.value)
             /\ CellAt(r.segments, at) = Mod(arc.value, high)
             /\ CellAt(r.segments, AddOffset(at, 1)) = DivHigh(arc.value, high)

LEMMA StoreArcTyped ==
    ASSUME NEW n \in Nat, NEW m \in Memories(Within(n)), NEW write, NEW at,
           NEW high \in High, NEW arc, arc.value \in Felts,
           Kept(n, m, write.segments), isError(write.value) => write.value \in Errors,
           isError(write.value) \/ at \in PointersInto(n)
    PROVE Stored(n, m, write, at, arc, high)
<1> DEFINE rest == Mod(arc.value, high)
           quotient == DivHigh(arc.value, high)
           one == ThenStore(write, at, rest)
           r == ThenStore(one, AddOffset(at, 1), quotient)
<1>1. rest \in Felts /\ quotient \in Felts
    BY ArcParts
<1>2. rest \in Within(n) /\ quotient \in Within(n)
    BY <1>1, FeltsWithin
<1>3. StoreArc(write, at, arc, high) = r
    BY DEF StoreArc
<1> HIDE DEF rest, quotient
<1>4. isError(write.value) \/ (at \in AddressesIn(n) /\ AddOffset(at, 1) \in AddressesIn(n))
    BY PointerFacts
<1>5. /\ Kept(n, m, one.segments)
      /\ Grows(write.segments, one.segments)
      /\ isError(one.value) => one.value \in Errors
      /\ \/ isError(one.value)
         \/ ~isError(write.value) /\ InSegment(m, at) /\ CellAt(one.segments, at) = rest
    BY <1>2, <1>4, ThenStoreTyped
<1> HIDE DEF one
<1>6. /\ Kept(n, m, r.segments)
      /\ Grows(one.segments, r.segments)
      /\ isError(r.value) => r.value \in Errors
      /\ \/ isError(r.value)
         \/ ~isError(one.value) /\ CellAt(r.segments, AddOffset(at, 1)) = quotient
    <2>1. isError(one.value) \/ AddOffset(at, 1) \in AddressesIn(n)
        BY <1>4, <1>5
    <2> QED
        BY <1>2, <1>5, <2>1, ThenStoreTyped
<1> HIDE DEF r
<1>7. /\ write.segments \in Memories(Within(n)) /\ one.segments \in Memories(Within(n))
      /\ r.segments \in Memories(Within(n)) /\ Len(one.segments) = Len(m)
    BY <1>5, <1>6 DEF Kept
<1>8. Grows(write.segments, r.segments)
    BY <1>5, <1>6, <1>7, GrowsTransitive
<1>9. ASSUME ~isError(r.value)
      PROVE CellAt(r.segments, at) = rest
    <2>1. /\ ~isError(write.value) /\ InSegment(one.segments, at)
          /\ CellAt(one.segments, at) = rest
        BY <1>5, <1>6, <1>7, <1>9 DEF InSegment
    <2>2. rest # undefined /\ at \in Relocatables
        BY <1>1, <1>4, <2>1, Tags, AddressFacts
    <2> QED
        BY <1>6, <1>7, <2>1, <2>2, CellAtGrows, WithinClosed
<1> QED
    BY <1>3, <1>5, <1>6, <1>8, <1>9 DEF rest, quotient, Stored

\* In a range check segment the two cells make up the length.
LEMMA ArcIsRebuilt ==
    ASSUME NEW m \in Memories(Within(3)), Len(m) = 3, RangeChecked(m),
           m[3].builtin = "range_check",
           NEW at \in PointersInto(3), at.segmentId = RangeCheck,
           NEW high \in High, NEW x \in Felts,
           CellAt(m, at) = Mod(x, high),
           CellAt(m, AddOffset(at, 1)) = DivHigh(x, high)
    PROVE RebuiltIn(m, at, high) = x.inner
<1> DEFINE v == x.inner
           q == (v * Inv(high)) % P
<1>1. CellAt(m, at).inner = v % high /\ CellAt(m, AddOffset(at, 1)).inner = q
    <2>1. /\ CellAt(m, at) = [tag |-> "felt", inner |-> v % high]
          /\ CellAt(m, AddOffset(at, 1)) = [tag |-> "felt", inner |-> q]
        BY ArcParts
    <2> HIDE DEF q
    <2> QED
        BY <2>1
<1>2. CellAt(m, AddOffset(at, 1)) \in Felts
    BY ArcParts
<1>3. CellAt(m, AddOffset(at, 1)) = At(m[3].cells, at.offset + 1)
    BY DEF CellAt, AddOffset, Relocatable, RangeCheck
<1>4. at.offset + 1 \in DOMAIN m[3].cells /\ m[3].cells[at.offset + 1].inner = q
    BY <1>1, <1>2, <1>3, Tags DEF At
<1>5. InBounds(m[3].cells)
    BY MemoryTypes DEF RangeChecked
<1>6. q < RangeBound
    BY <1>4, <1>5 DEF InBounds
<1>7. high * q = v /\ v % high = 0
    <2>1. v \in 0..(P - 1)
        BY DEF Felts
    <2> HIDE DEF v
    <2> QED
        BY <1>6, <2>1, ExactQuotient
<1>8. v \in Nat
    BY FieldAssumption DEF Felts
<1> HIDE DEF q, v
<1> QED
    BY <1>1, <1>7, <1>8 DEF RebuiltIn, v

-----------------------------------------------------------------------------
(* The digits of a number *)

Digits(f, n) == IF n < 10 THEN <<n>> ELSE Append(f[n \div 10], n % 10)

\* f gives the digits of the numbers up to n.
DigitsUpTo(f, n) == f = [k \in 0..n |-> Digits(f, k)]

LEMMA Tenth ==
    ASSUME NEW n \in Nat, n >= 10
    PROVE /\ n \div 10 \in Nat /\ n \div 10 < n /\ n \div 10 >= 1
          /\ n % 10 \in 0..9 /\ n = 10 * (n \div 10) + (n % 10)
OBVIOUS

LEMMA DigitsCases ==
    ASSUME NEW f, NEW n \in Nat
    PROVE /\ n < 10 => Digits(f, n) = <<n>>
          /\ ~(n < 10) => Digits(f, n) = Append(f[n \div 10], n % 10)
          /\ n < 10 \/ n >= 10
          /\ n >= 10 => ~(n < 10)
BY DEF Digits

LEMMA DigitsExist ==
    ASSUME NEW n \in Nat
    PROVE \E f : DigitsUpTo(f, n)
<1> DEFINE Bad == {m \in Nat : ~\E f : DigitsUpTo(f, m)}
<1>1. CASE Bad = {}
    <2>1. n \notin Bad
        BY <1>1
    <2> QED
        BY <2>1
<1>2. CASE Bad # {}
    <2>1. PICK m \in Bad : \A y \in Bad : m <= y
        <3>1. Bad \subseteq Nat
            OBVIOUS
        <3> HIDE DEF Bad
        <3> QED
            BY <1>2, <3>1, LeastNat
    <2>2. m \in Nat /\ ~\E f : DigitsUpTo(f, m)
        BY <2>1
    <2>3. \E f : f = [k \in 0..(m - 1) |-> Digits(f, k)]
        <3>1. CASE m = 0
            <4> DEFINE none == [k \in 0..(m - 1) |-> <<>>]
            <4>1. none = [k \in 0..(m - 1) |-> Digits(none, k)]
                BY <3>1
            <4> QED
                BY <4>1
        <3>2. CASE m # 0
            <4>1. m - 1 \in Nat /\ m - 1 \notin Bad
                BY <2>1, <2>2, <3>2
            <4>2. \E f : DigitsUpTo(f, m - 1)
                BY <4>1
            <4> QED
                BY <4>2 DEF DigitsUpTo
        <3> QED
            BY <3>1, <3>2
    <2>4. PICK f : f = [k \in 0..(m - 1) |-> Digits(f, k)]
        BY <2>3
    <2> DEFINE g == [k \in 0..m |-> IF k < m THEN f[k] ELSE Digits(f, m)]
    <2>5. ASSUME NEW k \in 0..m
          PROVE g[k] = Digits(g, k)
        <3>1. g[k] = Digits(f, k)
            BY <2>2, <2>4
        <3>2. CASE k < 10
            BY <3>1, <3>2 DEF Digits
        <3>3. CASE k >= 10
            <4>1. k \div 10 \in 0..m /\ k \div 10 < m
                BY <2>2, <3>3, Tenth
            <4>2. g[k \div 10] = f[k \div 10]
                BY <4>1
            <4> HIDE DEF g
            <4> QED
                BY <3>1, <4>2 DEF Digits
        <3> QED
            BY <2>2, <3>2, <3>3
    <2>6. DigitsUpTo(g, m)
        BY <2>5 DEF DigitsUpTo
    <2> QED
        BY <2>2, <2>6
<1> QED
    BY <1>1, <1>2

LEMMA DigitsAgree ==
    ASSUME NEW n \in Nat, NEW m \in Nat, NEW x \in Nat, x <= n, x <= m,
           NEW f, DigitsUpTo(f, n), NEW g, DigitsUpTo(g, m)
    PROVE f[x] = g[x]
<1> DEFINE Bad == {k \in Nat : k <= n /\ k <= m /\ f[k] # g[k]}
<1>1. /\ \A k \in 0..n : f[k] = Digits(f, k)
      /\ \A k \in 0..m : g[k] = Digits(g, k)
    BY DEF DigitsUpTo
<1>2. Bad = {}
    <2> SUFFICES ASSUME Bad # {}
                 PROVE FALSE
        OBVIOUS
    <2>1. Bad \subseteq Nat
        OBVIOUS
    <2>2. PICK k \in Bad : \A y \in Bad : k <= y
        <3> HIDE DEF Bad
        <3> QED
            BY <2>1, LeastNat
    <2>3. k \in 0..n /\ k \in 0..m /\ f[k] # g[k] /\ k \in Nat
        BY <2>2
    <2>4. k >= 10
        <3>1. f[k] = Digits(f, k) /\ g[k] = Digits(g, k)
            BY <1>1, <2>3
        <3> QED
            BY <2>3, <3>1, DigitsCases
    <2>5. k \div 10 \in Nat /\ k \div 10 < k
        BY <2>3, <2>4, Tenth
    <2>6. k \div 10 \notin Bad /\ k \div 10 <= n /\ k \div 10 <= m
        BY <2>2, <2>3, <2>5
    <2>7. f[k \div 10] = g[k \div 10]
        BY <2>5, <2>6
    <2>8. f[k] = Digits(f, k) /\ g[k] = Digits(g, k)
        BY <1>1, <2>3
    <2> QED
        BY <2>3, <2>7, <2>8 DEF Digits
<1>3. x \notin Bad
    BY <1>2
<1> QED
    BY <1>3

LEMMA DigitsDef == \A n \in Nat : digits[n] = Digits(digits, n)
<1> DEFINE Is(f) == f = [n \in Nat |-> Digits(f, n)]
           upTo(n) == CHOOSE f : DigitsUpTo(f, n)
           all == [n \in Nat |-> upTo(n)[n]]
<1>1. \A n \in Nat : DigitsUpTo(upTo(n), n)
    <2> TAKE n \in Nat
    <2>1. \E f : DigitsUpTo(f, n)
        BY DigitsExist
    <2> QED
        BY <2>1
<1> HIDE DEF upTo
<1>2. ASSUME NEW n \in Nat
      PROVE all[n] = Digits(all, n)
    <2> DEFINE t == upTo(n)
    <2>1. DigitsUpTo(t, n)
        BY <1>1
    <2>2. all[n] = t[n]
        OBVIOUS
    <2> HIDE DEF t
    <2>3. t[n] = Digits(t, n)
        BY <2>1 DEF DigitsUpTo
    <2>4. CASE n < 10
        BY <2>2, <2>3, <2>4 DEF Digits
    <2>5. CASE n >= 10
        <3>1. PICK x \in Nat : x = n \div 10 /\ x < n
            BY <2>5, Tenth
        <3>2. DigitsUpTo(upTo(x), x) /\ all[x] = upTo(x)[x]
            BY <1>1
        <3>3. upTo(x)[x] = t[x]
            BY <2>1, <3>1, <3>2, DigitsAgree
        <3> HIDE DEF all
        <3> QED
            BY <2>2, <2>3, <3>1, <3>2, <3>3 DEF Digits
    <2> QED
        BY <2>4, <2>5
<1>3. Is(all)
    BY <1>2
<1>4. digits = CHOOSE f : Is(f)
    BY DEF digits, Digits
<1>5. Is(digits)
    BY <1>3, <1>4
<1> QED
    BY <1>5

LEMMA DigitsTyped ==
    \A n \in Nat : /\ digits[n] \in Seq(0..9) /\ Len(digits[n]) \in Nat /\ Len(digits[n]) >= 1
                   /\ n < 10 => digits[n] = <<n>>
                   /\ n >= 10 => digits[n] = Append(digits[n \div 10], n % 10)
<1> DEFINE Typed(n) == digits[n] \in Seq(0..9) /\ Len(digits[n]) \in Nat /\ Len(digits[n]) >= 1
           Bad == {n \in Nat : ~Typed(n)}
<1>1. \A n \in Nat : /\ n < 10 => digits[n] = <<n>>
                     /\ n >= 10 => digits[n] = Append(digits[n \div 10], n % 10)
    <2> TAKE n \in Nat
    <2> QED
        BY DigitsDef, DigitsCases
<1>2. Bad = {}
    <2> SUFFICES ASSUME Bad # {}
                 PROVE FALSE
        OBVIOUS
    <2>1. PICK n \in Bad : \A y \in Bad : n <= y
        <3>1. Bad \subseteq Nat
            OBVIOUS
        <3> HIDE DEF Bad
        <3> QED
            BY <2>1, <3>1, LeastNat
    <2>2. n \in Nat /\ ~Typed(n)
        BY <2>1
    <2>3. n >= 10
        <3>1. CASE n < 10
            <4>1. digits[n] = <<n>> /\ n \in 0..9
                BY <1>1, <2>2, <3>1
            <4>2. <<n>> \in Seq(0..9) /\ Len(<<n>>) = 1
                BY <4>1
            <4> QED
                BY <2>2, <4>1, <4>2
        <3> QED
            BY <2>2, <3>1
    <2>4. PICK t \in Nat : t = n \div 10 /\ t < n
        BY <2>2, <2>3, Tenth
    <2>5. PICK last \in 0..9 : last = n % 10
        BY <2>2, <2>3, Tenth
    <2>6. digits[n] = Append(digits[t], last)
        BY <1>1, <2>2, <2>3, <2>4, <2>5
    <2>7. Typed(t)
        BY <2>1, <2>2, <2>4
    <2>8. Typed(n)
        BY <2>6, <2>7, AppendProperties
    <2> QED
        BY <2>2, <2>8
<1>3. ASSUME NEW n \in Nat
      PROVE Typed(n)
    BY <1>2
<1> QED
    BY <1>1, <1>3

\* A number of more than one digit has one digit more than its tenth.
LEMMA DigitsLonger ==
    ASSUME NEW n \in Nat, n >= 10
    PROVE \E v \in Nat, last \in 0..9, k \in Nat :
              /\ n = 10 * v + last /\ v < n /\ k >= 1
              /\ DOMAIN digits[v] = 1..k /\ Len(digits[v]) = k
              /\ DOMAIN digits[n] = 1..(k + 1) /\ Len(digits[n]) = k + 1
              /\ \A j \in 1..k : digits[n][j] = digits[v][j]
              /\ digits[n][k + 1] = last
<1>1. PICK v \in Nat : v = n \div 10 /\ v < n /\ n = 10 * v + (n % 10)
    BY Tenth
<1>2. PICK last \in 0..9 : last = n % 10
    BY Tenth
<1>3. PICK k \in Nat : k = Len(digits[v]) /\ k >= 1
    BY DigitsTyped
<1>4. digits[v] \in Seq(0..9) /\ digits[n] = Append(digits[v], last)
    BY <1>1, <1>2, DigitsTyped
<1>5. PICK w \in Seq(0..9) : w = digits[v]
    BY <1>4
<1>6. PICK t \in Seq(0..9) : /\ t = digits[n] /\ Len(t) = k + 1
                             /\ \A j \in 1..k : t[j] = w[j]
                             /\ t[k + 1] = last
    <2>1. PICK t : t = Append(w, last)
        OBVIOUS
    <2>2. Len(w) = k
        BY <1>3, <1>5
    <2>3. /\ t \in Seq(0..9) /\ Len(t) = k + 1
          /\ \A j \in 1..k : t[j] = w[j]
          /\ t[k + 1] = last
        BY <2>1, <2>2, AppendProperties
    <2>4. t = digits[n]
        BY <1>4, <1>5, <2>1
    <2> QED
        BY <2>3, <2>4
<1>7. DOMAIN w = 1..k /\ DOMAIN t = 1..(k + 1)
    BY <1>3, <1>5, <1>6, LenProperties
<1>8. /\ n = 10 * v + last /\ v < n /\ k >= 1
      /\ DOMAIN digits[v] = 1..k /\ Len(digits[v]) = k
      /\ DOMAIN digits[n] = 1..(k + 1) /\ Len(digits[n]) = k + 1
      /\ \A j \in 1..k : digits[n][j] = digits[v][j]
      /\ digits[n][k + 1] = last
    BY <1>1, <1>2, <1>3, <1>5, <1>6, <1>7
<1> QED
    BY <1>8

\* At d the texts s and t differ for the first time, and s is below t there.
DifferAt(d, s, t) ==
    /\ d \in DOMAIN s /\ d \in DOMAIN t
    /\ \A j \in 1..(d - 1) : s[j] = t[j]
    /\ s[d] < t[d]

\* Of two numbers that have as many digits the first digit that differs is less
\* in the lesser one.
LEMMA DigitsOrdered ==
    ASSUME NEW a \in Nat, NEW b \in Nat, a < b, Len(digits[a]) = Len(digits[b])
    PROVE \E d \in Nat : DifferAt(d, digits[a], digits[b])
<1> DEFINE Ordered(x, y) == \E d \in Nat : DifferAt(d, digits[x], digits[y])
           Bad == {y \in Nat : \E x \in Nat : x < y /\ Len(digits[x]) = Len(digits[y])
                                              /\ ~Ordered(x, y)}
<1>1. Bad = {}
    <2> SUFFICES ASSUME Bad # {}
                 PROVE FALSE
        OBVIOUS
    <2>1. PICK y \in Bad : \A z \in Bad : y <= z
        <3>1. Bad \subseteq Nat
            OBVIOUS
        <3> HIDE DEF Bad
        <3> QED
            BY <2>1, <3>1, LeastNat
    <2>2. PICK x \in Nat : x < y /\ Len(digits[x]) = Len(digits[y]) /\ ~Ordered(x, y)
        BY <2>1
    <2>3. y \in Nat
        BY <2>1
    <2>18. \A z \in Nat : z < y =>
              \A w \in Nat : w < z /\ Len(digits[w]) = Len(digits[z]) => Ordered(w, z)
        BY <2>1
    <2>19. \A d \in Nat : ~DifferAt(d, digits[x], digits[y])
        BY <2>2
    <2> HIDE DEF Bad, Ordered
    <2>4. y >= 10
        <3>1. CASE y < 10
            <4>0. x < 10
                BY <2>2, <2>3, <3>1
            <4>1. digits[x] = <<x>> /\ digits[y] = <<y>>
                BY <2>3, <3>1, <4>0, DigitsTyped
            <4>2. DifferAt(1, <<x>>, <<y>>)
                <5>1. 1 \in DOMAIN <<x>> /\ 1 \in DOMAIN <<y>> /\ <<x>>[1] < <<y>>[1]
                    BY <2>2
                <5>2. \A j \in 1..(1 - 1) : <<x>>[j] = <<y>>[j]
                    OBVIOUS
                <5> QED
                    BY <5>1, <5>2 DEF DifferAt
            <4> QED
                BY <2>19, <4>1, <4>2
        <3> QED
            BY <2>3, <3>1
    <2>5. PICK v \in Nat, e \in 0..9, n \in Nat :
              /\ y = 10 * v + e /\ v < y /\ n >= 1
              /\ DOMAIN digits[v] = 1..n /\ Len(digits[v]) = n
              /\ DOMAIN digits[y] = 1..(n + 1) /\ Len(digits[y]) = n + 1
              /\ \A j \in 1..n : digits[y][j] = digits[v][j]
              /\ digits[y][n + 1] = e
        BY <2>3, <2>4, DigitsLonger
    <2>8. x >= 10
        <3>1. CASE x < 10
            <4>1. digits[x] = <<x>>
                BY <3>1, DigitsTyped
            <4>2. Len(<<x>>) = 1
                OBVIOUS
            <4>3. n + 1 = 1
                BY <2>2, <2>5, <4>1, <4>2
            <4> QED
                BY <2>5, <4>3
        <3> QED
            BY <3>1
    <2>9. PICK u \in Nat, c \in 0..9, k \in Nat :
              /\ x = 10 * u + c /\ u < x /\ k >= 1
              /\ DOMAIN digits[u] = 1..k /\ Len(digits[u]) = k
              /\ DOMAIN digits[x] = 1..(k + 1) /\ Len(digits[x]) = k + 1
              /\ \A j \in 1..k : digits[x][j] = digits[u][j]
              /\ digits[x][k + 1] = c
        BY <2>8, DigitsLonger
    <2>12. k = n
        <3>1. k + 1 = n + 1
            BY <2>2, <2>5, <2>9
        <3> QED
            BY <3>1
    <2>13. /\ DOMAIN digits[x] = 1..(n + 1) /\ DOMAIN digits[y] = 1..(n + 1)
           /\ DOMAIN digits[u] = 1..n /\ DOMAIN digits[v] = 1..n
           /\ \A j \in 1..n : digits[x][j] = digits[u][j] /\ digits[y][j] = digits[v][j]
           /\ digits[x][n + 1] = c /\ digits[y][n + 1] = e
        BY <2>5, <2>9, <2>12
    <2>14. u <= v /\ (u = v => c < e)
        <3>1. x < y /\ x = 10 * u + c /\ y = 10 * v + e
            BY <2>2, <2>5, <2>9
        <3> QED
            BY <2>3, <3>1
    <2>15. CASE u = v
        <3>1. c < e
            BY <2>14, <2>15
        <3>2. n + 1 \in 1..(n + 1) /\ \A j \in 1..((n + 1) - 1) : j \in 1..n
            OBVIOUS
        <3>3. \A j \in 1..((n + 1) - 1) : digits[x][j] = digits[y][j]
            BY <2>13, <2>15, <3>2
        <3>4. n + 1 \in DOMAIN digits[x] /\ n + 1 \in DOMAIN digits[y]
              /\ digits[x][n + 1] < digits[y][n + 1]
            BY <2>13, <3>1, <3>2
        <3>5. DifferAt(n + 1, digits[x], digits[y])
            BY <3>3, <3>4, Zenon DEF DifferAt
        <3> QED
            BY <2>19, <3>5
    <2>16. CASE u < v
        <3>1. Ordered(u, v)
            BY <2>5, <2>9, <2>12, <2>16, <2>18
        <3>2. PICK d \in Nat : DifferAt(d, digits[u], digits[v])
            BY <3>1 DEF Ordered
        <3>3. DifferAt(d, digits[x], digits[y])
            <4>1. d \in 1..n /\ digits[u][d] < digits[v][d]
                  /\ \A j \in 1..(d - 1) : digits[u][j] = digits[v][j]
                BY <2>13, <3>2 DEF DifferAt
            <4>2. d \in 1..(n + 1) /\ \A j \in 1..(d - 1) : j \in 1..n
                BY <2>12, <4>1
            <4> QED
                BY <2>13, <4>1, <4>2 DEF DifferAt
        <3> QED
            BY <2>19, <3>3
    <2> QED
        BY <2>14, <2>15, <2>16
<1>2. b \notin Bad
    BY <1>1
<1> QED
    BY <1>2

-----------------------------------------------------------------------------
(* The texts of addresses *)

\* The first character that differs decides.
LEMMA FirstDifferenceDecides ==
    ASSUME NEW s, NEW t, NEW n \in Nat, NEW m \in Nat,
           DOMAIN s = 1..n, DOMAIN t = 1..m, Len(s) = n, Len(t) = m,
           \A i \in 1..n : s[i] \in Int, \A i \in 1..m : t[i] \in Int,
           NEW d \in Nat, DifferAt(d, s, t)
    PROVE TextLeq(s, t) /\ ~TextLeq(t, s)
<1>1. /\ d \in 1..n /\ d \in 1..m /\ s[d] < t[d] /\ s[d] \in Int /\ t[d] \in Int
      /\ \A j \in 1..(d - 1) : s[j] = t[j]
    BY DEF DifferAt
<1>2. TextLeq(s, t)
    <2>1. d \in DOMAIN t /\ d <= Len(s) + 1 /\ (d <= Len(s) => s[d] < t[d])
        BY <1>1
    <2> QED
        BY <1>1, <2>1, Zenon DEF TextLeq
<1>3. ASSUME TextLeq(t, s)
      PROVE FALSE
    <2>1. s # t
        BY <1>1
    <2>2. PICK i \in 1..n : /\ i <= m + 1
                            /\ \A j \in 1..(i - 1) : t[j] = s[j]
                            /\ i <= m => t[i] < s[i]
        BY <1>3, <2>1 DEF TextLeq
    <2>3. CASE i < d
        BY <1>1, <2>2, <2>3
    <2>4. CASE i = d
        BY <1>1, <2>2, <2>4
    <2>5. CASE d < i
        <3>1. d \in 1..(i - 1)
            BY <1>1, <2>2, <2>5
        <3>2. t[d] = s[d]
            BY <2>2, <3>1
        <3> QED
            BY <1>1, <3>2
    <2> QED
        BY <1>1, <2>2, <2>3, <2>4, <2>5
<1> QED
    BY <1>2, <1>3

\* The text of a pointer: one digit for the segment, the colon, and the digits of
\* the offset, as long as it is written without an exponent.
LEMMA PointerText ==
    ASSUME NEW r \in PointersInto(3), Decimal(r.offset)
    PROVE LET t == toString(r)
              w == digits[r.offset]
          IN /\ Len(t) = Len(w) + 2 /\ DOMAIN t = 1..(Len(w) + 2)
             /\ t[1] = r.segmentId /\ t[2] = COLON
             /\ \A i \in 1..Len(w) : t[i + 2] = w[i]
             /\ \A i \in DOMAIN t : t[i] \in Int
             /\ Len(w) \in Nat /\ DOMAIN w = 1..Len(w)
             /\ NumberText(r.offset) = w
<1> DEFINE s == r.segmentId
           w == digits[r.offset]
<1>1. s \in 0..2 /\ r.offset \in Nat
    BY DEF PointersInto, AddressesIn, Relocatables
<1>2. NumberText(s) = <<s>> /\ NumberText(r.offset) = w
    <2>1. Decimal(s)
        BY <1>1, ComparisonAssumption DEF Decimal
    <2> QED
        BY <1>1, <2>1, DigitsTyped DEF NumberText
<1>3. w \in Seq(0..9) /\ Len(w) \in Nat
    BY <1>1, DigitsTyped
<1> HIDE DEF s, w
<1>4. toString(r) = <<s>> \o <<COLON>> \o w
    BY <1>2 DEF toString, s
<1>5. <<s>> \o <<COLON>> = <<s, COLON>>
    <2>1. <<s>> \in Seq(Int) /\ <<COLON>> \in Seq(Int)
        BY <1>1 DEF COLON
    <2>2. Len(<<s>> \o <<COLON>>) = 2 /\ Len(<<s, COLON>>) = 2
          /\ (<<s>> \o <<COLON>>) \in Seq(Int) /\ <<s, COLON>> \in Seq(Int)
        BY <1>1, <2>1 DEF COLON
    <2>3. \A i \in 1..2 : (<<s>> \o <<COLON>>)[i] = <<s, COLON>>[i]
        BY <2>1
    <2>4. PICK left \in Seq(Int) : left = <<s>> \o <<COLON>>
        BY <2>2
    <2>5. PICK right \in Seq(Int) : right = <<s, COLON>>
        BY <2>2
    <2>6. Len(left) = Len(right) /\ \A i \in 1..Len(left) : left[i] = right[i]
        BY <2>2, <2>3, <2>4, <2>5
    <2> QED
        BY <2>4, <2>5, <2>6, SeqEqual
<1>6. <<s, COLON>> \in Seq(Int) /\ w \in Seq(Int) /\ Len(<<s, COLON>>) = 2
      /\ DOMAIN w = 1..Len(w) /\ \A i \in 1..Len(w) : w[i] \in Int
    <2>1. s \in Int /\ COLON \in Int
        BY <1>1 DEF COLON
    <2>2. DOMAIN w = 1..Len(w) /\ \A i \in 1..Len(w) : w[i] \in 0..9
        BY <1>3, LenProperties, ElementOfSeq
    <2> QED
        BY <1>3, <2>1, <2>2
<1> DEFINE t == <<s, COLON>> \o w
<1>7. /\ Len(t) = 2 + Len(w) /\ DOMAIN t = 1..(2 + Len(w))
      /\ \A i \in 1..(2 + Len(w)) : t[i] = IF i <= 2 THEN <<s, COLON>>[i] ELSE w[i - 2]
    BY <1>3, <1>6
<1> HIDE DEF t
<1>8. t[1] = s /\ t[2] = COLON
    BY <1>3, <1>7
<1>9. \A i \in 1..Len(w) : t[i + 2] = w[i]
    BY <1>3, <1>7
<1>10. \A i \in DOMAIN t : t[i] \in Int
    <2> TAKE i \in DOMAIN t
    <2>1. CASE i <= 2
        BY <1>1, <1>3, <1>7, <1>8, <2>1 DEF COLON
    <2>2. CASE i > 2
        BY <1>3, <1>6, <1>7, <2>2
    <2> QED
        BY <1>3, <1>7, <2>1, <2>2
<1>11. toString(r) = t
    BY <1>4, <1>5 DEF t
<1>12. Len(t) = Len(w) + 2 /\ DOMAIN t = 1..(Len(w) + 2)
    BY <1>3, <1>7
<1> QED
    BY <1>2, <1>3, <1>6, <1>8, <1>9, <1>10, <1>11, <1>12 DEF s, w

LEMMA TextsOrdered ==
    ASSUME NEW l \in PointersInto(3), Decimal(l.offset),
           NEW r \in PointersInto(3), Decimal(r.offset)
    PROVE /\ l.segmentId < r.segmentId
                => TextLeq(toString(l), toString(r)) /\ ~TextLeq(toString(r), toString(l))
          /\ (/\ l.segmentId = r.segmentId /\ l.offset < r.offset
              /\ Len(digits[l.offset]) = Len(digits[r.offset]))
                => TextLeq(toString(l), toString(r)) /\ ~TextLeq(toString(r), toString(l))
<1> DEFINE s == toString(l)
           t == toString(r)
           v == digits[l.offset]
           w == digits[r.offset]
<1>1. /\ Len(s) = Len(v) + 2 /\ DOMAIN s = 1..(Len(v) + 2)
      /\ s[1] = l.segmentId /\ s[2] = COLON
      /\ \A i \in 1..Len(v) : s[i + 2] = v[i]
      /\ \A i \in DOMAIN s : s[i] \in Int
      /\ Len(v) \in Nat /\ DOMAIN v = 1..Len(v)
    BY PointerText
<1>2. /\ Len(t) = Len(w) + 2 /\ DOMAIN t = 1..(Len(w) + 2)
      /\ t[1] = r.segmentId /\ t[2] = COLON
      /\ \A i \in 1..Len(w) : t[i + 2] = w[i]
      /\ \A i \in DOMAIN t : t[i] \in Int
      /\ Len(w) \in Nat /\ DOMAIN w = 1..Len(w)
    BY PointerText
<1>3. l.offset \in Nat /\ r.offset \in Nat
    BY DEF PointersInto, AddressesIn, Relocatables
<1>4. ASSUME l.offset < r.offset, Len(v) = Len(w)
      PROVE \E d \in Nat : DifferAt(d, v, w)
    BY <1>3, <1>4, DigitsOrdered
<1> HIDE DEF s, t, v, w
<1>5. ASSUME NEW d \in Nat, DifferAt(d, s, t)
      PROVE TextLeq(s, t) /\ ~TextLeq(t, s)
    <2>1. PICK n \in Nat : n = Len(v) + 2
        BY <1>1
    <2>2. PICK m \in Nat : m = Len(w) + 2
        BY <1>2
    <2>3. /\ DOMAIN s = 1..n /\ Len(s) = n /\ \A i \in 1..n : s[i] \in Int
          /\ DOMAIN t = 1..m /\ Len(t) = m /\ \A i \in 1..m : t[i] \in Int
        BY <1>1, <1>2, <2>1, <2>2
    <2> QED
        BY <1>5, <2>3, FirstDifferenceDecides
<1>6. ASSUME l.segmentId < r.segmentId
      PROVE DifferAt(1, s, t)
    BY <1>1, <1>2, <1>6 DEF DifferAt
<1>7. ASSUME l.segmentId = r.segmentId, l.offset < r.offset, Len(v) = Len(w)
      PROVE \E d \in Nat : DifferAt(d, s, t)
    <2>1. PICK d \in Nat : DifferAt(d, v, w)
        BY <1>4, <1>7
    <2>2. d \in 1..Len(v) /\ d \in 1..Len(w) /\ v[d] < w[d]
          /\ \A j \in 1..(d - 1) : v[j] = w[j]
        BY <1>1, <1>2, <2>1 DEF DifferAt
    <2>3. d + 2 \in DOMAIN s /\ d + 2 \in DOMAIN t /\ s[d + 2] < t[d + 2]
        BY <1>1, <1>2, <2>2
    <2>4. ASSUME NEW j \in 1..(d + 1)
          PROVE s[j] = t[j]
        <3>1. CASE j <= 2
            BY <1>1, <1>2, <1>7, <3>1
        <3>2. CASE j > 2
            <4>1. PICK i \in 1..(d - 1) : j = i + 2
                BY <3>2
            <4>2. i \in 1..Len(v) /\ i \in 1..Len(w) /\ v[i] = w[i]
                BY <1>1, <1>2, <2>2, <4>1
            <4> QED
                BY <1>1, <1>2, <4>1, <4>2
        <3> QED
            BY <3>1, <3>2
    <2>5. DifferAt(d + 2, s, t)
        BY <2>3, <2>4 DEF DifferAt
    <2> QED
        BY <2>5
<1> QED
    BY <1>5, <1>6, <1>7 DEF s, t, v, w

-----------------------------------------------------------------------------
(* The inductive invariant *)

Positions == {Number(pos) : pos \in 0..2}

\* The hints that returned
Call ==
    [hint : {"arcs"}, at : PointersInto(3), a : Felts, b : Felts, excluded : Positions]
    \cup [hint : {"first", "second"}, at : PointersInto(3), excluded : Positions]
    \cup [hint : {"address"}, at : PointersInto(3), lhs : PointersInto(3),
          rhs : PointersInto(3)]

\* What a call for the arcs has left in the four cells, and in the scope
ArcsHold(m, call) ==
    /\ \A k \in 0..3 : CellAt(m, AddOffset(call.at, k)) \in Felts
    /\ \E order \in [1..3 -> 1..3] :
          LET n == LengthsOf(call.a, call.b)
          IN /\ {order[i] : i \in 1..3} = 1..3
             /\ RebuiltIn(m, call.at, PrimeOver3High) = n[order[1]]
             /\ RebuiltIn(m, AddOffset(call.at, 2), PrimeOver2High) = n[order[2]]
             /\ \A i \in 1..2 : n[order[i]] <= n[order[3]]
             /\ call.excluded = Number(order[3] - 1)

\* The answer about a and b, in the order of their texts
Answer(a, b) == Felt(IF TextLeq(toString(a), toString(b)) THEN 1 ELSE 0)

\* What a call for two addresses has left in its cell
AnswerHolds(m, call) == CellAt(m, call.at) = Answer(call.lhs, call.rhs)

\* What the invariant says of a call
CallHolds(m, call) ==
    /\ call.hint = "arcs" => ArcsHold(m, call)
    /\ call.hint = "address" => AnswerHolds(m, call)

\* The memory of the machine: three segments, the third range-checked, and the
\* program's cells still as they were
MachineMemory(m) ==
    /\ m \in Memories(Within(3)) /\ Len(m) = 3
    /\ m[3].builtin = "range_check" /\ RangeChecked(m)
    /\ Extends(Frame, m[2].cells)

\* The inductive invariant: the cells of every call for the arcs, or for the order
\* of two addresses, still hold them.
IInv ==
    /\ MachineMemory(segments)
    /\ ap \in Nat
    /\ \A name \in DOMAIN scope : scope[name] \in Positions
    /\ calls \in Seq(Call)
    /\ \A k \in DOMAIN calls : CallHolds(segments, calls[k])

\* The two answers differ.
LEMMA AnswerTells ==
    ASSUME NEW a, NEW b
    PROVE /\ Answer(a, b) \in Felts
          /\ Answer(a, b) = Felt(1) <=> TextLeq(toString(a), toString(b))
<1>1. P \in Nat /\ P > 1
    BY FieldAssumption
<1>2. Felt(1) = [tag |-> "felt", inner |-> 1] /\ Felt(0) = [tag |-> "felt", inner |-> 0]
    BY <1>1 DEF Felt
<1>3. Felt(1) \in Felts /\ Felt(0) \in Felts /\ Felt(1) # Felt(0)
    <2>1. Felt(1).inner = 1 /\ Felt(0).inner = 0
        BY <1>2
    <2> QED
        BY <1>1, <1>2, <2>1 DEF Felts
<1> QED
    BY <1>3 DEF Answer

LEMMA OrderedAddresses ==
    ASSUME IInv, NEW k \in DOMAIN calls, calls[k].hint = "address",
           Decimal(calls[k].lhs.offset), Decimal(calls[k].rhs.offset)
    PROVE LET l == calls[k].lhs
              r == calls[k].rhs
              sameSegment == l.segmentId = r.segmentId
              asWide == l.offset >= 0 /\ Len(NumberText(l.offset)) = Len(NumberText(r.offset))
          IN /\ sameSegment /\ asWide =>
                    (Held(calls[k].at) = Felt(1) <=> l.offset <= r.offset)
             /\ ~sameSegment /\ {l.segmentId, r.segmentId} \subseteq 0..9 =>
                    (Held(calls[k].at) = Felt(1) <=> l.segmentId < r.segmentId)
<1>1. calls[k] \in Call
    BY ElementOfSeq, LenProperties DEF IInv
<1>2. PICK l \in PointersInto(3) : l = calls[k].lhs
    BY <1>1 DEF Call
<1>3. PICK r \in PointersInto(3) : r = calls[k].rhs
    BY <1>1 DEF Call
<1>4. Decimal(l.offset) /\ Decimal(r.offset)
    BY <1>2, <1>3
<1>5. Held(calls[k].at) = Felt(1) <=> TextLeq(toString(l), toString(r))
    <2>1. Held(calls[k].at) = Answer(l, r)
        BY <1>2, <1>3 DEF IInv, CallHolds, AnswerHolds, Held
    <2> QED
        BY <2>1, AnswerTells
<1>6. /\ l.segmentId \in Nat /\ r.segmentId \in Nat /\ l.offset \in Nat /\ r.offset \in Nat
      /\ l.segmentId = r.segmentId /\ l.offset = r.offset => l = r
    BY DEF PointersInto, AddressesIn, Relocatables
<1>7. NumberText(l.offset) = digits[l.offset] /\ NumberText(r.offset) = digits[r.offset]
    BY <1>4, PointerText
<1>8. ASSUME l.segmentId = r.segmentId, Len(NumberText(l.offset)) = Len(NumberText(r.offset))
      PROVE TextLeq(toString(l), toString(r)) <=> l.offset <= r.offset
    <2>1. Len(digits[l.offset]) = Len(digits[r.offset])
        BY <1>7, <1>8
    <2>2. CASE l.offset < r.offset
        BY <1>4, <1>6, <1>8, <2>1, <2>2, TextsOrdered
    <2>3. CASE r.offset < l.offset
        <3>1. ~TextLeq(toString(l), toString(r))
            BY <1>4, <1>8, <2>1, <2>3, TextsOrdered
        <3> QED
            BY <1>6, <2>3, <3>1
    <2>4. CASE l.offset = r.offset
        <3>1. l = r
            BY <1>6, <1>8, <2>4
        <3>2. TextLeq(toString(l), toString(r))
            BY <3>1 DEF TextLeq
        <3> QED
            BY <1>6, <2>4, <3>2
    <2> QED
        BY <1>6, <2>2, <2>3, <2>4
<1>9. ASSUME l.segmentId # r.segmentId
      PROVE TextLeq(toString(l), toString(r)) <=> l.segmentId < r.segmentId
    <2>1. CASE l.segmentId < r.segmentId
        BY <1>4, <2>1, TextsOrdered
    <2>2. CASE r.segmentId < l.segmentId
        <3>1. ~TextLeq(toString(l), toString(r))
            BY <1>4, <2>2, TextsOrdered
        <3> QED
            BY <1>6, <2>2, <3>1
    <2> QED
        BY <1>6, <1>9, <2>1, <2>2
<1> QED
    BY <1>2, <1>3, <1>5, <1>8, <1>9

LEMMA IInvImplies == IInv => TypeOK /\ SmallArcsAreRebuilt /\ AlikeAddressesAreOrdered
<1> SUFFICES ASSUME IInv
             PROVE TypeOK /\ SmallArcsAreRebuilt /\ AlikeAddressesAreOrdered
    OBVIOUS
<1>1. TypeOK
    <2>1. ASSUME NEW i \in DOMAIN segments
          PROVE segments[i].cells \in [DOMAIN segments[i].cells -> SegmentValue]
        <3>1. segments[i].cells \in CellMaps(Within(3))
            BY MemoryTypes DEF IInv, MachineMemory
        <3>2. Within(3) \subseteq SegmentValue
            BY DEF Within
        <3> QED
            BY <3>1, <3>2, CellMapsDef
    <2> QED
        BY <2>1 DEF IInv, TypeOK, Positions
<1>2. SmallArcsAreRebuilt
    <2> SUFFICES ASSUME NEW k \in DOMAIN calls, calls[k].hint = "arcs"
                 PROVE \E order \in [1..3 -> 1..3] :
                    /\ {order[i] : i \in 1..3} = 1..3
                    /\ Rebuilt(calls[k].at, PrimeOver3High) = Lengths(calls[k])[order[1]]
                    /\ Rebuilt(AddOffset(calls[k].at, 2), PrimeOver2High)
                            = Lengths(calls[k])[order[2]]
                    /\ \A i \in 1..2 : Lengths(calls[k])[order[i]] <= Lengths(calls[k])[order[3]]
                    /\ calls[k].excluded = Number(order[3] - 1)
        BY DEF SmallArcsAreRebuilt, Called
    <2>1. ArcsHold(segments, calls[k])
        BY DEF IInv, CallHolds
    <2>2. Lengths(calls[k]) = LengthsOf(calls[k].a, calls[k].b)
        BY DEF Lengths, LengthsOf
    <2>3. \A at, high : Rebuilt(at, high) = RebuiltIn(segments, at, high)
        BY DEF Rebuilt, RebuiltIn, Held
    <2> QED
        BY <2>1, <2>2, <2>3 DEF ArcsHold
<1>3. AlikeAddressesAreOrdered
    BY OrderedAddresses, Zenon DEF AlikeAddressesAreOrdered, Called
<1> QED
    BY <1>1, <1>2, <1>3

LEMMA RegsTyped ==
    ASSUME IInv
    PROVE Regs \in RegistersIn(3) /\ dst \in PointersInto(3) /\ dst \in AddressesIn(3)
<1>1. \A i \in 0..2, o \in Nat : Relocatable(i, o) \in PointersInto(3)
    BY DEF Relocatable, PointersInto, AddressesIn, Relocatables
<1>2. Relocatable(0, 0) \in PointersInto(3) /\ Relocatable(1, ap) \in PointersInto(3)
      /\ Relocatable(1, 0) \in PointersInto(3)
    BY <1>1 DEF IInv
<1>3. Regs \in RegistersIn(3)
    BY <1>2 DEF Regs, RegistersIn
<1>4. dst = Relocatable(1, ap)
    BY DEF dst, Regs
<1> QED
    BY <1>2, <1>3, <1>4 DEF PointersInto

LEMMA KeptMemory ==
    ASSUME NEW m, MachineMemory(m), NEW k, Kept(3, m, k)
    PROVE MachineMemory(k)
<1>1. /\ DOMAIN m = 1..3 /\ Len(m) = 3
      /\ k \in Memories(Within(3)) /\ Len(k) = 3 /\ RangeChecked(k)
      /\ Grows(m, k)
    BY MemoryTypes DEF MachineMemory, Kept
<1>2. Extends(m[2].cells, k[2].cells) /\ k[3].builtin = m[3].builtin
    BY <1>1 DEF Grows
<1>3. Extends(Frame, k[2].cells)
    BY <1>2 DEF MachineMemory, Extends
<1> QED
    BY <1>1, <1>2, <1>3 DEF MachineMemory

\* What a call has left stays, whatever is written next.
LEMMA ArcsHoldKept ==
    ASSUME NEW m, MachineMemory(m), NEW k, Kept(3, m, k), NEW call,
           call.at \in PointersInto(3), ArcsHold(m, call)
    PROVE ArcsHold(k, call)
<1> DEFINE at == call.at
           A(x) == AddOffset(at, x)
<1>1. m \in Memories(Within(3)) /\ Len(m) = 3 /\ Grows(m, k) /\ 3 \in Nat
    BY DEF MachineMemory, Kept
<1>2. \A x \in 0..3 : CellAt(k, A(x)) = CellAt(m, A(x))
    <2> SUFFICES ASSUME NEW x \in 0..3
                 PROVE CellAt(k, A(x)) = CellAt(m, A(x))
        OBVIOUS
    <2>1. A(x) \in AddressesIn(3)
        BY PointerFacts
    <2>2. A(x) \in Relocatables /\ InSegment(m, A(x))
        BY <1>1, <2>1 DEF AddressesIn, InSegment
    <2>3. CellAt(m, A(x)) # undefined
        BY Tags DEF ArcsHold
    <2> HIDE DEF A
    <2> QED
        BY <1>1, <2>2, <2>3, CellAtGrows, WithinClosed
<1>3. A(0) = at /\ AddOffset(A(2), 1) = A(3)
    BY DEF AddOffset, Relocatable, PointersInto, AddressesIn, Relocatables
<1>4. \A high : /\ RebuiltIn(k, at, high) = RebuiltIn(m, at, high)
                /\ RebuiltIn(k, A(2), high) = RebuiltIn(m, A(2), high)
    <2>1. CellAt(k, at) = CellAt(m, at) /\ CellAt(k, A(1)) = CellAt(m, A(1))
          /\ CellAt(k, A(2)) = CellAt(m, A(2)) /\ CellAt(k, A(3)) = CellAt(m, A(3))
        BY <1>2, <1>3
    <2> HIDE DEF at
    <2> QED
        BY <1>3, <2>1 DEF RebuiltIn
<1> QED
    BY <1>2, <1>4 DEF ArcsHold

LEMMA AnswerHoldsKept ==
    ASSUME NEW m, MachineMemory(m), NEW k, Kept(3, m, k), NEW call,
           call.at \in PointersInto(3), AnswerHolds(m, call)
    PROVE AnswerHolds(k, call)
<1>1. m \in Memories(Within(3)) /\ Len(m) = 3 /\ Grows(m, k) /\ 3 \in Nat
    BY DEF MachineMemory, Kept
<1>2. PICK at \in PointersInto(3) : at = call.at
    OBVIOUS
<1>3. at \in AddressesIn(3)
    BY PointerFacts
<1>4. at \in Relocatables /\ InSegment(m, at)
    BY <1>1, <1>3 DEF AddressesIn, InSegment
<1>5. CellAt(m, at) = Answer(call.lhs, call.rhs)
    BY <1>2 DEF AnswerHolds
<1>6. CellAt(m, at) # undefined
    <2>1. Answer(call.lhs, call.rhs) \in Felts
        BY AnswerTells
    <2> QED
        BY <1>5, <2>1, Tags
<1>7. CellAt(k, at) = CellAt(m, at)
    BY <1>1, <1>4, <1>6, CellAtGrows, WithinClosed
<1> QED
    BY <1>2, <1>5, <1>7 DEF AnswerHolds

LEMMA CallHoldsKept ==
    ASSUME NEW m, MachineMemory(m), NEW k, Kept(3, m, k), NEW call,
           call.at \in PointersInto(3), CallHolds(m, call)
    PROVE CallHolds(k, call)
<1>1. call.hint = "arcs" => ArcsHold(k, call)
    <2>1. call.hint = "arcs" => ArcsHold(m, call)
        BY DEF CallHolds
    <2> QED
        BY <2>1, ArcsHoldKept
<1>2. call.hint = "address" => AnswerHolds(k, call)
    <2>1. call.hint = "address" => AnswerHolds(m, call)
        BY DEF CallHolds
    <2> QED
        BY <2>1, AnswerHoldsKept
<1> QED
    BY <1>1, <1>2 DEF CallHolds

LEMMA InitIInv == Init => IInv
<1> SUFFICES ASSUME Init
             PROVE IInv
    OBVIOUS
<1>1. Frame \in CellMaps(Within(3))
    <2>1. \A r \in [tag : {"relocatable"}, segmentId : 0..2, offset : Nat] :
              r \in Relocatables /\ r.segmentId < 3 /\ r.offset >= 0
        BY DEF Relocatables
    <2>2. Felts \subseteq Within(3)
        BY FeltsWithin
    <2>3. Frame \in [DOMAIN Frame -> Within(3)]
        BY <2>1, <2>2, FrameAssumption DEF Within, SegmentValue
    <2>4. DOMAIN Frame \in SUBSET Int
        BY FrameAssumption
    <2> QED
        BY <2>3, <2>4 DEF CellMaps
<1>2. NoCells \in CellMaps(Within(3))
    BY CellMapsDef DEF NoCells
<1>3. "none" \in Builtins /\ "range_check" \in Builtins
    BY ComparisonAssumption
<1>4. /\ Segment("none") \in Segments(Within(3))
      /\ [builtin |-> "none", cells |-> Frame] \in Segments(Within(3))
      /\ Segment("range_check") \in Segments(Within(3))
    BY <1>1, <1>2, <1>3 DEF Segment, Segments
<1>5. segments = <<Segment("none"), [builtin |-> "none", cells |-> Frame],
                   Segment("range_check")>>
    BY DEF Init
<1>6. /\ segments \in Memories(Within(3)) /\ Len(segments) = 3
      /\ segments[1].builtin = "none" /\ segments[2].builtin = "none"
      /\ segments[2].cells = Frame
      /\ segments[3].builtin = "range_check" /\ segments[3].cells = NoCells
    BY <1>4, <1>5 DEF Memories, Segment
<1>7. RangeChecked(segments)
    <2>1. DOMAIN segments = 1..3
        BY <1>6, MemoryTypes
    <2>2. InBounds(NoCells)
        BY DEF NoCells, InBounds
    <2> QED
        BY <1>6, <2>1, <2>2 DEF RangeChecked
<1>8. MachineMemory(segments)
    BY <1>6, <1>7 DEF MachineMemory, Extends
<1>9. ap \in Nat
    BY <1>1, LengthType DEF Init
<1> QED
    BY <1>8, <1>9, EmptySeq DEF Init, IInv

-----------------------------------------------------------------------------
(* The variable of the scope *)

\* Current, in any sequence of calls
CurrentIn(s, k) ==
    {j \in 1..(k - 1) : /\ s[j].hint = "arcs"
                       /\ \A i \in (j + 1)..(k - 1) : s[i].hint # "arcs"}

\* The flags before were of the comparison they belong to.
FlagsAreCurrent(s) ==
    \A k \in DOMAIN s : s[k].hint \in {"first", "second"} =>
        /\ CurrentIn(s, k) # {}
        /\ \A j \in CurrentIn(s, k) : s[k].excluded = s[j].excluded

\* The next flag will be: the position that its comparison found is in the scope.
ScopeIsCurrent(s, variables) ==
    /\ "excluded_arc" \in DOMAIN variables => CurrentIn(s, Len(s) + 1) # {}
    /\ \A j \in CurrentIn(s, Len(s) + 1) :
          /\ "excluded_arc" \in DOMAIN variables
          /\ variables["excluded_arc"] = s[j].excluded

ScopeInv ==
    /\ FlagsAreCurrent(calls)
    /\ thrown = undefined => ScopeIsCurrent(calls, scope)

LEMMA InitScopeInv == Init => ScopeInv
<1> SUFFICES ASSUME Init
             PROVE ScopeInv
    OBVIOUS
<1>1. calls = <<>> /\ Len(calls) = 0 /\ DOMAIN calls = {} /\ DOMAIN scope = {}
    BY DEF Init
<1>2. CurrentIn(calls, Len(calls) + 1) = {}
    BY <1>1 DEF CurrentIn
<1> QED
    BY <1>1, <1>2 DEF ScopeInv, FlagsAreCurrent, ScopeIsCurrent

\* A hint that returned begins the current comparison or leaves it as it is.
BeginsOrKeeps(n, s, call, t) ==
    /\ n \in Nat /\ DOMAIN s = 1..n /\ DOMAIN t = 1..(n + 1) /\ Len(t) = n + 1
    /\ \A k \in 1..n : t[k] = s[k]
    /\ t[n + 1] = call
    /\ \A k \in 1..(n + 1) : /\ CurrentIn(t, k) = CurrentIn(s, k)
                             /\ CurrentIn(t, k) \subseteq 1..n
    /\ CurrentIn(t, n + 2) = IF call.hint = "arcs" THEN {n + 1} ELSE CurrentIn(s, n + 1)

LEMMA CurrentAppended ==
    ASSUME NEW S, NEW s \in Seq(S), NEW call \in S
    PROVE BeginsOrKeeps(Len(s), s, call, Append(s, call))
<1> DEFINE n == Len(s)
           t == Append(s, call)
<1>1. n \in Nat /\ DOMAIN s = 1..n
    BY LenProperties
<1>2. /\ DOMAIN t = 1..(n + 1) /\ Len(t) = n + 1
      /\ \A k \in 1..n : t[k] = s[k]
      /\ t[n + 1] = call
    BY <1>1, AppendProperties
<1> HIDE DEF n, t
<1>3. ASSUME NEW k \in 1..(n + 1)
      PROVE CurrentIn(t, k) = CurrentIn(s, k) /\ CurrentIn(t, k) \subseteq 1..n
    <2>1. \A i \in 1..(k - 1) : i \in 1..n /\ t[i] = s[i]
        BY <1>1, <1>2
    <2>2. \A j \in 1..(k - 1) : \A i \in (j + 1)..(k - 1) : i \in 1..(k - 1)
        BY <1>1
    <2> QED
        BY <2>1, <2>2 DEF CurrentIn
<1>4. (n + 2) - 1 = n + 1 /\ (n + 1) - 1 = n
    BY <1>1
<1>5. ASSUME call.hint = "arcs"
      PROVE CurrentIn(t, n + 2) = {n + 1}
    <2>1. ASSUME NEW j \in 1..(n + 1)
          PROVE j \in CurrentIn(t, n + 2) <=> j = n + 1
        <3>1. CASE j = n + 1
            BY <1>1, <1>2, <1>4, <1>5, <3>1 DEF CurrentIn
        <3>2. CASE j # n + 1
            <4>1. n + 1 \in (j + 1)..(n + 1)
                BY <1>1, <3>2
            <4> QED
                BY <1>1, <1>2, <1>4, <1>5, <3>2, <4>1 DEF CurrentIn
        <3> QED
            BY <3>1, <3>2
    <2>2. CurrentIn(t, n + 2) \subseteq 1..(n + 1)
        BY <1>4 DEF CurrentIn
    <2> QED
        BY <1>1, <2>1, <2>2
<1>6. ASSUME call.hint # "arcs"
      PROVE CurrentIn(t, n + 2) = CurrentIn(s, n + 1)
    <2>1. ASSUME NEW j \in 1..(n + 1)
          PROVE j \in CurrentIn(t, n + 2) <=> j \in CurrentIn(s, n + 1)
        <3>1. CASE j = n + 1
            BY <1>1, <1>2, <1>4, <1>6, <3>1 DEF CurrentIn
        <3>2. CASE j # n + 1
            <4>1. j \in 1..n /\ t[j] = s[j]
                BY <1>1, <1>2, <3>2
            <4>2. (\A i \in (j + 1)..(n + 1) : t[i].hint # "arcs")
                    <=> (\A i \in (j + 1)..n : s[i].hint # "arcs")
                <5>1. \A i \in (j + 1)..n : i \in (j + 1)..(n + 1) /\ i \in 1..n
                    BY <1>1, <4>1
                <5>2. \A i \in (j + 1)..(n + 1) : i \in (j + 1)..n \/ i = n + 1
                    BY <1>1, <4>1
                <5> QED
                    BY <1>2, <1>6, <5>1, <5>2
            <4> QED
                BY <1>1, <1>4, <4>1, <4>2 DEF CurrentIn
        <3> QED
            BY <3>1, <3>2
    <2>2. CurrentIn(t, n + 2) \subseteq 1..(n + 1) /\ CurrentIn(s, n + 1) \subseteq 1..(n + 1)
        BY <1>1, <1>4 DEF CurrentIn
    <2> QED
        BY <2>1, <2>2
<1> QED
    BY <1>1, <1>2, <1>3, <1>5, <1>6 DEF n, t, BeginsOrKeeps

\* A hint that returned has overwritten the variable, or only read it.
LEMMA AppendedIsCurrent ==
    ASSUME NEW S, NEW s \in Seq(S), NEW call \in S, NEW before, NEW after,
           FlagsAreCurrent(s), ScopeIsCurrent(s, before),
           call.hint = "arcs" => /\ "excluded_arc" \in DOMAIN after
                                 /\ after["excluded_arc"] = call.excluded,
           call.hint # "arcs" => after = before,
           call.hint \in {"first", "second"} =>
              /\ "excluded_arc" \in DOMAIN before
              /\ before["excluded_arc"] = call.excluded
    PROVE LET t == Append(s, call)
          IN FlagsAreCurrent(t) /\ ScopeIsCurrent(t, after)
<1> DEFINE n == Len(s)
           t == Append(s, call)
<1>1. /\ n \in Nat /\ DOMAIN s = 1..n /\ DOMAIN t = 1..(n + 1) /\ Len(t) = n + 1
      /\ \A k \in 1..n : t[k] = s[k]
      /\ t[n + 1] = call
      /\ \A k \in 1..(n + 1) : /\ CurrentIn(t, k) = CurrentIn(s, k)
                               /\ CurrentIn(t, k) \subseteq 1..n
      /\ CurrentIn(t, n + 2) = IF call.hint = "arcs" THEN {n + 1} ELSE CurrentIn(s, n + 1)
    <2> HIDE DEF n, t
    <2>1. BeginsOrKeeps(n, s, call, t)
        BY CurrentAppended DEF n, t
    <2> QED
        BY <2>1 DEF BeginsOrKeeps
<1>2. /\ "excluded_arc" \in DOMAIN before => CurrentIn(s, n + 1) # {}
      /\ \A j \in CurrentIn(s, n + 1) :
            "excluded_arc" \in DOMAIN before /\ before["excluded_arc"] = s[j].excluded
    BY DEF ScopeIsCurrent
<1> HIDE DEF n, t
<1>3. n + 1 \in 1..(n + 1) /\ (n + 1) + 1 = n + 2
    BY <1>1
<1>4. ASSUME NEW k \in 1..(n + 1), t[k].hint \in {"first", "second"}
      PROVE /\ CurrentIn(t, k) # {}
            /\ \A j \in CurrentIn(t, k) : t[k].excluded = t[j].excluded
    <2>1. CurrentIn(t, k) = CurrentIn(s, k) /\ \A j \in CurrentIn(s, k) : t[j] = s[j]
        BY <1>1
    <2>2. CASE k = n + 1
        <3>1. call.hint \in {"first", "second"}
            BY <1>1, <1>4, <2>2
        <3>2. CurrentIn(s, n + 1) # {}
              /\ \A j \in CurrentIn(s, n + 1) : call.excluded = s[j].excluded
            BY <1>2, <3>1
        <3> QED
            BY <1>1, <2>1, <2>2, <3>2
    <2>3. CASE k # n + 1
        <3>1. k \in DOMAIN s /\ t[k] = s[k]
            BY <1>1, <2>3
        <3> QED
            BY <1>4, <2>1, <3>1 DEF FlagsAreCurrent
    <2> QED
        BY <2>2, <2>3
<1>5. /\ "excluded_arc" \in DOMAIN after => CurrentIn(t, n + 2) # {}
      /\ \A j \in CurrentIn(t, n + 2) :
            "excluded_arc" \in DOMAIN after /\ after["excluded_arc"] = t[j].excluded
    <2>1. CASE call.hint = "arcs"
        BY <1>1, <2>1
    <2>2. CASE call.hint # "arcs"
        <3>1. CurrentIn(t, n + 2) = CurrentIn(s, n + 1)
            BY <1>1, <2>2
        <3>2. \A j \in CurrentIn(s, n + 1) : t[j] = s[j]
            BY <1>1, <1>3
        <3> QED
            BY <1>2, <2>2, <3>1, <3>2
    <2> QED
        BY <2>1, <2>2
<1>6. FlagsAreCurrent(t)
    BY <1>1, <1>4 DEF FlagsAreCurrent
<1>7. ScopeIsCurrent(t, after)
    BY <1>1, <1>3, <1>5 DEF ScopeIsCurrent
<1> QED
    BY <1>6, <1>7 DEF t

\* The hints are called while none has thrown.
ScopeStays == ScopeInv /\ thrown = undefined => ScopeInv'

LEMMA ReturnScopeInv ==
    ASSUME IInv, NEW write, NEW call, Return(write, call),
           isError(write.value) \/ call \in Call,
           isError(write.value) \/
              /\ call.hint = "arcs" => /\ "excluded_arc" \in DOMAIN scope'
                                       /\ scope'["excluded_arc"] = call.excluded
              /\ call.hint # "arcs" => scope' = scope
              /\ call.hint \in {"first", "second"} =>
                    /\ "excluded_arc" \in DOMAIN scope
                    /\ scope["excluded_arc"] = call.excluded
    PROVE ScopeStays
<1> SUFFICES ASSUME ScopeInv, thrown = undefined
             PROVE ScopeInv'
    BY DEF ScopeStays
<1>1. CASE isError(write.value)
    <2>1. calls' = calls /\ thrown' # undefined
        BY <1>1, Tags DEF Return
    <2> QED
        BY <2>1 DEF ScopeInv
<1>2. CASE ~isError(write.value)
    <2>1. calls' = Append(calls, call) /\ thrown' = undefined
        BY <1>2 DEF Return
    <2>2. calls \in Seq(Call) /\ call \in Call
        BY <1>2 DEF IInv
    <2>3. FlagsAreCurrent(calls) /\ ScopeIsCurrent(calls, scope)
        BY DEF ScopeInv
    <2>4. FlagsAreCurrent(Append(calls, call)) /\ ScopeIsCurrent(Append(calls, call), scope')
        BY <1>2, <2>2, <2>3, AppendedIsCurrent
    <2> QED
        BY <2>1, <2>4 DEF ScopeInv
<1> QED
    BY <1>1, <1>2

-----------------------------------------------------------------------------
(* The hints *)

\* A hint leaves its write, and what it returned for when it did.
LEMMA ReturnTyped ==
    ASSUME IInv, NEW write, NEW call, Return(write, call),
           Kept(3, segments, write.segments),
           \/ isError(write.value)
           \/ call \in Call /\ CallHolds(write.segments, call),
           \A name \in DOMAIN scope' : scope'[name] \in Positions
    PROVE IInv'
<1>1. segments' = write.segments /\ Kept(3, segments, segments') /\ MachineMemory(segments)
    BY DEF Return, IInv
<1>2. MachineMemory(segments')
    BY <1>1, KeptMemory
<1>3. calls \in Seq(Call) /\ Len(calls) \in Nat /\ DOMAIN calls = 1..Len(calls)
      /\ \A k \in DOMAIN calls : calls[k] \in Call
    BY ElementOfSeq, LenProperties DEF IInv
<1>4. ASSUME NEW k \in DOMAIN calls
      PROVE CallHolds(segments', calls[k])
    <2>1. CallHolds(segments, calls[k])
        BY <1>4 DEF IInv
    <2>2. calls[k].at \in PointersInto(3)
        BY <1>3 DEF Call
    <2> QED
        BY <1>1, <2>1, <2>2, CallHoldsKept
<1>5. CASE isError(write.value)
    BY <1>2, <1>3, <1>4, <1>5 DEF Return, IInv
<1>6. CASE ~isError(write.value)
    <2>1. calls' = Append(calls, call) /\ ap' = ap + 1
        BY <1>6 DEF Return
    <2>2. call \in Call /\ CallHolds(segments', call)
        BY <1>1, <1>6
    <2>3. /\ calls' \in Seq(Call) /\ DOMAIN calls' = 1..(Len(calls) + 1)
          /\ \A k \in DOMAIN calls : calls'[k] = calls[k]
          /\ calls'[Len(calls) + 1] = call
        BY <1>3, <2>1, <2>2, AppendProperties
    <2>4. ASSUME NEW k \in DOMAIN calls'
          PROVE CallHolds(segments', calls'[k])
        <3>1. k \in DOMAIN calls \/ k = Len(calls) + 1
            BY <1>3, <2>3
        <3> QED
            BY <1>4, <2>2, <2>3, <2>4, <3>1
    <2> QED
        BY <1>2, <2>1, <2>3, <2>4 DEF IInv
<1> QED
    BY <1>5, <1>6

LEMMA FlagTyped ==
    ASSUME IInv, NEW hint \in {"first", "second"}, NEW pos, AssertFlag(hint, pos)
    PROVE IInv' /\ ScopeStays
<1> DEFINE excludedArc == getVariable("excluded_arc")
           flag == Felt(IF posOf(excludedArc) # Number(pos) THEN 1 ELSE 0)
           write == IF isError(excludedArc)
                      THEN Result(segments, excludedArc)
                      ELSE assertEq(segments, dst, flag)
           call == [hint |-> hint, at |-> dst, excluded |-> excludedArc]
<1>1. Return(write, call) /\ UNCHANGED scope
    BY DEF AssertFlag
<1>2. segments \in Memories(Within(3)) /\ \A name \in DOMAIN scope : scope[name] \in Positions
    BY DEF IInv, MachineMemory
<1>3. excludedArc \in Positions \/ isError(excludedArc)
    BY <1>2 DEF getVariable, isError, Error
<1>4. flag \in Within(3)
    <2>1. (IF posOf(excludedArc) # Number(pos) THEN 1 ELSE 0) \in Int
        OBVIOUS
    <2> QED
        BY <2>1, FeltType, FeltsWithin
<1> HIDE DEF excludedArc, flag
<1>5. Kept(3, segments, write.segments)
    BY <1>2, <1>4, RegsTyped, assertEqKept, KeptReflexive DEF Result
<1>6. isError(write.value) \/ call \in Call
    BY <1>3, RegsTyped DEF Result, Call
<1>7. CallHolds(write.segments, call)
    <2>1. call.hint # "arcs" /\ call.hint # "address"
        OBVIOUS
    <2> HIDE DEF write, call
    <2> QED
        BY <2>1 DEF CallHolds
<1>8. isError(write.value) \/
        /\ call.hint # "arcs"
        /\ "excluded_arc" \in DOMAIN scope /\ scope["excluded_arc"] = call.excluded
    <2>1. isError(write.value) \/ ~isError(excludedArc)
        BY DEF Result
    <2>2. ~isError(excludedArc) =>
            "excluded_arc" \in DOMAIN scope /\ scope["excluded_arc"] = excludedArc
        BY DEF excludedArc, getVariable, isError, Error
    <2>3. call.hint # "arcs" /\ call.excluded = excludedArc
        OBVIOUS
    <2> HIDE DEF write, call
    <2> QED
        BY <2>1, <2>2, <2>3
<1> HIDE DEF write, call
<1> QED
    BY <1>1, <1>2, <1>5, <1>6, <1>7, <1>8, ReturnTyped, ReturnScopeInv

LEMMA AddressTyped ==
    ASSUME IInv, NEW lhs \in ResOperand, NEW rhs \in ResOperand,
           testLessThanOrEqualAddress(lhs, rhs)
    PROVE IInv' /\ ScopeStays
<1> DEFINE left == getResOperandRelocatable(segments, Regs, lhs)
           right == getResOperandRelocatable(left.segments, Regs, rhs)
           of == Both(left, right)
           answer == Answer(of.lhs, of.rhs)
           write == StoreAnswer(of)
           call == [hint |-> "address", at |-> dst, lhs |-> of.lhs, rhs |-> of.rhs]
<1>1. Return(write, call) /\ UNCHANGED scope
    BY DEF testLessThanOrEqualAddress
<1>2. segments \in Memories(Within(3)) /\ \A name \in DOMAIN scope : scope[name] \in Positions
    BY DEF IInv, MachineMemory
<1>3. /\ OperandTyped(3, segments, left)
      /\ isError(left.value) \/ left.value \in PointersInto(3)
    BY <1>2, RegsTyped, ResOperandRelocatableTyped
<1>4. of = IF isError(left.value)
             THEN [segments |-> left.segments, lhs |-> undefined, rhs |-> undefined,
                   error |-> left.value]
             ELSE [segments |-> right.segments, lhs |-> left.value, rhs |-> right.value,
                   error |-> IF isError(right.value) THEN right.value ELSE undefined]
    BY DEF Both
<1> HIDE DEF left
<1>5. left.segments \in Memories(Within(3)) /\ Kept(3, segments, left.segments)
    BY <1>3 DEF OperandTyped, Kept
<1>6. /\ OperandTyped(3, left.segments, right)
      /\ isError(right.value) \/ right.value \in PointersInto(3)
    BY <1>5, RegsTyped, ResOperandRelocatableTyped
<1> HIDE DEF right
<1>7. Kept(3, segments, right.segments)
    BY <1>2, <1>5, <1>6, KeptTransitive DEF OperandTyped
<1>8. /\ Kept(3, segments, of.segments)
      /\ \/ isError(of.error)
         \/ of.lhs \in PointersInto(3) /\ of.rhs \in PointersInto(3)
    BY <1>3, <1>4, <1>5, <1>6, <1>7
<1>9. answer \in Within(3)
    BY AnswerTells, FeltsWithin
<1>10. write = IF isError(of.error) THEN Result(of.segments, of.error)
                                    ELSE assertEq(of.segments, dst, answer)
    BY DEF StoreAnswer, Answer
<1> HIDE DEF of, answer, write
<1>11. of.segments \in Memories(Within(3))
    BY <1>8 DEF Kept
<1>12. Kept(3, of.segments, write.segments) /\ (isError(of.error) => isError(write.value))
    BY <1>9, <1>10, <1>11, RegsTyped, assertEqKept, KeptReflexive DEF Result
<1>13. Kept(3, segments, write.segments)
    BY <1>2, <1>8, <1>12, KeptTransitive
<1>14. isError(write.value) \/ call \in Call
    BY <1>8, <1>12, RegsTyped DEF Call
<1>15. isError(write.value) \/ CellAt(write.segments, dst) = answer
    BY <1>9, <1>10, <1>11, <1>12, RegsTyped, assertEqKept
<1>16. isError(write.value) \/ CallHolds(write.segments, call)
    <2>1. call.hint # "arcs" /\ call.at = dst /\ Answer(call.lhs, call.rhs) = answer
        BY DEF answer
    <2> HIDE DEF call
    <2> QED
        BY <1>15, <2>1 DEF CallHolds, AnswerHolds
<1>17. call.hint = "address"
    OBVIOUS
<1> HIDE DEF call
<1> QED
    BY <1>1, <1>2, <1>13, <1>14, <1>16, <1>17, ReturnTyped, ReturnScopeInv

\* The pointer the arcs are stored at is into the range check segment.
LEMMA PointerIsRangeCheck ==
    ASSUME IInv, NEW m, Kept(3, segments, m), NEW operand \in Pointers
    PROVE LET ptr == getPointer(m, Regs, operand)
          IN /\ Kept(3, m, ptr.segments) /\ Kept(3, segments, ptr.segments)
             /\ isError(ptr.value) => ptr.value \in Errors
             /\ \/ isError(ptr.value)
                \/ ptr.value \in PointersInto(3) /\ ptr.value.segmentId = RangeCheck
<1> DEFINE ptr == getPointer(m, Regs, operand)
           cell == PointerCell(operand)
           a == cellRefToRelocatable(Regs, cell)
<1>1. m \in Memories(Within(3)) /\ segments \in Memories(Within(3)) /\ MachineMemory(segments)
    BY DEF IInv, MachineMemory, Kept
<1>2. operand \in ResOperand
    BY ComparisonAssumption
<1>3. /\ Kept(3, m, ptr.segments)
      /\ ptr.value \in PointersInto(3) \cup Errors
      /\ \/ isError(ptr.value)
         \/ /\ operand.type \in {"Deref", "BinOp"} /\ cell \in CellRef
            /\ InSegment(m, a) /\ CellAt(ptr.segments, a) \in PointersInto(3)
            /\ \E f \in Felts : ptr.value = AddFelt(CellAt(ptr.segments, a), f)
    BY <1>1, <1>2, RegsTyped, getPointerTyped
<1>4. Kept(3, segments, ptr.segments)
    BY <1>1, <1>3, KeptTransitive
<1>5. MachineMemory(ptr.segments)
    BY <1>1, <1>4, KeptMemory
<1> HIDE DEF ptr
<1>6. ASSUME ~isError(ptr.value)
      PROVE ptr.value \in PointersInto(3) /\ ptr.value.segmentId = RangeCheck
    <2>1. ptr.value \in PointersInto(3)
        BY <1>3, <1>6, Tags
    <2>2. cell.register = "Fp" /\ cell.offset \in DOMAIN Frame
          /\ (isRelocatable(Frame[cell.offset]) => Frame[cell.offset].segmentId = RangeCheck)
        BY <1>3, <1>6, PointerAssumption DEF PointerCell
    <2> HIDE DEF cell
    <2>3. cell.offset \in Nat
        BY <2>2, FrameAssumption
    <2>4. a = Relocatable(1, cell.offset)
        BY <2>2, <2>3 DEF cellRefToRelocatable, AddOffset, Relocatable, Regs
    <2>5. CellAt(ptr.segments, a) = Frame[cell.offset]
        BY <1>5, <2>2, <2>4 DEF CellAt, At, Relocatable, MachineMemory, Extends
    <2>6. isRelocatable(CellAt(ptr.segments, a))
        BY <1>3, <1>6, PointerFacts
    <2>7. ptr.value.segmentId = CellAt(ptr.segments, a).segmentId
        BY <1>3, <1>6, AddFeltSegment
    <2> QED
        BY <2>1, <2>2, <2>5, <2>6, <2>7
<1>7. isError(ptr.value) => ptr.value \in Errors
    BY <1>3, PointerFacts
<1> QED
    BY <1>3, <1>4, <1>6, <1>7 DEF ptr

LEMMA ArcsTyped ==
    ASSUME IInv, NEW pointer \in Pointers, NEW a \in ResOperand, NEW b \in ResOperand,
           assertLeFindSmallArcs(pointer, a, b)
    PROVE IInv' /\ ScopeStays
<1> DEFINE hint == [lhs |-> a, rhs |-> b]
           of == Operands(segments, Regs, hint)
           arcs == Sorted(Arcs(of.lhs, of.rhs))
           ptr == getPointer(of.segments, Regs, pointer)
           at == ptr.value
           least == StoreArc(ptr, at, arcs[1], PrimeOver3High)
           both == StoreArc(least, AddOffset(at, 2), arcs[2], PrimeOver2High)
           call == [hint |-> "arcs", at |-> at, a |-> of.lhs, b |-> of.rhs,
                    excluded |-> arcs[3].pos]
           n == LengthsOf(of.lhs, of.rhs)
<1>1. segments \in Memories(Within(3)) /\ MachineMemory(segments)
      /\ \A name \in DOMAIN scope : scope[name] \in Positions
    BY DEF IInv, MachineMemory
<1>2. /\ Kept(3, segments, of.segments)
      /\ \/ isError(of.error)
         \/ of.lhs \in Felts /\ of.rhs \in Felts
    BY <1>1, RegsTyped, OperandsTyped
<1>3. FindArcs(of, pointer)
    BY DEF assertLeFindSmallArcs
<1>4. CASE isError(of.error)
    <2> HIDE DEF of
    <2>1. Return(Result(of.segments, of.error), undefined) /\ scope' = scope
        BY <1>3, <1>4 DEF FindArcs
    <2> QED
        BY <1>1, <1>2, <1>4, <2>1, ReturnTyped, ReturnScopeInv DEF Result
<1>5. CASE ~isError(of.error)
    <2> HIDE DEF of
    <2>1. setVariable("excluded_arc", arcs[3].pos) /\ Return(both, call)
        BY <1>3, <1>5 DEF FindArcs
    <2>2. of.lhs \in Felts /\ of.rhs \in Felts
        BY <1>2, <1>5
    <2>3. n \in [1..3 -> 0..(P - 1)] /\ n \in [1..3 -> Int]
        <3>1. P \in Nat
            BY FieldAssumption
        <3> QED
            BY <2>2, <3>1, LengthsType
    <2>4. PICK order \in [1..3 -> 1..3] :
              /\ {order[i] : i \in 1..3} = 1..3
              /\ \A i \in 1..3 : arcs[i] = ArcOf(order[i], n[order[i]])
              /\ \A i \in 1..2 : n[order[i]] <= n[order[3]]
        BY <2>2, <2>3, LengthsType, SortedOrder
    <2>5. /\ Kept(3, segments, ptr.segments)
          /\ isError(at) => at \in Errors
          /\ isError(at) \/ (at \in PointersInto(3) /\ at.segmentId = RangeCheck)
        BY <1>2, PointerIsRangeCheck
    <2> DEFINE v1 == n[order[1]]
               v2 == n[order[2]]
    <2>6. /\ v1 \in 0..(P - 1) /\ v2 \in 0..(P - 1)
          /\ arcs[1].value \in Felts /\ arcs[1].value.inner = v1
          /\ arcs[2].value \in Felts /\ arcs[2].value.inner = v2
          /\ arcs[3].pos = Number(order[3] - 1)
        BY <2>3, <2>4 DEF ArcOf, Felts
    <2>7. PrimeOver3High \in High /\ PrimeOver2High \in High
        BY DEF High
    <2> HIDE DEF ptr, arcs, n, v1, v2
    <2>8. /\ Kept(3, segments, least.segments)
          /\ isError(least.value) => least.value \in Errors
          /\ \/ isError(least.value)
             \/ /\ ~isError(at)
                /\ CellAt(least.segments, at) = Mod(arcs[1].value, PrimeOver3High)
                /\ CellAt(least.segments, AddOffset(at, 1))
                      = DivHigh(arcs[1].value, PrimeOver3High)
        <3>1. isError(ptr.value) \/ at \in PointersInto(3)
            BY <2>5
        <3>2. 3 \in Nat /\ arcs[1].value \in Felts
            BY <2>6
        <3>3. Stored(3, segments, ptr, at, arcs[1], PrimeOver3High)
            BY <1>1, <2>5, <2>7, <3>1, <3>2, StoreArcTyped
        <3> QED
            BY <3>3 DEF Stored
    <2>9. isError(least.value) \/ AddOffset(at, 2) \in PointersInto(3)
        BY <2>5, <2>8, PointerFacts
    <2> HIDE DEF least
    <2>10. /\ Kept(3, segments, both.segments) /\ Grows(least.segments, both.segments)
           /\ \/ isError(both.value)
              \/ /\ ~isError(least.value)
                 /\ CellAt(both.segments, AddOffset(at, 2)) = Mod(arcs[2].value, PrimeOver2High)
                 /\ CellAt(both.segments, AddOffset(AddOffset(at, 2), 1))
                       = DivHigh(arcs[2].value, PrimeOver2High)
        <3>1. Stored(3, segments, least, AddOffset(at, 2), arcs[2], PrimeOver2High)
            BY <1>1, <2>6, <2>7, <2>8, <2>9, StoreArcTyped
        <3> QED
            BY <3>1 DEF Stored
    <2> HIDE DEF both
    <2>11. ASSUME ~isError(both.value)
           PROVE call \in Call /\ ArcsHold(both.segments, call)
        <3> DEFINE m == both.segments
                   next == AddOffset(at, 2)
        <3>1. MachineMemory(m)
            BY <1>1, <2>10, KeptMemory
        <3>2. at \in PointersInto(3) /\ at.segmentId = RangeCheck
              /\ next \in PointersInto(3) /\ next.segmentId = RangeCheck
            BY <2>5, <2>8, <2>9, <2>10, <2>11 DEF AddOffset, Relocatable
        <3>3. /\ Mod(arcs[1].value, PrimeOver3High) \in Felts
              /\ DivHigh(arcs[1].value, PrimeOver3High) \in Felts
              /\ Mod(arcs[2].value, PrimeOver2High) \in Felts
              /\ DivHigh(arcs[2].value, PrimeOver2High) \in Felts
            BY <2>6, <2>7, ArcParts
        <3>4. /\ CellAt(m, at) = Mod(arcs[1].value, PrimeOver3High)
              /\ CellAt(m, AddOffset(at, 1)) = DivHigh(arcs[1].value, PrimeOver3High)
            <4>1. least.segments \in Memories(Within(3)) /\ Len(least.segments) = 3
                BY <1>1, <2>8 DEF Kept, MachineMemory
            <4>2. /\ at \in AddressesIn(3) /\ AddOffset(at, 1) \in AddressesIn(3)
                  /\ at \in Relocatables /\ AddOffset(at, 1) \in Relocatables
                BY <3>2, PointerFacts, AddressFacts
            <4>3. InSegment(least.segments, at) /\ InSegment(least.segments, AddOffset(at, 1))
                BY <4>1, <4>2 DEF InSegment, AddressesIn
            <4>4. /\ CellAt(least.segments, at) = Mod(arcs[1].value, PrimeOver3High)
                  /\ CellAt(least.segments, AddOffset(at, 1))
                        = DivHigh(arcs[1].value, PrimeOver3High)
                BY <2>8, <2>10, <2>11
            <4>5. CellAt(least.segments, at) # undefined
                  /\ CellAt(least.segments, AddOffset(at, 1)) # undefined
                BY <3>3, <4>4, Tags
            <4> QED
                BY <2>10, <4>1, <4>2, <4>3, <4>4, <4>5, CellAtGrows, WithinClosed
        <3>5. /\ CellAt(m, next) = Mod(arcs[2].value, PrimeOver2High)
              /\ CellAt(m, AddOffset(next, 1)) = DivHigh(arcs[2].value, PrimeOver2High)
            BY <2>10, <2>11
        <3> HIDE DEF m
        <3>6. /\ RebuiltIn(m, at, PrimeOver3High) = v1
              /\ RebuiltIn(m, next, PrimeOver2High) = v2
            <4>1. m \in Memories(Within(3)) /\ Len(m) = 3 /\ RangeChecked(m)
                  /\ m[3].builtin = "range_check"
                BY <3>1 DEF MachineMemory
            <4>2. RebuiltIn(m, at, PrimeOver3High) = v1
                BY <2>6, <2>7, <3>2, <3>4, <4>1, ArcIsRebuilt
            <4>3. RebuiltIn(m, next, PrimeOver2High) = v2
                BY <2>6, <2>7, <3>2, <3>5, <4>1, ArcIsRebuilt
            <4> QED
                BY <4>2, <4>3
        <3>7. \A k \in 0..3 : CellAt(m, AddOffset(at, k)) \in Felts
            <4>1. AddOffset(at, 0) = at /\ AddOffset(next, 1) = AddOffset(at, 3)
                BY <3>2 DEF AddOffset, Relocatable, PointersInto, AddressesIn, Relocatables
            <4>2. /\ CellAt(m, AddOffset(at, 0)) \in Felts /\ CellAt(m, AddOffset(at, 1)) \in Felts
                  /\ CellAt(m, AddOffset(at, 2)) \in Felts /\ CellAt(m, AddOffset(at, 3)) \in Felts
                BY <3>3, <3>4, <3>5, <4>1
            <4> QED
                BY <4>2
        <3>8. ArcsHold(m, call)
            <4>1. call.at = at /\ call.a = of.lhs /\ call.b = of.rhs
                  /\ call.excluded = Number(order[3] - 1)
                BY <2>6
            <4>2. /\ {order[i] : i \in 1..3} = 1..3
                  /\ RebuiltIn(m, at, PrimeOver3High) = n[order[1]]
                  /\ RebuiltIn(m, next, PrimeOver2High) = n[order[2]]
                  /\ \A i \in 1..2 : n[order[i]] <= n[order[3]]
                BY <2>4, <3>6 DEF v1, v2
            <4> HIDE DEF call, at
            <4> QED
                BY <3>7, <4>1, <4>2 DEF ArcsHold, n
        <3>9. call \in Call
            <4>1. order[3] - 1 \in 0..2
                OBVIOUS
            <4>2. arcs[3].pos \in Positions
                BY <2>6, <4>1 DEF Positions
            <4> QED
                BY <2>2, <3>2, <4>2 DEF Call
        <3> QED
            BY <3>8, <3>9 DEF m
    <2>12. \A name \in DOMAIN scope' : scope'[name] \in Positions
        <3>1. arcs[3].pos \in Positions
            <4>1. order[3] - 1 \in 0..2
                OBVIOUS
            <4> QED
                BY <2>6, <4>1 DEF Positions
        <3> QED
            BY <1>1, <2>1, <3>1 DEF setVariable, Put
    <2>13. isError(both.value) \/ (call \in Call /\ CallHolds(both.segments, call))
        <3>1. call.hint = "arcs"
            OBVIOUS
        <3> HIDE DEF call
        <3> QED
            BY <2>11, <3>1 DEF CallHolds
    <2>14. /\ call.hint = "arcs"
           /\ "excluded_arc" \in DOMAIN scope' /\ scope'["excluded_arc"] = call.excluded
        BY <2>1 DEF setVariable, Put
    <2> HIDE DEF call
    <2> QED
        BY <2>1, <2>10, <2>12, <2>13, <2>14, ReturnTyped, ReturnScopeInv
<1> QED
    BY <1>4, <1>5

LEMMA StepIInv == IInv /\ ScopeInv /\ [Next]_vars => IInv' /\ ScopeInv'
<1> SUFFICES ASSUME IInv, ScopeInv, [Next]_vars
             PROVE IInv' /\ ScopeInv'
    OBVIOUS
<1>1. ASSUME NEW ptr \in Pointers, NEW a \in Numbers, NEW b \in Numbers,
             assertLeFindSmallArcs(ptr, a, b)
      PROVE IInv' /\ ScopeStays
    BY <1>1, ArcsTyped, ComparisonAssumption
<1>2. ASSUME assertLeIsFirstArcExcluded
      PROVE IInv' /\ ScopeStays
    BY <1>2, FlagTyped DEF assertLeIsFirstArcExcluded
<1>3. ASSUME assertLeIsSecondArcExcluded
      PROVE IInv' /\ ScopeStays
    BY <1>3, FlagTyped DEF assertLeIsSecondArcExcluded
<1>4. ASSUME NEW lhs \in Addresses, NEW rhs \in Addresses,
             testLessThanOrEqualAddress(lhs, rhs)
      PROVE IInv' /\ ScopeStays
    BY <1>4, AddressTyped, ComparisonAssumption
<1>5. CASE UNCHANGED vars
    BY <1>5 DEF vars, IInv, ScopeInv
<1>6. CASE Next
    <2>1. IInv' /\ ScopeStays
        BY <1>1, <1>2, <1>3, <1>4, <1>6, Zenon DEF Next
    <2>2. thrown = undefined
        BY <1>6 DEF Next, Running
    <2> QED
        BY <2>1, <2>2 DEF ScopeStays
<1> QED
    BY <1>5, <1>6

\* What a flag has read, and the next one will, is where the greatest arc is.
LEMMA ScopeInvImplies == IInv /\ ScopeInv => ScopeTellsGreatestArc
<1> SUFFICES ASSUME IInv, ScopeInv
             PROVE ScopeTellsGreatestArc
    OBVIOUS
<1>1. Len(calls) \in Nat /\ DOMAIN calls = 1..Len(calls)
      /\ \A k \in DOMAIN calls : calls[k] \in Call
    BY ElementOfSeq, LenProperties DEF IInv
<1>2. \A k : Current(k) = CurrentIn(calls, k)
    BY DEF Current, CurrentIn
<1>3. ASSUME NEW k \in 1..(Len(calls) + 1), NEW j \in Current(k)
      PROVE Greatest(calls[j], calls[j].excluded)
    <2>1. j \in DOMAIN calls /\ calls[j].hint = "arcs"
        BY <1>1 DEF Current
    <2>2. ArcsHold(segments, calls[j])
        BY <2>1 DEF IInv, CallHolds
    <2> DEFINE n == LengthsOf(calls[j].a, calls[j].b)
    <2>3. Lengths(calls[j]) = n
        BY DEF Lengths, LengthsOf
    <2>4. calls[j].a \in Felts /\ calls[j].b \in Felts
        BY <1>1, <2>1 DEF Call
    <2>5. \A i \in 1..3 : n[i] \in Int
        BY <2>4, LengthsType, FieldAssumption
    <2>6. PICK order \in [1..3 -> 1..3] :
              /\ {order[i] : i \in 1..3} = 1..3
              /\ \A i \in 1..2 : n[order[i]] <= n[order[3]]
              /\ calls[j].excluded = Number(order[3] - 1)
        BY <2>2 DEF ArcsHold
    <2> HIDE DEF n
    <2>7. ASSUME NEW i \in 1..3
          PROVE n[i] <= n[order[3]]
        <3>1. PICK x \in 1..3 : i = order[x]
            BY <2>6
        <3>2. x \in 1..2 \/ x = 3
            OBVIOUS
        <3> QED
            BY <2>5, <2>6, <3>1, <3>2
    <2> QED
        BY <2>3, <2>6, <2>7 DEF Greatest
<1>4. ASSUME NEW k \in DOMAIN calls, calls[k].hint \in {"first", "second"}
      PROVE Current(k) # {} /\ \A j \in Current(k) : Greatest(calls[j], calls[k].excluded)
    <2>1. Current(k) # {} /\ \A j \in Current(k) : calls[k].excluded = calls[j].excluded
        BY <1>2, <1>4 DEF ScopeInv, FlagsAreCurrent
    <2> QED
        BY <1>1, <1>3, <2>1
<1>5. ASSUME thrown = undefined, NEW j \in Current(Len(calls) + 1)
      PROVE Greatest(calls[j], getVariable("excluded_arc"))
    <2>1. getVariable("excluded_arc") = calls[j].excluded
        BY <1>2, <1>5 DEF ScopeInv, ScopeIsCurrent, getVariable
    <2> QED
        BY <1>1, <1>3, <2>1
<1> QED
    BY <1>4, <1>5 DEF ScopeTellsGreatestArc

-----------------------------------------------------------------------------
(* The theorems *)

\* Whatever hints a program calls, cells hold values and the variable of the
\* scope a position.
THEOREM ComparisonsAreTyped == Spec => []TypeOK
BY InitIInv, InitScopeInv, StepIInv, IInvImplies, PTL DEF Spec

\* Whatever numbers are compared, in a field of any size, the range-checked cells
\* rebuild the two least arcs without wrapping around, and the scope has the
\* position of the third, from the call of the hint on.
THEOREM ArcsAreRebuilt == Spec => []SmallArcsAreRebuilt
BY InitIInv, InitScopeInv, StepIInv, IInvImplies, PTL DEF Spec

\* Whatever comparisons follow one another: what the hints that answer for an arc
\* read in the scope is the position of a greatest arc of the comparison begun last.
THEOREM ScopeTells == Spec => []ScopeTellsGreatestArc
BY InitIInv, InitScopeInv, StepIInv, ScopeInvImplies, PTL DEF Spec

\* Whatever the addresses, of offsets written without an exponent: the answer left for
\* two addresses alike is that of their order, although it is their texts that are
\* compared, and no later call changes it.
THEOREM AddressesAreOrdered == Spec => []AlikeAddressesAreOrdered
BY InitIInv, InitScopeInv, StepIInv, IInvImplies, PTL DEF Spec
=============================================================================
