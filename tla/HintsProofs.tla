----------------------------- MODULE HintsProofs -----------------------------
(***************************************************************************)
(* Lemmas about the operators of SegmentValues, BuiltinHandlers,           *)
(* SegmentMemory and Hints.  Arithmetic stays within the values a cell may *)
(* hold, or throws, and forges no segment number.  A handler leaves values *)
(* in the cells of its segment; a read never changes a cell that has a     *)
(* value, and what it returns is the cell.  The methods of Memory keep the *)
(* segments typed, and no cell ever loses or changes its value, whether    *)
(* the call returns or throws; an assertion that returns has made the cell *)
(* hold its value.  The operands of hints, read from a memory that deduces *)
(* nothing, leave it as it is.                                             *)
(***************************************************************************)
EXTENDS Hints, SequenceTheorems, WellFoundedInduction, TLAPS

-----------------------------------------------------------------------------
(* Values and their arithmetic *)

\* The Felt constructor makes a felt of every integer.
LEMMA FeltType ==
    ASSUME NEW n \in Int
    PROVE Felt(n) \in Felts
<1>1. P \in Int /\ P > 0
    BY FieldAssumption
<1>2. n % P \in 0..(P - 1)
    BY <1>1
<1> QED
    BY <1>2 DEF Felt, Felts

\* The kinds of values exclude each other.
LEMMA Tags ==
    /\ \A v \in Felts : isFelt(v) /\ ~isRelocatable(v) /\ ~isError(v) /\ v # undefined
    /\ \A v \in Relocatables : isRelocatable(v) /\ ~isFelt(v) /\ ~isError(v) /\ v # undefined
    /\ \A v \in Errors : isError(v) /\ ~isFelt(v) /\ ~isRelocatable(v) /\ v # undefined
    /\ ~isFelt(undefined) /\ ~isRelocatable(undefined) /\ ~isError(undefined)
BY DEF Felts, Relocatables, Errors, Error, isFelt, isRelocatable, isError, undefined

LEMMA ErrorType ==
    ASSUME NEW name \in ErrorNames
    PROVE Error(name) \in Errors
BY DEF Errors

LEMMA AddFeltType ==
    ASSUME NEW r \in Relocatables, NEW f \in Felts
    PROVE AddFelt(r, f) \in Relocatables /\ AddFelt(r, f).offset >= 0
<1>1. P \in Int /\ P > 0
    BY FieldAssumption
<1>2. r.segmentId \in Nat /\ r.offset + f.inner \in Int
    BY <1>1 DEF Relocatables, Felts
<1>3. (r.offset + f.inner) % P \in 0..(P - 1)
    BY <1>1, <1>2
<1>4. ToNumber[(r.offset + f.inner) % P] \in Nat
    BY <1>3, NumberAssumption
<1> QED
    BY <1>2, <1>4 DEF AddFelt, Relocatable, Relocatables

\* Relocatable.add keeps the segment.
LEMMA AddFeltSegment ==
    ASSUME NEW r, NEW f
    PROVE AddFelt(r, f).segmentId = r.segmentId
BY DEF AddFelt, Relocatable

LEMMA AddOffsetType ==
    ASSUME NEW r \in Relocatables, NEW n \in Int
    PROVE /\ AddOffset(r, n) \in Relocatables
          /\ AddOffset(r, n).segmentId = r.segmentId
BY DEF AddOffset, Relocatable, Relocatables

-----------------------------------------------------------------------------
(* The values whose pointers are into the first n segments, never before their *)
(* first cell                                                                  *)

Within(n) ==
    {v \in SegmentValue : isRelocatable(v) => v.segmentId < n /\ v.offset >= 0}

LEMMA FeltsWithin ==
    ASSUME NEW n \in Nat
    PROVE Felts \subseteq Within(n)
BY DEF Felts, Within, SegmentValue, isRelocatable

\* What a value of Within is.
LEMMA WithinCases ==
    ASSUME NEW n \in Nat, NEW v \in Within(n)
    PROVE /\ ~isError(v) /\ v # undefined
          /\ \/ isFelt(v) /\ ~isRelocatable(v) /\ v \in Felts
             \/ /\ isRelocatable(v) /\ ~isFelt(v)
                /\ v \in Relocatables /\ v.segmentId < n /\ v.offset >= 0
BY Tags DEF Within, SegmentValue, isFelt, isRelocatable

\* A relocatable is within the segments its segment number is below, unless its
\* offset is negative.
LEMMA RelocatableWithin ==
    ASSUME NEW n \in Nat, NEW v \in Relocatables, v.segmentId < n, v.offset >= 0
    PROVE v \in Within(n)
BY DEF Within, SegmentValue

\* Adding values of a memory gives a pointer into one of its segments, a felt,
\* or an exception: addition forges no segment number.
LEMMA AddWithin ==
    ASSUME NEW n \in Nat, NEW a \in Within(n), NEW b \in Within(n)
    PROVE Add(a, b) \in Within(n) \cup Errors
<1>1. CASE isFelt(a) /\ isFelt(b)
    <2>1. a \in Felts /\ b \in Felts
        BY <1>1, WithinCases
    <2>2. a.inner + b.inner \in Int
        BY <2>1, FieldAssumption DEF Felts
    <2> QED
        BY <1>1, <2>1, <2>2, FeltType, FeltsWithin, Tags DEF Add
<1>2. CASE isFelt(a) /\ isRelocatable(b)
    <2>1. a \in Felts /\ b \in Relocatables /\ b.segmentId < n /\ ~isFelt(b)
        BY <1>2, WithinCases
    <2>2. /\ AddFelt(b, a) \in Relocatables
          /\ AddFelt(b, a).segmentId < n /\ AddFelt(b, a).offset >= 0
        BY <2>1, AddFeltType, AddFeltSegment
    <2> QED
        BY <1>2, <2>1, <2>2, RelocatableWithin DEF Add, isFelt, isRelocatable
<1>3. CASE isRelocatable(a) /\ isFelt(b)
    <2>1. b \in Felts /\ a \in Relocatables /\ a.segmentId < n
        BY <1>3, WithinCases
    <2>2. /\ AddFelt(a, b) \in Relocatables
          /\ AddFelt(a, b).segmentId < n /\ AddFelt(a, b).offset >= 0
        BY <2>1, AddFeltType, AddFeltSegment
    <2> QED
        BY <1>3, <2>1, <2>2, RelocatableWithin DEF Add, isFelt, isRelocatable
<1>4. CASE isRelocatable(a) /\ isRelocatable(b)
    BY <1>4, ErrorType DEF Add, ErrorNames, isFelt, isRelocatable
<1> QED
    BY <1>1, <1>2, <1>3, <1>4, WithinCases

\* The same of the subtraction.
LEMMA SubWithin ==
    ASSUME NEW n \in Nat, NEW a \in Within(n), NEW b \in Within(n)
    PROVE Sub(a, b) \in Within(n) \cup Errors
<1>0. P \in Int
    BY FieldAssumption
<1>1. CASE isFelt(a) /\ isFelt(b)
    <2>1. a \in Felts /\ b \in Felts
        BY <1>1, WithinCases
    <2>2. a.inner - b.inner \in Int
        BY <2>1, <1>0 DEF Felts
    <2> QED
        BY <1>1, <2>1, <2>2, FeltType, FeltsWithin, Tags DEF Sub
<1>2. CASE isFelt(a) /\ isRelocatable(b)
    BY <1>2, ErrorType DEF Sub, ErrorNames, isFelt, isRelocatable
<1>3. CASE isRelocatable(a) /\ isFelt(b)
    <2>1. b \in Felts /\ a \in Relocatables /\ a.segmentId < n
        BY <1>3, WithinCases
    <2> DEFINE delta == ToNumber[b.inner]
    <2>0. delta \in Int
        BY <2>1, NumberAssumption DEF Felts
    <2>2. Relocatable(a.segmentId, a.offset - delta) \in Relocatables
        BY <2>0, <2>1 DEF Relocatable, Relocatables
    <2>3. a.offset >= delta => Relocatable(a.segmentId, a.offset - delta) \in Within(n)
        BY <2>0, <2>1, <2>2, RelocatableWithin DEF Relocatable, Relocatables
    <2>4. SubFelt(a, b) \in Within(n) \cup Errors
        BY <2>0, <2>1, <2>3, ErrorType DEF SubFelt, ErrorNames, Relocatables
    <2> QED
        BY <1>3, <2>4 DEF Sub, isFelt, isRelocatable
<1>4. CASE isRelocatable(a) /\ isRelocatable(b)
    <2>1. a \in Relocatables /\ b \in Relocatables
        BY <1>4, WithinCases
    <2>2. a.offset - b.offset \in Int
        BY <2>1 DEF Relocatables
    <2>3. Felt(a.offset - b.offset) \in Within(n)
        BY <2>2, FeltType, FeltsWithin
    <2>4. SubRelocatable(a, b) \in Within(n) \cup Errors
        BY <2>3, ErrorType DEF SubRelocatable, ErrorNames
    <2> QED
        BY <1>4, <2>4 DEF Sub, isFelt, isRelocatable
<1> QED
    BY <1>1, <1>2, <1>3, <1>4, WithinCases

\* Multiplication and division make felts.
LEMMA MulWithin ==
    ASSUME NEW n \in Nat, NEW a \in Felts, NEW b \in Within(n)
    PROVE Mul(a, b) \in Within(n) \cup Errors
<1>1. CASE isFelt(b)
    <2>1. b \in Felts
        BY <1>1, WithinCases
    <2>2. a.inner \in Int /\ b.inner \in Int
        BY <2>1, FieldAssumption DEF Felts
    <2>3. a.inner * b.inner \in Int
        BY <2>2
    <2> QED
        BY <1>1, <2>3, FeltType, FeltsWithin DEF Mul
<1>2. CASE ~isFelt(b)
    BY <1>2, ErrorType DEF Mul, ErrorNames
<1> QED
    BY <1>1, <1>2

\* Every felt but zero has an inverse.
LEMMA InvType ==
    ASSUME NEW a \in 1..(P - 1)
    PROVE Inv(a) \in 1..(P - 1) /\ (a * Inv(a)) % P = 1
BY FieldAssumption DEF Inv

LEMMA DivWithin ==
    ASSUME NEW n \in Nat, NEW a \in Felts, NEW b \in Within(n)
    PROVE Div(a, b) \in Within(n) \cup Errors
<1>0. P \in Int
    BY FieldAssumption
<1>1. CASE ~isFelt(b)
    <2>1. Div(a, b) = Error("ExpectedFelt")
        BY <1>1 DEF Div
    <2> QED
        BY <2>1, ErrorType DEF ErrorNames
<1>2. CASE isFelt(b) /\ b.inner = 0
    <2>1. Div(a, b) = Error("CannotDivideByZero")
        BY <1>2 DEF Div
    <2> QED
        BY <2>1, ErrorType DEF ErrorNames
<1>3. CASE isFelt(b) /\ b.inner # 0
    <2>1. b \in Felts
        BY <1>3, WithinCases
    <2>2. b.inner \in 1..(P - 1)
        BY <1>0, <1>3, <2>1 DEF Felts
    <2>3. a.inner \in Int
        BY <1>0 DEF Felts
    <2>4. Inv(b.inner) \in Int
        BY <1>0, <2>2, InvType
    <2>5. a.inner * Inv(b.inner) \in Int
        BY <2>3, <2>4
    <2>6. Felt(a.inner * Inv(b.inner)) \in Within(n)
        BY <2>5, FeltType, FeltsWithin
    <2> QED
        BY <1>3, <2>6 DEF Div
<1> QED
    BY <1>1, <1>2, <1>3

-----------------------------------------------------------------------------
(* The handlers of the segments *)

\* The cells of a segment that holds values of V
CellMaps(V) == UNION {[D -> V] : D \in SUBSET Int}

\* A set of values that contains what the handlers deduce
Closed(V) == Felts \subseteq V /\ V \subseteq SegmentValue

\* Every cell of c keeps its value in d.
Extends(c, d) == \A o \in DOMAIN c : o \in DOMAIN d /\ d[o] = c[o]

LEMMA CellMapsDef ==
    ASSUME NEW V, NEW c
    PROVE c \in CellMaps(V) <=> c \in [DOMAIN c -> V] /\ DOMAIN c \subseteq Int
BY DEF CellMaps

LEMMA ClosedValues ==
    ASSUME NEW V, Closed(V), NEW v \in V
    PROVE v \in SegmentValue /\ ~isError(v) /\ v # undefined
BY Tags DEF Closed, SegmentValue

-----------------------------------------------------------------------------
(* The length of the array *)

\* A set of naturals has a least element.
LEMMA LeastNat ==
    ASSUME NEW T, T \subseteq Nat, T # {}
    PROVE \E t \in T : \A y \in T : t <= y
<1>1. PICK t \in T : \A y \in T : ~(<<y, t>> \in OpToRel(<, Nat))
    BY NatLessThanWellFounded, WFMin
<1>2. \A y \in T : ~(y < t)
    BY <1>1 DEF OpToRel
<1>3. \A y \in T : t <= y
    BY <1>2
<1> QED
    BY <1>3

\* The length of an array is past each of its indices.
LEMMA LengthType ==
    ASSUME NEW V, NEW c \in CellMaps(V)
    PROVE /\ Length(c) \in Nat
          /\ \A o \in Indices(c) : o \in Nat /\ o < Length(c)
          /\ Length(c) # 0 => Length(c) - 1 \in DOMAIN c
<1>0. ArrayLimit \in Nat
    BY BoundAssumption
<1>1. CASE Indices(c) = {}
    BY <1>1 DEF Length
<1>2. CASE Indices(c) # {}
    <2> DEFINE T == {ArrayLimit - o : o \in Indices(c)}
    <2>1. \A o \in Indices(c) : o \in Int /\ 0 <= o /\ o < ArrayLimit
        BY CellMapsDef DEF Indices
    <2>2. T \subseteq Nat /\ T # {}
        BY <1>0, <1>2, <2>1
    <2>3. PICK t \in T : \A y \in T : t <= y
        <3> HIDE DEF T
        <3> QED
            BY <2>2, LeastNat
    <2>4. PICK m \in Indices(c) : t = ArrayLimit - m
        OBVIOUS
    <2>5. ASSUME NEW x \in Indices(c)
          PROVE x <= m
        <3>1. ArrayLimit - x \in T
            OBVIOUS
        <3>2. ArrayLimit - m <= ArrayLimit - x
            BY <2>3, <2>4, <3>1
        <3> QED
            BY <1>0, <2>1, <3>2
    <2> DEFINE top == CHOOSE o \in Indices(c) : \A x \in Indices(c) : x <= o
    <2>6. top \in Indices(c) /\ \A x \in Indices(c) : x <= top
        BY <2>5
    <2>7. Length(c) = 1 + top
        BY <1>2 DEF Length
    <2>8. top \in DOMAIN c
        BY <2>6 DEF Indices
    <2> HIDE DEF top
    <2> QED
        BY <2>1, <2>6, <2>7, <2>8
<1> QED
    BY <1>1, <1>2

-----------------------------------------------------------------------------
(* Deduction *)

LEMMA CellCounts ==
    ASSUME NEW b \in DeductionBuiltins
    PROVE /\ CellsPer(b) \in Nat \ {0}
          /\ InputCellsPer(b) \in Nat
          /\ InputCellsPer(b) < CellsPer(b)
<1>1. b \in {"bitwise", "pedersen", "poseidon", "ec_op", "keccak"}
    BY DEF DeductionBuiltins, NamedBuiltins, SlicedBuiltins
<1> QED
    BY <1>1 DEF CellsPer, InputCellsPer

LEMMA PositionType ==
    ASSUME NEW b \in DeductionBuiltins, NEW o \in Int
    PROVE Position(b, o) \in 0..(CellsPer(b) - 1)
<1>1. CellsPer(b) \in Nat /\ CellsPer(b) > 0
    BY CellCounts
<1> QED
    BY <1>1 DEF Position

\* The first bad input is one of them.
LEMMA FirstBadInput ==
    ASSUME NEW b, NEW xs, DOMAIN xs \subseteq Nat, BadInputs(b, xs) # {}
    PROVE (CHOOSE k \in BadInputs(b, xs) : \A j \in BadInputs(b, xs) : k <= j)
              \in BadInputs(b, xs)
<1>1. BadInputs(b, xs) \subseteq Nat
    BY DEF BadInputs
<1> DEFINE T == BadInputs(b, xs)
<1>2. T \subseteq Nat /\ T # {}
    BY <1>1
<1>3. PICK m \in T : \A j \in T : ~(<<j, m>> \in OpToRel(<, Nat))
    <2> HIDE DEF T
    <2> QED
        BY <1>2, NatLessThanWellFounded, WFMin
<1>4. \A j \in T : ~(j < m)
    BY <1>2, <1>3 DEF OpToRel
<1>5. \A j \in T : m <= j
    BY <1>2, <1>4
<1> QED
    BY <1>5

\* What a handler does not refuse is a tuple of felts its builtin computes from.
LEMMA AcceptedInputs ==
    ASSUME NEW V, Closed(V), NEW c \in CellMaps(V), NEW b \in DeductionBuiltins,
           NEW base \in Int,
           ~isError(Refusal(b, Inputs(b, c, base)))
    PROVE \E n \in InputCounts(b) : Inputs(b, c, base) \in [1..n -> Felts]
<1> DEFINE xs == Inputs(b, c, base)
           end == base + InputCellsPer(b)
           stop == IF b \in SlicedBuiltins /\ Length(c) < end THEN Length(c) ELSE end
           count == stop - base
<1>1. InputCellsPer(b) \in Nat /\ Length(c) \in Nat
    BY CellCounts, LengthType
<1>2. count \in Int /\ count <= InputCellsPer(b)
    BY <1>1
<1>3. xs = [k \in 1..count |-> At(c, base + k - 1)]
    BY DEF Inputs
<1>4. BadInputs(b, xs) = {} /\ \A k \in DOMAIN xs : xs[k] # undefined /\ isFelt(xs[k])
    <2>1. isError(Error("UndefinedValue")) /\ isError(Error("ExpectedFelt"))
          /\ isError(Error("TypeError"))
        BY DEF isError, Error
    <2>2. BadInputs(b, xs) = {}
        <3>1. DOMAIN xs \subseteq Nat
            BY <1>3
        <3>2. SUFFICES ASSUME BadInputs(b, xs) # {} PROVE FALSE
            OBVIOUS
        <3>3. isError(Refusal(b, xs))
            <4>1. \A k \in BadInputs(b, xs) : isError(InputError(b, xs[k]))
                BY DEF BadInputs
            <4> HIDE DEF xs
            <4> QED
                BY <3>1, <3>2, <4>1, FirstBadInput DEF Refusal
        <3> QED
            BY <3>3
    <2>3. \A k \in DOMAIN xs : xs[k] # undefined
        BY <2>1, <2>2 DEF Refusal
    <2>4. \A k \in DOMAIN xs : ~isError(InputError(b, xs[k]))
        BY <2>2 DEF BadInputs
    <2> QED
        BY <2>1, <2>2, <2>3, <2>4 DEF InputError
<1>5. \A k \in 1..count : xs[k] \in Felts
    <2> SUFFICES ASSUME NEW k \in 1..count
                 PROVE xs[k] \in Felts
        OBVIOUS
    <2>1. k \in DOMAIN xs /\ xs[k] = At(c, base + k - 1)
        BY <1>3
    <2>2. xs[k] \in V
        BY <1>4, <2>1, CellMapsDef DEF At
    <2> QED
        BY <1>4, <2>1, <2>2, Tags DEF Closed, SegmentValue
<1>6. xs \in [1..count -> Felts]
    BY <1>3, <1>5
<1>7. CASE b \in NamedBuiltins
    <2>1. b \notin SlicedBuiltins /\ b # "keccak"
        BY <1>7 DEF NamedBuiltins, SlicedBuiltins
    <2>2. count = InputCellsPer(b)
        BY <1>1, <2>1
    <2> QED
        BY <1>6, <2>1, <2>2 DEF InputCounts
<1>8. CASE b = "ec_op"
    <2>1. isError(Error("TypeError"))
        BY DEF isError, Error
    <2>2. DOMAIN xs = 1..InputCellsPer(b)
        BY <1>4, <1>8, <2>1 DEF Refusal
    <2>3. xs \in [1..InputCellsPer(b) -> Felts]
        BY <1>6, <2>2
    <2> QED
        BY <1>8, <2>3 DEF InputCounts
<1>9. CASE b = "keccak"
    <2> DEFINE n == IF count < 0 THEN 0 ELSE count
    <2>1. n \in 0..InputCellsPer(b) /\ 1..count = 1..n
        BY <1>1, <1>2
    <2>2. xs \in [1..n -> Felts]
        BY <1>6, <2>1
    <2> HIDE DEF n
    <2> QED
        BY <1>9, <2>1, <2>2 DEF InputCounts
<1> QED
    BY <1>7, <1>8, <1>9 DEF DeductionBuiltins, SlicedBuiltins

\* A handler deduces a felt or throws.
LEMMA DeduceType ==
    ASSUME NEW V, Closed(V), NEW c \in CellMaps(V), NEW o \in Int,
           NEW b \in Builtins \cap DeductionBuiltins,
           InputCellsPer(b) <= Position(b, o)
    PROVE Deduce(b, c, o) \in Felts \cup Errors
<1> DEFINE xs == Inputs(b, c, o - Position(b, o))
           out == Position(b, o) - InputCellsPer(b)
<1>1. /\ CellsPer(b) \in Nat /\ InputCellsPer(b) \in Nat
      /\ Position(b, o) \in 0..(CellsPer(b) - 1)
    BY CellCounts, PositionType
<1>2. out \in 0..(CellsPer(b) - InputCellsPer(b) - 1) /\ o - Position(b, o) \in Int
    BY <1>1
<1>3. CASE isError(Refusal(b, xs))
    <2>1. Refusal(b, xs) \in Errors
        <3>1. /\ Error("UndefinedValue") \in Errors /\ Error("ExpectedFelt") \in Errors
              /\ Error("TypeError") \in Errors /\ Error("Error") \in Errors
            BY ErrorType DEF ErrorNames
        <3>2. ~isError(undefined)
            BY Tags
        <3>3. CASE BadInputs(b, xs) # {}
            <4>1. DOMAIN xs \subseteq Nat
                BY DEF Inputs
            <4> DEFINE first == CHOOSE k \in BadInputs(b, xs) :
                                    \A j \in BadInputs(b, xs) : k <= j
            <4>2. isError(InputError(b, xs[first]))
                <5>1. first \in BadInputs(b, xs)
                    <6> HIDE DEF xs
                    <6> QED
                        BY <3>3, <4>1, FirstBadInput
                <5> HIDE DEF xs, first
                <5> QED
                    BY <5>1 DEF BadInputs
            <4>3. Refusal(b, xs) = InputError(b, xs[first])
                BY <3>3 DEF Refusal
            <4> HIDE DEF xs, first
            <4> QED
                BY <3>1, <3>2, <4>2, <4>3 DEF InputError
        <3>4. CASE BadInputs(b, xs) = {}
            <4> HIDE DEF xs
            <4> QED
                BY <1>3, <3>1, <3>2, <3>4 DEF Refusal
        <3> QED
            BY <3>3, <3>4
    <2> QED
        BY <1>3, <2>1 DEF Deduce, Computed
<1>4. CASE ~isError(Refusal(b, xs))
    <2>1. PICK n \in InputCounts(b) : xs \in [1..n -> Felts]
        BY <1>2, <1>4, AcceptedInputs
    <2>2. Compute(b, xs, out) \in Felts \cup Errors
        <3> HIDE DEF xs, out
        <3> QED
            BY <1>2, <2>1, ComputeAssumption
    <2> QED
        BY <1>4, <2>2 DEF Deduce, Computed
<1> QED
    BY <1>3, <1>4

-----------------------------------------------------------------------------
(* The traps *)

LEMMA PutType ==
    ASSUME NEW V, NEW c \in CellMaps(V), NEW o \in Int, NEW v \in V
    PROVE /\ Put(c, o, v) \in CellMaps(V)
          /\ o \in DOMAIN Put(c, o, v) /\ Put(c, o, v)[o] = v
          /\ At(c, o) \in {undefined, v} /\ undefined \notin V => Extends(c, Put(c, o, v))
<1>1. c \in [DOMAIN c -> V] /\ DOMAIN c \subseteq Int
    BY CellMapsDef
<1>2. Put(c, o, v) \in [DOMAIN c \cup {o} -> V] /\ DOMAIN c \cup {o} \subseteq Int
    BY <1>1 DEF Put
<1>3. ASSUME At(c, o) \in {undefined, v}, undefined \notin V, NEW x \in DOMAIN c
      PROVE x \in DOMAIN Put(c, o, v) /\ Put(c, o, v)[x] = c[x]
    BY <1>1, <1>3 DEF Put, At
<1> QED
    BY <1>2, <1>3, CellMapsDef DEF Put, Extends

LEMMA AtType ==
    ASSUME NEW V, NEW c \in CellMaps(V), NEW o
    PROVE At(c, o) \in V \cup {undefined}
BY CellMapsDef DEF At

\* A read keeps every cell that has a value, and returns what the cell holds
\* after it or throws.
LEMMA GetTrapType ==
    ASSUME NEW V, Closed(V), NEW c \in CellMaps(V), NEW o \in Int, NEW b \in Builtins
    PROVE /\ GetTrap(b, c, o).cells \in CellMaps(V)
          /\ GetTrap(b, c, o).value \in V \cup {undefined} \cup Errors
          /\ Extends(c, GetTrap(b, c, o).cells)
          /\ \/ isError(GetTrap(b, c, o).value)
             \/ GetTrap(b, c, o).value = At(GetTrap(b, c, o).cells, o)
<1>1. CASE \/ b \notin DeductionBuiltins
           \/ Position(b, o) < InputCellsPer(b)
           \/ o \in DOMAIN c
    <2>1. GetTrap(b, c, o) = [cells |-> c, value |-> At(c, o)]
        BY <1>1 DEF GetTrap
    <2> QED
        BY <2>1, AtType DEF Extends
<1>2. CASE /\ b \in DeductionBuiltins
           /\ ~(Position(b, o) < InputCellsPer(b))
           /\ o \notin DOMAIN c
    <2> DEFINE v == Deduce(b, c, o)
    <2>1. GetTrap(b, c, o) = [cells |-> IF isError(v) THEN c ELSE Put(c, o, v), value |-> v]
        BY <1>2 DEF GetTrap, Cached
    <2>2. v \in Felts \cup Errors
        <3>1. InputCellsPer(b) <= Position(b, o)
            BY <1>2, CellCounts, PositionType
        <3> QED
            BY <1>2, <3>1, DeduceType
    <2>3. At(c, o) = undefined
        BY <1>2 DEF At
    <2> HIDE DEF v
    <2>4. CASE isError(v)
        BY <2>1, <2>2, <2>4, Tags DEF Extends
    <2>5. CASE ~isError(v)
        <3>1. v \in V /\ undefined \notin V
            BY <2>2, <2>5, Tags, ClosedValues DEF Closed
        <3>2. /\ Put(c, o, v) \in CellMaps(V) /\ Extends(c, Put(c, o, v))
              /\ At(Put(c, o, v), o) = v
            BY <2>3, <3>1, PutType DEF At
        <3>3. GetTrap(b, c, o).cells = Put(c, o, v) /\ GetTrap(b, c, o).value = v
            BY <2>1, <2>5
        <3> QED
            BY <3>1, <3>2, <3>3
    <2> QED
        BY <2>4, <2>5
<1> QED
    BY <1>1, <1>2

\* A write over nothing, or over the same value, keeps every cell that has a
\* value; when it returns the cell holds the value.
LEMMA SetTrapType ==
    ASSUME NEW V, Closed(V), NEW c \in CellMaps(V), NEW o \in Int, NEW b, NEW v \in V
    PROVE /\ SetTrap(b, c, o, v).cells \in CellMaps(V)
          /\ SetTrap(b, c, o, v).value \in {undefined} \cup Errors
          /\ At(c, o) \in {undefined, v} => Extends(c, SetTrap(b, c, o, v).cells)
          /\ isError(SetTrap(b, c, o, v).value) \/ At(SetTrap(b, c, o, v).cells, o) = v
<1>1. Rejection(b, v) \in {undefined} \cup Errors
    BY ErrorType DEF Rejection, ErrorNames
<1>2. undefined \notin V
    BY ClosedValues
<1>3. SetTrap(b, c, o, v).value = Rejection(b, v)
    BY DEF SetTrap
<1>4. CASE isError(Rejection(b, v))
    <2>1. SetTrap(b, c, o, v).cells = c
        BY <1>4 DEF SetTrap
    <2> QED
        BY <1>1, <1>3, <1>4, <2>1 DEF Extends
<1>5. CASE ~isError(Rejection(b, v))
    <2>1. SetTrap(b, c, o, v).cells = Put(c, o, v)
        BY <1>5 DEF SetTrap
    <2> QED
        BY <1>1, <1>2, <1>3, <2>1, PutType DEF At
<1> QED
    BY <1>4, <1>5

-----------------------------------------------------------------------------
(* The segments *)

\* The segments whose cells hold values of V
Segments(V) == [builtin : Builtins, cells : CellMaps(V)]

Memories(V) == Seq(Segments(V))

\* n has the segments of m, with the handlers they had and every value they held.
Grows(m, n) ==
    /\ Len(m) <= Len(n)
    /\ \A i \in 1..Len(m) :
          n[i].builtin = m[i].builtin /\ Extends(m[i].cells, n[i].cells)

LEMMA MemoryTypes ==
    ASSUME NEW V, NEW m \in Memories(V)
    PROVE /\ Len(m) \in Nat
          /\ DOMAIN m = 1..Len(m)
          /\ \A i \in 1..Len(m) : /\ m[i] \in Segments(V)
                                  /\ m[i].builtin \in Builtins
                                  /\ m[i].cells \in CellMaps(V)
<1>1. Len(m) \in Nat /\ DOMAIN m = 1..Len(m)
    BY LenProperties DEF Memories
<1>2. \A i \in 1..Len(m) : m[i] \in Segments(V)
    BY ElementOfSeq DEF Memories
<1> QED
    BY <1>1, <1>2 DEF Segments

LEMMA GrowsReflexive ==
    ASSUME NEW V, NEW m \in Memories(V)
    PROVE Grows(m, m)
BY MemoryTypes DEF Grows, Extends

LEMMA GrowsTransitive ==
    ASSUME NEW V, NEW k \in Memories(V), NEW m \in Memories(V), NEW n \in Memories(V),
           Grows(k, m), Grows(m, n)
    PROVE Grows(k, n)
<1>1. Len(k) \in Nat /\ Len(m) \in Nat /\ Len(n) \in Nat
    BY MemoryTypes
<1>2. Len(k) <= Len(m) /\ Len(m) <= Len(n)
    BY DEF Grows
<1>3. ASSUME NEW i \in 1..Len(k)
      PROVE n[i].builtin = k[i].builtin /\ Extends(k[i].cells, n[i].cells)
    <2>1. i \in 1..Len(m)
        BY <1>1, <1>2
    <2>2. m[i].builtin = k[i].builtin /\ Extends(k[i].cells, m[i].cells)
        BY DEF Grows
    <2>3. n[i].builtin = m[i].builtin /\ Extends(m[i].cells, n[i].cells)
        BY <2>1 DEF Grows
    <2> QED
        BY <2>2, <2>3 DEF Extends
<1> QED
    BY <1>1, <1>2, <1>3 DEF Grows

LEMMA SetCellsType ==
    ASSUME NEW V, NEW m \in Memories(V), NEW i \in 1..Len(m), NEW c \in CellMaps(V)
    PROVE /\ SetCells(m, i, c) \in Memories(V)
          /\ Len(SetCells(m, i, c)) = Len(m)
          /\ SetCells(m, i, c)[i].cells = c
          /\ \A j \in 1..Len(m) :
                /\ SetCells(m, i, c)[j].builtin = m[j].builtin
                /\ j # i => SetCells(m, i, c)[j] = m[j]
          /\ Extends(m[i].cells, c) => Grows(m, SetCells(m, i, c))
<1> DEFINE s == [builtin |-> m[i].builtin, cells |-> c]
<1>1. SetCells(m, i, c) = [m EXCEPT ![i] = s]
    BY DEF SetCells
<1>2. s \in Segments(V)
    BY MemoryTypes DEF Segments
<1>3. /\ SetCells(m, i, c) \in Memories(V)
      /\ Len(SetCells(m, i, c)) = Len(m)
      /\ \A j \in 1..Len(m) : SetCells(m, i, c)[j] = IF j = i THEN s ELSE m[j]
    <2> HIDE DEF s
    <2> QED
        BY <1>1, <1>2, ExceptSeq DEF Memories
<1>4. Len(m) \in Nat
    BY MemoryTypes
<1>5. ASSUME Extends(m[i].cells, c)
      PROVE Grows(m, SetCells(m, i, c))
    <2>1. ASSUME NEW j \in 1..Len(m)
          PROVE Extends(m[j].cells, SetCells(m, i, c)[j].cells)
        BY <1>3, <1>5 DEF Extends
    <2> QED
        BY <1>3, <1>4, <2>1 DEF Grows
<1> QED
    BY <1>3, <1>5

-----------------------------------------------------------------------------

LEMMA SegmentIndex ==
    ASSUME NEW V, NEW m \in Memories(V), NEW a \in Relocatables
    PROVE InSegment(m, a) <=> a.segmentId + 1 \in 1..Len(m)
BY MemoryTypes DEF InSegment, Relocatables

\* Memory.get
LEMMA getType ==
    ASSUME NEW V, Closed(V), NEW m \in Memories(V), NEW a \in Relocatables
    PROVE /\ get(m, a).segments \in Memories(V)
          /\ Len(get(m, a).segments) = Len(m)
          /\ Grows(m, get(m, a).segments)
          /\ get(m, a).value \in V \cup {undefined} \cup Errors
          /\ \/ isError(get(m, a).value)
             \/ InSegment(m, a) /\ get(m, a).value = CellAt(get(m, a).segments, a)
<1> DEFINE i == a.segmentId + 1
           read == GetTrap(m[i].builtin, m[i].cells, a.offset)
<1>0. a.offset \in Int
    BY DEF Relocatables
<1>1. CASE ~InSegment(m, a)
    <2>1. get(m, a) = Result(m, Error("SegmentOutOfBounds"))
        BY <1>1 DEF get
    <2>2. Error("SegmentOutOfBounds") \in Errors /\ isError(Error("SegmentOutOfBounds"))
        BY ErrorType, Tags DEF ErrorNames
    <2>3. get(m, a).segments = m /\ get(m, a).value = Error("SegmentOutOfBounds")
        BY <2>1 DEF Result
    <2>4. Grows(m, m)
        BY GrowsReflexive
    <2> HIDE DEF i, read
    <2> QED
        BY <2>2, <2>3, <2>4
<1>2. CASE InSegment(m, a)
    <2>1. i \in 1..Len(m)
        BY <1>2, SegmentIndex
    <2>2. /\ read.cells \in CellMaps(V)
          /\ read.value \in V \cup {undefined} \cup Errors
          /\ Extends(m[i].cells, read.cells)
          /\ isError(read.value) \/ read.value = At(read.cells, a.offset)
        <3> HIDE DEF i
        <3>1. m[i].builtin \in Builtins /\ m[i].cells \in CellMaps(V)
            BY <2>1, MemoryTypes
        <3> QED
            BY <1>0, <3>1, GetTrapType
    <2>3. get(m, a).segments = SetCells(m, i, read.cells) /\ get(m, a).value = read.value
        BY <1>2 DEF get, Trapped, Result
    <2>4. CellAt(get(m, a).segments, a) = At(get(m, a).segments[i].cells, a.offset)
        BY DEF CellAt
    <2> HIDE DEF i, read
    <2> QED
        BY <1>2, <2>1, <2>2, <2>3, <2>4, SetCellsType
<1> QED
    BY <1>1, <1>2

\* this.data[segmentId][offset] = value, over nothing or over the same value
LEMMA putType ==
    ASSUME NEW V, Closed(V), NEW m \in Memories(V), NEW a \in Relocatables, NEW v \in V,
           InSegment(m, a), CellAt(m, a) \in {undefined, v}
    PROVE /\ put(m, a, v).segments \in Memories(V)
          /\ Len(put(m, a, v).segments) = Len(m)
          /\ Grows(m, put(m, a, v).segments)
          /\ put(m, a, v).value \in {undefined} \cup Errors
          /\ \/ isError(put(m, a, v).value)
             \/ CellAt(put(m, a, v).segments, a) = v
<1> DEFINE i == a.segmentId + 1
           write == SetTrap(m[i].builtin, m[i].cells, a.offset, v)
<1>1. a.offset \in Int /\ i \in 1..Len(m)
    BY SegmentIndex DEF Relocatables
<1>2. /\ put(m, a, v).segments = SetCells(m, i, write.cells)
      /\ put(m, a, v).value = write.value
    BY DEF put, Trapped, Result
<1>3. At(m[i].cells, a.offset) \in {undefined, v}
    BY DEF CellAt
<1>4. CellAt(put(m, a, v).segments, a) = At(put(m, a, v).segments[i].cells, a.offset)
    BY DEF CellAt
<1>5. /\ write.cells \in CellMaps(V)
      /\ write.value \in {undefined} \cup Errors
      /\ Extends(m[i].cells, write.cells)
      /\ isError(write.value) \/ At(write.cells, a.offset) = v
    <2> HIDE DEF i
    <2>1. m[i].cells \in CellMaps(V)
        BY <1>1, MemoryTypes
    <2> QED
        BY <1>1, <1>3, <2>1, SetTrapType
<1> HIDE DEF i, write
<1>6. /\ SetCells(m, i, write.cells) \in Memories(V)
      /\ Len(SetCells(m, i, write.cells)) = Len(m)
      /\ SetCells(m, i, write.cells)[i].cells = write.cells
      /\ Grows(m, SetCells(m, i, write.cells))
    BY <1>1, <1>5, SetCellsType
<1> QED
    BY <1>2, <1>4, <1>5, <1>6

\* Memory.assertEq
LEMMA assertEqType ==
    ASSUME NEW V, Closed(V), NEW m \in Memories(V), NEW a \in Relocatables, NEW v \in V
    PROVE /\ assertEq(m, a, v).segments \in Memories(V)
          /\ Len(assertEq(m, a, v).segments) = Len(m)
          /\ Grows(m, assertEq(m, a, v).segments)
          /\ assertEq(m, a, v).value \in {undefined} \cup Errors
          /\ \/ isError(assertEq(m, a, v).value)
             \/ InSegment(m, a) /\ CellAt(assertEq(m, a, v).segments, a) = v
<1> DEFINE read == get(m, a)
<1>1. /\ read.segments \in Memories(V)
      /\ Len(read.segments) = Len(m)
      /\ Grows(m, read.segments)
      /\ read.value \in V \cup {undefined} \cup Errors
      /\ isError(read.value) \/ (InSegment(m, a) /\ read.value = CellAt(read.segments, a))
    BY getType
<1>2. CASE isError(read.value)
    <2>1. assertEq(m, a, v) = read
        BY <1>2 DEF assertEq, Compared
    <2>2. read.value \in Errors
        BY <1>1, <1>2, ClosedValues, Tags
    <2> HIDE DEF read
    <2> QED
        BY <1>1, <1>2, <2>1, <2>2
<1>3. CASE ~isError(read.value) /\ read.value \notin {undefined, v}
    <2>1. assertEq(m, a, v) = Result(read.segments, Error("InconsistentMemory"))
        BY <1>3 DEF assertEq, Compared
    <2>2. Error("InconsistentMemory") \in Errors /\ isError(Error("InconsistentMemory"))
        BY ErrorType, Tags DEF ErrorNames
    <2>3. /\ assertEq(m, a, v).segments = read.segments
          /\ assertEq(m, a, v).value = Error("InconsistentMemory")
        BY <2>1 DEF Result
    <2> HIDE DEF read
    <2> QED
        BY <1>1, <2>2, <2>3
<1>4. CASE ~isError(read.value) /\ read.value \in {undefined, v}
    <2>1. assertEq(m, a, v) = put(read.segments, a, v)
        BY <1>4 DEF assertEq, Compared
    <2>2. InSegment(m, a) /\ InSegment(read.segments, a)
        BY <1>1, <1>4 DEF InSegment
    <2>3. CellAt(read.segments, a) \in {undefined, v}
        BY <1>1, <1>4
    <2> HIDE DEF read
    <2>4. /\ put(read.segments, a, v).segments \in Memories(V)
          /\ Len(put(read.segments, a, v).segments) = Len(read.segments)
          /\ Grows(read.segments, put(read.segments, a, v).segments)
          /\ put(read.segments, a, v).value \in {undefined} \cup Errors
          /\ \/ isError(put(read.segments, a, v).value)
             \/ CellAt(put(read.segments, a, v).segments, a) = v
        BY <1>1, <2>2, <2>3, putType
    <2>5. Grows(m, put(read.segments, a, v).segments)
        BY <1>1, <2>4, GrowsTransitive
    <2> QED
        BY <1>1, <2>1, <2>2, <2>4, <2>5
<1> QED
    BY <1>2, <1>3, <1>4

\* Memory.addSegment
LEMMA addSegmentType ==
    ASSUME NEW V, NEW m \in Memories(V), NEW b \in Builtins
    PROVE /\ addSegment(m, b) \in Memories(V)
          /\ Len(addSegment(m, b)) = Len(m) + 1
          /\ Grows(m, addSegment(m, b))
          /\ \A i \in 1..Len(m) : addSegment(m, b)[i] = m[i]
          /\ addSegment(m, b)[Len(m) + 1].cells = NoCells
<1>1. NoCells \in CellMaps(V)
    <2>1. DOMAIN NoCells = {} /\ NoCells \in [{} -> V]
        BY DEF NoCells
    <2> QED
        BY <2>1, CellMapsDef
<1>2. Segment(b) \in Segments(V)
    BY <1>1 DEF Segment, Segments
<1>3. /\ addSegment(m, b) \in Memories(V)
      /\ Len(addSegment(m, b)) = Len(m) + 1
      /\ \A i \in 1..Len(m) : addSegment(m, b)[i] = m[i]
      /\ addSegment(m, b)[Len(m) + 1] = Segment(b)
    BY <1>2, AppendProperties DEF addSegment, Memories
<1>4. Len(m) \in Nat
    BY MemoryTypes
<1> QED
    BY <1>3, <1>4 DEF Grows, Extends, Segment
-----------------------------------------------------------------------------
(* What one call does to the cells c of one segment, behind the handler b *)

\* The cells d are those a read of c leaves.
ReadCells(b, c, d) == \E o \in Int : d = GetTrap(b, c, o).cells

\* The cells d are those a write that agrees with what it reads in c leaves.
WrittenCells(b, c, d) ==
    \E o \in Int, v \in SegmentValue :
        /\ GetTrap(b, c, o).value \in {undefined, v}
        /\ d = SetTrap(b, GetTrap(b, c, o).cells, o, v).cells

CallCells(b, c, d) == d = c \/ ReadCells(b, c, d) \/ WrittenCells(b, c, d)

LEMMA getCells ==
    ASSUME NEW V, Closed(V), NEW m \in Memories(V), NEW a \in Relocatables,
           NEW j \in 1..Len(m)
    PROVE CallCells(m[j].builtin, m[j].cells, get(m, a).segments[j].cells)
<1> DEFINE i == a.segmentId + 1
           read == GetTrap(m[i].builtin, m[i].cells, a.offset)
<1>1. CASE ~InSegment(m, a)
    BY <1>1 DEF get, Result, CallCells
<1>2. CASE InSegment(m, a)
    <2>1. i \in 1..Len(m) /\ a.offset \in Int
        BY <1>2, SegmentIndex DEF Relocatables
    <2>2. get(m, a).segments = SetCells(m, i, read.cells)
        BY <1>2 DEF get, Trapped, Result
    <2>3. read.cells \in CellMaps(V)
        <3> HIDE DEF i
        <3>1. m[i].builtin \in Builtins /\ m[i].cells \in CellMaps(V)
            BY <2>1, MemoryTypes
        <3> QED
            BY <2>1, <3>1, GetTrapType
    <2>4. /\ SetCells(m, i, read.cells)[i].cells = read.cells
          /\ j # i => SetCells(m, i, read.cells)[j] = m[j]
        <3> HIDE DEF i, read
        <3> QED
            BY <2>1, <2>3, SetCellsType
    <2>5. j = i => ReadCells(m[j].builtin, m[j].cells, get(m, a).segments[j].cells)
        <3> HIDE DEF i
        <3> QED
            BY <2>1, <2>2, <2>4 DEF ReadCells
    <2> HIDE DEF i, read
    <2> QED
        BY <2>2, <2>4, <2>5 DEF CallCells
<1> QED
    BY <1>1, <1>2

LEMMA assertEqCells ==
    ASSUME NEW V, Closed(V), NEW m \in Memories(V), NEW a \in Relocatables,
           NEW v \in V, NEW j \in 1..Len(m)
    PROVE CallCells(m[j].builtin, m[j].cells, assertEq(m, a, v).segments[j].cells)
<1> DEFINE i == a.segmentId + 1
           read == get(m, a)
           trap == GetTrap(m[i].builtin, m[i].cells, a.offset)
           write == SetTrap(read.segments[i].builtin, read.segments[i].cells, a.offset, v)
<1>1. CASE isError(read.value) \/ read.value \notin {undefined, v}
    <2>1. assertEq(m, a, v).segments = read.segments
        BY <1>1 DEF assertEq, Compared, Result
    <2> QED
        BY <2>1, getCells
<1>2. CASE ~isError(read.value) /\ read.value \in {undefined, v}
    <2>0. /\ InSegment(m, a)
          /\ read.segments \in Memories(V) /\ Len(read.segments) = Len(m)
        <3> HIDE DEF i, write
        <3> QED
            BY <1>2, getType
    <2>1. i \in 1..Len(m) /\ a.offset \in Int
        BY <2>0, SegmentIndex DEF Relocatables
    <2>2. assertEq(m, a, v).segments = SetCells(read.segments, i, write.cells)
        BY <1>2 DEF assertEq, Compared, put, Trapped, Result
    <2>3. /\ read.segments = SetCells(m, i, trap.cells)
          /\ read.value = trap.value
        BY <2>0 DEF get, Trapped, Result
    <2>4. trap.cells \in CellMaps(V)
        <3> HIDE DEF i
        <3>1. m[i].builtin \in Builtins /\ m[i].cells \in CellMaps(V)
            BY <2>1, MemoryTypes
        <3> QED
            BY <2>1, <3>1, GetTrapType
    <2>5. /\ read.segments[i].cells = trap.cells
          /\ read.segments[i].builtin = m[i].builtin
          /\ j # i => read.segments[j] = m[j]
        <3> HIDE DEF i, read, trap
        <3> QED
            BY <2>1, <2>3, <2>4, SetCellsType
    <2>6. write.cells \in CellMaps(V)
        <3> HIDE DEF i, read, trap
        <3> QED
            BY <2>1, <2>4, <2>5, SetTrapType
    <2>7. /\ SetCells(read.segments, i, write.cells)[i].cells = write.cells
          /\ j # i => SetCells(read.segments, i, write.cells)[j] = read.segments[j]
        <3> HIDE DEF i, read, trap, write
        <3> QED
            BY <2>0, <2>1, <2>6, SetCellsType
    <2>8. v \in SegmentValue
        BY ClosedValues
    <2>9. j = i => WrittenCells(m[j].builtin, m[j].cells, assertEq(m, a, v).segments[j].cells)
        <3>1. /\ trap.value \in {undefined, v}
              /\ write.cells = SetTrap(m[i].builtin, trap.cells, a.offset, v).cells
            BY <1>2, <2>3, <2>5
        <3>2. WrittenCells(m[i].builtin, m[i].cells, write.cells)
            <4> HIDE DEF i, write
            <4> QED
                BY <2>1, <2>8, <3>1 DEF WrittenCells
        <3> HIDE DEF i, write, read
        <3> QED
            BY <2>2, <2>7, <3>2
    <2> HIDE DEF i, read, write
    <2> QED
        BY <2>2, <2>5, <2>7, <2>9 DEF CallCells
<1> QED
    BY <1>1, <1>2
-----------------------------------------------------------------------------
(* Addresses and pointers *)

\* Addresses in the first n segments, an operand's may have a negative offset;
\* pointers into them; registers that are; and what an operand or a result may be
\* in a memory of n segments
AddressesIn(n) == {r \in Relocatables : r.segmentId < n}
PointersInto(n) == {r \in AddressesIn(n) : r.offset >= 0}
RegistersIn(n) == [Pc : PointersInto(n), Ap : PointersInto(n), Fp : PointersInto(n)]
Known(n) == Within(n) \cup {undefined}

LEMMA WithinClosed ==
    ASSUME NEW n \in Nat
    PROVE Closed(Within(n))
BY FeltsWithin DEF Closed, Within

LEMMA WithinMonotone ==
    ASSUME NEW n \in Nat, NEW k \in Nat, n <= k
    PROVE /\ Within(n) \subseteq Within(k)
          /\ AddressesIn(n) \subseteq AddressesIn(k)
          /\ PointersInto(n) \subseteq PointersInto(k)
<1>1. ASSUME NEW v \in Within(n)
      PROVE v \in Within(k)
    BY <1>1, WithinCases, FeltsWithin, RelocatableWithin DEF Relocatables
<1>2. ASSUME NEW r \in AddressesIn(n)
      PROVE r \in AddressesIn(k)
    BY <1>2 DEF AddressesIn, Relocatables
<1>3. PointersInto(n) \subseteq PointersInto(k)
    BY <1>2 DEF PointersInto
<1> QED
    BY <1>1, <1>2, <1>3

LEMMA AddressFacts ==
    ASSUME NEW n, NEW r \in AddressesIn(n)
    PROVE r \in Relocatables /\ ~isError(r)
BY Tags DEF AddressesIn

LEMMA PointerFacts ==
    ASSUME NEW n \in Nat, NEW r \in PointersInto(n)
    PROVE /\ r \in Within(n) /\ r \in AddressesIn(n) /\ r \in Relocatables
          /\ isRelocatable(r) /\ ~isFelt(r) /\ ~isError(r)
          /\ \A k \in Int : AddOffset(r, k) \in AddressesIn(n)
          /\ \A k \in Nat : AddOffset(r, k) \in PointersInto(n)
          /\ \A f \in Felts : AddFelt(r, f) \in PointersInto(n)
<1>1. /\ r \in Relocatables /\ r.segmentId < n /\ r.offset >= 0
      /\ r.offset \in Int
    BY DEF PointersInto, AddressesIn, Relocatables
<1>2. \A k \in Int : AddOffset(r, k) \in AddressesIn(n)
    BY <1>1, AddOffsetType DEF AddressesIn
<1>3. \A k \in Nat : AddOffset(r, k).offset >= 0
    BY <1>1 DEF AddOffset, Relocatable
<1>4. \A f \in Felts : AddFelt(r, f) \in PointersInto(n)
    BY <1>1, AddFeltType, AddFeltSegment DEF PointersInto, AddressesIn
<1> QED
    BY <1>1, <1>2, <1>3, <1>4, RelocatableWithin, Tags DEF PointersInto, AddressesIn

LEMMA KnownCases ==
    ASSUME NEW n \in Nat, NEW v \in Known(n)
    PROVE /\ ~isError(v)
          /\ \/ v = undefined
             \/ isFelt(v) /\ v \in Felts /\ v \in Within(n) /\ v # undefined
             \/ isRelocatable(v) /\ ~isFelt(v) /\ v \in PointersInto(n) /\ v \in Within(n)
                /\ v # undefined
BY WithinCases, Tags DEF Known, PointersInto, AddressesIn

LEMMA MemoriesMonotone ==
    ASSUME NEW V, NEW W, V \subseteq W, NEW m \in Memories(V)
    PROVE m \in Memories(W)
<1>1. CellMaps(V) \subseteq CellMaps(W)
    BY CellMapsDef
<1>2. Segments(V) \subseteq Segments(W)
    BY <1>1 DEF Segments
<1> QED
    BY <1>2, SeqMonotonic DEF Memories

\* A cell that has a value is found with it in every memory that grew from this.
LEMMA CellAtGrows ==
    ASSUME NEW V, Closed(V), NEW m \in Memories(V), NEW k, Grows(m, k),
           NEW a \in Relocatables, InSegment(m, a), CellAt(m, a) # undefined
    PROVE CellAt(k, a) = CellAt(m, a)
<1> DEFINE i == a.segmentId + 1
<1>1. i \in 1..Len(m)
    BY SegmentIndex
<1>2. Extends(m[i].cells, k[i].cells)
    BY <1>1 DEF Grows
<1>3. CellAt(m, a) = At(m[i].cells, a.offset) /\ CellAt(k, a) = At(k[i].cells, a.offset)
    BY DEF CellAt
<1> HIDE DEF i
<1> QED
    BY <1>2, <1>3 DEF At, Extends


-----------------------------------------------------------------------------
(* What the methods of Memory keep *)


\* The numbers in the segments of range_check are within its bound.
InBounds(c) == \A o \in DOMAIN c : isFelt(c[o]) /\ c[o].inner < RangeBound

RangeChecked(m) ==
    \A i \in DOMAIN m : m[i].builtin = "range_check" => InBounds(m[i].cells)

LEMMA CallInBounds ==
    ASSUME NEW V, Closed(V), NEW c \in CellMaps(V), NEW d, InBounds(c),
           CallCells("range_check", c, d)
    PROVE InBounds(d)
<1>1. \A o : GetTrap("range_check", c, o).cells = c
    BY DEF GetTrap, DeductionBuiltins, NamedBuiltins, SlicedBuiltins
<1>2. ASSUME NEW o \in Int, NEW v \in SegmentValue, d = SetTrap("range_check", c, o, v).cells
      PROVE InBounds(d)
    <2>1. CASE isError(Rejection("range_check", v))
        BY <1>2, <2>1 DEF SetTrap
    <2>2. CASE ~isError(Rejection("range_check", v))
        <3>1. d = Put(c, o, v)
            BY <1>2, <2>2 DEF SetTrap
        <3>2. isError(Error("ExpectedFelt")) /\ isError(Error("RangeCheckOutOfBounds"))
            BY DEF isError, Error
        <3>3. isFelt(v) /\ ~(v.inner >= RangeBound)
            BY <2>2, <3>2 DEF Rejection, BoundOf
        <3>4. v.inner \in Int /\ RangeBound \in Int
            <4>1. v \in Felts
                BY <3>3, Tags DEF SegmentValue
            <4> QED
                BY <4>1, FieldAssumption, BoundAssumption DEF Felts
        <3>5. v.inner < RangeBound
            BY <3>3, <3>4
        <3> QED
            BY <3>1, <3>3, <3>5 DEF Put, InBounds
    <2> QED
        BY <2>1, <2>2
<1> QED
    BY <1>1, <1>2 DEF CallCells, ReadCells, WrittenCells

\* k is the memory m with more cells: the segments are the same, the values are
\* still within the first n segments, and the range checks still hold.
Kept(n, m, k) ==
    /\ k \in Memories(Within(n))
    /\ Len(k) = Len(m)
    /\ Grows(m, k)
    /\ RangeChecked(m) => RangeChecked(k)

LEMMA KeptReflexive ==
    ASSUME NEW n \in Nat, NEW m \in Memories(Within(n))
    PROVE Kept(n, m, m)
BY GrowsReflexive DEF Kept

LEMMA KeptTransitive ==
    ASSUME NEW n \in Nat, NEW k \in Memories(Within(n)), NEW m, NEW r,
           Kept(n, k, m), Kept(n, m, r)
    PROVE Kept(n, k, r)
BY GrowsTransitive DEF Kept

\* Each segment is the work of one call on it.
LEMMA CallsKept ==
    ASSUME NEW n \in Nat, NEW m \in Memories(Within(n)), NEW k \in Memories(Within(n)),
           Len(k) = Len(m), Grows(m, k),
           \A i \in 1..Len(m) : CallCells(m[i].builtin, m[i].cells, k[i].cells)
    PROVE Kept(n, m, k)
<1> SUFFICES ASSUME RangeChecked(m), NEW i \in DOMAIN k, k[i].builtin = "range_check"
             PROVE InBounds(k[i].cells)
    BY DEF Kept, RangeChecked
<1>1. /\ DOMAIN k = 1..Len(k) /\ DOMAIN m = 1..Len(m)
      /\ \A j \in 1..Len(m) : m[j].cells \in CellMaps(Within(n))
    BY MemoryTypes
<1>2. m[i].builtin = "range_check" /\ InBounds(m[i].cells)
    BY <1>1 DEF Grows, RangeChecked
<1>3. CallCells("range_check", m[i].cells, k[i].cells)
    BY <1>1, <1>2
<1> QED
    BY <1>1, <1>2, <1>3, CallInBounds, WithinClosed

LEMMA getKept ==
    ASSUME NEW n \in Nat, NEW m \in Memories(Within(n)), NEW a \in AddressesIn(n)
    PROVE /\ Kept(n, m, get(m, a).segments)
          /\ get(m, a).value \in Known(n) \cup Errors
          /\ \/ isError(get(m, a).value)
             \/ InSegment(m, a) /\ get(m, a).value = CellAt(get(m, a).segments, a)
<1>1. a \in Relocatables
    BY DEF AddressesIn
<1>2. Kept(n, m, get(m, a).segments)
    BY <1>1, getType, getCells, CallsKept, WithinClosed
<1> QED
    BY <1>1, <1>2, getType, WithinClosed DEF Known

LEMMA assertEqKept ==
    ASSUME NEW n \in Nat, NEW m \in Memories(Within(n)), NEW a \in AddressesIn(n),
           NEW v \in Within(n)
    PROVE /\ Kept(n, m, assertEq(m, a, v).segments)
          /\ assertEq(m, a, v).value \in {undefined} \cup Errors
          /\ \/ isError(assertEq(m, a, v).value)
             \/ InSegment(m, a) /\ CellAt(assertEq(m, a, v).segments, a) = v
<1>1. a \in Relocatables
    BY DEF AddressesIn
<1>2. Kept(n, m, assertEq(m, a, v).segments)
    BY <1>1, assertEqType, assertEqCells, CallsKept, WithinClosed
<1> QED
    BY <1>1, <1>2, assertEqType, WithinClosed

-----------------------------------------------------------------------------
(* What the operands of hints keep *)

LEMMA CellRefType ==
    ASSUME NEW n \in Nat, NEW regs \in RegistersIn(n), NEW cell \in CellRef
    PROVE cellRefToRelocatable(regs, cell) \in AddressesIn(n)
<1>1. regs[cell.register] \in PointersInto(n) /\ cell.offset \in Int
    BY DEF CellRef, RegistersIn
<1> QED
    BY <1>1, PointerFacts DEF cellRefToRelocatable

\* What the read of an operand returns
OperandTyped(n, m, read) ==
    Kept(n, m, read.segments) /\ read.value \in Within(n) \cup Errors

LEMMA CheckedTyped ==
    ASSUME NEW n \in Nat, NEW m \in Memories(Within(n)), NEW read,
           Kept(n, m, read.segments), read.value \in Known(n) \cup Errors,
           NEW ok \in BOOLEAN, ok => read.value # undefined,
           NEW name \in ErrorNames
    PROVE /\ OperandTyped(n, m, Checked(read, ok, name))
          /\ isError(Checked(read, ok, name).value)
                \/ (ok /\ Checked(read, ok, name).value = read.value)
<1>1. CASE isError(read.value) \/ ok
    <2>1. Checked(read, ok, name) = read
        BY <1>1 DEF Checked
    <2> QED
        BY <1>1, <2>1, Tags DEF OperandTyped, Known
<1>2. CASE ~isError(read.value) /\ ~ok
    <2>1. /\ Checked(read, ok, name).segments = read.segments
          /\ Checked(read, ok, name).value = Error(name)
        BY <1>2 DEF Checked, Result
    <2>2. Error(name) \in Errors
        BY ErrorType
    <2> QED
        BY <2>1, <2>2, Tags DEF OperandTyped
<1> QED
    BY <1>1, <1>2

LEMMA CellReadsTyped ==
    ASSUME NEW n \in Nat, NEW m \in Memories(Within(n)), NEW regs \in RegistersIn(n),
           NEW cell \in CellRef
    PROVE /\ OperandTyped(n, m, getSegmentValue(m, regs, cell))
          /\ OperandTyped(n, m, getFelt(m, regs, cell))
          /\ OperandTyped(n, m, getRelocatable(m, regs, cell))
          /\ \/ isError(getRelocatable(m, regs, cell).value)
             \/ isRelocatable(getRelocatable(m, regs, cell).value)
<1> DEFINE read == get(m, cellRefToRelocatable(regs, cell))
<1>1. Kept(n, m, read.segments) /\ read.value \in Known(n) \cup Errors
    BY CellRefType, getKept
<1>2. /\ getSegmentValue(m, regs, cell)
            = Checked(read, read.value # undefined, "UndefinedSegmentValue")
      /\ getFelt(m, regs, cell) = Checked(read, isFelt(read.value), "ExpectedFelt")
      /\ getRelocatable(m, regs, cell)
            = Checked(read, isRelocatable(read.value), "ExpectedRelocatable")
    BY DEF getSegmentValue, getFelt, getRelocatable
<1>3. isFelt(read.value) \in BOOLEAN /\ isRelocatable(read.value) \in BOOLEAN
    BY DEF isFelt, isRelocatable
<1>4. {"UndefinedSegmentValue", "ExpectedFelt", "ExpectedRelocatable"} \subseteq ErrorNames
    BY DEF ErrorNames
<1> HIDE DEF read
<1>5. OperandTyped(n, m, getSegmentValue(m, regs, cell))
    BY <1>1, <1>2, <1>4, CheckedTyped
<1>6. OperandTyped(n, m, getFelt(m, regs, cell))
    BY <1>1, <1>2, <1>3, <1>4, CheckedTyped, Tags
<1>7. /\ OperandTyped(n, m, getRelocatable(m, regs, cell))
      /\ \/ isError(getRelocatable(m, regs, cell).value)
         \/ isRelocatable(getRelocatable(m, regs, cell).value)
    BY <1>1, <1>2, <1>3, <1>4, CheckedTyped, Tags
<1> QED
    BY <1>5, <1>6, <1>7
LEMMA OperandKinds ==
    ASSUME NEW operand \in ResOperand
    PROVE \/ operand.type = "Deref" /\ operand.cell \in CellRef
          \/ operand.type = "DoubleDeref" /\ operand.cell \in CellRef /\ operand.offset \in Int
          \/ operand.type = "Immediate" /\ operand.value \in Felts
          \/ /\ operand.type = "BinOp" /\ operand.a \in CellRef
             /\ \/ operand.b.type = "Deref" /\ operand.b.cell \in CellRef
                \/ operand.b.type = "Immediate" /\ operand.b.value \in Felts
BY DEF ResOperand, Deref, Immediate

LEMMA DoubleDerefTyped ==
    ASSUME NEW n \in Nat, NEW m \in Memories(Within(n)), NEW regs \in RegistersIn(n),
           NEW operand, operand.cell \in CellRef, operand.offset \in Int
    PROVE OperandTyped(n, m, getDoubleDeref(m, regs, operand))
<1> DEFINE pointer == getRelocatable(m, regs, operand.cell)
           read == get(pointer.segments, AddOffset(pointer.value, operand.offset))
<1>1. /\ OperandTyped(n, m, pointer)
      /\ isError(pointer.value) \/ isRelocatable(pointer.value)
    BY CellReadsTyped
<1>2. getDoubleDeref(m, regs, operand) =
          IF isError(pointer.value)
            THEN pointer
            ELSE Checked(read, read.value # undefined, "UndefinedSegmentValue")
    BY DEF getDoubleDeref, PointedTo
<1> HIDE DEF pointer
<1>3. CASE isError(pointer.value)
    BY <1>1, <1>2, <1>3
<1>4. CASE ~isError(pointer.value)
    <2>1. pointer.value \in PointersInto(n) /\ pointer.segments \in Memories(Within(n))
        BY <1>1, <1>4, WithinCases, Tags DEF OperandTyped, PointersInto, AddressesIn, Kept
    <2>2. Kept(n, m, read.segments) /\ read.value \in Known(n) \cup Errors
        BY <1>1, <2>1, PointerFacts, getKept, KeptTransitive DEF OperandTyped
    <2>3. "UndefinedSegmentValue" \in ErrorNames
        BY DEF ErrorNames
    <2> HIDE DEF read
    <2> QED
        BY <1>2, <1>4, <2>2, <2>3, CheckedTyped
<1> QED
    BY <1>3, <1>4

LEMMA BinOpTyped ==
    ASSUME NEW n \in Nat, NEW m \in Memories(Within(n)), NEW regs \in RegistersIn(n),
           NEW operand, operand.a \in CellRef,
           \/ operand.b.type = "Deref" /\ operand.b.cell \in CellRef
           \/ operand.b.type = "Immediate" /\ operand.b.value \in Felts
    PROVE OperandTyped(n, m, getBinOp(m, regs, operand))
<1> DEFINE a == getSegmentValue(m, regs, operand.a)
           b == IF operand.b.type = "Deref"
                  THEN getFelt(a.segments, regs, operand.b.cell)
                  ELSE Result(a.segments, operand.b.value)
           value == IF operand.op = "Add" THEN Add(a.value, b.value)
                    ELSE IF isFelt(a.value) THEN Mul(a.value, b.value)
                    ELSE Error("ExpectedFelt")
<1>1. OperandTyped(n, m, a)
    BY CellReadsTyped
<1>2. getBinOp(m, regs, operand) = IF isError(a.value) THEN a
                                   ELSE IF isError(b.value) THEN b
                                   ELSE Result(b.segments, value)
    BY DEF getBinOp, Combine
<1> HIDE DEF a
<1>3. OperandTyped(n, m, b)
    <2>1. a.segments \in Memories(Within(n)) /\ Kept(n, m, a.segments)
        BY <1>1 DEF OperandTyped, Kept
    <2>2. CASE operand.b.type = "Deref" /\ operand.b.cell \in CellRef
        BY <2>1, <2>2, CellReadsTyped, KeptTransitive DEF OperandTyped
    <2>3. CASE operand.b.type = "Immediate" /\ operand.b.value \in Felts
        BY <2>1, <2>3, FeltsWithin DEF OperandTyped, Result
    <2> QED
        BY <2>2, <2>3
<1> HIDE DEF b
<1>4. CASE ~isError(a.value) /\ ~isError(b.value)
    <2>1. a.value \in Within(n) /\ b.value \in Within(n)
        BY <1>1, <1>3, <1>4, Tags DEF OperandTyped
    <2>2. isFelt(a.value) => a.value \in Felts
        BY <2>1, WithinCases
    <2>3. value \in Within(n) \cup Errors
        BY <2>1, <2>2, AddWithin, MulWithin, ErrorType DEF ErrorNames
    <2> HIDE DEF value
    <2> QED
        BY <1>2, <1>3, <1>4, <2>3 DEF OperandTyped, Result
<1> QED
    BY <1>1, <1>2, <1>3, <1>4

LEMMA ResOperandTyped ==
    ASSUME NEW n \in Nat, NEW m \in Memories(Within(n)), NEW regs \in RegistersIn(n),
           NEW operand \in ResOperand
    PROVE OperandTyped(n, m, getResOperandSegmentValue(m, regs, operand))
<1>1. CASE operand.type = "Deref" /\ operand.cell \in CellRef
    BY <1>1, CellReadsTyped DEF getResOperandSegmentValue
<1>2. CASE operand.type = "DoubleDeref" /\ operand.cell \in CellRef /\ operand.offset \in Int
    BY <1>2, DoubleDerefTyped DEF getResOperandSegmentValue
<1>3. CASE operand.type = "Immediate" /\ operand.value \in Felts
    BY <1>3, FeltsWithin, KeptReflexive DEF getResOperandSegmentValue, OperandTyped, Result
<1>4. CASE /\ operand.type = "BinOp" /\ operand.a \in CellRef
           /\ \/ operand.b.type = "Deref" /\ operand.b.cell \in CellRef
              \/ operand.b.type = "Immediate" /\ operand.b.value \in Felts
    BY <1>4, BinOpTyped DEF getResOperandSegmentValue
<1> QED
    BY <1>1, <1>2, <1>3, <1>4, OperandKinds

LEMMA ResOperandValueTyped ==
    ASSUME NEW n \in Nat, NEW m \in Memories(Within(n)), NEW regs \in RegistersIn(n),
           NEW operand \in ResOperand
    PROVE /\ OperandTyped(n, m, getResOperandValue(m, regs, operand))
          /\ \/ isError(getResOperandValue(m, regs, operand).value)
             \/ getResOperandValue(m, regs, operand).value \in Felts
<1> DEFINE read == getResOperandSegmentValue(m, regs, operand)
<1>1. Kept(n, m, read.segments) /\ read.value \in Known(n) \cup Errors
    BY ResOperandTyped DEF OperandTyped, Known
<1>2. getResOperandValue(m, regs, operand) = Checked(read, isFelt(read.value), "ExpectedFelt")
    BY DEF getResOperandValue
<1>3. isFelt(read.value) \in BOOLEAN /\ "ExpectedFelt" \in ErrorNames
    BY DEF isFelt, ErrorNames
<1> HIDE DEF read
<1>4. /\ OperandTyped(n, m, getResOperandValue(m, regs, operand))
      /\ \/ isError(getResOperandValue(m, regs, operand).value)
         \/ /\ isFelt(read.value)
            /\ getResOperandValue(m, regs, operand).value = read.value
    BY <1>1, <1>2, <1>3, CheckedTyped, Tags
<1>5. isFelt(read.value) => read.value \in Felts
    BY <1>1, KnownCases, Tags
<1> QED
    BY <1>4, <1>5

LEMMA OperandsTyped ==
    ASSUME NEW n \in Nat, NEW m \in Memories(Within(n)), NEW regs \in RegistersIn(n),
           NEW hint, hint.lhs \in ResOperand, hint.rhs \in ResOperand
    PROVE /\ Kept(n, m, Operands(m, regs, hint).segments)
          /\ Operands(m, regs, hint).error \in {undefined} \cup Errors
          /\ \/ isError(Operands(m, regs, hint).error)
             \/ /\ Operands(m, regs, hint).lhs \in Felts
                /\ Operands(m, regs, hint).rhs \in Felts
<1> DEFINE lhs == getResOperandValue(m, regs, hint.lhs)
           rhs == getResOperandValue(lhs.segments, regs, hint.rhs)
<1>1. OperandTyped(n, m, lhs) /\ (isError(lhs.value) \/ lhs.value \in Felts)
    BY ResOperandValueTyped
<1>2. Operands(m, regs, hint) =
          IF isError(lhs.value)
            THEN [segments |-> lhs.segments, lhs |-> undefined, rhs |-> undefined,
                  error |-> lhs.value]
            ELSE [segments |-> rhs.segments, lhs |-> lhs.value, rhs |-> rhs.value,
                  error |-> IF isError(rhs.value) THEN rhs.value ELSE undefined]
    BY DEF Operands, Both
<1> HIDE DEF lhs
<1>3. /\ Kept(n, m, rhs.segments) /\ OperandTyped(n, lhs.segments, rhs)
      /\ isError(rhs.value) \/ rhs.value \in Felts
    BY <1>1, ResOperandValueTyped, KeptTransitive DEF OperandTyped, Kept
<1> HIDE DEF rhs
<1>4. /\ isError(lhs.value) => lhs.value \in Errors
      /\ isError(rhs.value) => rhs.value \in Errors
    BY <1>1, <1>3, WithinCases DEF OperandTyped
<1> QED
    BY <1>1, <1>2, <1>3, <1>4, Tags DEF OperandTyped

LEMMA ResOperandRelocatableTyped ==
    ASSUME NEW n \in Nat, NEW m \in Memories(Within(n)), NEW regs \in RegistersIn(n),
           NEW operand \in ResOperand
    PROVE /\ OperandTyped(n, m, getResOperandRelocatable(m, regs, operand))
          /\ \/ isError(getResOperandRelocatable(m, regs, operand).value)
             \/ getResOperandRelocatable(m, regs, operand).value \in PointersInto(n)
<1> DEFINE read == getResOperandSegmentValue(m, regs, operand)
<1>1. Kept(n, m, read.segments) /\ read.value \in Known(n) \cup Errors
    BY ResOperandTyped DEF OperandTyped, Known
<1>2. getResOperandRelocatable(m, regs, operand)
          = Checked(read, isRelocatable(read.value), "ExpectedRelocatable")
    BY DEF getResOperandRelocatable
<1>3. isRelocatable(read.value) \in BOOLEAN /\ "ExpectedRelocatable" \in ErrorNames
    BY DEF isRelocatable, ErrorNames
<1> HIDE DEF read
<1>4. /\ OperandTyped(n, m, getResOperandRelocatable(m, regs, operand))
      /\ \/ isError(getResOperandRelocatable(m, regs, operand).value)
         \/ /\ isRelocatable(read.value)
            /\ getResOperandRelocatable(m, regs, operand).value = read.value
    BY <1>1, <1>2, <1>3, CheckedTyped, Tags
<1>5. isRelocatable(read.value) => read.value \in PointersInto(n)
    BY <1>1, KnownCases, Tags
<1> QED
    BY <1>4, <1>5

\* The pointer of a cell, and what getRelocatable has read there
LEMMA getRelocatableTyped ==
    ASSUME NEW n \in Nat, NEW m \in Memories(Within(n)), NEW regs \in RegistersIn(n),
           NEW cell \in CellRef
    PROVE LET read == getRelocatable(m, regs, cell)
              a == cellRefToRelocatable(regs, cell)
          IN /\ OperandTyped(n, m, read)
             /\ \/ isError(read.value)
                \/ /\ read.value \in PointersInto(n)
                   /\ InSegment(m, a) /\ read.value = CellAt(read.segments, a)
<1> DEFINE a == cellRefToRelocatable(regs, cell)
           got == get(m, a)
           read == getRelocatable(m, regs, cell)
<1>1. /\ Kept(n, m, got.segments) /\ got.value \in Known(n) \cup Errors
      /\ isError(got.value) \/ (InSegment(m, a) /\ got.value = CellAt(got.segments, a))
    BY CellRefType, getKept
<1>2. read = Checked(got, isRelocatable(got.value), "ExpectedRelocatable")
    BY DEF getRelocatable
<1>3. OperandTyped(n, m, read)
    BY CellReadsTyped
<1>4. Error("ExpectedRelocatable") \in Errors
    BY ErrorType DEF ErrorNames
<1> HIDE DEF a, got, read
<1>5. CASE isError(got.value) \/ ~isRelocatable(got.value)
    <2>1. isError(read.value)
        BY <1>2, <1>4, <1>5, Tags DEF Checked, Result
    <2> QED
        BY <1>3, <2>1 DEF read
<1>6. CASE ~isError(got.value) /\ isRelocatable(got.value)
    <2>1. read = got
        BY <1>2, <1>6 DEF Checked
    <2>2. got.value \in PointersInto(n)
        BY <1>1, <1>6, KnownCases, Tags
    <2> QED
        BY <1>1, <1>3, <1>6, <2>1, <2>2 DEF read, a
<1> QED
    BY <1>5, <1>6

\* The cell an operand for a pointer takes it from
PointerCell(operand) == IF operand.type = "Deref" THEN operand.cell ELSE operand.a

LEMMA getPointerTyped ==
    ASSUME NEW n \in Nat, NEW m \in Memories(Within(n)), NEW regs \in RegistersIn(n),
           NEW operand \in ResOperand
    PROVE LET pointer == getPointer(m, regs, operand)
              a == cellRefToRelocatable(regs, PointerCell(operand))
          IN /\ Kept(n, m, pointer.segments)
             /\ pointer.value \in PointersInto(n) \cup Errors
             /\ \/ isError(pointer.value)
                \/ /\ operand.type \in {"Deref", "BinOp"} /\ PointerCell(operand) \in CellRef
                   /\ InSegment(m, a) /\ CellAt(pointer.segments, a) \in PointersInto(n)
                   /\ \E f \in Felts :
                          pointer.value = AddFelt(CellAt(pointer.segments, a), f)
<1> DEFINE pointer == getPointer(m, regs, operand)
           cell == PointerCell(operand)
           a == cellRefToRelocatable(regs, cell)
           read == getRelocatable(m, regs, cell)
<1>1. CASE \/ operand.type = "Deref"
           \/ operand.type = "BinOp" /\ operand.b.type = "Immediate"
    <2>1. /\ operand.type \in {"Deref", "BinOp"} /\ cell \in CellRef
          /\ operand.type = "BinOp" => operand.b.value \in Felts
        BY <1>1, OperandKinds DEF PointerCell
    <2>2. PICK f \in Felts : pointer = Advanced(read, f)
        <3>1. Zero \in Felts
            BY FeltType DEF Zero
        <3> QED
            BY <1>1, <2>1, <3>1 DEF getPointer, PointerCell
    <2>3. /\ OperandTyped(n, m, read)
          /\ \/ isError(read.value)
             \/ /\ read.value \in PointersInto(n)
                /\ InSegment(m, a) /\ read.value = CellAt(read.segments, a)
        BY <2>1, getRelocatableTyped
    <2> HIDE DEF cell, read, pointer
    <2>4. CASE isError(read.value)
        <3>1. pointer = read /\ read.value \in Errors
            BY <2>2, <2>3, <2>4, WithinCases DEF Advanced, OperandTyped
        <3> QED
            BY <2>3, <2>4, <3>1 DEF OperandTyped, pointer
    <2>5. CASE ~isError(read.value)
        <3>1. /\ pointer.segments = read.segments
              /\ pointer.value = AddFelt(read.value, f)
            BY <2>2, <2>5 DEF Advanced, Result
        <3>2. pointer.value \in PointersInto(n)
            BY <2>3, <2>5, <3>1, PointerFacts
        <3> QED
            BY <2>1, <2>3, <2>5, <3>1, <3>2 DEF OperandTyped, pointer, cell
    <2> QED
        BY <2>4, <2>5
<1>2. CASE ~ \/ operand.type = "Deref"
             \/ operand.type = "BinOp" /\ operand.b.type = "Immediate"
    <2>1. pointer.segments = m /\ pointer.value = Error("InvalidBufferResOp")
        BY <1>2 DEF getPointer, Result
    <2>2. Error("InvalidBufferResOp") \in Errors
        BY ErrorType DEF ErrorNames
    <2> QED
        BY <2>1, <2>2, KeptReflexive, Tags
<1> QED
    BY <1>1, <1>2

\* A store after another: what it leaves, and what the cell holds
LEMMA ThenStoreTyped ==
    ASSUME NEW n \in Nat, NEW m \in Memories(Within(n)), NEW write, NEW address,
           NEW value \in Within(n),
           Kept(n, m, write.segments), isError(write.value) => write.value \in Errors,
           isError(write.value) \/ address \in AddressesIn(n)
    PROVE LET r == ThenStore(write, address, value)
          IN /\ Kept(n, m, r.segments)
             /\ Grows(write.segments, r.segments)
             /\ isError(r.value) => r.value \in Errors
             /\ \/ isError(r.value)
                \/ /\ ~isError(write.value)
                   /\ InSegment(m, address) /\ CellAt(r.segments, address) = value
<1> DEFINE r == ThenStore(write, address, value)
<1>1. write.segments \in Memories(Within(n)) /\ Len(write.segments) = Len(m)
    BY DEF Kept
<1>2. CASE isError(write.value)
    <2>1. r = write
        BY <1>2 DEF ThenStore
    <2> QED
        BY <1>1, <1>2, <2>1, GrowsReflexive
<1>3. CASE ~isError(write.value)
    <2>1. r = assertEq(write.segments, address, value)
        BY <1>3 DEF ThenStore
    <2>2. address \in AddressesIn(n)
        BY <1>3
    <2> HIDE DEF r
    <2>3. /\ Kept(n, write.segments, r.segments)
          /\ r.value \in {undefined} \cup Errors
          /\ \/ isError(r.value)
             \/ InSegment(write.segments, address) /\ CellAt(r.segments, address) = value
        BY <1>1, <2>1, <2>2, assertEqKept
    <2>4. Kept(n, m, r.segments) /\ Grows(write.segments, r.segments)
        BY <2>3, KeptTransitive DEF Kept
    <2>5. InSegment(write.segments, address) => InSegment(m, address)
        BY <1>1 DEF InSegment
    <2> QED
        BY <1>3, <2>3, <2>4, <2>5, Tags DEF r
<1> QED
    BY <1>2, <1>3
=============================================================================
