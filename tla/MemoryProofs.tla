----------------------------- MODULE MemoryProofs -----------------------------
(***************************************************************************)
(* Whatever calls are made, class Memory keeps its type and is a           *)
(* write-once store: Memory implements WriteOnceStore.                     *)
(***************************************************************************)
EXTENDS Memory, HintsProofs

\* The inductive invariant: segments of values, and a call in progress has
\* values left to write.
IInv ==
    /\ segments \in Memories(SegmentValue)
    /\ pending = Idle \/ pending \in [address : Relocatables, values : Seq(SegmentValue) \ {<<>>}]

LEMMA ValuesClosed == Closed(SegmentValue)
BY DEF Closed, SegmentValue

LEMMA CallerAddressesType ==
    ASSUME IInv, NEW a \in CallerAddresses
    PROVE a \in Relocatables
<1>1. Len(segments) \in Nat
    BY MemoryTypes DEF IInv
<1> QED
    BY <1>1, CallerAssumption DEF CallerAddresses, Relocatable, Relocatables

LEMMA CallerValuesType == \A v \in CallerValues : v \in SegmentValue
BY CallerAssumption

LEMMA InitIInv == Init => IInv
<1>1. <<>> \in Memories(SegmentValue)
    BY EmptySeq DEF Memories
<1> QED
    BY <1>1 DEF Init, IInv

\* The call of assertEq in a step is one about an address and a value of the
\* right types.
LEMMA AssertedType ==
    ASSUME IInv, NEW a \in Relocatables, NEW v \in SegmentValue, Asserted(a, v)
    PROVE segments' \in Memories(SegmentValue) /\ Grows(segments, segments')
BY assertEqType, ValuesClosed DEF Asserted, IInv

LEMMA StepIInv == IInv /\ [Next]_vars => IInv'
<1> SUFFICES ASSUME IInv, [Next]_vars
             PROVE IInv'
    OBVIOUS
<1> USE DEF IInv
<1>1. ASSUME NEW b \in Builtins, AddSegment(b)
      PROVE IInv'
    BY <1>1, addSegmentType DEF AddSegment
<1>2. ASSUME NEW a \in CallerAddresses, Get(a)
      PROVE IInv'
    <2>1. a \in Relocatables
        BY CallerAddressesType
    <2> QED
        BY <1>2, <2>1, getType, ValuesClosed DEF Get
<1>3. ASSUME NEW a \in CallerAddresses, NEW v \in CallerValues, AssertEq(a, v)
      PROVE IInv'
    <2>1. a \in Relocatables /\ v \in SegmentValue
        BY CallerAddressesType, CallerValuesType
    <2> QED
        BY <1>3, <2>1, AssertedType DEF AssertEq
<1>4. ASSUME NEW a \in CallerAddresses, NEW n \in 1..MaxBatch,
             NEW values \in [1..n -> CallerValues], SetValues(a, values)
      PROVE IInv'
    <2>1. a \in Relocatables
        BY CallerAddressesType
    <2>2. n \in Nat /\ values \in [1..n -> SegmentValue]
        BY CallerValuesType
    <2>3. values \in Seq(SegmentValue) \ {<<>>}
        BY <1>4, <2>2, IsASeq DEF SetValues
    <2> QED
        BY <1>4, <2>1, <2>3 DEF SetValues
<1>5. ASSUME SetNextValue
      PROVE IInv'
    <2>1. pending.address \in Relocatables /\ pending.values \in Seq(SegmentValue) \ {<<>>}
        BY <1>5 DEF SetNextValue, Ready
    <2>2. /\ Head(pending.values) \in SegmentValue
          /\ Tail(pending.values) \in Seq(SegmentValue)
        BY <2>1, HeadTailProperties
    <2>3. AddOffset(pending.address, 1) \in Relocatables
        BY <2>1, AddOffsetType
    <2>4. segments' \in Memories(SegmentValue)
        BY <1>5, <2>1, <2>2, AssertedType DEF SetNextValue
    <2> QED
        BY <1>5, <2>2, <2>3, <2>4 DEF SetNextValue
<1>6. CASE UNCHANGED vars
    BY <1>6 DEF vars
<1> QED
    BY <1>1, <1>2, <1>3, <1>4, <1>5, <1>6 DEF Next

\* Every cell of every segment holds a felt or a relocatable, never an error or
\* undefined, after any calls.
THEOREM TypeCorrect == Spec => []TypeOK
<1>1. IInv => TypeOK
    <2> SUFFICES ASSUME IInv
                 PROVE TypeOK
        OBVIOUS
    <2>1. ASSUME NEW i \in DOMAIN segments
          PROVE /\ segments[i].builtin \in Builtins
                /\ \A o \in DOMAIN segments[i].cells :
                      o \in Int /\ segments[i].cells[o] \in SegmentValue
        <3>1. segments[i].builtin \in Builtins /\ segments[i].cells \in CellMaps(SegmentValue)
            BY MemoryTypes DEF IInv
        <3> QED
            BY <3>1, CellMapsDef
    <2> QED
        BY <2>1 DEF IInv, TypeOK, Ready
<1> QED
    BY <1>1, InitIInv, StepIInv, PTL DEF Spec

-----------------------------------------------------------------------------
(* The refinement *)

LEMMA StoreDomain ==
    ASSUME NEW m \in Memories(SegmentValue), NEW a
    PROVE a \in DOMAIN StoreOf(m) <=>
            /\ a \in Relocatables
            /\ InSegment(m, a)
            /\ a.offset \in DOMAIN m[a.segmentId + 1].cells
<1>1. Len(m) \in Nat /\ DOMAIN m = 1..Len(m)
    BY MemoryTypes
<1>2. a \in DOMAIN StoreOf(m) <=>
          \E i \in 1..Len(m) : \E o \in DOMAIN m[i].cells : a = Relocatable(i - 1, o)
    BY <1>1 DEF StoreOf
<1>3. ASSUME NEW i \in 1..Len(m), NEW o \in DOMAIN m[i].cells, a = Relocatable(i - 1, o)
      PROVE /\ a \in Relocatables
            /\ InSegment(m, a)
            /\ a.offset \in DOMAIN m[a.segmentId + 1].cells
    <2>1. o \in Int
        BY MemoryTypes, CellMapsDef
    <2>2. a.segmentId = i - 1 /\ a.offset = o /\ a \in Relocatables
        BY <1>1, <1>3, <2>1 DEF Relocatable, Relocatables
    <2>3. a.segmentId + 1 = i /\ InSegment(m, a)
        BY <1>1, <2>2 DEF InSegment
    <2> QED
        BY <2>2, <2>3
<1>4. ASSUME a \in Relocatables, InSegment(m, a),
             a.offset \in DOMAIN m[a.segmentId + 1].cells
      PROVE \E i \in 1..Len(m) : \E o \in DOMAIN m[i].cells : a = Relocatable(i - 1, o)
    <2> DEFINE i == a.segmentId + 1
    <2>1. i \in 1..Len(m)
        BY <1>4, SegmentIndex
    <2>2. i - 1 = a.segmentId
        BY <1>4 DEF Relocatables
    <2>3. a = Relocatable(a.segmentId, a.offset)
        BY <1>4 DEF Relocatable, Relocatables
    <2>4. a = Relocatable(i - 1, a.offset)
        BY <2>2, <2>3
    <2>5. a.offset \in DOMAIN m[i].cells
        BY <1>4
    <2> HIDE DEF i
    <2> QED
        BY <2>1, <2>4, <2>5
<1> QED
    BY <1>2, <1>3, <1>4

LEMMA StoreValue ==
    ASSUME NEW m \in Memories(SegmentValue), NEW a \in DOMAIN StoreOf(m)
    PROVE StoreOf(m)[a] = CellAt(m, a) /\ CellAt(m, a) = m[a.segmentId + 1].cells[a.offset]
BY StoreDomain DEF StoreOf, CellAt, At

\* What the memory holds, the store has; what it does not hold is missing.
LEMMA StoreCell ==
    ASSUME NEW m \in Memories(SegmentValue), NEW a \in Relocatables, InSegment(m, a)
    PROVE CellAt(m, a) = IF a \in DOMAIN StoreOf(m) THEN StoreOf(m)[a] ELSE undefined
BY StoreDomain, StoreValue DEF CellAt, At

\* When the memory grows the store does.
LEMMA StoreGrows ==
    ASSUME NEW m \in Memories(SegmentValue), NEW n \in Memories(SegmentValue), Grows(m, n),
           NEW a \in DOMAIN StoreOf(m)
    PROVE a \in DOMAIN StoreOf(n) /\ StoreOf(n)[a] = StoreOf(m)[a]
<1> DEFINE i == a.segmentId + 1
<1>1. a \in Relocatables /\ i \in 1..Len(m) /\ a.offset \in DOMAIN m[i].cells
    BY StoreDomain, SegmentIndex
<1>2. Len(m) \in Nat /\ Len(n) \in Nat /\ Len(m) <= Len(n)
    BY MemoryTypes DEF Grows
<1>3. i \in 1..Len(n)
    BY <1>1, <1>2
<1>4. a.offset \in DOMAIN n[i].cells /\ n[i].cells[a.offset] = m[i].cells[a.offset]
    BY <1>1 DEF Grows, Extends
<1>5. a \in DOMAIN StoreOf(n)
    BY <1>1, <1>3, <1>4, StoreDomain, SegmentIndex
<1> QED
    BY <1>4, <1>5, StoreValue

LEMMA AssertedRefines ==
    ASSUME IInv, NEW a \in Relocatables, NEW v \in SegmentValue, Asserted(a, v)
    PROVE WriteOnce!Assert \/ WriteOnce!Fail
<1> DEFINE write == assertEq(segments, a, v)
<1>1. /\ write.segments \in Memories(SegmentValue)
      /\ Len(write.segments) = Len(segments)
      /\ Grows(segments, write.segments)
      /\ isError(write.value) \/ (InSegment(segments, a) /\ CellAt(write.segments, a) = v)
    BY assertEqType, ValuesClosed DEF IInv
<1>2. /\ segments' = write.segments
      /\ outcome' = IF isError(write.value) THEN Throws
                    ELSE [op |-> "assert", address |-> a, value |-> v]
    BY DEF Asserted
<1> HIDE DEF write
<1>3. WriteOnce!Grow
    BY <1>1, <1>2, StoreGrows DEF WriteOnce!Grow, Store, IInv
<1>4. CASE isError(write.value)
    BY <1>1, <1>2, <1>3, <1>4 DEF WriteOnce!Fail, Throws
<1>5. CASE ~isError(write.value)
    <2>1. InSegment(segments', a) /\ CellAt(segments', a) = v
        BY <1>1, <1>2, <1>5 DEF InSegment
    <2>2. v # undefined
        BY ValuesClosed, ClosedValues
    <2>3. a \in DOMAIN StoreOf(segments') /\ StoreOf(segments')[a] = v
        BY <1>1, <1>2, <2>1, <2>2, StoreCell
    <2>4. outcome'.op = "assert" /\ outcome'.address = a /\ outcome'.value = v
        BY <1>2, <1>5
    <2> QED
        BY <1>1, <1>2, <1>3, <2>3, <2>4 DEF WriteOnce!Assert, Store
<1> QED
    BY <1>4, <1>5

LEMMA InitRefines == Init => WriteOnce!Init
<1> SUFFICES ASSUME Init
             PROVE WriteOnce!Init
    OBVIOUS
<1>1. segments \in Memories(SegmentValue) /\ Len(segments) = 0
    BY InitIInv, EmptySeq DEF Init, IInv
<1>2. DOMAIN StoreOf(segments) = {}
    <2>1. DOMAIN segments = {}
        BY <1>1, MemoryTypes
    <2> QED
        BY <2>1 DEF StoreOf
<1>3. StoreOf(segments) = [a \in {} |-> undefined]
    BY <1>2 DEF StoreOf
<1> QED
    BY <1>1, <1>3 DEF Init, WriteOnce!Init, Store, Nothing, WriteOnce!Nothing

LEMMA StepRefines == IInv /\ [Next]_vars => [WriteOnce!Next]_(WriteOnce!vars)
<1> SUFFICES ASSUME IInv, [Next]_vars
             PROVE [WriteOnce!Next]_(WriteOnce!vars)
    OBVIOUS
<1>1. ASSUME NEW b \in Builtins, AddSegment(b)
      PROVE WriteOnce!Allocate
    <2>1. /\ segments' \in Memories(SegmentValue)
          /\ Len(segments') = Len(segments) + 1
          /\ Grows(segments, segments')
          /\ \A i \in 1..Len(segments) : segments'[i] = segments[i]
          /\ segments'[Len(segments) + 1].cells = NoCells
        BY <1>1, addSegmentType DEF AddSegment, IInv
    <2>2. ASSUME NEW a \in DOMAIN StoreOf(segments')
          PROVE a \in DOMAIN StoreOf(segments)
        <3>1. /\ a \in Relocatables /\ a.segmentId + 1 \in 1..Len(segments')
              /\ a.offset \in DOMAIN segments'[a.segmentId + 1].cells
            BY <2>1, StoreDomain, SegmentIndex
        <3>2. Len(segments) \in Nat /\ a.segmentId \in Nat
            BY <3>1, MemoryTypes DEF IInv, Relocatables
        <3>3. a.segmentId + 1 # Len(segments) + 1
            BY <2>1, <3>1 DEF NoCells
        <3>4. a.segmentId + 1 \in 1..Len(segments)
            BY <2>1, <3>1, <3>2, <3>3
        <3> QED
            BY <2>1, <3>1, <3>4, StoreDomain, SegmentIndex DEF IInv
    <2>3. StoreOf(segments') = StoreOf(segments)
        <3>1. DOMAIN StoreOf(segments') = DOMAIN StoreOf(segments)
            BY <2>1, <2>2, StoreGrows DEF IInv
        <3>2. \A a \in DOMAIN StoreOf(segments) :
                  StoreOf(segments')[a] = StoreOf(segments)[a]
            BY <2>1, StoreGrows DEF IInv
        <3> QED
            BY <3>1, <3>2 DEF StoreOf
    <2> QED
        BY <1>1, <2>1, <2>3
        DEF AddSegment, WriteOnce!Allocate, Store, Nothing, WriteOnce!Nothing
<1>2. ASSUME NEW a \in CallerAddresses, Get(a)
      PROVE WriteOnce!Read \/ WriteOnce!Fail
    <2> DEFINE read == get(segments, a)
    <2>1. a \in Relocatables
        BY CallerAddressesType
    <2>2. /\ read.segments \in Memories(SegmentValue)
          /\ Len(read.segments) = Len(segments)
          /\ Grows(segments, read.segments)
          /\ \/ isError(read.value)
             \/ InSegment(segments, a) /\ read.value = CellAt(read.segments, a)
        BY <2>1, getType, ValuesClosed DEF IInv
    <2>3. /\ segments' = read.segments
          /\ outcome' = IF isError(read.value) THEN Throws
                        ELSE [op |-> "read", address |-> a, value |-> read.value]
        BY <1>2 DEF Get
    <2> HIDE DEF read
    <2>4. WriteOnce!Grow
        BY <2>2, <2>3, StoreGrows DEF WriteOnce!Grow, Store, IInv
    <2>5. CASE isError(read.value)
        BY <2>2, <2>3, <2>4, <2>5 DEF WriteOnce!Fail, Throws
    <2>6. CASE ~isError(read.value)
        <3>1. /\ outcome'.op = "read" /\ outcome'.address = a
              /\ outcome'.value = CellAt(segments', a)
            BY <2>2, <2>3, <2>6
        <3>2. InSegment(segments', a)
            BY <2>2, <2>3, <2>6 DEF InSegment
        <3>3. CellAt(segments', a) = IF a \in DOMAIN StoreOf(segments')
                                       THEN StoreOf(segments')[a]
                                       ELSE undefined
            BY <2>1, <2>2, <2>3, <3>2, StoreCell
        <3> QED
            BY <2>2, <2>3, <2>4, <3>1, <3>3 DEF WriteOnce!Read, Store
    <2> QED
        BY <2>5, <2>6
<1>3. ASSUME NEW a \in CallerAddresses, NEW v \in CallerValues, AssertEq(a, v)
      PROVE WriteOnce!Assert \/ WriteOnce!Fail
    <2>1. a \in Relocatables /\ v \in SegmentValue /\ Asserted(a, v)
        BY <1>3, CallerAddressesType, CallerValuesType DEF AssertEq
    <2> QED
        BY <2>1, AssertedRefines
<1>4. ASSUME NEW a \in CallerAddresses, NEW values, SetValues(a, values)
      PROVE WriteOnce!Begin
    BY <1>4 DEF SetValues, WriteOnce!Begin, Store, Nothing, WriteOnce!Nothing
<1>5. ASSUME SetNextValue
      PROVE WriteOnce!Assert \/ WriteOnce!Fail
    <2>1. pending.address \in Relocatables /\ pending.values \in Seq(SegmentValue) \ {<<>>}
        BY <1>5 DEF SetNextValue, Ready, IInv
    <2>2. Head(pending.values) \in SegmentValue
        BY <2>1, HeadTailProperties
    <2>3. Asserted(pending.address, Head(pending.values))
        BY <1>5 DEF SetNextValue
    <2> QED
        BY <2>1, <2>2, <2>3, AssertedRefines
<1>6. CASE UNCHANGED vars
    BY <1>6 DEF vars, WriteOnce!vars, Store
<1> QED
    BY <1>1, <1>2, <1>3, <1>4, <1>5, <1>6 DEF Next, WriteOnce!Next

\* Every behaviour of the memory is a behaviour of the write-once store.
THEOREM MemoryIsWriteOnce == Spec => ImplementsWriteOnce
<1>1. Spec => WriteOnce!Spec
    BY InitIInv, StepIInv, InitRefines, StepRefines, PTL DEF Spec, WriteOnce!Spec
<1> QED
    BY <1>1 DEF ImplementsWriteOnce
-----------------------------------------------------------------------------
(* The contents of the builtin segments *)

\* A step leaves each segment alone or does one call's work on its cells; a
\* segment that was not there is empty.
LEMMA StepCells ==
    ASSUME IInv, [Next]_vars, NEW i \in DOMAIN segments'
    PROVE \/ segments'[i].cells = NoCells
          \/ /\ i \in DOMAIN segments
             /\ segments'[i].builtin = segments[i].builtin
             /\ CallCells(segments[i].builtin, segments[i].cells, segments'[i].cells)
<1> DEFINE Goal == \/ segments'[i].cells = NoCells
                   \/ /\ i \in DOMAIN segments
                      /\ segments'[i].builtin = segments[i].builtin
                      /\ CallCells(segments[i].builtin, segments[i].cells, segments'[i].cells)
<1>0. /\ segments \in Memories(SegmentValue) /\ segments' \in Memories(SegmentValue)
      /\ Len(segments) \in Nat /\ DOMAIN segments = 1..Len(segments)
      /\ DOMAIN segments' = 1..Len(segments')
    BY StepIInv, MemoryTypes DEF IInv
<1>1. ASSUME NEW b \in Builtins, AddSegment(b)
      PROVE Goal
    <2>1. /\ Len(segments') = Len(segments) + 1
          /\ \A j \in 1..Len(segments) : segments'[j] = segments[j]
          /\ segments'[Len(segments) + 1].cells = NoCells
        BY <1>0, <1>1, addSegmentType DEF AddSegment
    <2> QED
        BY <1>0, <2>1 DEF CallCells
<1>2. ASSUME NEW a \in CallerAddresses, Get(a)
      PROVE Goal
    <2>1. a \in Relocatables /\ segments' = get(segments, a).segments
        BY <1>2, CallerAddressesType DEF Get
    <2>2. Len(segments') = Len(segments) /\ Grows(segments, segments')
        BY <1>0, <2>1, getType, ValuesClosed
    <2> QED
        BY <1>0, <2>1, <2>2, getCells, ValuesClosed DEF Grows
<1>3. ASSUME NEW a \in Relocatables, NEW v \in SegmentValue, Asserted(a, v)
      PROVE Goal
    <2>1. segments' = assertEq(segments, a, v).segments
        BY <1>3 DEF Asserted
    <2>2. Len(segments') = Len(segments) /\ Grows(segments, segments')
        BY <1>0, <2>1, assertEqType, ValuesClosed
    <2> QED
        BY <1>0, <2>1, <2>2, assertEqCells, ValuesClosed DEF Grows
<1>4. ASSUME NEW a \in CallerAddresses, NEW v \in CallerValues, AssertEq(a, v)
      PROVE Goal
    <2>1. a \in Relocatables /\ v \in SegmentValue /\ Asserted(a, v)
        BY <1>4, CallerAddressesType, CallerValuesType DEF AssertEq
    <2> QED
        BY <1>3, <2>1
<1>5. ASSUME NEW a, NEW values, SetValues(a, values)
      PROVE Goal
    BY <1>0, <1>5 DEF SetValues, CallCells
<1>6. ASSUME SetNextValue
      PROVE Goal
    <2>1. pending.address \in Relocatables /\ pending.values \in Seq(SegmentValue) \ {<<>>}
        BY <1>6 DEF SetNextValue, Ready, IInv
    <2>2. Head(pending.values) \in SegmentValue
        BY <2>1, HeadTailProperties
    <2>3. Asserted(pending.address, Head(pending.values))
        BY <1>6 DEF SetNextValue
    <2> QED
        BY <1>3, <2>1, <2>2, <2>3
<1>7. CASE UNCHANGED vars
    BY <1>0, <1>7 DEF vars, CallCells
<1> QED
    BY <1>1, <1>2, <1>4, <1>5, <1>6, <1>7 DEF Next

\* The set trap is the only way into a segment that validates its values.
LEMMA CallValidated ==
    ASSUME NEW b \in Builtins, NEW c \in CellMaps(SegmentValue), NEW d,
           Validated(b, c), CallCells(b, c, d)
    PROVE Validated(b, d)
<1> DEFINE Checking == {"range_check", "range_check96", "output"}
<1>1. CASE b \notin Checking
    BY <1>1 DEF Validated
<1>2. CASE b \in Checking
    <2>1. \A o : GetTrap(b, c, o).cells = c
        BY <1>2 DEF GetTrap, DeductionBuiltins, NamedBuiltins, SlicedBuiltins
    <2>2. ASSUME NEW o \in Int, NEW v \in SegmentValue, d = SetTrap(b, c, o, v).cells
          PROVE Validated(b, d)
        <3>1. CASE isError(Rejection(b, v))
            BY <2>2, <3>1 DEF SetTrap
        <3>2. CASE ~isError(Rejection(b, v))
            <4>1. d = Put(c, o, v)
                BY <2>2, <3>2 DEF SetTrap
            <4>2. isError(Error("ExpectedFelt")) /\ isError(Error("RangeCheckOutOfBounds"))
                BY DEF isError, Error
            <4>3. isFelt(v) /\ (b \in {"range_check", "range_check96"} => ~(v.inner >= BoundOf(b)))
                BY <1>2, <3>2, <4>2 DEF Rejection
            <4>4. v.inner \in Int /\ RangeBound \in Int /\ RangeBound96 \in Int
                <5>1. v \in Felts
                    BY <4>3, Tags DEF SegmentValue
                <5> QED
                    BY <5>1, FieldAssumption, BoundAssumption DEF Felts
            <4>5. /\ b = "range_check" => v.inner < RangeBound
                  /\ b = "range_check96" => v.inner < RangeBound96
                BY <4>3, <4>4 DEF BoundOf
            <4> QED
                BY <1>2, <4>1, <4>3, <4>5 DEF Put, Validated
        <3> QED
            BY <3>1, <3>2
    <2> QED
        BY <2>1, <2>2 DEF CallCells, ReadCells, WrittenCells
<1> QED
    BY <1>1, <1>2

\* Range check segments hold numbers within their bound and output segments
\* felts, after any calls.
THEOREM CellsAreValidated == Spec => []ValidatedCells
<1>1. Init => ValidatedCells
    BY DEF Init, ValidatedCells
<1>2. IInv /\ ValidatedCells /\ [Next]_vars => ValidatedCells'
    <2> SUFFICES ASSUME IInv, ValidatedCells, [Next]_vars, NEW i \in DOMAIN segments'
                 PROVE Validated(segments'[i].builtin, segments'[i].cells)
        BY DEF ValidatedCells
    <2>1. CASE segments'[i].cells = NoCells
        BY <2>1 DEF Validated, NoCells
    <2>2. CASE /\ i \in DOMAIN segments
               /\ segments'[i].builtin = segments[i].builtin
               /\ CallCells(segments[i].builtin, segments[i].cells, segments'[i].cells)
        <3>1. segments[i].builtin \in Builtins /\ segments[i].cells \in CellMaps(SegmentValue)
            BY <2>2, MemoryTypes DEF IInv
        <3>2. Validated(segments[i].builtin, segments[i].cells)
            BY <2>2 DEF ValidatedCells
        <3> QED
            BY <2>2, <3>1, <3>2, CallValidated
    <2> QED
        BY <2>1, <2>2, StepCells
<1> QED
    BY <1>1, <1>2, InitIInv, StepIInv, PTL DEF Spec
-----------------------------------------------------------------------------
(* Deductions stay true *)

\* The inputs a value was computed from keep their values.
LEMMA AgreesExtends ==
    ASSUME NEW c, NEW d, NEW b, NEW o, NEW v, Extends(c, d), AgreesAt(b, c, o, v)
    PROVE AgreesAt(b, d, o, v)
<1> DEFINE first == o - Position(b, o)
<1>1. ASSUME NEW k \in 1..InputCellsPer(b)
      PROVE At(d, first + k - 1) = At(c, first + k - 1)
    <2>1. isFelt(InstanceInputs(b, c, o)[k])
        BY DEF AgreesAt, InstanceInputs
    <2>2. InstanceInputs(b, c, o)[k] = At(c, first + k - 1)
        BY DEF InstanceInputs
    <2>3. first + k - 1 \in DOMAIN c
        BY <2>1, <2>2, Tags DEF At
    <2> HIDE DEF first
    <2> QED
        BY <2>3 DEF At, Extends
<1>2. InstanceInputs(b, d, o) = InstanceInputs(b, c, o)
    BY <1>1 DEF InstanceInputs
<1> QED
    BY <1>2 DEF AgreesAt

\* What a handler deduces is what its builtin computes from the inputs.
LEMMA DeduceAgrees ==
    ASSUME NEW c \in CellMaps(SegmentValue), NEW o \in Int, NEW b \in Builtins,
           Deduced(b, o), ~isError(Deduce(b, c, o))
    PROVE AgreesAt(b, c, o, Deduce(b, c, o))
<1> DEFINE base == o - Position(b, o)
           xs == Inputs(b, c, base)
<1>1. b \in DeductionBuiltins /\ b # "keccak"
    BY DEF Deduced
<1>2. base \in Int
    BY <1>1, CellCounts, PositionType
<1>3. ~isError(Refusal(b, xs))
    BY DEF Deduce, Computed
<1>4. xs \in [1..InputCellsPer(b) -> Felts]
    <2>1. \E n \in InputCounts(b) : xs \in [1..n -> Felts]
        BY <1>1, <1>2, <1>3, AcceptedInputs, ValuesClosed
    <2> QED
        BY <1>1, <2>1 DEF InputCounts
<1>5. xs = InstanceInputs(b, c, o)
    <2>1. \A k \in DOMAIN xs : xs[k] = At(c, base + k - 1)
        BY DEF Inputs
    <2>2. DOMAIN xs = 1..InputCellsPer(b)
        BY <1>4
    <2>3. xs = [k \in DOMAIN xs |-> At(c, base + k - 1)]
        BY <2>1, <1>4
    <2> QED
        BY <2>2, <2>3 DEF InstanceInputs
<1>6. \A k \in DOMAIN xs : isFelt(xs[k])
    BY <1>4, Tags
<1>7. Deduce(b, c, o) = Compute(b, xs, Position(b, o) - InputCellsPer(b))
    BY <1>3 DEF Deduce, Computed
<1> HIDE DEF xs, base
<1> QED
    BY <1>5, <1>6, <1>7 DEF AgreesAt

\* A cell that gets a value its builtin computed, or is not an output, leaves
\* the segment in agreement.
LEMMA PutAgrees ==
    ASSUME NEW c \in CellMaps(SegmentValue), NEW o \in Int, NEW v \in SegmentValue, NEW b,
           OutputsAgree(b, c), At(c, o) \in {undefined, v},
           Deduced(b, o) => AgreesAt(b, c, o, v)
    PROVE OutputsAgree(b, Put(c, o, v))
<1>1. Extends(c, Put(c, o, v)) /\ Put(c, o, v)[o] = v
    BY PutType, ValuesClosed, ClosedValues
<1>2. ASSUME NEW x \in DOMAIN Put(c, o, v), Deduced(b, x)
      PROVE AgreesAt(b, c, x, Put(c, o, v)[x])
    <2>1. CASE x = o
        BY <1>1, <1>2, <2>1
    <2>2. CASE x # o
        <3>1. x \in DOMAIN c /\ Put(c, o, v)[x] = c[x]
            BY <2>2 DEF Put
        <3> QED
            BY <1>2, <3>1 DEF OutputsAgree
    <2> QED
        BY <2>1, <2>2
<1> QED
    BY <1>1, <1>2, AgreesExtends DEF OutputsAgree

\* A read keeps the segment in agreement, and gives an output cell a value.
LEMMA ReadAgrees ==
    ASSUME NEW b \in Builtins, NEW c \in CellMaps(SegmentValue), NEW o \in Int,
           OutputsAgree(b, c)
    PROVE /\ OutputsAgree(b, GetTrap(b, c, o).cells)
          /\ Deduced(b, o) => \/ isError(GetTrap(b, c, o).value)
                              \/ o \in DOMAIN GetTrap(b, c, o).cells
<1> DEFINE v == Deduce(b, c, o)
<1>1. CASE \/ b \notin DeductionBuiltins
           \/ Position(b, o) < InputCellsPer(b)
           \/ o \in DOMAIN c
    <2>1. GetTrap(b, c, o).cells = c
        BY <1>1 DEF GetTrap
    <2>2. Deduced(b, o) => o \in DOMAIN c
        BY <1>1, CellCounts, PositionType DEF Deduced
    <2> QED
        BY <2>1, <2>2
<1>2. CASE /\ b \in DeductionBuiltins
           /\ ~(Position(b, o) < InputCellsPer(b))
           /\ o \notin DOMAIN c
    <2>1. /\ GetTrap(b, c, o).cells = IF isError(v) THEN c ELSE Put(c, o, v)
          /\ GetTrap(b, c, o).value = v
        BY <1>2 DEF GetTrap, Cached
    <2>2. CASE isError(v)
        BY <2>1, <2>2
    <2>3. CASE ~isError(v)
        <3>1. InputCellsPer(b) <= Position(b, o)
            BY <1>2, CellCounts, PositionType
        <3>2. v \in SegmentValue
            BY <1>2, <2>3, <3>1, DeduceType, ValuesClosed, Tags DEF SegmentValue
        <3>3. At(c, o) = undefined
            BY <1>2 DEF At
        <3>4. Deduced(b, o) => AgreesAt(b, c, o, v)
            BY <2>3, DeduceAgrees
        <3> HIDE DEF v
        <3>5. OutputsAgree(b, Put(c, o, v)) /\ o \in DOMAIN Put(c, o, v)
            BY <3>2, <3>3, <3>4, PutAgrees, PutType
        <3> QED
            BY <2>1, <2>3, <3>5
    <2> QED
        BY <2>2, <2>3
<1> QED
    BY <1>1, <1>2

LEMMA CallAgrees ==
    ASSUME NEW b \in Builtins, NEW c \in CellMaps(SegmentValue), NEW d,
           OutputsAgree(b, c), CallCells(b, c, d)
    PROVE OutputsAgree(b, d)
<1>1. CASE d = c
    BY <1>1
<1>2. CASE ReadCells(b, c, d)
    BY <1>2, ReadAgrees DEF ReadCells
<1>3. CASE WrittenCells(b, c, d)
    <2>1. PICK o \in Int, v \in SegmentValue :
              /\ GetTrap(b, c, o).value \in {undefined, v}
              /\ d = SetTrap(b, GetTrap(b, c, o).cells, o, v).cells
        BY <1>3 DEF WrittenCells
    <2> DEFINE g == GetTrap(b, c, o).cells
    <2>2. ~isError(GetTrap(b, c, o).value)
        BY <2>1, Tags, ClosedValues, ValuesClosed
    <2>3. g \in CellMaps(SegmentValue) /\ GetTrap(b, c, o).value = At(g, o)
        BY <2>2, GetTrapType, ValuesClosed
    <2>4. OutputsAgree(b, g) /\ (Deduced(b, o) => o \in DOMAIN g)
        BY <2>2, ReadAgrees
    <2>5. d = SetTrap(b, g, o, v).cells /\ At(g, o) \in {undefined, v}
        BY <2>1, <2>3
    <2> HIDE DEF g
    <2>6. Deduced(b, o) => AgreesAt(b, g, o, v)
        <3> SUFFICES ASSUME Deduced(b, o)
                     PROVE AgreesAt(b, g, o, v)
            OBVIOUS
        <3>1. o \in DOMAIN g /\ g[o] \in SegmentValue
            BY <2>3, <2>4, CellMapsDef
        <3>2. g[o] = v
            BY <2>5, <3>1, ClosedValues, ValuesClosed DEF At
        <3> QED
            BY <2>4, <3>1, <3>2 DEF OutputsAgree
    <2>7. OutputsAgree(b, Put(g, o, v))
        BY <2>3, <2>4, <2>5, <2>6, PutAgrees
    <2> QED
        BY <2>4, <2>5, <2>7 DEF SetTrap
<1> QED
    BY <1>1, <1>2, <1>3 DEF CallCells

\* No cached deduction is ever stale, whatever the builtin computes.
THEOREM DeductionsStayTrue == Spec => []DeducedOutputsAgree
<1>1. Init => DeducedOutputsAgree
    BY DEF Init, DeducedOutputsAgree
<1>2. IInv /\ DeducedOutputsAgree /\ [Next]_vars => DeducedOutputsAgree'
    <2> SUFFICES ASSUME IInv, DeducedOutputsAgree, [Next]_vars, NEW i \in DOMAIN segments'
                 PROVE OutputsAgree(segments'[i].builtin, segments'[i].cells)
        BY DEF DeducedOutputsAgree
    <2>1. CASE segments'[i].cells = NoCells
        BY <2>1 DEF OutputsAgree, NoCells
    <2>2. CASE /\ i \in DOMAIN segments
               /\ segments'[i].builtin = segments[i].builtin
               /\ CallCells(segments[i].builtin, segments[i].cells, segments'[i].cells)
        <3>1. segments[i].builtin \in Builtins /\ segments[i].cells \in CellMaps(SegmentValue)
            BY <2>2, MemoryTypes DEF IInv
        <3>2. OutputsAgree(segments[i].builtin, segments[i].cells)
            BY <2>2 DEF DeducedOutputsAgree
        <3> QED
            BY <2>2, <3>1, <3>2, CallAgrees
    <2> QED
        BY <2>1, <2>2, StepCells
<1> QED
    BY <1>1, <1>2, InitIInv, StepIInv, PTL DEF Spec
=============================================================================
