--------------------------- MODULE CairoRunnerProofs ---------------------------
(***************************************************************************)
(* A run of any program of any size, with any hints, any builtins and any  *)
(* decoding of its instructions, keeps every register, every entry of the  *)
(* trace and every cell pointing into segments that exist.  First what the *)
(* instructions and the hints of the machine keep, then what the runner    *)
(* does, and at the end, of programs whose frames are those of the Cairo   *)
(* compiler, that their calls and returns nest.                            *)
(***************************************************************************)
EXTENDS CallFrames, HintsProofs

-----------------------------------------------------------------------------
(* Addresses *)

LEMMA InstructionFields ==
    ASSUME NEW ins \in Instruction
    PROVE /\ ins.dstOffset \in Int /\ ins.op0Offset \in Int /\ ins.op1Offset \in Int
          /\ ins.dstRegister \in {"Ap", "Fp"} /\ ins.op0Register \in {"Ap", "Fp"}
          /\ ins.op1Register \in {"Pc", "Ap", "Fp", "Op0"}
          /\ size(ins) \in Nat
BY DEF Instruction, InstructionWith, size

LEMMA AddressTypes ==
    ASSUME NEW n \in Nat, NEW ins \in Instruction, NEW regs \in RegistersIn(n)
    PROVE /\ op0Address(ins, regs) \in AddressesIn(n)
          /\ dstAddress(ins, regs) \in AddressesIn(n)
          /\ AddOffset(regs.Pc, size(ins)) \in PointersInto(n)
<1>1. regs[ins.op0Register] \in PointersInto(n) /\ regs[ins.dstRegister] \in PointersInto(n)
    BY InstructionFields DEF RegistersIn
<1>2. regs.Pc \in PointersInto(n)
    BY DEF RegistersIn
<1> QED
    BY <1>1, <1>2, InstructionFields, PointerFacts DEF op0Address, dstAddress

LEMMA op1AddressType ==
    ASSUME NEW n \in Nat, NEW ins \in Instruction, NEW regs \in RegistersIn(n),
           NEW op0 \in Known(n)
    PROVE op1Address(ins, regs, op0) \in AddressesIn(n) \cup Errors
<1>1. CASE ins.op1Register # "Op0"
    <2>1. regs[ins.op1Register] \in PointersInto(n)
        BY <1>1, InstructionFields DEF RegistersIn
    <2> QED
        BY <1>1, <2>1, InstructionFields, PointerFacts DEF op1Address
<1>2. CASE ins.op1Register = "Op0"
    <2>1. Error("UndefinedOp0") \in Errors /\ Error("ExpectedFelt") \in Errors
        BY ErrorType DEF ErrorNames
    <2> QED
        BY <1>2, <2>1, InstructionFields, PointerFacts, KnownCases DEF op1Address
<1> QED
    BY <1>1, <1>2

-----------------------------------------------------------------------------
(* The values of a step *)

\* Four values, unless the rule has thrown
StepTyped(n, values) ==
    /\ values.res \in Known(n) \cup Errors
    /\ \/ isError(values.res)
       \/ values.op0 \in Known(n) /\ values.op1 \in Known(n) /\ values.dst \in Known(n)

LEMMA ThrownTyped ==
    ASSUME NEW n \in Nat, NEW e \in Errors
    PROVE StepTyped(n, Thrown(e)) /\ Thrown(e).res = e /\ isError(Thrown(e).res)
BY Tags DEF StepTyped, Thrown, Values

LEMMA ValuesTyped ==
    ASSUME NEW n \in Nat, NEW a \in Known(n), NEW b \in Known(n),
           NEW res \in Known(n) \cup Errors, NEW dst \in Known(n) \cup Errors,
           isError(dst) => isError(res)
    PROVE StepTyped(n, Values(a, b, res, dst))
BY Tags, KnownCases DEF StepTyped, Values

LEMMA CallTyped ==
    ASSUME NEW n \in Nat, NEW ins \in Instruction, NEW regs \in RegistersIn(n),
           NEW op0 \in Known(n), NEW op1 \in Known(n)
    PROVE StepTyped(n, CallValues(ins, regs, op0, op1))
<1> DEFINE next == AddOffset(regs.Pc, size(ins))
           res == IF ins.resLogic = "Op1" THEN op1
                  ELSE IF ins.resLogic = "Add" THEN Add(next, op1)
                  ELSE Error("ExpectedFelt")
<1>1. next \in Within(n) /\ next \in Known(n)
    BY AddressTypes, PointerFacts DEF Known
<1>2. regs.Fp \in Known(n)
    BY PointerFacts DEF RegistersIn, Known
<1>3. /\ Error("InvalidCallOp0Value") \in Errors /\ Error("UndefinedOp1") \in Errors
      /\ Error("ExpectedFelt") \in Errors
    BY ErrorType DEF ErrorNames
<1>4. CallValues(ins, regs, op0, op1) =
          IF op0 \notin {undefined, next} THEN Thrown(Error("InvalidCallOp0Value"))
          ELSE IF op1 = undefined THEN Thrown(Error("UndefinedOp1"))
          ELSE Values(next, op1, res, regs.Fp)
    BY DEF CallValues
<1>5. op1 # undefined => res \in Known(n) \cup Errors
    <2> HIDE DEF next
    <2> QED
        BY <1>1, <1>3, AddWithin DEF Known
<1>6. ~isError(regs.Fp)
    BY <1>2, KnownCases
<1> HIDE DEF next, res
<1> QED
    BY <1>1, <1>2, <1>3, <1>4, <1>5, <1>6, ThrownTyped, ValuesTyped

LEMMA AssertOp1Typed ==
    ASSUME NEW n \in Nat, NEW op0 \in Known(n), NEW op1 \in Known(n), NEW dst \in Known(n)
    PROVE StepTyped(n, AssertOp1Values(op0, op1, dst))
BY ValuesTyped, KnownCases DEF AssertOp1Values

LEMMA MissingTyped ==
    ASSUME NEW n \in Nat, NEW dst \in Known(n), NEW other \in Known(n),
           NEW name \in {"InvalidOp0", "InvalidOp1"}
    PROVE /\ MissingTerm(dst, other, name) \in Within(n) \cup Errors
          /\ MissingFactor(dst, other, name) \in Within(n) \cup Errors
<1>1. Error(name) \in Errors
    BY ErrorType DEF ErrorNames
<1>2. CASE undefined \in {dst, other}
    BY <1>1, <1>2 DEF MissingTerm, MissingFactor
<1>3. CASE undefined \notin {dst, other}
    <2>1. dst \in Within(n) /\ other \in Within(n)
        BY <1>3 DEF Known
    <2>2. isFelt(dst) => dst \in Felts
        BY <2>1, WithinCases
    <2>3. Sub(dst, other) \in Within(n) \cup Errors
        BY <2>1, SubWithin
    <2>4. isFelt(dst) => Div(dst, other) \in Within(n) \cup Errors
        BY <2>1, <2>2, DivWithin
    <2> QED
        BY <1>1, <1>3, <2>3, <2>4 DEF MissingTerm, MissingFactor
<1> QED
    BY <1>2, <1>3

LEMMA AssertAddTyped ==
    ASSUME NEW n \in Nat, NEW op0 \in Known(n), NEW op1 \in Known(n), NEW dst \in Known(n)
    PROVE StepTyped(n, AssertAddValues(op0, op1, dst))
<1> DEFINE a == IF op0 = undefined THEN MissingTerm(dst, op1, "InvalidOp0") ELSE op0
           b == IF op1 = undefined THEN MissingTerm(dst, op0, "InvalidOp1") ELSE op1
<1>1. a \in Within(n) \cup Errors /\ b \in Within(n) \cup Errors
    BY MissingTyped DEF Known
<1>2. AssertAddValues(op0, op1, dst) =
          IF isError(a) THEN Thrown(a)
          ELSE IF isError(b) THEN Thrown(b)
          ELSE Values(a, b, Add(a, b), Add(a, b))
    BY DEF AssertAddValues
<1> HIDE DEF a, b
<1>3. (isError(a) => a \in Errors) /\ (isError(b) => b \in Errors)
    BY <1>1, WithinCases
<1>4. ~isError(a) /\ ~isError(b) =>
          a \in Known(n) /\ b \in Known(n) /\ Add(a, b) \in Known(n) \cup Errors
    BY <1>1, AddWithin, Tags DEF Known
<1> QED
    BY <1>2, <1>3, <1>4, ThrownTyped, ValuesTyped

LEMMA AssertMulTyped ==
    ASSUME NEW n \in Nat, NEW op0 \in Known(n), NEW op1 \in Known(n), NEW dst \in Known(n)
    PROVE StepTyped(n, AssertMulValues(op0, op1, dst))
<1> DEFINE a == IF op0 = undefined THEN MissingFactor(dst, op1, "InvalidOp0") ELSE op0
           b == IF op1 = undefined THEN MissingFactor(dst, op0, "InvalidOp1") ELSE op1
<1>1. a \in Within(n) \cup Errors /\ b \in Within(n) \cup Errors
    BY MissingTyped DEF Known
<1>2. AssertMulValues(op0, op1, dst) =
          IF isError(a) THEN Thrown(a)
          ELSE IF ~isFelt(a) THEN Thrown(Error("ExpectedFelt"))
          ELSE IF isError(b) THEN Thrown(b)
          ELSE Values(a, b, Mul(a, b), Mul(a, b))
    BY DEF AssertMulValues
<1> HIDE DEF a, b
<1>3. (isError(a) => a \in Errors) /\ (isError(b) => b \in Errors)
    BY <1>1, WithinCases
<1>4. isFelt(a) /\ ~isError(a) /\ ~isError(b) =>
          a \in Known(n) /\ b \in Known(n) /\ Mul(a, b) \in Known(n) \cup Errors
    BY <1>1, MulWithin, WithinCases, Tags DEF Known
<1>5. Error("ExpectedFelt") \in Errors
    BY ErrorType DEF ErrorNames
<1> QED
    BY <1>2, <1>3, <1>4, <1>5, ThrownTyped, ValuesTyped

LEMMA OtherTyped ==
    ASSUME NEW n \in Nat, NEW ins \in Instruction,
           NEW op0 \in Known(n), NEW op1 \in Known(n), NEW dst \in Known(n)
    PROVE StepTyped(n, OtherValues(ins, op0, op1, dst))
<1> DEFINE known == undefined \notin {op0, op1}
           res == IF ins.resLogic = "Op1" THEN op1
                  ELSE IF ins.resLogic = "Add" /\ known THEN Add(op0, op1)
                  ELSE IF ins.resLogic = "Mul" /\ known /\ isFelt(op0) THEN Mul(op0, op1)
                  ELSE undefined
<1>1. known => op0 \in Within(n) /\ op1 \in Within(n) /\ (isFelt(op0) => op0 \in Felts)
    BY KnownCases DEF Known
<1>2. res \in Known(n) \cup Errors
    <2>1. known => Add(op0, op1) \in Known(n) \cup Errors
        BY <1>1, AddWithin DEF Known
    <2>2. known /\ isFelt(op0) => Mul(op0, op1) \in Known(n) \cup Errors
        BY <1>1, MulWithin DEF Known
    <2>3. undefined \in Known(n)
        BY DEF Known
    <2> HIDE DEF known
    <2> QED
        BY <2>1, <2>2, <2>3
<1>3. OtherValues(ins, op0, op1, dst) = Values(op0, op1, res, dst)
    BY DEF OtherValues
<1>4. ~isError(dst)
    BY KnownCases
<1> HIDE DEF res
<1> QED
    BY <1>2, <1>3, <1>4, ValuesTyped

LEMMA StepValuesTyped ==
    ASSUME NEW n \in Nat, NEW ins \in Instruction, NEW regs \in RegistersIn(n),
           NEW op0 \in Known(n), NEW op1 \in Known(n), NEW dst \in Known(n)
    PROVE StepTyped(n, StepValues(ins, regs, op0, op1, dst))
BY CallTyped, OtherTyped, AssertOp1Typed, AssertAddTyped, AssertMulTyped DEF StepValues

-----------------------------------------------------------------------------
(* The registers after a step *)

LEMMA NextRegisterTypes ==
    ASSUME NEW n \in Nat, NEW ins \in Instruction, NEW regs \in RegistersIn(n),
           NEW res \in Known(n), NEW dst \in Known(n)
    PROVE /\ nextPc(ins, regs, res, dst) \in PointersInto(n) \cup Errors
          /\ nextFp(ins, regs, dst) \in PointersInto(n) \cup Errors
          /\ nextAp(ins, regs, res) \in PointersInto(n) \cup Errors
<1>1. regs.Pc \in PointersInto(n) /\ regs.Ap \in PointersInto(n) /\ regs.Fp \in PointersInto(n)
    BY DEF RegistersIn
<1>2. /\ Error("UnusedRes") \in Errors /\ Error("ExpectedFelt") \in Errors
      /\ Error("ExpectedRelocatable") \in Errors /\ Error("InvalidDst") \in Errors
    BY ErrorType DEF ErrorNames
<1>3. \A r \in PointersInto(n), missing \in ErrorNames :
          RelativeTo(r, res, missing) \in PointersInto(n) \cup Errors
    BY <1>2, ErrorType, KnownCases, PointerFacts DEF RelativeTo
<1>9. "UnusedRes" \in ErrorNames /\ "UndefinedOp1" \in ErrorNames
    BY DEF ErrorNames
<1>4. JumpTo(res) \in PointersInto(n) \cup Errors
    BY <1>2, KnownCases, Tags DEF JumpTo
<1>5. AddOffset(regs.Pc, size(ins)) \in PointersInto(n)
    BY AddressTypes
<1>6. nextPc(ins, regs, res, dst) \in PointersInto(n) \cup Errors
    BY <1>1, <1>2, <1>3, <1>4, <1>5, <1>9 DEF nextPc
<1>7. nextFp(ins, regs, dst) \in PointersInto(n) \cup Errors
    BY <1>1, <1>2, PointerFacts, KnownCases DEF nextFp
<1>8. nextAp(ins, regs, res) \in PointersInto(n) \cup Errors
    BY <1>1, <1>3, <1>9, PointerFacts DEF nextAp
<1> QED
    BY <1>6, <1>7, <1>8

-----------------------------------------------------------------------------
(* The memory after a step *)

LEMMA ReadOperandsTyped ==
    ASSUME NEW n \in Nat, NEW m \in Memories(Within(n)), NEW ins \in Instruction,
           NEW regs \in RegistersIn(n)
    PROVE /\ Kept(n, m, ReadOperands(m, regs, ins).segments)
          /\ StepTyped(n, ReadOperands(m, regs, ins).values)
          /\ \/ isError(ReadOperands(m, regs, ins).values.res)
             \/ op1Address(ins, regs, get(m, op0Address(ins, regs)).value) \in AddressesIn(n)
<1> DEFINE op0 == get(m, op0Address(ins, regs))
           address == op1Address(ins, regs, op0.value)
           op1 == get(op0.segments, address)
           dst == get(op1.segments, dstAddress(ins, regs))
           R == ReadOperands(m, regs, ins)
           values == StepValues(ins, regs, op0.value, op1.value, dst.value)
<1>1. Kept(n, m, op0.segments) /\ op0.value \in Known(n) \cup Errors
    BY AddressTypes, getKept
<1>2. ~isError(op0.value) => address \in AddressesIn(n) \cup Errors /\ op0.value \in Known(n)
    <2> HIDE DEF op0
    <2> QED
        BY <1>1, op1AddressType, Tags
<1>3. ~isError(op0.value) /\ ~isError(address) =>
          /\ address \in AddressesIn(n)
          /\ Kept(n, op0.segments, op1.segments) /\ op1.value \in Known(n) \cup Errors
          /\ Kept(n, m, op1.segments)
    <2> SUFFICES ASSUME ~isError(op0.value), ~isError(address)
                 PROVE /\ address \in AddressesIn(n)
                       /\ Kept(n, op0.segments, op1.segments)
                       /\ op1.value \in Known(n) \cup Errors
                       /\ Kept(n, m, op1.segments)
        OBVIOUS
    <2> HIDE DEF op0, address
    <2>1. address \in AddressesIn(n)
        BY <1>2, Tags
    <2>2. op0.segments \in Memories(Within(n))
        BY <1>1 DEF Kept
    <2> QED
        BY <1>1, <2>1, <2>2, getKept, KeptTransitive
<1>4. Kept(n, m, op1.segments) =>
          Kept(n, m, dst.segments) /\ dst.value \in Known(n) \cup Errors
    <2> SUFFICES ASSUME Kept(n, m, op1.segments)
                 PROVE Kept(n, m, dst.segments) /\ dst.value \in Known(n) \cup Errors
        OBVIOUS
    <2>1. op1.segments \in Memories(Within(n))
        BY DEF Kept
    <2> HIDE DEF op1
    <2> QED
        BY <2>1, AddressTypes, getKept, KeptTransitive
<1>5. R = [segments |-> IF isError(op0.value) \/ isError(address) THEN op0.segments
                        ELSE IF isError(op1.value) THEN op1.segments
                        ELSE dst.segments,
           values |-> IF isError(op0.value) THEN Thrown(op0.value)
                      ELSE IF isError(address) THEN Thrown(address)
                      ELSE IF isError(op1.value) THEN Thrown(op1.value)
                      ELSE IF isError(dst.value) THEN Thrown(dst.value)
                      ELSE values]
    BY DEF ReadOperands
<1> HIDE DEF R
<1>6. CASE isError(op0.value)
    <2> HIDE DEF op0
    <2>1. op0.value \in Errors
        BY <1>1, <1>6, KnownCases
    <2> QED
        BY <1>1, <1>5, <1>6, <2>1, ThrownTyped DEF R
<1>7. CASE ~isError(op0.value) /\ isError(address)
    <2> HIDE DEF op0, address
    <2>1. address \in Errors
        BY <1>2, <1>7, AddressFacts
    <2> QED
        BY <1>1, <1>5, <1>7, <2>1, ThrownTyped DEF R
<1>8. CASE ~isError(op0.value) /\ ~isError(address) /\ isError(op1.value)
    <2> HIDE DEF op0, address, op1
    <2>1. op1.value \in Errors
        BY <1>3, <1>8, KnownCases
    <2> QED
        BY <1>3, <1>5, <1>8, <2>1, ThrownTyped DEF R
<1>9. CASE ~isError(op0.value) /\ ~isError(address) /\ ~isError(op1.value)
    <2> HIDE DEF op0, address, op1, dst, values
    <2>1. CASE isError(dst.value)
        <3>1. dst.value \in Errors
            BY <1>3, <1>4, <1>9, <2>1, KnownCases
        <3> QED
            BY <1>3, <1>4, <1>5, <1>9, <2>1, <3>1, ThrownTyped DEF R
    <2>2. CASE ~isError(dst.value)
        <3>1. op0.value \in Known(n) /\ op1.value \in Known(n) /\ dst.value \in Known(n)
            BY <1>2, <1>3, <1>4, <1>9, <2>2, Tags
        <3>2. StepTyped(n, values)
            BY <3>1, StepValuesTyped DEF values
        <3>3. address \in AddressesIn(n) /\ Kept(n, m, dst.segments)
            BY <1>3, <1>4, <1>9
        <3>4. address = op1Address(ins, regs, get(m, op0Address(ins, regs)).value)
            BY DEF address, op0
        <3> QED
            BY <1>5, <1>9, <2>2, <3>2, <3>3, <3>4 DEF R
    <2> QED
        BY <2>1, <2>2
<1> QED
    BY <1>6, <1>7, <1>8, <1>9

LEMMA ThenAssertTyped ==
    ASSUME NEW n \in Nat, NEW m \in Memories(Within(n)), NEW write, NEW address,
           NEW value \in Known(n),
           Kept(n, m, write.segments), write.value \in {undefined} \cup Errors,
           isError(write.value) \/ address \in AddressesIn(n)
    PROVE /\ Kept(n, m, ThenAssert(write, address, value).segments)
          /\ ThenAssert(write, address, value).value \in {undefined} \cup Errors
          /\ Grows(write.segments, ThenAssert(write, address, value).segments)
          /\ \/ isError(ThenAssert(write, address, value).value)
             \/ ~isError(write.value) /\ value = undefined
             \/ /\ ~isError(write.value)
                /\ InSegment(m, address)
                /\ CellAt(ThenAssert(write, address, value).segments, address) = value
<1>1. write.segments \in Memories(Within(n)) /\ Len(write.segments) = Len(m)
    BY DEF Kept
<1>2. CASE isError(write.value) \/ value = undefined
    <2>1. ThenAssert(write, address, value) = write
        BY <1>2 DEF ThenAssert
    <2> QED
        BY <1>1, <1>2, <2>1, GrowsReflexive
<1>3. CASE ~isError(write.value) /\ value # undefined
    <2>1. ThenAssert(write, address, value) = assertEq(write.segments, address, value)
        BY <1>3 DEF ThenAssert
    <2>2. value \in Within(n) /\ address \in AddressesIn(n)
        BY <1>3 DEF Known
    <2>3. InSegment(write.segments, address) => InSegment(m, address)
        BY <1>1 DEF InSegment
    <2> QED
        BY <1>1, <1>3, <2>1, <2>2, <2>3, assertEqKept, KeptTransitive DEF Kept
<1> QED
    BY <1>2, <1>3

LEMMA computeStepValuesTyped ==
    ASSUME NEW n \in Nat, NEW m \in Memories(Within(n)), NEW ins \in Instruction,
           NEW regs \in RegistersIn(n)
    PROVE /\ Kept(n, m, computeStepValues(m, regs, ins).segments)
          /\ StepTyped(n, computeStepValues(m, regs, ins).values)
<1> DEFINE read == ReadOperands(m, regs, ins)
           values == read.values
           address == op1Address(ins, regs, get(m, op0Address(ins, regs)).value)
           start == Result(read.segments, undefined)
           op0 == ThenAssert(start, op0Address(ins, regs), values.op0)
           op1 == ThenAssert(op0, address, values.op1)
           dst == ThenAssert(op1, dstAddress(ins, regs), values.dst)
           C == computeStepValues(m, regs, ins)
<1>1. /\ Kept(n, m, read.segments)
      /\ StepTyped(n, values)
      /\ isError(values.res) \/ address \in AddressesIn(n)
    BY ReadOperandsTyped
<1>2. C = IF isError(values.res)
            THEN read
            ELSE [segments |-> dst.segments,
                  values |-> IF isError(dst.value) THEN Thrown(dst.value) ELSE values]
    BY DEF computeStepValues, AssertValues, StepResult
<1> HIDE DEF C
<1>3. CASE isError(values.res)
    <2> HIDE DEF read
    <2> QED
        BY <1>1, <1>2, <1>3 DEF C
<1>4. CASE ~isError(values.res)
    <2> HIDE DEF address, read
    <2>1. values.op0 \in Known(n) /\ values.op1 \in Known(n) /\ values.dst \in Known(n)
        BY <1>1, <1>4 DEF StepTyped
    <2>2. start.segments = read.segments /\ start.value = undefined
        BY DEF Result
    <2> HIDE DEF values, start
    <2>3. Kept(n, m, op0.segments) /\ op0.value \in {undefined} \cup Errors
        BY <1>1, <2>1, <2>2, AddressTypes, ThenAssertTyped
    <2> HIDE DEF op0
    <2>4. Kept(n, m, op1.segments) /\ op1.value \in {undefined} \cup Errors
        BY <1>1, <1>4, <2>1, <2>3, ThenAssertTyped
    <2> HIDE DEF op1
    <2>5. Kept(n, m, dst.segments) /\ dst.value \in {undefined} \cup Errors
        BY <2>1, <2>4, AddressTypes, ThenAssertTyped
    <2> HIDE DEF dst
    <2>6. C.segments = dst.segments
        BY <1>2, <1>4
    <2>7. StepTyped(n, C.values)
        BY <1>1, <1>2, <1>4, <2>5, ThrownTyped, Tags
    <2> QED
        BY <2>5, <2>6, <2>7 DEF C
<1> QED
    BY <1>3, <1>4

-----------------------------------------------------------------------------
(* Hints *)

\* A memory whose pointers are into its own segments
SelfContained(m) == m \in Memories(Within(Len(m)))

\* What a hint leaves
HintTyped(m, run) ==
    /\ SelfContained(run.segments)
    /\ Len(m) \in Nat /\ Len(run.segments) \in Nat /\ Len(m) <= Len(run.segments)
    /\ Grows(m, run.segments)
    /\ run.value \in {undefined} \cup Errors

LEMMA KeptHint ==
    ASSUME NEW m, SelfContained(m), NEW run,
           Kept(Len(m), m, run.segments), run.value \in {undefined} \cup Errors
    PROVE HintTyped(m, run)
BY MemoryTypes DEF HintTyped, Kept, SelfContained

LEMMA allocSegmentTyped ==
    ASSUME NEW m, SelfContained(m), NEW regs \in RegistersIn(Len(m)),
           NEW hint, hint.dst \in CellRef, "none" \in Builtins
    PROVE HintTyped(m, allocSegment(m, regs, hint))
<1> DEFINE n == Len(m)
           added == addSegment(m, "none")
           a == cellRefToRelocatable(regs, hint.dst)
           v == Relocatable(n, 0)
           run == assertEq(added, a, v)
<1>1. n \in Nat
    BY MemoryTypes DEF SelfContained
<1>2. added \in Memories(Within(n)) /\ Len(added) = n + 1 /\ Grows(m, added)
    BY addSegmentType DEF SelfContained
<1>3. a \in AddressesIn(n)
    BY <1>1, CellRefType
<1>4. v \in Relocatables /\ v.segmentId = n /\ v.offset = 0
    BY <1>1 DEF Relocatable, Relocatables
<1>5. Within(n) \subseteq Within(n + 1) /\ AddressesIn(n) \subseteq AddressesIn(n + 1)
    BY <1>1, WithinMonotone
<1>6. allocSegment(m, regs, hint) = run
    BY DEF allocSegment
<1> HIDE DEF n, a, v, added
<1>7. v \in Within(n + 1)
    BY <1>1, <1>4, RelocatableWithin
<1>8. added \in Memories(Within(n + 1)) /\ a \in AddressesIn(n + 1)
    BY <1>2, <1>3, <1>5, MemoriesMonotone
<1>9. /\ Kept(n + 1, added, run.segments)
      /\ run.value \in {undefined} \cup Errors
    BY <1>1, <1>7, <1>8, assertEqKept
<1> HIDE DEF run
<1>10. run.segments \in Memories(Within(n + 1)) /\ Len(run.segments) = n + 1
    BY <1>2, <1>9 DEF Kept
<1>11. Grows(m, run.segments)
    <2>1. m \in Memories(Within(n + 1))
        BY <1>5, MemoriesMonotone DEF n, SelfContained
    <2> QED
        BY <1>2, <1>8, <1>9, <1>10, <2>1, GrowsTransitive DEF Kept
<1> QED
    BY <1>1, <1>6, <1>9, <1>10, <1>11 DEF HintTyped, SelfContained, n

LEMMA testLessThanTyped ==
    ASSUME NEW m, SelfContained(m), NEW regs \in RegistersIn(Len(m)), NEW hint,
           hint.lhs \in ResOperand, hint.rhs \in ResOperand, hint.dst \in CellRef
    PROVE HintTyped(m, testLessThan(m, regs, hint))
<1> DEFINE n == Len(m)
           of == Operands(m, regs, hint)
           a == cellRefToRelocatable(regs, hint.dst)
           less == Felt(IF of.lhs.inner < of.rhs.inner THEN 1 ELSE 0)
<1>1. n \in Nat
    BY MemoryTypes DEF SelfContained
<1>2. Kept(n, m, of.segments) /\ of.error \in {undefined} \cup Errors
    BY <1>1, OperandsTyped DEF SelfContained
<1>3. a \in AddressesIn(n)
    BY <1>1, CellRefType
<1>4. less \in Within(n)
    BY <1>1, FeltType, FeltsWithin
<1>5. testLessThan(m, regs, hint) = IF isError(of.error)
                                      THEN Result(of.segments, of.error)
                                      ELSE assertEq(of.segments, a, less)
    BY DEF testLessThan, StoreLess
<1>6. CASE isError(of.error)
    <2>1. /\ testLessThan(m, regs, hint).segments = of.segments
          /\ testLessThan(m, regs, hint).value = of.error
        BY <1>5, <1>6 DEF Result
    <2> HIDE DEF of
    <2> QED
        BY <1>2, <2>1, KeptHint
<1>7. CASE ~isError(of.error)
    <2>1. testLessThan(m, regs, hint) = assertEq(of.segments, a, less)
        BY <1>5, <1>7
    <2>2. of.segments \in Memories(Within(n))
        BY <1>2 DEF Kept
    <2> HIDE DEF of, a, less, n
    <2>3. /\ Kept(n, m, testLessThan(m, regs, hint).segments)
          /\ testLessThan(m, regs, hint).value \in {undefined} \cup Errors
        <3>1. m \in Memories(Within(n))
            BY DEF n, SelfContained
        <3> QED
            BY <1>1, <1>2, <1>3, <1>4, <2>1, <2>2, <3>1, assertEqKept, KeptTransitive
    <2> QED
        BY <2>3, KeptHint DEF n
<1> QED
    BY <1>6, <1>7

LEMMA divModTyped ==
    ASSUME NEW m, SelfContained(m), NEW regs \in RegistersIn(Len(m)), NEW hint,
           hint.lhs \in ResOperand, hint.rhs \in ResOperand,
           hint.quotient \in CellRef, hint.remainder \in CellRef
    PROVE HintTyped(m, divMod(m, regs, hint))
<1> DEFINE n == Len(m)
           of == Operands(m, regs, hint)
           a == cellRefToRelocatable(regs, hint.quotient)
           b == cellRefToRelocatable(regs, hint.remainder)
           q == Felt(of.lhs.inner \div of.rhs.inner)
           r == Felt(of.lhs.inner % of.rhs.inner)
           quotient == assertEq(of.segments, a, q)
           remainder == assertEq(quotient.segments, b, r)
           run == divMod(m, regs, hint)
<1>0. n \in Nat /\ m \in Memories(Within(n))
    BY MemoryTypes DEF SelfContained
<1>1. /\ Kept(n, m, of.segments) /\ of.error \in {undefined} \cup Errors
      /\ isError(of.error) \/ (of.lhs \in Felts /\ of.rhs \in Felts)
    BY <1>0, OperandsTyped
<1>2. a \in AddressesIn(n) /\ b \in AddressesIn(n)
    BY <1>0, CellRefType
<1>3. run = IF isError(of.error) THEN Result(of.segments, of.error)
            ELSE IF of.rhs = Zero THEN Result(of.segments, Error("CannotDivideByZero"))
            ELSE IF isError(quotient.value) THEN quotient
            ELSE remainder
    BY DEF divMod, StoreQuotient, ThenStore
<1> HIDE DEF n, of, a, b, run
<1>4. ~isError(of.error) /\ of.rhs # Zero => q \in Within(n) /\ r \in Within(n)
    <2> SUFFICES ASSUME of.lhs \in Felts, of.rhs \in Felts, of.rhs # Zero
                 PROVE q \in Within(n) /\ r \in Within(n)
        BY <1>1
    <2>1. P \in Int /\ P > 0 /\ 0 % P = 0
        BY FieldAssumption
    <2>2. of.lhs.inner \in Int /\ of.rhs.inner \in 0..(P - 1)
        BY <2>1 DEF Felts
    <2>3. of.rhs.inner # 0
        <3>1. of.rhs = [tag |-> "felt", inner |-> of.rhs.inner]
            BY DEF Felts
        <3> QED
            BY <2>1, <3>1 DEF Zero, Felt
    <2>4. of.rhs.inner \in Int /\ of.rhs.inner > 0
        BY <2>1, <2>2, <2>3
    <2>5. of.lhs.inner \div of.rhs.inner \in Int /\ of.lhs.inner % of.rhs.inner \in Int
        BY <2>2, <2>4
    <2> QED
        BY <1>0, <2>5, FeltType, FeltsWithin
<1>5. CASE isError(of.error)
    <2>1. run.segments = of.segments /\ run.value = of.error
        BY <1>3, <1>5 DEF Result
    <2> QED
        BY <1>1, <2>1, KeptHint DEF run, n
<1>6. CASE ~isError(of.error) /\ of.rhs = Zero
    <2>1. run.segments = of.segments /\ run.value = Error("CannotDivideByZero")
        BY <1>3, <1>6 DEF Result
    <2>2. Error("CannotDivideByZero") \in Errors
        BY ErrorType DEF ErrorNames
    <2> QED
        BY <1>1, <2>1, <2>2, KeptHint DEF run, n
<1>7. CASE ~isError(of.error) /\ of.rhs # Zero
    <2>1. of.segments \in Memories(Within(n)) /\ q \in Within(n) /\ r \in Within(n)
        BY <1>1, <1>4, <1>7 DEF Kept
    <2> HIDE DEF q, r
    <2>2. /\ Kept(n, m, quotient.segments)
          /\ quotient.value \in {undefined} \cup Errors
        BY <1>0, <1>1, <1>2, <2>1, assertEqKept, KeptTransitive
    <2>3. quotient.segments \in Memories(Within(n))
        BY <2>2 DEF Kept
    <2> HIDE DEF quotient
    <2>4. /\ Kept(n, m, remainder.segments)
          /\ remainder.value \in {undefined} \cup Errors
        BY <1>0, <1>2, <2>1, <2>2, <2>3, assertEqKept, KeptTransitive
    <2> HIDE DEF remainder
    <2>5. Kept(n, m, run.segments) /\ run.value \in {undefined} \cup Errors
        BY <1>3, <1>7, <2>2, <2>4
    <2> QED
        BY <2>5, KeptHint DEF run, n
<1> QED
    BY <1>5, <1>6, <1>7 DEF run

LEMMA executeHintTyped ==
    ASSUME NEW m, SelfContained(m), NEW regs \in RegistersIn(Len(m)),
           NEW hint \in Hint, "none" \in Builtins
    PROVE HintTyped(m, executeHint(m, regs, hint))
<1>1. CASE hint.type = "AllocSegment" /\ hint.dst \in CellRef
    BY <1>1, allocSegmentTyped DEF executeHint
<1>2. CASE /\ hint.type = "TestLessThan"
           /\ hint.lhs \in ResOperand /\ hint.rhs \in ResOperand /\ hint.dst \in CellRef
    BY <1>2, testLessThanTyped DEF executeHint
<1>3. CASE /\ hint.type = "DivMod"
           /\ hint.lhs \in ResOperand /\ hint.rhs \in ResOperand
           /\ hint.quotient \in CellRef /\ hint.remainder \in CellRef
    BY <1>3, divModTyped DEF executeHint
<1> QED
    BY <1>1, <1>2, <1>3 DEF Hint
-----------------------------------------------------------------------------
(* What an instruction that asserts a sum or a product leaves in memory *)

\* The result of an assertion, from its operands
Asserting(ins) == ins.opcode = "AssertEq" /\ ins.resLogic \in {"Add", "Mul"}
ResultOf(ins, a, b) == IF ins.resLogic = "Add" THEN Add(a, b) ELSE Mul(a, b)

\* The cells of an instruction that asserts a sum or a product have values, and
\* these satisfy it.
Satisfied(m, n, regs, ins) ==
    LET op0 == CellAt(m, op0Address(ins, regs))
        address == op1Address(ins, regs, op0)
        op1 == CellAt(m, address)
        dst == CellAt(m, dstAddress(ins, regs))
    IN /\ {op0, op1, dst} \subseteq Within(n)
       /\ address \in AddressesIn(n)
       /\ dst = ResultOf(ins, op0, op1)

\* What was satisfied stays so.
LEMMA SatisfiedGrows ==
    ASSUME NEW n \in Nat, NEW m \in Memories(Within(n)), Len(m) = n,
           NEW j \in Nat, n <= j, NEW k \in Memories(Within(j)), Grows(m, k),
           NEW ins \in Instruction, NEW regs \in RegistersIn(n), Satisfied(m, n, regs, ins)
    PROVE Satisfied(k, j, regs, ins)
<1> DEFINE op0 == CellAt(m, op0Address(ins, regs))
           address == op1Address(ins, regs, op0)
           op1 == CellAt(m, address)
           dst == CellAt(m, dstAddress(ins, regs))
<1>1. /\ {op0, op1, dst} \subseteq Within(n)
      /\ address \in AddressesIn(n)
      /\ dst = ResultOf(ins, op0, op1)
    BY DEF Satisfied
<1>2. \A a \in AddressesIn(n) : CellAt(m, a) \in Within(n) => CellAt(k, a) = CellAt(m, a)
    <2> SUFFICES ASSUME NEW a \in AddressesIn(n), CellAt(m, a) \in Within(n)
                 PROVE CellAt(k, a) = CellAt(m, a)
        OBVIOUS
    <2>1. a \in Relocatables /\ InSegment(m, a)
        BY DEF AddressesIn, InSegment
    <2> QED
        BY <2>1, WithinCases, WithinClosed, CellAtGrows
<1>3. op0Address(ins, regs) \in AddressesIn(n) /\ dstAddress(ins, regs) \in AddressesIn(n)
    BY AddressTypes
<1>4. /\ CellAt(k, op0Address(ins, regs)) = op0
      /\ CellAt(k, address) = op1
      /\ CellAt(k, dstAddress(ins, regs)) = dst
    BY <1>1, <1>2, <1>3
<1>5. {op0, op1, dst} \subseteq Within(j) /\ address \in AddressesIn(j)
    BY <1>1, WithinMonotone
<1> HIDE DEF op0, op1, dst
<1> QED
    BY <1>1, <1>4, <1>5 DEF Satisfied

\* The values of an assertion that does not throw: its operands, those that were
\* known as they were, and its result.
LEMMA AssertionValues ==
    ASSUME NEW n \in Nat, NEW ins \in Instruction, Asserting(ins), NEW regs,
           NEW op0 \in Known(n), NEW op1 \in Known(n), NEW dst \in Known(n),
           ~isError(StepValues(ins, regs, op0, op1, dst).res)
    PROVE LET v == StepValues(ins, regs, op0, op1, dst)
          IN /\ v.op0 \in Within(n) /\ v.op1 \in Within(n) /\ v.dst \in Within(n)
             /\ v.dst = ResultOf(ins, v.op0, v.op1)
             /\ op0 # undefined => v.op0 = op0
<1>1. CASE ins.resLogic = "Add"
    <2> DEFINE a == IF op0 = undefined THEN MissingTerm(dst, op1, "InvalidOp0") ELSE op0
               b == IF op1 = undefined THEN MissingTerm(dst, op0, "InvalidOp1") ELSE op1
    <2>1. StepValues(ins, regs, op0, op1, dst) =
              IF isError(a) THEN Thrown(a)
              ELSE IF isError(b) THEN Thrown(b)
              ELSE Values(a, b, Add(a, b), Add(a, b))
        BY <1>1 DEF StepValues, AssertAddValues, Asserting
    <2>2. a \in Within(n) \cup Errors /\ b \in Within(n) \cup Errors
        BY MissingTyped DEF Known
    <2>3. op0 # undefined => a = op0
        OBVIOUS
    <2> HIDE DEF a, b
    <2>4. ~isError(a) /\ ~isError(b) /\ ~isError(Add(a, b))
        BY <2>1 DEF Thrown, Values
    <2>5. a \in Within(n) /\ b \in Within(n)
        BY <2>2, <2>4, Tags
    <2>6. Add(a, b) \in Within(n)
        BY <2>4, <2>5, AddWithin, Tags
    <2> QED
        BY <1>1, <2>1, <2>3, <2>4, <2>5, <2>6 DEF Values, ResultOf
<1>2. CASE ins.resLogic = "Mul"
    <2> DEFINE a == IF op0 = undefined THEN MissingFactor(dst, op1, "InvalidOp0") ELSE op0
               b == IF op1 = undefined THEN MissingFactor(dst, op0, "InvalidOp1") ELSE op1
    <2>1. StepValues(ins, regs, op0, op1, dst) =
              IF isError(a) THEN Thrown(a)
              ELSE IF ~isFelt(a) THEN Thrown(Error("ExpectedFelt"))
              ELSE IF isError(b) THEN Thrown(b)
              ELSE Values(a, b, Mul(a, b), Mul(a, b))
        BY <1>2 DEF StepValues, AssertMulValues, Asserting
    <2>2. a \in Within(n) \cup Errors /\ b \in Within(n) \cup Errors
        BY MissingTyped DEF Known
    <2>3. op0 # undefined => a = op0
        OBVIOUS
    <2>4. isError(Error("ExpectedFelt"))
        BY DEF isError, Error
    <2> HIDE DEF a, b
    <2>5. ~isError(a) /\ isFelt(a) /\ ~isError(b) /\ ~isError(Mul(a, b))
        BY <2>1, <2>4 DEF Thrown, Values
    <2>6. a \in Within(n) /\ b \in Within(n) /\ a \in Felts
        BY <2>2, <2>5, WithinCases, Tags
    <2>7. Mul(a, b) \in Within(n)
        BY <2>5, <2>6, MulWithin, Tags
    <2> QED
        BY <1>2, <2>1, <2>3, <2>5, <2>6, <2>7 DEF Values, ResultOf
<1> QED
    BY <1>1, <1>2 DEF Asserting

\* When nothing is thrown, the values of the step come from operands that were read.
LEMMA OperandsWereRead ==
    ASSUME NEW n \in Nat, NEW m \in Memories(Within(n)), NEW ins \in Instruction,
           NEW regs \in RegistersIn(n), ~isError(ReadOperands(m, regs, ins).values.res)
    PROVE LET op0 == get(m, op0Address(ins, regs)).value
          IN /\ op0 \in Known(n)
             /\ op1Address(ins, regs, op0) \in AddressesIn(n)
             /\ \E op1 \in Known(n), dst \in Known(n) :
                   ReadOperands(m, regs, ins).values = StepValues(ins, regs, op0, op1, dst)
<1> DEFINE op0 == get(m, op0Address(ins, regs))
           address == op1Address(ins, regs, op0.value)
           op1 == get(op0.segments, address)
           dst == get(op1.segments, dstAddress(ins, regs))
           values == StepValues(ins, regs, op0.value, op1.value, dst.value)
           R == ReadOperands(m, regs, ins)
<1>1. R.values = IF isError(op0.value) THEN Thrown(op0.value)
                 ELSE IF isError(address) THEN Thrown(address)
                 ELSE IF isError(op1.value) THEN Thrown(op1.value)
                 ELSE IF isError(dst.value) THEN Thrown(dst.value)
                 ELSE values
    BY DEF ReadOperands
<1>2. /\ ~isError(op0.value) /\ ~isError(address)
      /\ ~isError(op1.value) /\ ~isError(dst.value)
      /\ R.values = values
    <2> HIDE DEF op0, address, op1, dst, values
    <2> QED
        BY <1>1 DEF Thrown, Values
<1>3. Kept(n, m, op0.segments) /\ op0.value \in Known(n)
    <2>1. Kept(n, m, op0.segments) /\ op0.value \in Known(n) \cup Errors
        BY AddressTypes, getKept
    <2> HIDE DEF op0
    <2> QED
        BY <1>2, <2>1, Tags
<1>4. address \in AddressesIn(n)
    <2> HIDE DEF op0
    <2>1. address \in AddressesIn(n) \cup Errors
        BY <1>3, op1AddressType
    <2> HIDE DEF address
    <2> QED
        BY <1>2, <2>1, Tags
<1>5. op1.segments \in Memories(Within(n)) /\ op1.value \in Known(n)
    <2>1. op0.segments \in Memories(Within(n))
        BY <1>3 DEF Kept
    <2> HIDE DEF op0, address
    <2>2. Kept(n, op0.segments, op1.segments) /\ op1.value \in Known(n) \cup Errors
        BY <1>4, <2>1, getKept
    <2> HIDE DEF op1
    <2> QED
        BY <1>2, <2>2, Tags DEF Kept
<1>6. dst.value \in Known(n)
    <2> HIDE DEF op1
    <2>1. dst.value \in Known(n) \cup Errors
        BY <1>5, AddressTypes, getKept
    <2> HIDE DEF dst
    <2> QED
        BY <1>2, <2>1, Tags
<1> HIDE DEF op1, dst
<1> QED
    BY <1>2, <1>3, <1>4, <1>5, <1>6

\* Whichever operand was missing, the three cells of an assertion that does not
\* throw have values that satisfy it.
LEMMA AssertionSatisfied ==
    ASSUME NEW n \in Nat, NEW m \in Memories(Within(n)), Len(m) = n,
           NEW ins \in Instruction, Asserting(ins), NEW regs \in RegistersIn(n),
           ~isError(computeStepValues(m, regs, ins).values.res)
    PROVE Satisfied(computeStepValues(m, regs, ins).segments, n, regs, ins)
<1> DEFINE read == ReadOperands(m, regs, ins)
           values == read.values
           op0Addr == op0Address(ins, regs)
           dstAddr == dstAddress(ins, regs)
           held == get(m, op0Addr).value
           op1Addr == op1Address(ins, regs, held)
           start == Result(read.segments, undefined)
           op0 == ThenAssert(start, op0Addr, values.op0)
           op1 == ThenAssert(op0, op1Addr, values.op1)
           dst == ThenAssert(op1, dstAddr, values.dst)
           C == computeStepValues(m, regs, ins)
           s == dst.segments
<1>1. C = IF isError(values.res)
            THEN read
            ELSE [segments |-> dst.segments,
                  values |-> IF isError(dst.value) THEN Thrown(dst.value) ELSE values]
    BY DEF computeStepValues, AssertValues, StepResult
<1>2. ~isError(values.res) /\ ~isError(dst.value) /\ C.segments = s
    <2> HIDE DEF read, dst, C
    <2>1. ~isError(C.values.res)
        BY DEF C
    <2>2. isError(dst.value) => isError(Thrown(dst.value).res)
        BY DEF Thrown, Values
    <2> QED
        BY <1>1, <2>1, <2>2
<1>3. Kept(n, m, read.segments)
    BY ReadOperandsTyped
<1>4. held \in Known(n) /\ op1Addr \in AddressesIn(n)
    BY <1>2, OperandsWereRead
<1>5. /\ values.op0 \in Within(n) /\ values.op1 \in Within(n) /\ values.dst \in Within(n)
      /\ values.dst = ResultOf(ins, values.op0, values.op1)
      /\ held # undefined => values.op0 = held
    <2>1. PICK b \in Known(n), d \in Known(n) : values = StepValues(ins, regs, held, b, d)
        BY <1>2, OperandsWereRead
    <2> HIDE DEF read, held
    <2> QED
        BY <1>2, <1>4, <2>1, AssertionValues
<1>6. op1Addr = op1Address(ins, regs, values.op0)
    <2>1. op1Addr \notin Errors
        BY <1>4, AddressFacts, Tags
    <2>2. ins.op1Register = "Op0" => held # undefined
        <3>1. Error("UndefinedOp0") \in Errors
            BY ErrorType DEF ErrorNames
        <3> HIDE DEF held
        <3> QED
            BY <2>1, <3>1 DEF op1Address
    <2> HIDE DEF held, read
    <2> QED
        BY <1>5, <2>2 DEF op1Address
<1>7. op0Addr \in AddressesIn(n) /\ dstAddr \in AddressesIn(n)
    BY AddressTypes
<1>8. start.segments = read.segments /\ start.value = undefined /\ ~isError(undefined)
    BY Tags DEF Result
<1> HIDE DEF read, values, op0Addr, op1Addr, dstAddr, held, start
<1>9. /\ values.op0 \in Known(n) /\ values.op1 \in Known(n) /\ values.dst \in Known(n)
      /\ values.op0 # undefined /\ values.op1 # undefined /\ values.dst # undefined
    BY <1>5, WithinCases DEF Known
<1>10. /\ Kept(n, m, op0.segments) /\ op0.value \in {undefined} \cup Errors
       /\ isError(op0.value) \/ CellAt(op0.segments, op0Addr) = values.op0
    BY <1>3, <1>7, <1>8, <1>9, ThenAssertTyped
<1> HIDE DEF op0
<1>11. /\ Kept(n, m, op1.segments) /\ op1.value \in {undefined} \cup Errors
       /\ Grows(op0.segments, op1.segments)
       /\ \/ isError(op1.value)
          \/ ~isError(op0.value) /\ CellAt(op1.segments, op1Addr) = values.op1
    BY <1>4, <1>9, <1>10, ThenAssertTyped
<1> HIDE DEF op1
<1>12. /\ Kept(n, m, s)
       /\ Grows(op1.segments, s)
       /\ ~isError(op1.value) /\ CellAt(s, dstAddr) = values.dst
    <2>1. /\ Kept(n, m, s)
          /\ Grows(op1.segments, s)
          /\ \/ isError(dst.value)
             \/ ~isError(op1.value) /\ CellAt(s, dstAddr) = values.dst
        BY <1>7, <1>9, <1>11, ThenAssertTyped
    <2> HIDE DEF dst
    <2> QED
        BY <1>2, <2>1
<1> HIDE DEF dst
<1>13. /\ op0.segments \in Memories(Within(n)) /\ op1.segments \in Memories(Within(n))
       /\ s \in Memories(Within(n)) /\ Len(op0.segments) = n /\ Len(op1.segments) = n
    BY <1>10, <1>11, <1>12 DEF Kept
<1>14. Grows(op0.segments, s)
    BY <1>11, <1>12, <1>13, GrowsTransitive
<1>15. CellAt(s, op0Addr) = values.op0 /\ CellAt(s, op1Addr) = values.op1
    <2>1. /\ CellAt(op0.segments, op0Addr) = values.op0
          /\ CellAt(op1.segments, op1Addr) = values.op1
        BY <1>10, <1>11, <1>12
    <2>2. \A a \in AddressesIn(n) : /\ a \in Relocatables
                                 /\ InSegment(op0.segments, a) /\ InSegment(op1.segments, a)
        BY <1>13 DEF AddressesIn, InSegment
    <2> QED
        BY <1>4, <1>7, <1>9, <1>12, <1>13, <1>14, <2>1, <2>2, WithinClosed, CellAtGrows
<1> HIDE DEF s, C
<1>16. Satisfied(s, n, regs, ins)
    BY <1>4, <1>5, <1>6, <1>12, <1>15 DEF Satisfied, op0Addr, dstAddr
<1> QED
    BY <1>2, <1>16 DEF C

-----------------------------------------------------------------------------
(* The runner *)

\* The inductive invariant.  The bound of the pointers is the number of segments
\* there are: it grows with them.
IInv ==
    /\ program \in Programs
    /\ SelfContained(segments)
    /\ registers \in RegistersIn(Len(segments))
    /\ trace \in Seq(RegistersIn(Len(segments)))
    /\ currentStep \in Nat
    /\ nextHint \in Nat
    /\ thrown \in {undefined} \cup Errors

-----------------------------------------------------------------------------
(* The memory the constructor lays out *)

LEMMA LayoutTypes ==
    ASSUME NEW p \in Programs
    PROVE /\ Len(p.builtins) \in Nat
          /\ DOMAIN p.builtins = 1..Len(p.builtins)
          /\ ArenaIndex(p) \in 0..Len(p.builtins)
          /\ BuiltinSegmentCount(p) \in Nat
          /\ Len(p.builtins) <= BuiltinSegmentCount(p)
<1>1. Len(p.builtins) \in Nat /\ DOMAIN p.builtins = 1..Len(p.builtins)
    BY RunnerAssumption, LenProperties
<1>2. ArenaIndex(p) \in 0..Len(p.builtins)
    <2>1. CASE \E k \in 1..Len(p.builtins) : p.builtins[k] = "segment_arena"
        <3>1. ArenaIndex(p) = CHOOSE k \in 1..Len(p.builtins) : p.builtins[k] = "segment_arena"
            BY <1>1, <2>1 DEF ArenaIndex
        <3>2. ArenaIndex(p) \in 1..Len(p.builtins)
            BY <2>1, <3>1
        <3> QED
            BY <1>1, <3>2
    <2>2. CASE ~\E k \in 1..Len(p.builtins) : p.builtins[k] = "segment_arena"
        BY <1>1, <2>2 DEF ArenaIndex
    <2> QED
        BY <2>1, <2>2
<1>3. /\ BuiltinSegmentCount(p) \in Nat
      /\ Len(p.builtins) <= BuiltinSegmentCount(p)
    <2> DEFINE extra == IF ArenaIndex(p) = 0 THEN 0 ELSE 1
    <2>1. extra \in {0, 1} /\ BuiltinSegmentCount(p) = Len(p.builtins) + extra
        BY DEF BuiltinSegmentCount
    <2> HIDE DEF extra
    <2> QED
        BY <1>1, <2>1
<1> QED
    BY <1>1, <1>2, <1>3

LEMMA HandlerType ==
    ASSUME NEW p, NEW i
    PROVE HandlerOf(p, i) \in Builtins
BY RunnerAssumption DEF HandlerOf, getBuiltin

LEMMA InitialCells ==
    ASSUME NEW p \in Programs
    PROVE /\ BytecodeCells(p) \in CellMaps(Within(BuiltinSegmentCount(p) + 4))
          /\ StackCells(p) \in CellMaps(Within(BuiltinSegmentCount(p) + 4))
          /\ ArenaCells(p) \in CellMaps(Within(BuiltinSegmentCount(p) + 4))
          /\ NoCells \in CellMaps(Within(BuiltinSegmentCount(p) + 4))
<1> DEFINE k == Len(p.builtins)
           c == BuiltinSegmentCount(p)
           W == Within(c + 4)
<1>1. /\ k \in Nat /\ c \in Nat /\ k <= c
      /\ ArenaIndex(p) \in 0..k
    BY LayoutTypes
<1>2. Felts \subseteq W
    BY <1>1, FeltsWithin
<1>3. \A s \in Nat, o \in Nat : s < c + 4 => Relocatable(s, o) \in W
    <2> SUFFICES ASSUME NEW s \in Nat, NEW o \in Nat, s < c + 4
                 PROVE Relocatable(s, o) \in W
        OBVIOUS
    <2>1. /\ Relocatable(s, o) \in Relocatables
          /\ Relocatable(s, o).segmentId = s /\ Relocatable(s, o).offset = o
        BY DEF Relocatable, Relocatables
    <2> HIDE DEF c
    <2> QED
        BY <1>1, <2>1, RelocatableWithin
<1>4. BytecodeCells(p) \in CellMaps(W)
    <2>1. p.bytecode \in Seq(Felts)
        BY RunnerAssumption
    <2>2. Len(p.bytecode) \in Nat /\ \A i \in 1..Len(p.bytecode) : p.bytecode[i] \in W
        BY <1>2, <2>1, ElementOfSeq, LenProperties
    <2> HIDE DEF W
    <2>3. BytecodeCells(p) \in [0..(Len(p.bytecode) - 1) -> W]
        BY <2>2 DEF BytecodeCells
    <2> QED
        BY <2>2, <2>3, CellMapsDef
<1>5. ASSUME NEW o \in 0..(k + 1)
      PROVE StackCells(p)[o] \in W
    <2>1. o < k => BuiltinPointer(p, o + 1) \in W
        <3> SUFFICES ASSUME o < k
                     PROVE BuiltinPointer(p, o + 1) \in W
            OBVIOUS
        <3>1. BuiltinSegmentId(p, o + 1) \in Nat /\ BuiltinSegmentId(p, o + 1) < c + 4
            <4> HIDE DEF k, c
            <4> QED
                BY <1>1 DEF BuiltinSegmentId
        <3> HIDE DEF W
        <3> QED
            BY <1>3, <3>1 DEF BuiltinPointer
    <2>2. ReturnFp(p) \in W /\ FinalPc(p) \in W
        <3>1. 2 + c \in Nat /\ 3 + c \in Nat /\ 2 + c < c + 4 /\ 3 + c < c + 4 /\ 0 \in Int
            BY <1>1
        <3> HIDE DEF W
        <3> QED
            BY <1>3, <3>1 DEF ReturnFp, FinalPc
    <2>3. StackCells(p)[o] = IF o < k THEN BuiltinPointer(p, o + 1)
                             ELSE IF o = k THEN ReturnFp(p)
                             ELSE FinalPc(p)
        BY <1>1 DEF StackCells, StackSize
    <2> HIDE DEF W
    <2> QED
        BY <2>1, <2>2, <2>3
<1>6. StackCells(p) \in CellMaps(W)
    <2>1. DOMAIN StackCells(p) = 0..(k + 1)
        BY <1>1 DEF StackCells, StackSize
    <2>2. StackCells(p) = [o \in DOMAIN StackCells(p) |-> StackCells(p)[o]]
        BY DEF StackCells
    <2> HIDE DEF W, k
    <2>3. StackCells(p) \in [0..(k + 1) -> W]
        BY <1>5, <2>1, <2>2
    <2> QED
        BY <1>1, <2>1, <2>3, CellMapsDef
<1>7. ArenaCells(p) \in CellMaps(W)
    <2>1. Relocatable(ArenaIndex(p) + 1, 0) \in W
        <3>1. ArenaIndex(p) + 1 \in Nat /\ ArenaIndex(p) + 1 < c + 4 /\ 0 \in Int
            BY <1>1
        <3> HIDE DEF W
        <3> QED
            BY <1>3, <3>1
    <2>2. Zero \in W
        BY <1>2, FeltType DEF Zero
    <2> HIDE DEF W
    <2>3. ArenaCells(p) \in [0..2 -> W]
        BY <2>1, <2>2 DEF ArenaCells
    <2> QED
        BY <2>3, CellMapsDef
<1>8. NoCells \in CellMaps(W)
    <2>1. DOMAIN NoCells = {} /\ NoCells \in [{} -> W]
        BY DEF NoCells
    <2> QED
        BY <2>1, CellMapsDef
<1> QED
    BY <1>4, <1>6, <1>7, <1>8

LEMMA InitialMemory ==
    ASSUME NEW p \in Programs
    PROVE /\ SelfContained(InitialSegments(p))
          /\ Len(InitialSegments(p)) = BuiltinSegmentCount(p) + 4
<1> DEFINE n == BuiltinSegmentCount(p) + 4
<1>1. n \in Nat
    BY LayoutTypes
<1>2. InitialSegments(p) \in [1..n -> Segments(Within(n))]
    <2> DEFINE Cells(i) == IF i = 1 THEN BytecodeCells(p)
                           ELSE IF i = 2 THEN StackCells(p)
                           ELSE IF ArenaIndex(p) # 0 /\ i = ArenaIndex(p) + 3
                             THEN ArenaCells(p)
                           ELSE NoCells
    <2>1. \A i \in 1..n : Cells(i) \in CellMaps(Within(n))
        BY InitialCells
    <2>2. InitialSegments(p) =
              [i \in 1..n |-> [builtin |-> HandlerOf(p, i - 1), cells |-> Cells(i)]]
        BY DEF InitialSegments
    <2> HIDE DEF Cells, n
    <2> QED
        BY <2>1, <2>2, HandlerType DEF Segments
<1> HIDE DEF n
<1>3. InitialSegments(p) \in Memories(Within(n))
    BY <1>1, <1>2, IsASeq DEF Memories
<1>4. Len(InitialSegments(p)) = n
    <2>1. DOMAIN InitialSegments(p) = 1..n
        BY <1>2
    <2> QED
        BY <1>1, <1>3, <2>1, LenProperties DEF Memories
<1> QED
    BY <1>3, <1>4 DEF SelfContained, n

LEMMA InitIInv == Init => IInv
<1> SUFFICES ASSUME Init
             PROVE IInv
    OBVIOUS
<1>1. program \in Programs /\ segments = InitialSegments(program)
    BY DEF Init
<1> DEFINE n == Len(segments)
<1>2. SelfContained(segments) /\ n = BuiltinSegmentCount(program) + 4
    BY <1>1, InitialMemory
<1>3. n \in Nat /\ n >= 4 /\ Len(program.builtins) \in Nat
    BY <1>1, <1>2, LayoutTypes
<1>4. pc \in PointersInto(n) /\ ap \in PointersInto(n) /\ fp \in PointersInto(n)
    <2>1. program.initialPc \in Nat
        BY <1>1, RunnerAssumption
    <2>2. StackSize(program) \in Nat
        BY <1>3 DEF StackSize
    <2> HIDE DEF n
    <2> QED
        BY <1>3, <2>1, <2>2 DEF Init, PointersInto, AddressesIn, Relocatable, Relocatables
<1>5. trace = <<>> /\ currentStep = 0 /\ nextHint = 0 /\ thrown = undefined
    BY DEF Init, InitMachine
<1>6. trace \in Seq(RegistersIn(n))
    BY <1>5, EmptySeq
<1>7. registers \in RegistersIn(n)
    BY <1>4 DEF registers, RegistersIn
<1> QED
    BY <1>1, <1>2, <1>5, <1>6, <1>7 DEF IInv
-----------------------------------------------------------------------------
(* The steps *)

LEMMA RegisterPointers ==
    ASSUME IInv
    PROVE /\ Len(segments) \in Nat /\ segments \in Memories(Within(Len(segments)))
          /\ pc \in PointersInto(Len(segments))
          /\ ap \in PointersInto(Len(segments))
          /\ fp \in PointersInto(Len(segments))
BY MemoryTypes DEF IInv, SelfContained, registers, RegistersIn

\* What holds of the registers and of the trace goes on holding when segments are
\* added.
LEMMA RegistersMonotone ==
    ASSUME NEW n \in Nat, NEW k \in Nat, n <= k
    PROVE RegistersIn(n) \subseteq RegistersIn(k)
          /\ Seq(RegistersIn(n)) \subseteq Seq(RegistersIn(k))
<1>1. RegistersIn(n) \subseteq RegistersIn(k)
    BY WithinMonotone DEF RegistersIn
<1> QED
    BY <1>1, SeqMonotonic

LEMMA HintsType ==
    ASSUME IInv
    PROVE HintsAtPc \in Seq(Hint)
<1>1. <<>> \in Seq(Hint)
    BY EmptySeq
<1> QED
    BY <1>1, RunnerAssumption DEF HintsAtPc, IInv

LEMMA FetchedTyped ==
    ASSUME IInv
    PROVE /\ Kept(Len(segments), segments, Fetched.segments)
          /\ Decoded \in Instruction \cup Errors
<1> DEFINE n == Len(segments)
<1>1. n \in Nat /\ segments \in Memories(Within(n)) /\ pc \in PointersInto(n)
    BY RegisterPointers
<1>2. Kept(n, segments, Fetched.segments) /\ Fetched.value \in Known(n) \cup Errors
    <2> HIDE DEF n
    <2> QED
        BY <1>1, PointerFacts, getKept DEF Fetched
<1>3. Error("UndefinedInstruction") \in Errors /\ Error("ExpectedFelt") \in Errors
    BY ErrorType DEF ErrorNames
<1>4. Decoded \in Instruction \cup Errors
    <2>1. CASE \/ isError(Fetched.value) \/ Fetched.value = undefined
               \/ isRelocatable(Fetched.value)
        <3> HIDE DEF n
        <3> QED
            BY <1>1, <1>2, <1>3, <2>1, KnownCases DEF Decoded
    <2>2. CASE ~isError(Fetched.value) /\ Fetched.value # undefined
               /\ ~isRelocatable(Fetched.value)
        <3> HIDE DEF n
        <3>1. Fetched.value \in Felts
            BY <1>1, <1>2, <2>2, KnownCases, Tags
        <3>2. decodeInstruction(Fetched.value.inner) \in Instruction \cup Errors
            BY <3>1, DecodeAssumption DEF Felts
        <3> QED
            BY <2>2, <3>2 DEF Decoded
    <2> QED
        BY <2>1, <2>2
<1> QED
    BY <1>2, <1>4

\* A memory that has only more cells keeps the invariant of everything else.
LEMMA KeptInvariant ==
    ASSUME IInv, Kept(Len(segments), segments, segments')
    PROVE /\ SelfContained(segments')
          /\ Len(segments') = Len(segments)
          /\ Grows(segments, segments')
BY DEF Kept, SelfContained

LEMMA StepHintIInv ==
    ASSUME IInv, StepHint
    PROVE IInv' /\ Grows(segments, segments')
<1> DEFINE n == Len(segments)
           k == Len(segments')
           hint == HintsAtPc[nextHint + 1]
           run == executeHint(segments, registers, hint)
<1>1. n \in Nat /\ registers \in RegistersIn(n) /\ SelfContained(segments)
    BY RegisterPointers DEF IInv
<1>2. hint \in Hint
    <2>1. nextHint \in Nat /\ nextHint < Len(HintsAtPc) /\ Len(HintsAtPc) \in Nat
        BY HintsType, LenProperties DEF IInv, StepHint, ExecuteHint
    <2>2. nextHint + 1 \in 1..Len(HintsAtPc)
        BY <2>1
    <2> QED
        BY <2>2, HintsType, ElementOfSeq
<1>3. /\ segments' = run.segments
      /\ thrown' = IF isError(run.value) THEN run.value ELSE undefined
      /\ nextHint' = nextHint + 1
      /\ UNCHANGED <<pc, ap, fp, trace, currentStep, program>>
    BY DEF StepHint, ExecuteHint
<1>4. HintTyped(segments, run)
    <2> HIDE DEF hint
    <2> QED
        BY <1>1, <1>2, executeHintTyped, RunnerAssumption
<1> HIDE DEF run
<1>5. /\ SelfContained(segments') /\ k \in Nat /\ n <= k
      /\ Grows(segments, segments')
      /\ thrown' \in {undefined} \cup Errors
    BY <1>3, <1>4, Tags DEF HintTyped
<1>6. RegistersIn(n) \subseteq RegistersIn(k) /\ Seq(RegistersIn(n)) \subseteq Seq(RegistersIn(k))
    <2> HIDE DEF n, k
    <2> QED
        BY <1>1, <1>5, RegistersMonotone
<1>7. registers' = registers
    BY <1>3 DEF registers
<1> QED
    BY <1>1, <1>3, <1>5, <1>6, <1>7 DEF IInv

LEMMA StepInstructionIInv ==
    ASSUME IInv, StepInstruction
    PROVE IInv' /\ Grows(segments, segments')
<1> DEFINE n == Len(segments)
           ins == Decoded
           step == computeStepValues(Fetched.segments, registers, ins)
<1>1. n \in Nat /\ segments \in Memories(Within(n)) /\ registers \in RegistersIn(n)
      /\ trace \in Seq(RegistersIn(n))
    BY RegisterPointers DEF IInv
<1>2. nextHint' = 0 /\ program' = program
    BY DEF StepInstruction, ExecuteInstruction
<1>3. Kept(n, segments, Fetched.segments) /\ ins \in Instruction \cup Errors
    BY FetchedTyped
<1>4. CASE FailToDecode
    <2>1. ins \in Errors
        BY <1>3, <1>4 DEF FailToDecode, Instruction, InstructionWith, isError
    <2>2. Kept(n, segments, segments')
        BY <1>3, <1>4 DEF FailToDecode
    <2>3. SelfContained(segments') /\ Len(segments') = n /\ Grows(segments, segments')
        BY <2>2, KeptInvariant
    <2> QED
        BY <1>2, <1>4, <2>1, <2>3 DEF FailToDecode, IInv, registers
<1>5. ASSUME ~isError(ins), RunInstruction(ins)
      PROVE IInv' /\ Grows(segments, segments')
    <2>1. ins \in Instruction
        BY <1>3, <1>5, Tags
    <2>2. Fetched.segments \in Memories(Within(n))
        BY <1>3 DEF Kept
    <2>3. Kept(n, segments, step.segments) /\ StepTyped(n, step.values)
        <3> HIDE DEF n, ins
        <3> QED
            BY <1>1, <1>3, <2>1, <2>2, computeStepValuesTyped, KeptTransitive
    <2>4. CASE FailToCompute(step)
        <3>1. step.values.res \in Errors
            <4> HIDE DEF n, step
            <4> QED
                BY <1>1, <2>3, <2>4, KnownCases DEF FailToCompute, StepTyped
        <3>2. Kept(n, segments, segments')
            BY <2>3, <2>4 DEF FailToCompute
        <3>3. SelfContained(segments') /\ Len(segments') = n /\ Grows(segments, segments')
            BY <3>2, KeptInvariant
        <3> QED
            BY <1>2, <2>4, <3>1, <3>3 DEF FailToCompute, IInv, registers
    <2>5. CASE UpdateRegisters(ins, step)
        <3> DEFINE newPc == nextPc(ins, registers, step.values.res, step.values.dst)
                   newFp == nextFp(ins, registers, step.values.dst)
                   newAp == nextAp(ins, registers, step.values.res)
                   failed == IF isError(newPc) THEN newPc
                             ELSE IF isError(newFp) THEN newFp
                             ELSE newAp
        <3>1. /\ ~isError(step.values.res)
              /\ segments' = step.segments
              /\ trace' = Append(trace, registers)
              /\ pc' = IF isError(newPc) THEN pc ELSE newPc
              /\ fp' = IF isError(newPc) \/ isError(newFp) THEN fp ELSE newFp
              /\ ap' = IF isError(failed) THEN ap ELSE newAp
              /\ thrown' = IF isError(failed) THEN failed ELSE undefined
              /\ currentStep' = IF isError(failed) THEN currentStep ELSE currentStep + 1
            BY <2>5 DEF UpdateRegisters
        <3>2. SelfContained(segments') /\ Len(segments') = n /\ Grows(segments, segments')
            BY <2>3, <3>1, KeptInvariant
        <3> HIDE DEF n, ins, step
        <3>3. step.values.res \in Known(n) /\ step.values.dst \in Known(n)
            BY <2>3, <3>1, Tags DEF StepTyped
        <3>4. /\ newPc \in PointersInto(n) \cup Errors
              /\ newFp \in PointersInto(n) \cup Errors
              /\ newAp \in PointersInto(n) \cup Errors
            BY <1>1, <2>1, <3>3, NextRegisterTypes
        <3> HIDE DEF newPc, newFp, newAp
        <3>5. pc \in PointersInto(n) /\ ap \in PointersInto(n) /\ fp \in PointersInto(n)
            BY RegisterPointers DEF n
        <3>6. /\ isError(failed) => failed \in Errors
              /\ ~isError(failed) => failed = newAp
            BY <1>1, <3>4, PointerFacts
        <3> HIDE DEF failed
        <3>7. pc' \in PointersInto(n) /\ fp' \in PointersInto(n) /\ ap' \in PointersInto(n)
            BY <3>1, <3>4, <3>5, <3>6, Tags DEF failed
        <3>8. registers' \in RegistersIn(n)
            BY <3>7 DEF registers, RegistersIn
        <3>9. trace' \in Seq(RegistersIn(n))
            BY <1>1, <3>1, AppendProperties
        <3>10. currentStep' \in Nat /\ thrown' \in {undefined} \cup Errors
            BY <3>1, <3>6 DEF IInv
        <3> QED
            BY <1>2, <3>2, <3>8, <3>9, <3>10 DEF IInv
    <2> QED
        BY <1>5, <2>4, <2>5 DEF RunInstruction
<1> QED
    BY <1>4, <1>5 DEF StepInstruction, ExecuteInstruction

\* No step of a run loses a segment, its handler or a value.
LEMMA StepIInv == IInv /\ [Next]_vars => IInv' /\ Grows(segments, segments')
<1> SUFFICES ASSUME IInv, [Next]_vars
             PROVE IInv' /\ Grows(segments, segments')
    OBVIOUS
<1>1. CASE UNCHANGED <<vmVars, program>>
    <2>1. IInv'
        BY <1>1 DEF vmVars, IInv, registers
    <2>2. Grows(segments, segments)
        BY RegisterPointers, GrowsReflexive
    <2> QED
        BY <1>1, <2>1, <2>2 DEF vmVars
<1> QED
    BY <1>1, StepHintIInv, StepInstructionIInv DEF Next, Finish, vars

-----------------------------------------------------------------------------

\* The state of a run keeps its type: cells hold values, registers relocatables.
THEOREM MachineTypeCorrect == Spec => []MachineTypeOK
<1>1. IInv => MachineTypeOK
    <2> SUFFICES ASSUME IInv
                 PROVE MachineTypeOK
        OBVIOUS
    <2> DEFINE n == Len(segments)
    <2>1. n \in Nat /\ segments \in Memories(Within(n))
        BY RegisterPointers
    <2> HIDE DEF n
    <2>2. RegistersIn(n) \subseteq Registers
        BY DEF RegistersIn, Registers, PointersInto, AddressesIn
    <2>3. registers \in Registers /\ trace \in Seq(Registers)
        BY <2>2, SeqMonotonic DEF IInv, n
    <2>4. ASSUME NEW i \in DOMAIN segments
          PROVE /\ segments[i].builtin \in Builtins
                /\ \A o \in DOMAIN CellsOf(i) : o \in Int /\ CellsOf(i)[o] \in SegmentValue
        <3>1. segments[i].builtin \in Builtins /\ segments[i].cells \in CellMaps(Within(n))
            BY <2>1, MemoryTypes
        <3> QED
            BY <3>1, CellMapsDef DEF CellsOf, Within
    <2> QED
        BY <2>3, <2>4 DEF IInv, MachineTypeOK, Running
<1> QED
    BY <1>1, InitIInv, StepIInv, PTL DEF Spec

\* No program makes a pointer into a segment that does not exist, or before the
\* first cell of one.
THEOREM PointersAreAllocated == Spec => []NoDanglingPointer
<1>1. IInv => NoDanglingPointer
    <2> SUFFICES ASSUME IInv
                 PROVE NoDanglingPointer
        OBVIOUS
    <2> DEFINE n == Len(segments)
    <2>1. n \in Nat /\ segments \in Memories(Within(n)) /\ DOMAIN segments = 1..n
        BY RegisterPointers, MemoryTypes
    <2>2. /\ registers \in [Pc : PointersInto(n), Ap : PointersInto(n), Fp : PointersInto(n)]
          /\ trace \in Seq([Pc : PointersInto(n), Ap : PointersInto(n), Fp : PointersInto(n)])
        BY DEF IInv, RegistersIn
    <2> HIDE DEF n
    <2>3. ASSUME NEW v, isRelocatable(v), v \in Within(n) \cup PointersInto(n)
          PROVE Points(v)
        <3>1. v.segmentId \in Nat /\ v.segmentId < n /\ v.offset >= 0
            BY <2>1, <2>3, WithinCases DEF PointersInto, AddressesIn, Relocatables
        <3> QED
            BY <2>1, <2>3, <3>1 DEF Points
    <2>4. \A v \in PointersInto(n) : Points(v)
        BY <2>1, <2>3, PointerFacts
    <2>5. \A r \in DOMAIN registers : Points(registers[r])
        BY <2>2, <2>4
    <2>6. \A k \in DOMAIN trace : \A r \in DOMAIN trace[k] : Points(trace[k][r])
        <3> SUFFICES ASSUME NEW k \in DOMAIN trace
                     PROVE \A r \in DOMAIN trace[k] : Points(trace[k][r])
            OBVIOUS
        <3> DEFINE S == [Pc : PointersInto(n), Ap : PointersInto(n), Fp : PointersInto(n)]
        <3>0. trace \in Seq(S) /\ k \in 1..Len(trace)
            BY <2>2, LenProperties
        <3>1. trace[k] \in S
            <4> HIDE DEF S
            <4> QED
                BY <3>0, ElementOfSeq
        <3> QED
            BY <2>4, <3>1
    <2>7. \A i \in DOMAIN segments : \A o \in DOMAIN CellsOf(i) :
              isRelocatable(CellsOf(i)[o]) => Points(CellsOf(i)[o])
        <3> SUFFICES ASSUME NEW i \in DOMAIN segments, NEW o \in DOMAIN CellsOf(i),
                            isRelocatable(CellsOf(i)[o])
                     PROVE Points(CellsOf(i)[o])
            OBVIOUS
        <3>1. segments[i].cells \in CellMaps(Within(n))
            BY <2>1, MemoryTypes
        <3>2. segments[i].cells[o] \in Within(n)
            BY <3>1, CellMapsDef DEF CellsOf
        <3> QED
            BY <2>3, <3>2 DEF CellsOf
    <2> QED
        BY <2>5, <2>6, <2>7 DEF NoDanglingPointer
<1> QED
    BY <1>1, InitIInv, StepIInv, PTL DEF Spec
-----------------------------------------------------------------------------
(* The segments of the builtins *)

\* The segments the constructor laid out are there, with what it wrote.
LayoutStays == Grows(InitialSegments(program), segments)

LEMMA ValuesGrow ==
    ASSUME NEW m, SelfContained(m)
    PROVE m \in Memories(SegmentValue)
BY MemoriesMonotone DEF SelfContained, Within

LEMMA LayoutInvariant ==
    /\ Init => LayoutStays
    /\ IInv /\ LayoutStays /\ [Next]_vars => LayoutStays'
<1>1. ASSUME Init
      PROVE LayoutStays
    BY <1>1, InitIInv, ValuesGrow, GrowsReflexive DEF Init, IInv, LayoutStays
<1>2. ASSUME IInv, LayoutStays, [Next]_vars
      PROVE LayoutStays'
    <2>1. IInv' /\ Grows(segments, segments') /\ program' = program
        BY <1>2, StepIInv DEF Next, StepHint, StepInstruction, Finish, vars
    <2>2. /\ InitialSegments(program) \in Memories(SegmentValue)
          /\ segments \in Memories(SegmentValue)
          /\ segments' \in Memories(SegmentValue)
        BY <1>2, <2>1, InitialMemory, ValuesGrow DEF IInv
    <2>3. Grows(InitialSegments(program), segments')
        BY <1>2, <2>1, <2>2, GrowsTransitive DEF LayoutStays
    <2> QED
        BY <2>1, <2>3 DEF LayoutStays
<1> QED
    BY <1>1, <1>2

\* No two builtins share a segment, and the number computed from the names is that
\* of the pointer on the stack.
LEMMA BuiltinSegmentIds ==
    ASSUME NEW p \in Programs, NEW k \in DOMAIN p.builtins
    PROVE /\ k \in 1..Len(p.builtins)
          /\ getBuiltinSegment(p, k) = BuiltinSegmentId(p, k)
          /\ BuiltinSegmentId(p, k) \in 2..(BuiltinSegmentCount(p) + 1)
          /\ \A j \in DOMAIN p.builtins :
                BuiltinSegmentId(p, j) = BuiltinSegmentId(p, k) => j = k
<1> DEFINE A == ArenaIndex(p)
<1>1. /\ Len(p.builtins) \in Nat /\ DOMAIN p.builtins = 1..Len(p.builtins)
      /\ A \in 0..Len(p.builtins)
    BY LayoutTypes
<1>2. \A j \in 1..Len(p.builtins) :
          BuiltinSegmentId(p, j) = IF A = 0 \/ j < A THEN j + 1 ELSE j + 2
    BY DEF BuiltinSegmentId
<1>3. getBuiltinSegment(p, k) = k + (IF A # 0 /\ k >= A THEN 2 ELSE 1)
    BY DEF getBuiltinSegment
<1>4. BuiltinSegmentCount(p) = Len(p.builtins) + (IF A = 0 THEN 0 ELSE 1)
    BY DEF BuiltinSegmentCount
<1> HIDE DEF A
<1>5. getBuiltinSegment(p, k) = BuiltinSegmentId(p, k)
    BY <1>1, <1>2, <1>3
<1>6. BuiltinSegmentId(p, k) \in 2..(BuiltinSegmentCount(p) + 1)
    <2> DEFINE L == Len(p.builtins)
    <2>1. L \in Nat /\ k \in 1..L /\ A \in 0..L
        BY <1>1
    <2>2. CASE A = 0
        <3>1. BuiltinSegmentId(p, k) = k + 1 /\ BuiltinSegmentCount(p) = L
            BY <1>2, <1>4, <2>1, <2>2
        <3> HIDE DEF L
        <3> QED
            BY <2>1, <3>1
    <2>3. CASE A # 0
        <3>1. BuiltinSegmentId(p, k) \in {k + 1, k + 2} /\ BuiltinSegmentCount(p) = L + 1
            BY <1>2, <1>4, <2>1, <2>3
        <3> HIDE DEF L
        <3> QED
            BY <2>1, <3>1
    <2> QED
        BY <2>2, <2>3
<1>7. ASSUME NEW j \in 1..Len(p.builtins), BuiltinSegmentId(p, j) = BuiltinSegmentId(p, k)
      PROVE j = k
    BY <1>1, <1>2, <1>7
<1> QED
    BY <1>1, <1>5, <1>6, <1>7

\* What the constructor gives the k-th builtin: its pointer, and its handler.
LEMMA BuiltinLaidOut ==
    ASSUME NEW p \in Programs, NEW k \in DOMAIN p.builtins
    PROVE /\ k - 1 \in DOMAIN InitialSegments(p)[2].cells
          /\ InitialSegments(p)[2].cells[k - 1].segmentId = BuiltinSegmentId(p, k)
          /\ InitialSegments(p)[BuiltinSegmentId(p, k) + 1].builtin
                = getBuiltin(p.builtins[k])
<1> DEFINE id == BuiltinSegmentId(p, k)
           n == BuiltinSegmentCount(p) + 4
<1>1. /\ Len(p.builtins) \in Nat /\ BuiltinSegmentCount(p) \in Nat
      /\ k \in 1..Len(p.builtins) /\ id \in 2..(BuiltinSegmentCount(p) + 1)
    BY LayoutTypes, BuiltinSegmentIds
<1>2. 2 \in 1..n /\ id + 1 \in 1..n /\ (id + 1) - 1 = id
    <2> HIDE DEF id
    <2> QED
        BY <1>1
<1>3. InitialSegments(p)[2].cells = StackCells(p)
    BY <1>2 DEF InitialSegments
<1>4. k - 1 \in DOMAIN StackCells(p) /\ StackCells(p)[k - 1] = BuiltinPointer(p, k)
    <2>1. k - 1 \in 0..(Len(p.builtins) + 2 - 1) /\ k - 1 < Len(p.builtins) /\ (k - 1) + 1 = k
        BY <1>1
    <2> QED
        BY <2>1 DEF StackCells, StackSize
<1>5. BuiltinPointer(p, k).segmentId = id
    BY DEF BuiltinPointer, Relocatable
<1>6. InitialSegments(p)[id + 1].builtin = HandlerOf(p, id)
    <2> HIDE DEF id
    <2> QED
        BY <1>2 DEF InitialSegments
<1>7. HandlerOf(p, id) = getBuiltin(p.builtins[k])
    <2>1. \A j \in DOMAIN p.builtins : BuiltinSegmentId(p, j) = id <=> j = k
        BY BuiltinSegmentIds
    <2> HIDE DEF id
    <2>2. (CHOOSE j \in DOMAIN p.builtins : BuiltinSegmentId(p, j) = id) = k
        BY <2>1
    <2> QED
        BY <2>1, <2>2 DEF HandlerOf
<1> QED
    BY <1>3, <1>4, <1>5, <1>6, <1>7

\* After any number of steps of any program, getBuiltinSegment and the entry point
\* agree on the segment of a builtin, and its handler is there.
\* cairoRunner.ts:76-95 and 210-218.
THEOREM BuiltinsAreFound == Spec => []BuiltinSegmentsAreFound
<1>1. IInv /\ LayoutStays => BuiltinSegmentsAreFound
    <2> SUFFICES ASSUME IInv, LayoutStays, NEW k \in DOMAIN program.builtins
                 PROVE LET id == getBuiltinSegment(program, k)
                       IN /\ id = CellAt(segments, Relocatable(1, k - 1)).segmentId
                          /\ segments[id + 1].builtin = getBuiltin(program.builtins[k])
        BY DEF BuiltinSegmentsAreFound
    <2> DEFINE id == getBuiltinSegment(program, k)
               layout == InitialSegments(program)
    <2>1. /\ program \in Programs
          /\ Len(layout) = BuiltinSegmentCount(program) + 4
          /\ BuiltinSegmentCount(program) \in Nat
        BY InitialMemory, LayoutTypes DEF IInv
    <2>2. id = BuiltinSegmentId(program, k) /\ id \in 2..(BuiltinSegmentCount(program) + 1)
        BY <2>1, BuiltinSegmentIds
    <2>3. 2 \in 1..Len(layout) /\ id + 1 \in 1..Len(layout)
        <3> HIDE DEF id, layout
        <3> QED
            BY <2>1, <2>2
    <2>4. /\ Extends(layout[2].cells, segments[2].cells)
          /\ segments[id + 1].builtin = layout[id + 1].builtin
        BY <2>3 DEF LayoutStays, Grows
    <2>5. /\ k - 1 \in DOMAIN layout[2].cells
          /\ layout[2].cells[k - 1].segmentId = id
          /\ layout[id + 1].builtin = getBuiltin(program.builtins[k])
        BY <2>1, <2>2, BuiltinLaidOut
    <2>6. CellAt(segments, Relocatable(1, k - 1)) = At(segments[2].cells, k - 1)
        BY DEF CellAt, Relocatable
    <2> HIDE DEF id, layout
    <2>7. At(segments[2].cells, k - 1) = layout[2].cells[k - 1]
        BY <2>4, <2>5 DEF Extends, At
    <2> QED
        BY <2>4, <2>5, <2>6, <2>7 DEF id
<1> QED
    BY <1>1, InitIInv, StepIInv, LayoutInvariant, PTL DEF Spec
-----------------------------------------------------------------------------
(* What the entries of the trace say of the memory *)

\* The word at the pc of an entry is an instruction, and if that asserts a sum or
\* a product its cells satisfy it.
EntryHolds(m, regs) ==
    LET word == CellAt(m, regs.Pc)
        ins == decodeInstruction(word.inner)
    IN /\ word \in Felts
       /\ ins \in Instruction
       /\ Asserting(ins) => Satisfied(m, Len(m), regs, ins)

TraceHolds == \A k \in DOMAIN trace : EntryHolds(segments, trace[k])

\* What holds of an entry holds in every memory that grew from this one.
LEMMA EntryHoldsGrows ==
    ASSUME NEW m, SelfContained(m), NEW k, SelfContained(k), Grows(m, k),
           NEW regs \in RegistersIn(Len(m)), EntryHolds(m, regs)
    PROVE EntryHolds(k, regs)
<1> DEFINE word == CellAt(m, regs.Pc)
           ins == decodeInstruction(word.inner)
<1>1. /\ Len(m) \in Nat /\ Len(k) \in Nat /\ Len(m) <= Len(k)
      /\ m \in Memories(Within(Len(m))) /\ k \in Memories(Within(Len(k)))
    BY MemoryTypes DEF SelfContained, Grows
<1>2. word \in Felts /\ ins \in Instruction
    BY DEF EntryHolds
<1>3. regs.Pc \in Relocatables /\ InSegment(m, regs.Pc)
    BY DEF RegistersIn, PointersInto, AddressesIn, InSegment
<1>4. CellAt(k, regs.Pc) = word
    BY <1>1, <1>2, <1>3, WithinClosed, CellAtGrows, Tags
<1>5. Asserting(ins) => Satisfied(k, Len(k), regs, ins)
    <2>1. Asserting(ins) => Satisfied(m, Len(m), regs, ins)
        BY DEF EntryHolds
    <2> HIDE DEF ins, word
    <2> QED
        BY <1>1, <1>2, <2>1, SatisfiedGrows
<1> QED
    BY <1>2, <1>4, <1>5 DEF EntryHolds

\* An instruction that is executed leaves an entry that holds.
LEMMA ExecutedHolds ==
    ASSUME IInv, ~isError(Decoded), NEW step,
           step = computeStepValues(Fetched.segments, registers, Decoded),
           UpdateRegisters(Decoded, step)
    PROVE /\ EntryHolds(segments', registers)
          /\ Decoded = decodeInstruction(CellAt(segments', pc).inner)
<1> DEFINE n == Len(segments)
           ins == Decoded
           m == Fetched.segments
<1>1. n \in Nat /\ segments \in Memories(Within(n)) /\ registers \in RegistersIn(n)
      /\ pc \in PointersInto(n) /\ registers.Pc = pc
    BY RegisterPointers DEF IInv, registers
<1>2. Kept(n, segments, m) /\ ins \in Instruction
    BY FetchedTyped, Tags
<1>3. m \in Memories(Within(n)) /\ Len(m) = n
    BY <1>2 DEF Kept
<1>4. /\ Fetched.value \in Felts
      /\ ins = decodeInstruction(Fetched.value.inner)
      /\ CellAt(m, pc) = Fetched.value
    <2>1. /\ Fetched.value \in Known(n) \cup Errors
          /\ isError(Fetched.value) \/ Fetched.value = CellAt(m, pc)
        <3> HIDE DEF n
        <3> QED
            BY <1>1, PointerFacts, getKept DEF Fetched
    <2>2. Error("UndefinedInstruction") \in Errors /\ Error("ExpectedFelt") \in Errors
        BY ErrorType DEF ErrorNames
    <2>3. ~isError(Fetched.value) /\ Fetched.value # undefined /\ ~isRelocatable(Fetched.value)
        BY <2>2, Tags DEF Decoded
    <2> HIDE DEF n
    <2>4. Fetched.value \in Felts
        BY <1>1, <2>1, <2>3, KnownCases, Tags
    <2> QED
        BY <2>1, <2>3, <2>4 DEF Decoded
<1>5. segments' = step.segments /\ ~isError(step.values.res)
    BY DEF UpdateRegisters
<1> HIDE DEF n, ins, m
<1>6. step = computeStepValues(m, registers, ins)
    BY DEF m, ins
<1>7. Kept(n, m, step.segments)
    BY <1>1, <1>2, <1>3, <1>6, computeStepValuesTyped
<1>8. Asserting(ins) => Satisfied(step.segments, n, registers, ins)
    BY <1>1, <1>2, <1>3, <1>5, <1>6, AssertionSatisfied
<1>9. CellAt(step.segments, pc) = Fetched.value
    <2>1. pc \in Relocatables /\ InSegment(m, pc)
        BY <1>1, <1>3 DEF PointersInto, AddressesIn, InSegment
    <2> QED
        BY <1>1, <1>3, <1>4, <1>7, <2>1, WithinClosed, CellAtGrows, Tags DEF Kept
<1>10. Len(step.segments) = n
    BY <1>3, <1>7 DEF Kept
<1>11. ins = decodeInstruction(CellAt(segments', pc).inner)
    BY <1>4, <1>5, <1>9
<1>12. EntryHolds(segments', registers)
    BY <1>1, <1>2, <1>4, <1>5, <1>8, <1>9, <1>10 DEF EntryHolds
<1> QED
    BY <1>11, <1>12 DEF ins

LEMMA StepTrace ==
    ASSUME IInv, [Next]_vars
    PROVE \/ trace' = trace
          \/ trace' = Append(trace, registers) /\ EntryHolds(segments', registers)
<1>1. CASE StepInstruction
    <2>1. FailToDecode \/ (~isError(Decoded) /\ RunInstruction(Decoded))
        BY <1>1 DEF StepInstruction, ExecuteInstruction
    <2>2. ASSUME NEW step, FailToCompute(step)
          PROVE trace' = trace
        BY <2>2 DEF FailToCompute
    <2>3. ASSUME NEW step, UpdateRegisters(Decoded, step)
          PROVE trace' = Append(trace, registers)
        BY <2>3 DEF UpdateRegisters
    <2> QED
        BY <2>1, <2>2, <2>3, ExecutedHolds DEF FailToDecode, RunInstruction
<1> QED
    BY <1>1 DEF Next, StepHint, ExecuteHint, Finish, vars, vmVars

LEMMA TraceInvariant ==
    /\ Init => TraceHolds
    /\ IInv /\ TraceHolds /\ [Next]_vars => TraceHolds'
<1>1. Init => TraceHolds
    BY DEF Init, InitMachine, TraceHolds
<1>2. ASSUME IInv, TraceHolds, [Next]_vars, NEW k \in DOMAIN trace'
      PROVE EntryHolds(segments', trace'[k])
    <2> DEFINE S == RegistersIn(Len(segments))
    <2>1. /\ IInv' /\ Grows(segments, segments')
          /\ SelfContained(segments) /\ SelfContained(segments')
          /\ trace \in Seq(S) /\ registers \in S
        BY <1>2, StepIInv DEF IInv
    <2>2. \A j \in DOMAIN trace : EntryHolds(segments', trace[j])
        <3> SUFFICES ASSUME NEW j \in DOMAIN trace
                     PROVE EntryHolds(segments', trace[j])
            OBVIOUS
        <3>1. trace[j] \in S
            <4> HIDE DEF S
            <4> QED
                BY <2>1, LenProperties, ElementOfSeq
        <3>2. EntryHolds(segments, trace[j])
            BY <1>2 DEF TraceHolds
        <3> QED
            BY <2>1, <3>1, <3>2, EntryHoldsGrows
    <2>3. CASE trace' = trace
        BY <1>2, <2>2, <2>3
    <2>4. CASE trace' = Append(trace, registers) /\ EntryHolds(segments', registers)
        <3>1. \/ k \in DOMAIN trace /\ trace'[k] = trace[k]
              \/ trace'[k] = registers
            <4> HIDE DEF S
            <4>1. Len(trace) \in Nat /\ DOMAIN trace = 1..Len(trace)
                BY <2>1, LenProperties
            <4>2. /\ Len(trace') = Len(trace) + 1 /\ DOMAIN trace' = 1..Len(trace')
                  /\ \A j \in 1..Len(trace) : trace'[j] = trace[j]
                  /\ trace'[Len(trace) + 1] = registers
                BY <2>1, <2>4, AppendProperties, LenProperties
            <4> QED
                BY <1>2, <4>1, <4>2
        <3> QED
            BY <2>2, <2>4, <3>1
    <2> QED
        BY <1>2, <2>3, <2>4, StepTrace
<1> QED
    BY <1>1, <1>2 DEF TraceHolds

\* Every sum and product a run has asserted is true of its memory, however the
\* missing operand was deduced and whatever ran since.  virtualMachine.ts:238-271
THEOREM AssertedResultsStay == Spec => []AssertedResultsHold
<1>1. TraceHolds => AssertedResultsHold
    <2> SUFFICES ASSUME TraceHolds, NEW k \in DOMAIN trace
                 PROVE /\ Asserts(k, "Add") => Dst(k) = Add(Op0(k), Op1(k))
                       /\ Asserts(k, "Mul") => Dst(k) = Mul(Op0(k), Op1(k))
        BY DEF AssertedResultsHold
    <2>1. Asserting(Executed(k)) =>
              Satisfied(segments, Len(segments), trace[k], Executed(k))
        BY DEF TraceHolds, EntryHolds, Executed
    <2>2. Asserting(Executed(k)) => Dst(k) = ResultOf(Executed(k), Op0(k), Op1(k))
        BY <2>1 DEF Satisfied, Dst, Op0, Op1
    <2> QED
        BY <2>2 DEF Asserts, Asserting, ResultOf
<1> QED
    BY <1>1, InitIInv, StepIInv, TraceInvariant, PTL DEF Spec
-----------------------------------------------------------------------------
(* Relocation *)

\* f gives the first of n segments the address base, each other one the address of
\* the one before plus its length.
PlacesAfter(f, n, L, base) ==
    f = [i \in 1..n |-> IF i = 1 THEN base ELSE f[i - 1] + L[i - 1]]

\* Any number of segments can be placed: a least number that could not would be one
\* more than a number that can.
LEMMA TableExists ==
    ASSUME NEW n \in Nat, NEW L \in [1..n -> Nat], NEW base \in Nat
    PROVE \E f : PlacesAfter(f, n, L, base)
<1> DEFINE Starts(f, m) == PlacesAfter(f, m, L, base)
           Bad == {m \in 0..n : ~\E f : Starts(f, m)}
<1>1. CASE Bad = {}
    <2>1. n \notin Bad
        BY <1>1
    <2> QED
        BY <2>1
<1>2. CASE Bad # {}
    <2>1. PICK m \in Bad : \A y \in Bad : m <= y
        <3>1. Bad \subseteq Nat
            OBVIOUS
        <3> HIDE DEF Bad
        <3> QED
            BY <1>2, <3>1, LeastNat
    <2>2. m \in 0..n /\ ~\E f : Starts(f, m)
        BY <2>1
    <2>3. m # 0
        <3> DEFINE none == [i \in 1..0 |-> base]
        <3>1. CASE m = 0
            <4>1. Starts(none, m)
                BY <3>1 DEF PlacesAfter
            <4> QED
                BY <2>2, <4>1
        <3> QED
            BY <3>1
    <2>4. m - 1 \in 0..n /\ m - 1 \notin Bad
        BY <2>1, <2>2, <2>3
    <2>5. PICK f : Starts(f, m - 1)
        BY <2>4
    <2> DEFINE g == [i \in 1..m |-> IF i < m THEN f[i]
                                    ELSE IF m = 1 THEN base ELSE f[m - 1] + L[m - 1]]
    <2>6. ASSUME NEW i \in 1..m
          PROVE g[i] = IF i = 1 THEN base ELSE g[i - 1] + L[i - 1]
        <3>1. CASE i < m
            <4>1. i \in 1..(m - 1) /\ g[i] = f[i] /\ (i # 1 => g[i - 1] = f[i - 1])
                BY <2>2, <3>1
            <4>2. f[i] = IF i = 1 THEN base ELSE f[i - 1] + L[i - 1]
                BY <2>5, <4>1 DEF PlacesAfter
            <4> QED
                BY <4>1, <4>2
        <3>2. CASE i = m
            BY <2>2, <3>2
        <3> QED
            BY <2>2, <3>1, <3>2
    <2>7. Starts(g, m)
        BY <2>6 DEF PlacesAfter
    <2> QED
        BY <2>2, <2>7
<1> QED
    BY <1>1, <1>2

LEMMA TableEquation ==
    ASSUME IInv
    PROVE relocationTable =
              [i \in DOMAIN segments |->
                  IF i = 1 THEN RelocateOffset
                  ELSE relocationTable[i - 1] + Length(segments[i - 1].cells)]
<1> DEFINE n == Len(segments)
           L == [i \in 1..n |-> Length(segments[i].cells)]
           Starts(f) == f = [i \in DOMAIN segments |->
                                IF i = 1 THEN RelocateOffset
                                ELSE f[i - 1] + Length(segments[i - 1].cells)]
<1>1. n \in Nat /\ DOMAIN segments = 1..n /\ segments \in Memories(Within(n))
    BY RegisterPointers, MemoryTypes
<1>2. \A i \in 1..n : L[i] = Length(segments[i].cells) /\ L[i] \in Nat
    BY <1>1, MemoryTypes, LengthType
<1>3. L \in [1..n -> Nat]
    BY <1>2
<1>4. \E f : Starts(f)
    <2>1. RelocateOffset \in Nat
        BY RunnerAssumption
    <2> HIDE DEF L, n
    <2>2. PICK f : PlacesAfter(f, n, L, RelocateOffset)
        BY <1>1, <1>3, <2>1, TableExists
    <2>3. \A i \in 1..n : i # 1 => i - 1 \in 1..n
        BY <1>1
    <2>4. Starts(f)
        BY <1>1, <1>2, <2>2, <2>3 DEF PlacesAfter
    <2> QED
        BY <2>4
<1>5. relocationTable = CHOOSE f : Starts(f)
    BY DEF relocationTable
<1> QED
    BY <1>4, <1>5

\* A segment starts after the end of every segment before it.
LEMMA TableOrder ==
    ASSUME IInv
    PROVE \A j \in DOMAIN segments :
              /\ relocationTable[j] \in Nat
              /\ \A i \in 1..(j - 1) :
                    relocationTable[i] + Length(segments[i].cells) <= relocationTable[j]
<1> DEFINE n == Len(segments)
           L(i) == Length(segments[i].cells)
           Placed(j) == /\ relocationTable[j] \in Nat
                        /\ \A i \in 1..(j - 1) : relocationTable[i] + L(i) <= relocationTable[j]
           Bad == {j \in 1..n : ~Placed(j)}
<1>1. n \in Nat /\ DOMAIN segments = 1..n /\ segments \in Memories(Within(n))
    BY RegisterPointers, MemoryTypes
<1>2. \A i \in 1..n : L(i) \in Nat
    BY <1>1, MemoryTypes, LengthType
<1>3. \A j \in 1..n : relocationTable[j] = IF j = 1 THEN RelocateOffset
                                           ELSE relocationTable[j - 1] + L(j - 1)
    BY <1>1, TableEquation
<1>4. RelocateOffset \in Nat
    BY RunnerAssumption
<1> HIDE DEF L, n
<1>5. CASE Bad # {}
    <2>1. Bad \subseteq Nat
        BY <1>1
    <2>2. PICK j \in Bad : \A y \in Bad : j <= y
        <3> HIDE DEF Bad
        <3> QED
            BY <1>5, <2>1, LeastNat
    <2>3. j \in 1..n /\ ~Placed(j)
        BY <2>2
    <2>4. CASE j = 1
        BY <1>1, <1>3, <1>4, <2>3, <2>4
    <2>5. CASE j # 1
        <3>1. j - 1 \in 1..n /\ j - 1 < j
            BY <1>1, <2>3, <2>5
        <3>2. j - 1 \notin Bad
            BY <1>1, <2>2, <2>3, <3>1
        <3>3. Placed(j - 1)
            BY <3>1, <3>2
        <3>4. relocationTable[j] = relocationTable[j - 1] + L(j - 1)
            BY <1>3, <2>3, <2>5
        <3>5. relocationTable[j - 1] \in Nat /\ L(j - 1) \in Nat
            BY <1>2, <3>1, <3>3
        <3>6. ASSUME NEW i \in 1..(j - 1)
              PROVE relocationTable[i] + L(i) <= relocationTable[j]
            <4>1. CASE i = j - 1
                BY <3>4, <3>5, <4>1
            <4>2. CASE i # j - 1
                <5>1. i \in 1..(j - 1 - 1) /\ i \in 1..n /\ i < j
                    BY <1>1, <2>3, <3>1, <4>2
                <5>2. relocationTable[i] + L(i) <= relocationTable[j - 1]
                    BY <3>3, <5>1
                <5>3. Placed(i)
                    BY <1>1, <2>2, <2>3, <5>1
                <5>4. relocationTable[i] \in Nat /\ L(i) \in Nat
                    BY <1>2, <5>1, <5>3
                <5> QED
                    BY <3>4, <3>5, <5>2, <5>4
            <4> QED
                BY <4>1, <4>2
        <3> QED
            BY <2>3, <3>4, <3>5, <3>6
    <2> QED
        BY <2>4, <2>5
<1>6. CASE Bad = {}
    BY <1>1, <1>6 DEF L
<1> QED
    BY <1>5, <1>6

\* A cell that has an index has an address within the place of its segment.
LEMMA CellsAddresses ==
    ASSUME IInv, NEW r \in RelocatableCells
    PROVE LET i == r.segmentId + 1
          IN /\ i \in DOMAIN segments
             /\ r = Relocatable(i - 1, r.offset)
             /\ r.offset \in Nat /\ r.offset < Length(segments[i].cells)
             /\ Length(segments[i].cells) \in Nat
             /\ RelocatedAddress(r) = relocationTable[i] + r.offset
             /\ RelocatedAddress(r) \in Nat
<1>1. PICK i \in DOMAIN segments : \E o \in Indices(segments[i].cells) : r = Relocatable(i - 1, o)
    BY DEF RelocatableCells, CellsOf
<1>2. PICK o \in Indices(segments[i].cells) : r = Relocatable(i - 1, o)
    BY <1>1
<1> DEFINE n == Len(segments)
<1>3. n \in Nat /\ DOMAIN segments = 1..n /\ segments \in Memories(Within(n))
    BY RegisterPointers, MemoryTypes
<1>4. o \in Nat /\ o < Length(segments[i].cells) /\ Length(segments[i].cells) \in Nat
    BY <1>3, MemoryTypes, LengthType
<1>5. i \in Int /\ r.segmentId = i - 1 /\ r.offset = o
    BY <1>2, <1>3 DEF Relocatable
<1>6. relocationTable[i] \in Nat
    BY TableOrder
<1> QED
    BY <1>2, <1>4, <1>5, <1>6 DEF RelocatedAddress

LEMMA CellsApart ==
    ASSUME IInv, NEW r \in RelocatableCells, NEW s \in RelocatableCells, r # s
    PROVE RelocatedAddress(r) # RelocatedAddress(s)
<1> DEFINE i == r.segmentId + 1
           j == s.segmentId + 1
           L(k) == Length(segments[k].cells)
<1>1. DOMAIN segments = 1..Len(segments) /\ Len(segments) \in Nat
    BY RegisterPointers, MemoryTypes
<1>2. /\ i \in DOMAIN segments /\ r = Relocatable(i - 1, r.offset)
      /\ r.offset \in Nat /\ r.offset < L(i) /\ L(i) \in Nat
      /\ RelocatedAddress(r) = relocationTable[i] + r.offset
    BY CellsAddresses
<1>3. /\ j \in DOMAIN segments /\ s = Relocatable(j - 1, s.offset)
      /\ s.offset \in Nat /\ s.offset < L(j) /\ L(j) \in Nat
      /\ RelocatedAddress(s) = relocationTable[j] + s.offset
    BY CellsAddresses
<1> HIDE DEF i, j, L
<1>4. relocationTable[i] \in Nat /\ relocationTable[j] \in Nat
    BY <1>2, <1>3, TableOrder
<1>5. CASE i < j
    <2>1. i \in 1..(j - 1)
        BY <1>1, <1>2, <1>3, <1>5
    <2>2. relocationTable[i] + L(i) <= relocationTable[j]
        BY <1>3, <2>1, TableOrder DEF L
    <2> QED
        BY <1>2, <1>3, <1>4, <2>2
<1>6. CASE j < i
    <2>1. j \in 1..(i - 1)
        BY <1>1, <1>2, <1>3, <1>6
    <2>2. relocationTable[j] + L(j) <= relocationTable[i]
        BY <1>2, <2>1, TableOrder DEF L
    <2> QED
        BY <1>2, <1>3, <1>4, <2>2
<1>7. CASE i = j
    <2>1. r.offset # s.offset
        BY <1>2, <1>3, <1>7
    <2> QED
        BY <1>2, <1>3, <1>4, <1>7, <2>1
<1> QED
    BY <1>1, <1>2, <1>3, <1>5, <1>6, <1>7

\* Once it is there, what was relocated is the memory and the trace as they are.
RelocatedAtEnd == relocated = undefined \/ (pc = finalPc /\ relocated = relocate)

LEMMA RelocateUnchanged ==
    ASSUME UNCHANGED <<segments, trace>>
    PROVE relocate' = relocate
<1>1. relocationTable' = relocationTable
    BY DEF relocationTable
<1>2. RelocatableCells' = RelocatableCells
    BY DEF RelocatableCells, CellsOf
<1> QED
    BY <1>1, <1>2 DEF relocate, RelocatedAddress, RelocatedValue

LEMMA RelocatedInvariant ==
    /\ Init => RelocatedAtEnd
    /\ RelocatedAtEnd /\ [Next]_vars => RelocatedAtEnd'
<1>1. Init => RelocatedAtEnd
    BY DEF Init, RelocatedAtEnd
<1>2. ASSUME RelocatedAtEnd, [Next]_vars
      PROVE RelocatedAtEnd'
    <2>1. program' = program => finalPc' = finalPc
        BY DEF finalPc
    <2>2. CASE StepHint \/ StepInstruction
        BY <1>2, <2>2 DEF StepHint, StepInstruction, InLoop, RelocatedAtEnd
    <2>3. CASE Finish
        BY <2>1, <2>3, RelocateUnchanged DEF Finish, RelocatedAtEnd, vmVars
    <2>4. CASE UNCHANGED vars
        BY <1>2, <2>1, <2>4, RelocateUnchanged DEF RelocatedAtEnd, vars, vmVars
    <2> QED
        BY <1>2, <2>2, <2>3, <2>4 DEF Next
<1> QED
    BY <1>1, <1>2

\* The pcs a run went through have an index in the array of their segment, and an
\* address the field holds: an array keeps what is written past its last index
\* as properties, which relocation leaves out, and the trace is relocated to felts.
TraceIsAddressable ==
    \A k \in DOMAIN trace :
        trace[k].Pc.offset < ArrayLimit /\ RelocatedAddress(trace[k].Pc) < P

\* A pc of the trace whose offset is an index is a cell that relocation moves.
LEMMA PcIsRelocated ==
    ASSUME IInv, TraceHolds, NEW k \in DOMAIN trace, trace[k].Pc.offset < ArrayLimit
    PROVE /\ trace[k].Pc \in RelocatableCells
          /\ CellAt(segments, trace[k].Pc) \in Felts
          /\ "Pc" \in DOMAIN trace[k]
<1> DEFINE n == Len(segments)
           S == RegistersIn(n)
           r == trace[k].Pc
           i == r.segmentId + 1
<1>1. n \in Nat /\ DOMAIN segments = 1..n /\ segments \in Memories(Within(n))
    BY RegisterPointers, MemoryTypes
<1>2. trace[k] \in S
    <2>1. trace \in Seq(S) /\ k \in 1..Len(trace)
        BY LenProperties DEF IInv
    <2> HIDE DEF S
    <2> QED
        BY <2>1, ElementOfSeq
<1>3. r \in PointersInto(n) /\ "Pc" \in DOMAIN trace[k]
    BY <1>2 DEF RegistersIn
<1> HIDE DEF n, S
<1>4. /\ r \in Relocatables /\ r.segmentId \in Nat /\ r.segmentId < n
      /\ r.offset \in Nat
    BY <1>1, <1>3 DEF PointersInto, AddressesIn, Relocatables
<1>5. CellAt(segments, r) \in Felts
    BY DEF TraceHolds, EntryHolds
<1>6. r.offset \in DOMAIN segments[i].cells
    BY <1>5, Tags DEF CellAt, At
<1>7. i \in DOMAIN segments /\ r.offset \in Indices(CellsOf(i))
    BY <1>1, <1>4, <1>6 DEF Indices, CellsOf
<1>8. r = Relocatable(i - 1, r.offset)
    BY <1>4 DEF Relocatables, Relocatable
<1> QED
    BY <1>3, <1>5, <1>7, <1>8 DEF RelocatableCells

\* Whenever the trace is addressable, the relocated memory and trace are those of
\* the run: no two cells share an address, and each pc of the trace is the address
\* of the instruction executed there, whatever the segments, their lengths and the
\* relocation offset.  virtualMachine.ts:425-457
THEOREM RelocationIsFaithful == Spec => [](TraceIsAddressable => RelocationKeepsProgram)
<1>1. IInv /\ TraceHolds /\ RelocatedAtEnd => (TraceIsAddressable => RelocationKeepsProgram)
    <2> SUFFICES ASSUME IInv, TraceHolds, RelocatedAtEnd, TraceIsAddressable,
                        relocated # undefined
                 PROVE RelocationKeepsProgram
        BY DEF RelocationKeepsProgram
    <2>1. relocated = relocate
        BY DEF RelocatedAtEnd
    <2>2. \A r, s \in RelocatableCells : r # s => RelocatedAddress(r) # RelocatedAddress(s)
        BY CellsApart
    <2>3. ASSUME NEW k \in DOMAIN trace
          PROVE [address |-> relocated.trace[k].Pc.inner,
                 value |-> CellAt(segments, trace[k].Pc)] \in relocated.memory
        <3> DEFINE r == trace[k].Pc
                   word == CellAt(segments, r)
        <3>1. r \in RelocatableCells /\ word \in Felts /\ "Pc" \in DOMAIN trace[k]
            BY PcIsRelocated DEF TraceIsAddressable
        <3>2. RelocatedAddress(r) \in Nat /\ RelocatedAddress(r) < P
            BY <3>1, CellsAddresses DEF TraceIsAddressable
        <3>3. relocated.trace[k].Pc = Felt(RelocatedAddress(r))
            BY <2>1, <3>1 DEF relocate
        <3>4. relocated.trace[k].Pc.inner = RelocatedAddress(r)
            BY <3>2, <3>3, FieldAssumption DEF Felt
        <3>5. RelocatedValue(word) = word
            BY <3>1, Tags DEF RelocatedValue
        <3>6. [address |-> RelocatedAddress(r), value |-> RelocatedValue(word)]
                  \in relocated.memory
            BY <2>1, <3>1 DEF relocate
        <3> QED
            BY <3>4, <3>5, <3>6
    <2> QED
        BY <2>2, <2>3 DEF RelocationKeepsProgram
<1> QED
    BY <1>1, InitIInv, StepIInv, TraceInvariant, RelocatedInvariant, PTL DEF Spec

-----------------------------------------------------------------------------
(* The stack of calls, as a function of the steps *)

\* f gives the stack after each of the first n steps.
StacksOf(f, n, entry, steps) ==
    f = [k \in 0..n |-> IF k = 0 THEN <<entry>> ELSE Effect(f[k - 1], steps[k])]

\* The stacks of any number of steps exist: a least number of steps without would
\* be one more than a number with.
LEMMA StacksExist ==
    ASSUME NEW n \in Nat, NEW entry, NEW steps
    PROVE \E f : StacksOf(f, n, entry, steps)
<1> DEFINE Stacks(f, m) == StacksOf(f, m, entry, steps)
           Bad == {m \in 0..n : ~\E f : Stacks(f, m)}
<1>1. CASE Bad = {}
    <2>1. n \notin Bad
        BY <1>1
    <2> QED
        BY <2>1
<1>2. CASE Bad # {}
    <2>1. PICK m \in Bad : \A y \in Bad : m <= y
        <3>1. Bad \subseteq Nat
            OBVIOUS
        <3> HIDE DEF Bad
        <3> QED
            BY <1>2, <3>1, LeastNat
    <2>2. m \in 0..n /\ ~\E f : Stacks(f, m)
        BY <2>1
    <2>3. m # 0
        <3> DEFINE none == [k \in 0..0 |-> <<entry>>]
        <3>1. CASE m = 0
            <4>1. Stacks(none, m)
                BY <3>1 DEF StacksOf
            <4> QED
                BY <2>2, <4>1
        <3> QED
            BY <3>1
    <2>4. m - 1 \in 0..n /\ m - 1 \notin Bad
        BY <2>1, <2>2, <2>3
    <2>5. PICK f : Stacks(f, m - 1)
        BY <2>4
    <2> DEFINE g == [k \in 0..m |-> IF k < m THEN f[k] ELSE Effect(f[m - 1], steps[m])]
    <2>6. ASSUME NEW k \in 0..m
          PROVE g[k] = IF k = 0 THEN <<entry>> ELSE Effect(g[k - 1], steps[k])
        <3>1. CASE k < m
            <4>1. k \in 0..(m - 1) /\ g[k] = f[k] /\ (k # 0 => g[k - 1] = f[k - 1])
                BY <2>2, <3>1
            <4>2. f[k] = IF k = 0 THEN <<entry>> ELSE Effect(f[k - 1], steps[k])
                BY <2>5, <4>1 DEF StacksOf
            <4> QED
                BY <4>1, <4>2
        <3>2. CASE k = m
            <4>1. g[k] = Effect(f[m - 1], steps[m]) /\ g[k - 1] = f[m - 1] /\ k # 0
                BY <2>2, <2>3, <3>2
            <4> QED
                BY <3>2, <4>1
        <3> QED
            BY <2>2, <3>1, <3>2
    <2>7. Stacks(g, m)
        <3> HIDE DEF Effect
        <3> QED
            BY <2>6 DEF StacksOf
    <2> QED
        BY <2>2, <2>7
<1> QED
    BY <1>1, <1>2

\* The stacks of steps that are the same agree.
LEMMA StacksAgree ==
    ASSUME NEW n \in Nat, NEW m \in Nat, n <= m, NEW entry, NEW s, NEW t,
           \A k \in 1..n : s[k] = t[k],
           NEW f, StacksOf(f, n, entry, s), NEW g, StacksOf(g, m, entry, t)
    PROVE f[n] = g[n]
<1> DEFINE Bad == {k \in 0..n : f[k] # g[k]}
<1>1. /\ \A k \in 0..n : f[k] = IF k = 0 THEN <<entry>> ELSE Effect(f[k - 1], s[k])
      /\ \A k \in 0..m : g[k] = IF k = 0 THEN <<entry>> ELSE Effect(g[k - 1], t[k])
    BY DEF StacksOf
<1>2. Bad = {}
    <2> SUFFICES ASSUME Bad # {}
                 PROVE FALSE
        OBVIOUS
    <2>1. Bad \subseteq Nat
        OBVIOUS
    <2>2. PICK k \in Bad : \A y \in Bad : k <= y
        <3> HIDE DEF Bad
        <3> QED
            BY <2>1, LeastNat
    <2>3. k \in 0..n /\ k \in 0..m /\ f[k] # g[k]
        BY <2>2
    <2>4. k # 0
        BY <1>1, <2>3
    <2>5. k - 1 \in 0..n /\ k - 1 \notin Bad /\ k \in 1..n
        BY <2>2, <2>3, <2>4
    <2>6. f[k - 1] = g[k - 1] /\ s[k] = t[k]
        BY <2>5
    <2> QED
        BY <1>1, <2>3, <2>4, <2>6
<1>3. n \in 0..n
    OBVIOUS
<1> QED
    BY <1>2, <1>3

LEMMA StackAfterDef ==
    ASSUME NEW n \in Nat, NEW entry, NEW steps, Len(steps) = n
    PROVE \E f : StacksOf(f, n, entry, steps) /\ StackAfter(entry, steps) = f[n]
<1> DEFINE Stacks(f) == f = [k \in 0..n |-> IF k = 0 THEN <<entry>>
                                            ELSE Effect(f[k - 1], steps[k])]
<1>1. \E f : Stacks(f)
    <2>1. PICK f : StacksOf(f, n, entry, steps)
        BY StacksExist
    <2> QED
        BY <2>1 DEF StacksOf
<1>2. StackAfter(entry, steps) = (CHOOSE f : Stacks(f))[n]
    BY DEF StackAfter
<1>3. Stacks(CHOOSE f : Stacks(f))
    BY <1>1
<1> HIDE DEF Stacks
<1>4. StacksOf(CHOOSE f : Stacks(f), n, entry, steps)
    BY <1>3 DEF Stacks, StacksOf
<1> QED
    BY <1>2, <1>4

\* No step, the same steps, and one step more
LEMMA StackAfterSteps ==
    ASSUME NEW n \in Nat, NEW entry, NEW s, Len(s) = n
    PROVE /\ n = 0 => StackAfter(entry, s) = <<entry>>
          /\ \A t : Len(t) = n /\ (\A k \in 1..n : t[k] = s[k])
                        => StackAfter(entry, t) = StackAfter(entry, s)
          /\ \A t : Len(t) = n + 1 /\ (\A k \in 1..n : t[k] = s[k])
                        => StackAfter(entry, t) = Effect(StackAfter(entry, s), t[n + 1])
<1>1. PICK f : StacksOf(f, n, entry, s) /\ StackAfter(entry, s) = f[n]
    BY StackAfterDef
<1>2. n = 0 => StackAfter(entry, s) = <<entry>>
    BY <1>1 DEF StacksOf
<1>3. ASSUME NEW t, Len(t) = n, \A k \in 1..n : t[k] = s[k]
      PROVE StackAfter(entry, t) = StackAfter(entry, s)
    <2>1. PICK g : StacksOf(g, n, entry, t) /\ StackAfter(entry, t) = g[n]
        BY <1>3, StackAfterDef
    <2>2. f[n] = g[n]
        BY <1>1, <1>3, <2>1, StacksAgree
    <2> QED
        BY <1>1, <2>1, <2>2
<1>4. ASSUME NEW t, Len(t) = n + 1, \A k \in 1..n : t[k] = s[k]
      PROVE StackAfter(entry, t) = Effect(StackAfter(entry, s), t[n + 1])
    <2>1. n + 1 \in Nat /\ n <= n + 1
        OBVIOUS
    <2>2. PICK g : StacksOf(g, n + 1, entry, t) /\ StackAfter(entry, t) = g[n + 1]
        BY <1>4, <2>1, StackAfterDef
    <2>3. f[n] = g[n]
        BY <1>1, <1>4, <2>1, <2>2, StacksAgree
    <2>4. g[n + 1] = Effect(g[n], t[n + 1])
        <3>1. n + 1 \in 0..(n + 1) /\ n + 1 # 0 /\ (n + 1) - 1 = n
            OBVIOUS
        <3> QED
            BY <2>2, <3>1 DEF StacksOf
    <2> QED
        BY <1>1, <2>2, <2>3, <2>4
<1> QED
    BY <1>2, <1>3, <1>4

-----------------------------------------------------------------------------
(* What a step reads of the cells there are, and what it leaves in them *)

\* A read of a cell that has a value returns it.
LEMMA getHeld ==
    ASSUME NEW n \in Nat, NEW m \in Memories(Within(n)), NEW k \in Memories(Within(n)),
           Grows(m, k), NEW a \in AddressesIn(n), InSegment(m, a),
           CellAt(m, a) # undefined, ~isError(get(k, a).value)
    PROVE get(k, a).value = CellAt(m, a)
<1>1. get(k, a).value = CellAt(get(k, a).segments, a)
    BY getKept
<1>2. get(k, a).segments \in Memories(Within(n)) /\ Grows(k, get(k, a).segments)
    BY getKept DEF Kept
<1>3. Grows(m, get(k, a).segments)
    BY <1>2, GrowsTransitive
<1> QED
    BY <1>1, <1>2, <1>3, WithinClosed, AddressFacts, CellAtGrows

\* When nothing is thrown, op1 and dst are those of the cells, if they have values.
LEMMA HeldOperands ==
    ASSUME NEW n \in Nat, NEW m \in Memories(Within(n)), Len(m) = n,
           NEW ins \in Instruction, NEW regs \in RegistersIn(n),
           ~isError(ReadOperands(m, regs, ins).values.res),
           NEW a, a = op1Address(ins, regs, get(m, op0Address(ins, regs)).value),
           NEW d, d = dstAddress(ins, regs)
    PROVE \E op0 \in Known(n), op1 \in Known(n), dst \in Known(n) :
              /\ ReadOperands(m, regs, ins).values = StepValues(ins, regs, op0, op1, dst)
              /\ CellAt(m, a) # undefined => op1 = CellAt(m, a)
              /\ CellAt(m, d) # undefined => dst = CellAt(m, d)
<1> DEFINE op0 == get(m, op0Address(ins, regs))
           op1 == get(op0.segments, a)
           dst == get(op1.segments, d)
           values == StepValues(ins, regs, op0.value, op1.value, dst.value)
           R == ReadOperands(m, regs, ins)
<1>1. R.values = IF isError(op0.value) THEN Thrown(op0.value)
                 ELSE IF isError(a) THEN Thrown(a)
                 ELSE IF isError(op1.value) THEN Thrown(op1.value)
                 ELSE IF isError(dst.value) THEN Thrown(dst.value)
                 ELSE values
    BY DEF ReadOperands
<1>2. /\ ~isError(op0.value) /\ ~isError(op1.value) /\ ~isError(dst.value)
      /\ R.values = values
    <2> HIDE DEF op0, op1, dst, values
    <2> QED
        BY <1>1 DEF Thrown, Values
<1>3. a \in AddressesIn(n)
    BY OperandsWereRead
<1>4. d \in AddressesIn(n)
    BY AddressTypes
<1>5. Kept(n, m, op0.segments) /\ op0.value \in Known(n)
    <2>1. Kept(n, m, op0.segments) /\ op0.value \in Known(n) \cup Errors
        BY AddressTypes, getKept
    <2> HIDE DEF op0
    <2> QED
        BY <1>2, <2>1, Tags
<1>6. InSegment(m, a) /\ InSegment(m, d)
    BY <1>3, <1>4 DEF AddressesIn, InSegment
<1> HIDE DEF op0
<1>7. /\ Kept(n, m, op1.segments) /\ op1.value \in Known(n)
      /\ CellAt(m, a) # undefined => op1.value = CellAt(m, a)
    <2>1. op0.segments \in Memories(Within(n)) /\ Grows(m, op0.segments)
        BY <1>5 DEF Kept
    <2>2. Kept(n, op0.segments, op1.segments) /\ op1.value \in Known(n) \cup Errors
        BY <1>3, <2>1, getKept
    <2>3. CellAt(m, a) # undefined => op1.value = CellAt(m, a)
        BY <1>2, <1>3, <1>6, <2>1, getHeld
    <2> HIDE DEF op1
    <2> QED
        BY <1>2, <1>5, <2>1, <2>2, <2>3, KeptTransitive, Tags
<1> HIDE DEF op1
<1>8. /\ dst.value \in Known(n)
      /\ CellAt(m, d) # undefined => dst.value = CellAt(m, d)
    <2>1. op1.segments \in Memories(Within(n)) /\ Grows(m, op1.segments)
        BY <1>7 DEF Kept
    <2>2. dst.value \in Known(n) \cup Errors
        BY <1>4, <2>1, getKept
    <2>3. CellAt(m, d) # undefined => dst.value = CellAt(m, d)
        BY <1>2, <1>4, <1>6, <2>1, getHeld
    <2> HIDE DEF dst
    <2> QED
        BY <1>2, <2>2, <2>3, Tags
<1> HIDE DEF dst
<1> QED
    BY <1>2, <1>5, <1>7, <1>8

\* When nothing is thrown, the values of the step that are known are in their cells.
LEMMA ValuesAsserted ==
    ASSUME NEW n \in Nat, NEW m \in Memories(Within(n)), Len(m) = n,
           NEW ins \in Instruction, NEW regs \in RegistersIn(n),
           ~isError(computeStepValues(m, regs, ins).values.res)
    PROVE LET v == ReadOperands(m, regs, ins).values
              s == computeStepValues(m, regs, ins).segments
          IN /\ ~isError(v.res) /\ computeStepValues(m, regs, ins).values = v
             /\ v.op0 # undefined => CellAt(s, op0Address(ins, regs)) = v.op0
             /\ v.dst # undefined => CellAt(s, dstAddress(ins, regs)) = v.dst
<1> DEFINE read == ReadOperands(m, regs, ins)
           values == read.values
           op0Addr == op0Address(ins, regs)
           dstAddr == dstAddress(ins, regs)
           op1Addr == op1Address(ins, regs, get(m, op0Addr).value)
           start == Result(read.segments, undefined)
           op0 == ThenAssert(start, op0Addr, values.op0)
           op1 == ThenAssert(op0, op1Addr, values.op1)
           dst == ThenAssert(op1, dstAddr, values.dst)
           C == computeStepValues(m, regs, ins)
           s == dst.segments
<1>1. C = IF isError(values.res)
            THEN read
            ELSE [segments |-> dst.segments,
                  values |-> IF isError(dst.value) THEN Thrown(dst.value) ELSE values]
    BY DEF computeStepValues, AssertValues, StepResult
<1>2. /\ ~isError(values.res) /\ ~isError(dst.value)
      /\ C.segments = s /\ C.values = values
    <2> HIDE DEF read, dst, C
    <2>1. ~isError(C.values.res)
        BY DEF C
    <2>2. isError(dst.value) => isError(Thrown(dst.value).res)
        BY DEF Thrown, Values
    <2> QED
        BY <1>1, <2>1, <2>2
<1>3. Kept(n, m, read.segments) /\ StepTyped(n, values)
    BY ReadOperandsTyped
<1>4. op1Addr \in AddressesIn(n)
    BY <1>2, OperandsWereRead
<1>5. op0Addr \in AddressesIn(n) /\ dstAddr \in AddressesIn(n)
    BY AddressTypes
<1>6. start.segments = read.segments /\ start.value = undefined /\ ~isError(undefined)
    BY Tags DEF Result
<1>7. values.op0 \in Known(n) /\ values.op1 \in Known(n) /\ values.dst \in Known(n)
    BY <1>2, <1>3 DEF StepTyped
<1> HIDE DEF read, values, op0Addr, op1Addr, dstAddr, start
<1>8. /\ Kept(n, m, op0.segments) /\ op0.value \in {undefined} \cup Errors
      /\ \/ isError(op0.value) \/ values.op0 = undefined
         \/ CellAt(op0.segments, op0Addr) = values.op0
    BY <1>3, <1>5, <1>6, <1>7, ThenAssertTyped
<1> HIDE DEF op0
<1>9. /\ Kept(n, m, op1.segments) /\ op1.value \in {undefined} \cup Errors
      /\ Grows(op0.segments, op1.segments)
      /\ isError(op1.value) \/ ~isError(op0.value)
    BY <1>4, <1>7, <1>8, ThenAssertTyped
<1> HIDE DEF op1
<1>10. /\ Kept(n, m, s)
       /\ Grows(op1.segments, s)
       /\ ~isError(op1.value)
       /\ values.dst = undefined \/ CellAt(s, dstAddr) = values.dst
    <2>1. /\ Kept(n, m, s)
          /\ Grows(op1.segments, s)
          /\ \/ isError(dst.value)
             \/ ~isError(op1.value) /\ values.dst = undefined
             \/ ~isError(op1.value) /\ CellAt(s, dstAddr) = values.dst
        BY <1>5, <1>7, <1>9, ThenAssertTyped
    <2> HIDE DEF dst
    <2> QED
        BY <1>2, <2>1
<1> HIDE DEF dst
<1>11. /\ op0.segments \in Memories(Within(n)) /\ op1.segments \in Memories(Within(n))
       /\ s \in Memories(Within(n)) /\ Len(op0.segments) = n
    BY <1>8, <1>9, <1>10 DEF Kept
<1>12. Grows(op0.segments, s)
    BY <1>9, <1>10, <1>11, GrowsTransitive
<1>13. values.op0 # undefined => CellAt(s, op0Addr) = values.op0
    <2>1. op0Addr \in Relocatables /\ InSegment(op0.segments, op0Addr)
        BY <1>5, <1>11 DEF AddressesIn, InSegment
    <2> QED
        BY <1>8, <1>9, <1>10, <1>11, <1>12, <2>1, WithinClosed, CellAtGrows
<1> HIDE DEF s, C
<1> QED
    BY <1>2, <1>10, <1>13 DEF C, values, read, op0Addr, dstAddr

-----------------------------------------------------------------------------
(* What the instructions do to the registers *)

LEMMA OffsetSums ==
    ASSUME NEW r \in Relocatables
    PROVE /\ AddOffset(r, 0) = r
          /\ \A i \in Int : /\ AddOffset(r, i).offset = r.offset + i
                         /\ \A j \in Int : AddOffset(AddOffset(r, i), j) = AddOffset(r, i + j)
<1>1. \A i \in Int : /\ AddOffset(r, i).segmentId = r.segmentId
                    /\ AddOffset(r, i).offset = r.offset + i
    BY DEF AddOffset, Relocatable
<1>2. r = Relocatable(r.segmentId, r.offset) /\ r.offset \in Int
    BY DEF Relocatables, Relocatable
<1>3. AddOffset(r, 0) = r
    BY <1>2 DEF AddOffset
<1>4. ASSUME NEW i \in Int, NEW j \in Int
      PROVE AddOffset(AddOffset(r, i), j) = AddOffset(r, i + j)
    <2>1. (r.offset + i) + j = r.offset + (i + j)
        BY <1>2
    <2> QED
        BY <1>1, <2>1 DEF AddOffset
<1> QED
    BY <1>1, <1>3, <1>4

\* A call leaves fp and the return address in the two cells below the new fp.
LEMMA CallSaves ==
    ASSUME NEW n \in Nat, NEW m \in Memories(Within(n)), Len(m) = n,
           NEW ins \in Instruction, ins.opcode = "Call", StandardCall(ins),
           NEW regs \in RegistersIn(n),
           NEW step, step = computeStepValues(m, regs, ins), ~isError(step.values.res)
    PROVE /\ CellAt(step.segments, regs.Ap) = regs.Fp
          /\ CellAt(step.segments, AddOffset(regs.Ap, 1)) = AddOffset(regs.Pc, size(ins))
          /\ nextFp(ins, regs, step.values.dst) = AddOffset(regs.Ap, 2)
          /\ nextAp(ins, regs, step.values.res) = AddOffset(regs.Ap, 2)
<1> DEFINE v == ReadOperands(m, regs, ins).values
           next == AddOffset(regs.Pc, size(ins))
<1>1. /\ ~isError(v.res)
      /\ v.op0 # undefined => CellAt(step.segments, op0Address(ins, regs)) = v.op0
      /\ v.dst # undefined => CellAt(step.segments, dstAddress(ins, regs)) = v.dst
    BY ValuesAsserted
<1>2. PICK op0 \in Known(n), op1 \in Known(n), dst \in Known(n) :
          v = StepValues(ins, regs, op0, op1, dst)
    BY <1>1, HeldOperands
<1> HIDE DEF v
<1>3. v.op0 = next /\ v.dst = regs.Fp
    <2>1. v = CallValues(ins, regs, op0, op1)
        BY <1>2 DEF StepValues
    <2>2. isError(Error("InvalidCallOp0Value")) /\ isError(Error("UndefinedOp1"))
        BY DEF isError, Error
    <2>3. op0 \in {undefined, next} /\ op1 # undefined
        BY <1>1, <2>1, <2>2 DEF CallValues, Thrown, Values
    <2> QED
        BY <2>1, <2>3 DEF CallValues, Values
<1>4. /\ regs.Fp \in Relocatables /\ regs.Ap \in Relocatables
      /\ regs.Pc \in Relocatables /\ size(ins) \in Int
    BY DEF RegistersIn, PointersInto, AddressesIn, size
<1>5. next # undefined /\ regs.Fp # undefined
    BY <1>4, AddOffsetType, Tags
<1>6. op0Address(ins, regs) = AddOffset(regs.Ap, 1) /\ dstAddress(ins, regs) = regs.Ap
    BY <1>4, OffsetSums DEF op0Address, dstAddress, StandardCall
<1>7. /\ nextFp(ins, regs, step.values.dst) = AddOffset(regs.Ap, 2)
      /\ nextAp(ins, regs, step.values.res) = AddOffset(regs.Ap, 2)
    BY DEF nextFp, nextAp, StandardCall
<1> QED
    BY <1>1, <1>3, <1>5, <1>6, <1>7

\* A ret takes pc and fp from the two cells below fp.
LEMMA RetRestores ==
    ASSUME NEW n \in Nat, NEW m \in Memories(Within(n)), Len(m) = n,
           NEW ins \in Instruction, ins.opcode = "Ret", StandardRet(ins),
           NEW regs \in RegistersIn(n),
           NEW r \in PointersInto(n), CellAt(m, AddOffset(regs.Fp, -1)) = r,
           NEW c \in PointersInto(n), CellAt(m, AddOffset(regs.Fp, -2)) = c,
           NEW step, step = computeStepValues(m, regs, ins), ~isError(step.values.res)
    PROVE /\ nextPc(ins, regs, step.values.res, step.values.dst) = r
          /\ nextFp(ins, regs, step.values.dst) = c
          /\ nextAp(ins, regs, step.values.res) = regs.Ap
<1> DEFINE v == ReadOperands(m, regs, ins).values
           a == op1Address(ins, regs, get(m, op0Address(ins, regs)).value)
           d == dstAddress(ins, regs)
<1>1. ~isError(v.res) /\ step.values = v
    BY ValuesAsserted
<1>2. a = AddOffset(regs.Fp, -1) /\ d = AddOffset(regs.Fp, -2)
    BY DEF op1Address, dstAddress, StandardRet
<1>3. PICK op0 \in Known(n), op1 \in Known(n), dst \in Known(n) :
          /\ v = StepValues(ins, regs, op0, op1, dst)
          /\ CellAt(m, a) # undefined => op1 = CellAt(m, a)
          /\ CellAt(m, d) # undefined => dst = CellAt(m, d)
    <2> HIDE DEF a, d
    <2> QED
        BY <1>1, HeldOperands DEF a, d
<1> HIDE DEF v, a, d
<1>4. r # undefined /\ c # undefined
    BY PointerFacts, Tags
<1>5. op1 = r /\ dst = c
    BY <1>2, <1>3, <1>4
<1>6. v.res = r /\ v.dst = c
    BY <1>3, <1>5 DEF StepValues, OtherValues, Values, StandardRet
<1>7. isRelocatable(r) /\ ~isFelt(c)
    BY PointerFacts
<1> QED
    BY <1>1, <1>4, <1>6, <1>7 DEF nextPc, nextFp, nextAp, JumpTo, StandardRet

-----------------------------------------------------------------------------
(* The frames in memory *)

FrameIn(n) == [returnPc : PointersInto(n), callerFp : PointersInto(n)]

\* The frame pointer of the i-th of the frames, the first of which is at f
BaseOf(s, f, i) == IF i = 1 THEN f ELSE s[i - 1].callerFp

\* The two cells below the frame pointer of each frame say how to leave it, to
\* another frame.
FramesAt(s, f, m) ==
    \A i \in 1..Len(s) :
        LET base == BaseOf(s, f, i)
        IN /\ CellAt(m, AddOffset(base, -1)) = s[i].returnPc
           /\ CellAt(m, AddOffset(base, -2)) = s[i].callerFp
           /\ base # s[i].callerFp
           /\ base.offset >= 2

LEMMA FramesTyped ==
    ASSUME NEW n \in Nat, NEW s \in Seq(FrameIn(n)), NEW f \in PointersInto(n)
    PROVE /\ Len(s) \in Nat
          /\ \A i \in 1..Len(s) : /\ s[i].returnPc \in PointersInto(n)
                                /\ s[i].callerFp \in PointersInto(n)
                                /\ BaseOf(s, f, i) \in PointersInto(n)
<1>1. Len(s) \in Nat /\ \A i \in 1..Len(s) : s[i] \in FrameIn(n)
    BY LenProperties, ElementOfSeq
<1>2. \A i \in 1..Len(s) : s[i].returnPc \in PointersInto(n) /\ s[i].callerFp \in PointersInto(n)
    BY <1>1 DEF FrameIn
<1>3. ASSUME NEW i \in 1..Len(s)
      PROVE BaseOf(s, f, i) \in PointersInto(n)
    <2>1. i # 1 => i - 1 \in 1..Len(s)
        BY <1>1
    <2> QED
        BY <1>2, <2>1 DEF BaseOf
<1> QED
    BY <1>1, <1>2, <1>3

\* A memory that grows keeps the frames.
LEMMA FramesGrow ==
    ASSUME NEW n \in Nat, NEW m \in Memories(Within(n)), Len(m) = n,
           NEW k, Grows(m, k),
           NEW s \in Seq(FrameIn(n)), NEW f \in PointersInto(n), FramesAt(s, f, m)
    PROVE FramesAt(s, f, k)
<1> SUFFICES ASSUME NEW i \in 1..Len(s)
             PROVE /\ CellAt(k, AddOffset(BaseOf(s, f, i), -1)) = s[i].returnPc
                   /\ CellAt(k, AddOffset(BaseOf(s, f, i), -2)) = s[i].callerFp
                   /\ BaseOf(s, f, i) # s[i].callerFp
                   /\ BaseOf(s, f, i).offset >= 2
    BY DEF FramesAt
<1>1. PICK base : base = BaseOf(s, f, i)
    OBVIOUS
<1>2. /\ base \in PointersInto(n)
      /\ s[i].returnPc \in PointersInto(n) /\ s[i].callerFp \in PointersInto(n)
    BY <1>1, FramesTyped
<1>3. /\ CellAt(m, AddOffset(base, -1)) = s[i].returnPc
      /\ CellAt(m, AddOffset(base, -2)) = s[i].callerFp
      /\ base # s[i].callerFp
      /\ base.offset >= 2
    BY <1>1 DEF FramesAt
<1>4. \A a \in AddressesIn(n) : CellAt(m, a) # undefined => CellAt(k, a) = CellAt(m, a)
    <2> SUFFICES ASSUME NEW a \in AddressesIn(n), CellAt(m, a) # undefined
                 PROVE CellAt(k, a) = CellAt(m, a)
        OBVIOUS
    <2>1. a \in Relocatables /\ InSegment(m, a)
        BY DEF AddressesIn, InSegment
    <2> QED
        BY <2>1, WithinClosed, CellAtGrows
<1>5. AddOffset(base, -1) \in AddressesIn(n) /\ AddOffset(base, -2) \in AddressesIn(n)
    BY <1>2, PointerFacts
<1>6. s[i].returnPc # undefined /\ s[i].callerFp # undefined
    BY <1>2, PointerFacts, Tags
<1> QED
    BY <1>1, <1>3, <1>4, <1>5, <1>6

LEMMA PushFrame ==
    ASSUME NEW n \in Nat, NEW m, NEW s \in Seq(FrameIn(n)), NEW f \in PointersInto(n),
           FramesAt(s, f, m), NEW r \in PointersInto(n), NEW g \in PointersInto(n),
           CellAt(m, AddOffset(g, -1)) = r, CellAt(m, AddOffset(g, -2)) = f,
           g # f, g.offset >= 2
    PROVE LET t == <<[returnPc |-> r, callerFp |-> f]>> \o s
          IN /\ t \in Seq(FrameIn(n)) /\ FramesAt(t, g, m)
             /\ t # <<>> /\ (s # <<>> => t[Len(t)] = s[Len(s)])
<1> DEFINE frame == [returnPc |-> r, callerFp |-> f]
           t == <<frame>> \o s
<1>1. frame \in FrameIn(n)
    BY DEF FrameIn
<1> HIDE DEF frame
<1>2. Len(s) \in Nat /\ (s # <<>> => Len(s) > 0)
    BY LenProperties, EmptySeq
<1>3. /\ t \in Seq(FrameIn(n)) /\ Len(t) = Len(s) + 1
      /\ t[1] = frame /\ \A i \in 1..Len(s) : t[i + 1] = s[i]
    <2>1. <<frame>> \in Seq(FrameIn(n)) /\ Len(<<frame>>) = 1 /\ <<frame>>[1] = frame
        BY <1>1
    <2> QED
        BY <1>2, <2>1, ConcatProperties
<1> HIDE DEF t
<1>4. ASSUME NEW i \in 1..Len(t)
      PROVE /\ CellAt(m, AddOffset(BaseOf(t, g, i), -1)) = t[i].returnPc
            /\ CellAt(m, AddOffset(BaseOf(t, g, i), -2)) = t[i].callerFp
            /\ BaseOf(t, g, i) # t[i].callerFp
            /\ BaseOf(t, g, i).offset >= 2
    <2>1. CASE i = 1
        BY <1>3, <2>1 DEF BaseOf, frame
    <2>2. CASE i # 1
        <3>1. i - 1 \in 1..Len(s) /\ t[i] = s[i - 1]
            BY <1>2, <1>3, <2>2
        <3>2. BaseOf(t, g, i) = BaseOf(s, f, i - 1)
            <4>1. CASE i - 1 = 1
                BY <1>3, <2>2, <4>1 DEF BaseOf, frame
            <4>2. CASE i - 1 # 1
                <5>1. i - 2 \in 1..Len(s) /\ (i - 2) + 1 = i - 1 /\ (i - 1) - 1 = i - 2
                    BY <1>2, <3>1, <4>2
                <5>2. t[i - 1] = s[i - 2]
                    BY <1>3, <5>1
                <5> QED
                    BY <2>2, <4>2, <5>1, <5>2 DEF BaseOf
            <4> QED
                BY <4>1, <4>2
        <3> QED
            BY <3>1, <3>2 DEF FramesAt
    <2> QED
        BY <2>1, <2>2
<1>5. FramesAt(t, g, m)
    BY <1>4 DEF FramesAt
<1>6. t # <<>> /\ (s # <<>> => t[Len(t)] = s[Len(s)])
    <2>1. t # <<>>
        BY <1>2, <1>3
    <2>2. s # <<>> => Len(s) \in 1..Len(s)
        BY <1>2
    <2> QED
        BY <1>2, <1>3, <2>1, <2>2
<1> QED
    BY <1>3, <1>5, <1>6 DEF t, frame

LEMMA PopFrame ==
    ASSUME NEW n \in Nat, NEW m, NEW s \in Seq(FrameIn(n)), s # <<>>, NEW f,
           FramesAt(s, f, m)
    PROVE /\ Tail(s) \in Seq(FrameIn(n)) /\ FramesAt(Tail(s), Head(s).callerFp, m)
          /\ Head(s) = s[1]
          /\ Tail(s) = <<>> => s[Len(s)] = s[1]
          /\ Tail(s) # <<>> => Tail(s)[Len(Tail(s))] = s[Len(s)]
<1> DEFINE t == Tail(s)
<1>1. /\ t \in Seq(FrameIn(n)) /\ Len(s) \in Nat /\ Len(s) > 0
      /\ Len(t) = Len(s) - 1 /\ \A i \in 1..Len(t) : t[i] = s[i + 1]
      /\ Head(s) = s[1]
    BY HeadTailProperties, LenProperties, EmptySeq
<1> HIDE DEF t
<1>2. ASSUME NEW i \in 1..Len(t)
      PROVE /\ CellAt(m, AddOffset(BaseOf(t, s[1].callerFp, i), -1)) = t[i].returnPc
            /\ CellAt(m, AddOffset(BaseOf(t, s[1].callerFp, i), -2)) = t[i].callerFp
            /\ BaseOf(t, s[1].callerFp, i) # t[i].callerFp
            /\ BaseOf(t, s[1].callerFp, i).offset >= 2
    <2>1. i + 1 \in 1..Len(s) /\ t[i] = s[i + 1] /\ (i + 1) - 1 = i /\ i + 1 # 1
        BY <1>1
    <2>2. BaseOf(t, s[1].callerFp, i) = BaseOf(s, f, i + 1)
        <3>1. i # 1 => i - 1 \in 1..Len(t) /\ (i - 1) + 1 = i
            BY <1>1
        <3>2. i # 1 => t[i - 1] = s[i]
            BY <1>1, <3>1
        <3> QED
            BY <2>1, <3>2 DEF BaseOf
    <2> QED
        BY <2>1, <2>2 DEF FramesAt
<1>3. FramesAt(t, s[1].callerFp, m)
    BY <1>2 DEF FramesAt
<1>4. /\ t = <<>> => s[Len(s)] = s[1]
      /\ t # <<>> => t[Len(t)] = s[Len(s)]
    <2>1. t = <<>> => Len(s) = 1
        BY <1>1
    <2>2. t # <<>> => Len(t) \in 1..Len(t)
        BY <1>1, LenProperties, EmptySeq
    <2> QED
        BY <1>1, <2>1, <2>2
<1> QED
    BY <1>1, <1>3, <1>4 DEF t

-----------------------------------------------------------------------------
(* The stack of a run *)

LEMMA LenOfFunction ==
    ASSUME NEW n \in Nat, NEW f, DOMAIN f = 1..n, f = [k \in 1..n |-> f[k]]
    PROVE Len(f) = n
<1> DEFINE S == {f[k] : k \in 1..n}
<1>1. f \in [1..n -> S]
    OBVIOUS
<1> HIDE DEF S
<1>2. f \in Seq(S)
    BY <1>1
<1>3. DOMAIN f = 1..Len(f) /\ Len(f) \in Nat
    BY <1>2, LenProperties
<1> QED
    BY <1>3

\* What the entry regs of the trace did, when its instruction is in the memory m
EntryStep(m, regs) ==
    LET ins == decodeInstruction(CellAt(m, regs.Pc).inner)
    IN [opcode |-> ins.opcode,
        frame |-> [returnPc |-> AddOffset(regs.Pc, size(ins)), callerFp |-> regs.Fp]]

\* An entry of the trace for each step that ended, and one for the step that threw
StepsCounted ==
    /\ currentStep <= Len(trace)
    /\ Running => currentStep = Len(trace)

\* Steps that ended keep their effect, and one that ends adds its own.
LEMMA FramesChange ==
    ASSUME IInv, TraceHolds, StepsCounted, IInv', Grows(segments, segments'),
           program' = program, trace' \in {trace, Append(trace, registers)}
    PROVE /\ currentStep' = currentStep => Frames' = Frames
          /\ currentStep' = currentStep + 1 /\ currentStep = Len(trace)
                /\ trace' = Append(trace, registers)
             => Frames' = Effect(Frames, EntryStep(segments', registers))
<1>1. /\ currentStep \in Nat /\ Len(trace) \in Nat /\ DOMAIN trace = 1..Len(trace)
      /\ trace \in Seq(RegistersIn(Len(segments))) /\ registers \in RegistersIn(Len(segments))
      /\ SelfContained(segments) /\ SelfContained(segments')
      /\ currentStep' \in Nat
    BY LenProperties DEF IInv
<1>2. Len(trace') \in Nat /\ \A k \in 1..Len(trace) : trace'[k] = trace[k]
    BY <1>1, AppendProperties
<1>3. trace' = Append(trace, registers) => trace'[Len(trace) + 1] = registers
    BY <1>1, AppendProperties
<1>4. ASSUME NEW k \in 1..currentStep
      PROVE StepOf(k)' = StepOf(k)
    <2>1. k \in DOMAIN trace /\ trace'[k] = trace[k]
        <3>1. currentStep <= Len(trace)
            BY DEF StepsCounted
        <3>2. k \in 1..Len(trace)
            BY <1>1, <3>1
        <3> QED
            BY <1>1, <1>2, <3>2
    <2>2. EntryHolds(segments, trace[k]) /\ trace[k] \in RegistersIn(Len(segments))
        BY <1>1, <2>1, ElementOfSeq DEF TraceHolds
    <2>3. CellAt(segments', trace[k].Pc) = CellAt(segments, trace[k].Pc)
        <3>1. trace[k].Pc \in Relocatables /\ InSegment(segments, trace[k].Pc)
            BY <2>2 DEF RegistersIn, PointersInto, AddressesIn, InSegment
        <3>2. CellAt(segments, trace[k].Pc) # undefined
            BY <2>2, Tags DEF EntryHolds
        <3>3. Len(segments) \in Nat /\ segments \in Memories(Within(Len(segments)))
            BY RegisterPointers
        <3> QED
            BY <3>1, <3>2, <3>3, WithinClosed, CellAtGrows
    <2> QED
        BY <2>1, <2>3 DEF StepOf, Executed
<1> DEFINE s == [k \in 1..currentStep |-> StepOf(k)]
           t == [k \in 1..currentStep' |-> StepOf(k)']
           entry == EntryFrame(program)
<1>5. Len(s) = currentStep /\ Len(t) = currentStep'
    <2>1. /\ DOMAIN s = 1..currentStep /\ s = [k \in 1..currentStep |-> s[k]]
          /\ DOMAIN t = 1..currentStep' /\ t = [k \in 1..currentStep' |-> t[k]]
        OBVIOUS
    <2> HIDE DEF s, t
    <2> QED
        BY <1>1, <2>1, LenOfFunction
<1>6. Frames = StackAfter(entry, s) /\ Frames' = StackAfter(entry, t)
    <2>1. EntryFrame(program)' = EntryFrame(program)
        BY DEF EntryFrame, FinalPc, ReturnFp, BuiltinSegmentCount, ArenaIndex
    <2> QED
        BY <2>1 DEF Frames
<1>7. currentStep' \in {currentStep, currentStep + 1} => \A k \in 1..currentStep : t[k] = s[k]
    <2>1. currentStep' \in {currentStep, currentStep + 1} =>
              \A k \in 1..currentStep : k \in 1..currentStep'
        BY <1>1
    <2> QED
        BY <1>4, <2>1
<1>8. currentStep' = currentStep + 1 /\ currentStep = Len(trace)
          /\ trace' = Append(trace, registers)
      => t[currentStep + 1] = EntryStep(segments', registers)
    <2> SUFFICES ASSUME currentStep' = currentStep + 1, currentStep = Len(trace),
                        trace' = Append(trace, registers)
                 PROVE t[currentStep + 1] = EntryStep(segments', registers)
        OBVIOUS
    <2>1. PICK j : j = currentStep + 1
        OBVIOUS
    <2>2. j \in 1..currentStep' /\ trace'[j] = registers
        BY <1>1, <1>3, <2>1
    <2>3. t[j] = StepOf(j)'
        BY <2>2
    <2>4. StepOf(j)' = EntryStep(segments', registers)
        BY <2>2 DEF StepOf, Executed, EntryStep
    <2> QED
        BY <2>1, <2>3, <2>4
<1> HIDE DEF s, t, entry
<1>9. /\ currentStep' = currentStep => StackAfter(entry, t) = StackAfter(entry, s)
      /\ currentStep' = currentStep + 1
            => StackAfter(entry, t) = Effect(StackAfter(entry, s), t[currentStep + 1])
    BY <1>1, <1>5, <1>7, StackAfterSteps
<1> QED
    BY <1>6, <1>8, <1>9

FramesHold ==
    /\ StepsCounted
    /\ Frames \in Seq(FrameIn(Len(segments)))
    /\ FramesAt(Frames, fp, segments)
    /\ Frames = <<>> => pc = finalPc
    /\ Frames # <<>> => Frames[Len(Frames)].returnPc = finalPc

\* A step that ends no instruction and keeps fp keeps the frames.
LEMMA SameFrames ==
    ASSUME IInv, TraceHolds, FramesHold, IInv', Grows(segments, segments'),
           program' = program, trace' \in {trace, Append(trace, registers)},
           StepsCounted', currentStep' = currentStep, fp' = fp,
           pc' = pc \/ pc # finalPc
    PROVE FramesHold' /\ Frames' = Frames
<1>1. Frames' = Frames
    BY FramesChange DEF FramesHold
<1>2. PICK n : n = Len(segments)
    OBVIOUS
<1>3. PICK k : k = Len(segments')
    OBVIOUS
<1>4. /\ n \in Nat /\ segments \in Memories(Within(n)) /\ fp \in PointersInto(n)
      /\ Frames \in Seq(FrameIn(n)) /\ FramesAt(Frames, fp, segments)
    BY <1>2, RegisterPointers DEF FramesHold
<1>5. k \in Nat /\ n <= k
    BY <1>2, <1>3, <1>4, MemoryTypes DEF IInv, SelfContained, Grows
<1>6. Frames \in Seq(FrameIn(k))
    <2>1. FrameIn(n) \subseteq FrameIn(k)
        BY <1>4, <1>5, WithinMonotone DEF FrameIn
    <2> QED
        BY <1>4, <2>1, SeqMonotonic
<1>7. FramesAt(Frames, fp, segments')
    BY <1>2, <1>4, FramesGrow
<1>8. finalPc' = finalPc
    BY DEF finalPc, FinalPc, BuiltinSegmentCount, ArenaIndex
<1> HIDE DEF Frames
<1> QED
    BY <1>1, <1>3, <1>6, <1>7, <1>8 DEF FramesHold

LEMMA StandardInstruction ==
    ASSUME NEW w \in Felts, NEW ins \in Instruction, ins = decodeInstruction(w.inner)
    PROVE \/ ins.opcode = "Call" /\ StandardCall(ins)
          \/ ins.opcode = "Ret" /\ StandardRet(ins)
          \/ ins.opcode \in {"NoOp", "AssertEq"} /\ ins.fpUpdate = "Fp"
<1>1. w.inner \in 0..(P - 1)
    BY DEF Felts
<1>2. /\ ins.opcode = "Call" => StandardCall(ins)
      /\ ins.opcode = "Ret" => StandardRet(ins)
      /\ ins.opcode \in {"NoOp", "AssertEq"} => ins.fpUpdate = "Fp"
    BY <1>1, StandardFrames
<1>3. ins.opcode \in {"NoOp", "Call", "Ret", "AssertEq"}
    BY DEF Instruction, InstructionWith
<1> QED
    BY <1>2, <1>3

\* Outside of the loop's end there is a frame to return to, and its cells are below
\* fp in every memory that grew from the one of the step.
LEMMA TopFrame ==
    ASSUME IInv, FramesHold, pc # finalPc, NEW m, Grows(segments, m)
    PROVE LET n == Len(segments)
              s == Frames
          IN /\ FramesAt(s, fp, m)
             /\ s # <<>> /\ s \in Seq(FrameIn(n))
             /\ s[1].returnPc \in PointersInto(n) /\ s[1].callerFp \in PointersInto(n)
             /\ CellAt(m, AddOffset(fp, -1)) = s[1].returnPc
             /\ CellAt(m, AddOffset(fp, -2)) = s[1].callerFp
             /\ fp # s[1].callerFp
<1>1. PICK s : s = Frames
    OBVIOUS
<1>2. PICK n : n = Len(segments)
    OBVIOUS
<1>3. /\ n \in Nat /\ segments \in Memories(Within(n)) /\ fp \in PointersInto(n)
      /\ s \in Seq(FrameIn(n)) /\ FramesAt(s, fp, segments) /\ s # <<>>
    BY <1>1, <1>2, RegisterPointers DEF FramesHold
<1>4. FramesAt(s, fp, m)
    BY <1>2, <1>3, FramesGrow
<1>5. 1 \in 1..Len(s)
    BY <1>3, LenProperties, EmptySeq
<1>6. s[1].returnPc \in PointersInto(n) /\ s[1].callerFp \in PointersInto(n)
    BY <1>3, <1>5, FramesTyped
<1>7. /\ CellAt(m, AddOffset(fp, -1)) = s[1].returnPc
      /\ CellAt(m, AddOffset(fp, -2)) = s[1].callerFp
      /\ fp # s[1].callerFp
    BY <1>4, <1>5 DEF FramesAt, BaseOf
<1> QED
    BY <1>1, <1>2, <1>3, <1>4, <1>6, <1>7

\* An instruction that throws after its values are asserted leaves fp alone: of the
\* two that move it, a call moves it after pc and before ap, neither of which throws.
\* One that does not throw is a step of the stack.
LEMMA InstructionFrames ==
    ASSUME IInv, TraceHolds, FramesHold, StepInstruction, ~isError(Decoded), NEW step,
           step = computeStepValues(Fetched.segments, registers, Decoded),
           UpdateRegisters(Decoded, step)
    PROVE FramesHold' /\ Stack!Next
<1>1. PICK ins : ins = Decoded
    OBVIOUS
<1>2. PICK n : n = Len(segments)
    OBVIOUS
<1>3. PICK s : s = Frames
    OBVIOUS
<1>4. PICK m : m = Fetched.segments
    OBVIOUS
<1>5. PICK newPc : newPc = nextPc(ins, registers, step.values.res, step.values.dst)
    OBVIOUS
<1>6. PICK newFp : newFp = nextFp(ins, registers, step.values.dst)
    OBVIOUS
<1>7. PICK newAp : newAp = nextAp(ins, registers, step.values.res)
    OBVIOUS
<1>8. /\ n \in Nat /\ segments \in Memories(Within(n)) /\ registers \in RegistersIn(n)
      /\ pc \in PointersInto(n) /\ ap \in PointersInto(n) /\ fp \in PointersInto(n)
      /\ registers.Pc = pc /\ registers.Ap = ap /\ registers.Fp = fp
    BY <1>2, RegisterPointers DEF IInv, registers
<1>9. /\ m \in Memories(Within(n)) /\ Len(m) = n /\ Grows(segments, m)
      /\ ins \in Instruction
    BY <1>1, <1>2, <1>4, FetchedTyped, Tags DEF Kept
<1>10. /\ EntryHolds(segments', registers)
       /\ ins = decodeInstruction(CellAt(segments', pc).inner)
    BY <1>1, ExecutedHolds
<1>11. /\ IInv' /\ Grows(segments, segments') /\ program' = program
       /\ SelfContained(segments')
    BY StepInstructionIInv DEF StepInstruction, IInv
<1>12. /\ ~isError(step.values.res)
       /\ segments' = step.segments
       /\ trace' = Append(trace, registers)
       /\ step = computeStepValues(m, registers, ins)
    BY <1>1, <1>4 DEF UpdateRegisters
<1>13. /\ isError(newPc) \/ isError(newFp) \/ isError(newAp) =>
              /\ thrown' # undefined
              /\ currentStep' = currentStep
              /\ fp' = fp \/ (fp' = newFp /\ ~isError(newPc))
       /\ ~isError(newPc) /\ ~isError(newFp) /\ ~isError(newAp) =>
              /\ pc' = newPc /\ fp' = newFp
              /\ thrown' = undefined /\ currentStep' = currentStep + 1
    <2>1. /\ pc' = IF isError(newPc) THEN pc ELSE newPc
          /\ fp' = IF isError(newPc) \/ isError(newFp) THEN fp ELSE newFp
          /\ LET failed == IF isError(newPc) THEN newPc
                           ELSE IF isError(newFp) THEN newFp ELSE newAp
             IN /\ thrown' = IF isError(failed) THEN failed ELSE undefined
                /\ currentStep' = IF isError(failed) THEN currentStep ELSE currentStep + 1
        BY <1>1, <1>5, <1>6, <1>7 DEF UpdateRegisters
    <2> QED
        BY <2>1, Tags
<1>14. /\ currentStep = Len(trace) /\ pc # finalPc /\ Len(trace) \in Nat
       /\ Len(trace') = Len(trace) + 1
    <2>1. currentStep = Len(trace) /\ pc # finalPc
        BY DEF StepInstruction, InLoop, FramesHold, StepsCounted
    <2> QED
        BY <1>12, <2>1, AppendProperties, LenProperties DEF IInv
<1>15. \/ ins.opcode = "Call" /\ StandardCall(ins)
       \/ ins.opcode = "Ret" /\ StandardRet(ins)
       \/ ins.opcode \in {"NoOp", "AssertEq"} /\ ins.fpUpdate = "Fp"
    <2>1. CellAt(segments', pc) \in Felts
        BY <1>8, <1>10 DEF EntryHolds
    <2>2. PICK w : w = CellAt(segments', pc)
        OBVIOUS
    <2> QED
        BY <1>9, <1>10, <2>1, <2>2, StandardInstruction
<1>16. /\ FramesAt(s, fp, m) /\ FramesAt(s, fp, segments')
       /\ s # <<>> /\ s \in Seq(FrameIn(n))
       /\ s[1].returnPc \in PointersInto(n) /\ s[1].callerFp \in PointersInto(n)
       /\ CellAt(m, AddOffset(fp, -1)) = s[1].returnPc
       /\ CellAt(m, AddOffset(fp, -2)) = s[1].callerFp
       /\ CellAt(segments', AddOffset(fp, -2)) = s[1].callerFp
       /\ fp # s[1].callerFp
       /\ s[Len(s)].returnPc = finalPc
    BY <1>2, <1>3, <1>9, <1>11, <1>14, TopFrame DEF FramesHold
<1>17. CASE isError(newPc) \/ isError(newFp) \/ isError(newAp)
    <2>1. fp' = fp
        <3>1. CASE ins.opcode = "Call" /\ StandardCall(ins)
            <4>1. newFp = AddOffset(ap, 2) /\ newAp = AddOffset(ap, 2)
                BY <1>6, <1>7, <1>8, <1>9, <1>12, <3>1, CallSaves
            <4>2. AddOffset(ap, 2) \in PointersInto(n)
                BY <1>8, PointerFacts
            <4>3. ~isError(newFp) /\ ~isError(newAp)
                BY <1>8, <4>1, <4>2, PointerFacts
            <4> QED
                BY <1>13, <1>17, <4>3
        <3>2. CASE ins.opcode = "Ret" /\ StandardRet(ins)
            <4>1. newPc = s[1].returnPc /\ newFp = s[1].callerFp /\ newAp = ap
                BY <1>5, <1>6, <1>7, <1>8, <1>9, <1>12, <1>16, <3>2, RetRestores
            <4> QED
                BY <1>8, <1>16, <1>17, <4>1, PointerFacts
        <3>3. CASE ins.fpUpdate = "Fp"
            <4>1. newFp = fp
                BY <1>6, <1>8, <3>3 DEF nextFp
            <4> QED
                BY <1>13, <1>17, <4>1
        <3> QED
            BY <1>15, <3>1, <3>2, <3>3
    <2>2. StepsCounted'
        BY <1>13, <1>14, <1>17 DEF StepsCounted, Running
    <2>3. FramesHold' /\ Frames' = Frames
        BY <1>11, <1>12, <1>13, <1>14, <1>17, <2>1, <2>2, SameFrames
    <2> QED
        BY <2>1, <2>3 DEF Stack!Next, Stack!Local
<1>18. CASE ~isError(newPc) /\ ~isError(newFp) /\ ~isError(newAp)
    <2>1. /\ pc' = newPc /\ fp' = newFp /\ thrown' = undefined
          /\ currentStep' = currentStep + 1
        BY <1>13, <1>18
    <2>2. StepsCounted'
        BY <1>14, <2>1 DEF StepsCounted, Running
    <2>3. Frames' = Effect(s, EntryStep(segments', registers))
        BY <1>3, <1>11, <1>12, <1>14, <2>1, FramesChange DEF FramesHold
    <2>4. EntryStep(segments', registers) =
              [opcode |-> ins.opcode,
               frame |-> [returnPc |-> AddOffset(pc, size(ins)), callerFp |-> fp]]
        BY <1>8, <1>10 DEF EntryStep
    <2>5. PICK t : t = Frames'
        OBVIOUS
    <2>6. finalPc' = finalPc /\ Len(segments') = n
        <3>1. finalPc' = finalPc
            BY <1>11 DEF finalPc, FinalPc, BuiltinSegmentCount, ArenaIndex
        <3>2. Len(segments') = n
            BY <1>8, <1>9, <1>12, computeStepValuesTyped DEF Kept
        <3> QED
            BY <3>1, <3>2
    <2>7. ASSUME t \in Seq(FrameIn(n)), FramesAt(t, fp', segments'),
                 t = <<>> => pc' = finalPc,
                 t # <<>> => t[Len(t)].returnPc = finalPc
          PROVE FramesHold'
        BY <2>2, <2>5, <2>6, <2>7 DEF FramesHold
    <2>8. CASE ins.opcode = "Call" /\ StandardCall(ins)
        <3>1. PICK r : r = AddOffset(pc, size(ins))
            OBVIOUS
        <3>2. PICK g : g = AddOffset(ap, 2)
            OBVIOUS
        <3>3. /\ fp' = g
              /\ CellAt(segments', ap) = fp /\ CellAt(segments', AddOffset(ap, 1)) = r
            <4>1. /\ newFp = AddOffset(ap, 2)
                  /\ CellAt(step.segments, ap) = fp
                  /\ CellAt(step.segments, AddOffset(ap, 1)) = AddOffset(pc, size(ins))
                BY <1>6, <1>8, <1>9, <1>12, <2>8, CallSaves
            <4> QED
                BY <1>12, <2>1, <3>1, <3>2, <4>1
        <3>4. /\ r \in PointersInto(n) /\ g \in PointersInto(n)
              /\ ap \in Relocatables /\ ap.offset >= 0
            BY <1>8, <3>1, <3>2, PointerFacts DEF size, PointersInto
        <3>5. /\ AddOffset(g, -1) = AddOffset(ap, 1) /\ AddOffset(g, -2) = ap
              /\ g.offset >= 2
            <4>1. /\ AddOffset(g, -1) = AddOffset(ap, 2 + (-1))
                  /\ AddOffset(g, -2) = AddOffset(ap, 2 + (-2))
                  /\ g.offset = ap.offset + 2
                BY <3>2, <3>4, OffsetSums
            <4>2. 2 + (-1) = 1 /\ 2 + (-2) = 0 /\ ap.offset \in Int
                BY <3>4 DEF Relocatables
            <4> QED
                BY <3>4, <4>1, <4>2, OffsetSums
        <3>6. g # fp
            BY <1>16, <3>3, <3>5
        <3>7. t = <<[returnPc |-> r, callerFp |-> fp]>> \o s
            BY <2>3, <2>4, <2>5, <2>8, <3>1 DEF Effect
        <3>8. /\ t \in Seq(FrameIn(n)) /\ FramesAt(t, g, segments')
              /\ t # <<>> /\ t[Len(t)] = s[Len(s)]
            BY <1>8, <1>16, <3>3, <3>4, <3>5, <3>6, <3>7, PushFrame
        <3>9. FramesHold'
            BY <1>16, <2>7, <3>3, <3>8
        <3>10. r \in ReturnAddresses(pc)
            BY <3>1 DEF ReturnAddresses, size
        <3>11. Stack!Call
            BY <1>3, <2>5, <3>3, <3>6, <3>7, <3>10 DEF Stack!Call
        <3> QED
            BY <3>9, <3>11 DEF Stack!Next
    <2>9. CASE ins.opcode = "Ret" /\ StandardRet(ins)
        <3>1. pc' = s[1].returnPc /\ fp' = s[1].callerFp
            <4>1. newPc = s[1].returnPc /\ newFp = s[1].callerFp
                BY <1>5, <1>6, <1>8, <1>9, <1>12, <1>16, <2>9, RetRestores
            <4> QED
                BY <2>1, <4>1
        <3>2. t = Tail(s)
            BY <2>3, <2>4, <2>5, <2>9 DEF Effect
        <3>3. /\ t \in Seq(FrameIn(n)) /\ FramesAt(t, Head(s).callerFp, segments')
              /\ Head(s) = s[1]
              /\ t = <<>> => s[Len(s)] = s[1]
              /\ t # <<>> => t[Len(t)] = s[Len(s)]
            BY <1>8, <1>16, <3>2, PopFrame
        <3>4. FramesHold'
            BY <1>16, <2>7, <3>1, <3>3
        <3>5. Stack!Return
            BY <1>3, <1>16, <2>5, <3>1, <3>2, <3>3 DEF Stack!Return
        <3> QED
            BY <3>4, <3>5 DEF Stack!Next
    <2>10. CASE ins.opcode \in {"NoOp", "AssertEq"} /\ ins.fpUpdate = "Fp"
        <3>1. fp' = fp
            BY <1>6, <1>8, <2>1, <2>10 DEF nextFp
        <3>2. t = s
            BY <2>3, <2>4, <2>5, <2>10 DEF Effect
        <3>3. FramesHold'
            BY <1>16, <2>7, <3>1, <3>2
        <3>4. Stack!Local
            BY <1>3, <2>5, <3>1, <3>2 DEF Stack!Local
        <3> QED
            BY <3>3, <3>4 DEF Stack!Next
    <2> QED
        BY <1>15, <2>8, <2>9, <2>10
<1> QED
    BY <1>17, <1>18

\* Every other step leaves the frames alone.
LEMMA StepFrames ==
    ASSUME IInv, TraceHolds, FramesHold, [Next]_vars
    PROVE FramesHold' /\ [Stack!Next]_Stack!vars
<1>1. IInv' /\ Grows(segments, segments') /\ program' = program
    BY StepIInv DEF Next, StepHint, StepInstruction, Finish, vars
<1>2. Len(trace) \in Nat
    BY LenProperties DEF IInv
<1>3. CASE StepHint \/ Finish \/ UNCHANGED vars
    <2>1. UNCHANGED <<pc, fp, trace, currentStep>>
        BY <1>3 DEF StepHint, ExecuteHint, Finish, vars, vmVars
    <2>2. StepsCounted'
        <3>1. Running' => Running
            BY <1>3 DEF StepHint, ExecuteHint, Finish, vars, vmVars, Running
        <3> QED
            BY <2>1, <3>1 DEF FramesHold, StepsCounted
    <2>3. FramesHold' /\ Frames' = Frames
        BY <1>1, <2>1, <2>2, SameFrames
    <2> QED
        BY <2>1, <2>3 DEF Stack!vars
<1>4. CASE StepInstruction
    <2>1. Running /\ pc # finalPc /\ currentStep = Len(trace)
        BY <1>4 DEF StepInstruction, InLoop, FramesHold, StepsCounted
    <2>2. ASSUME thrown' # undefined, UNCHANGED <<pc, fp, trace, currentStep>>
          PROVE FramesHold' /\ [Stack!Next]_Stack!vars
        <3>1. StepsCounted'
            BY <1>2, <2>1, <2>2 DEF StepsCounted, Running
        <3>2. FramesHold' /\ Frames' = Frames
            BY <1>1, <2>2, <3>1, SameFrames
        <3> QED
            BY <2>2, <3>2 DEF Stack!vars
    <2>3. CASE FailToDecode
        BY <2>2, <2>3, Tags DEF FailToDecode
    <2>4. ASSUME ~isError(Decoded), NEW step,
                 step = computeStepValues(Fetched.segments, registers, Decoded),
                 FailToCompute(step) \/ UpdateRegisters(Decoded, step)
          PROVE FramesHold' /\ [Stack!Next]_Stack!vars
        <3>1. CASE FailToCompute(step)
            BY <2>2, <3>1, Tags DEF FailToCompute
        <3>2. CASE UpdateRegisters(Decoded, step)
            BY <1>4, <2>4, <3>2, InstructionFrames
        <3> QED
            BY <2>4, <3>1, <3>2
    <2> QED
        BY <1>4, <2>3, <2>4 DEF StepInstruction, ExecuteInstruction, RunInstruction
<1> QED
    BY <1>3, <1>4 DEF Next

LEMMA InitFrames == Init => FramesHold /\ Stack!Init
<1> SUFFICES ASSUME Init
             PROVE FramesHold /\ Stack!Init
    OBVIOUS
<1>1. PICK e : e = EntryFrame(program)
    OBVIOUS
<1>2. PICK n : n = Len(segments)
    OBVIOUS
<1>3. /\ IInv /\ program \in Programs /\ segments = InitialSegments(program)
      /\ currentStep = 0 /\ trace = <<>>
      /\ fp = Relocatable(1, StackSize(program))
    BY InitIInv DEF Init, InitMachine, IInv
<1>4. /\ n = BuiltinSegmentCount(program) + 4 /\ BuiltinSegmentCount(program) \in Nat
      /\ Len(program.builtins) \in Nat
    BY <1>2, <1>3, InitialMemory, LayoutTypes
<1>5. Frames = <<e>>
    <2> DEFINE steps == [k \in 1..0 |-> StepOf(k)]
    <2>1. DOMAIN steps = 1..0 /\ steps = [k \in 1..0 |-> steps[k]]
        OBVIOUS
    <2>2. Frames = StackAfter(e, steps)
        BY <1>1, <1>3 DEF Frames
    <2> HIDE DEF steps
    <2> QED
        BY <2>1, <2>2, LenOfFunction, StackAfterSteps
<1>6. /\ e.returnPc = FinalPc(program) /\ e.callerFp = ReturnFp(program)
      /\ e \in FrameIn(n) /\ e.callerFp # fp
    <2>1. /\ FinalPc(program) = Relocatable(3 + BuiltinSegmentCount(program), 0)
          /\ ReturnFp(program) = Relocatable(2 + BuiltinSegmentCount(program), 0)
        BY DEF FinalPc, ReturnFp
    <2>2. FinalPc(program) \in PointersInto(n) /\ ReturnFp(program) \in PointersInto(n)
        BY <1>4, <2>1 DEF PointersInto, AddressesIn, Relocatables, Relocatable
    <2>3. ReturnFp(program) # fp
        BY <1>3, <1>4, <2>1 DEF Relocatable
    <2> QED
        BY <1>1, <2>2, <2>3 DEF EntryFrame, FrameIn
<1>7. /\ CellAt(segments, AddOffset(fp, -1)) = FinalPc(program)
      /\ CellAt(segments, AddOffset(fp, -2)) = ReturnFp(program)
      /\ fp.offset >= 2
    <2>1. PICK b : b = Len(program.builtins)
        OBVIOUS
    <2>2. /\ AddOffset(fp, -1) = Relocatable(1, b + 1) /\ AddOffset(fp, -2) = Relocatable(1, b)
          /\ fp.offset = b + 2 /\ b \in Nat
        BY <1>3, <1>4, <2>1 DEF AddOffset, Relocatable, StackSize
    <2>3. segments[2].cells = StackCells(program)
        BY <1>3, <1>4 DEF InitialSegments
    <2>4. /\ b \in DOMAIN StackCells(program) /\ b + 1 \in DOMAIN StackCells(program)
          /\ StackCells(program)[b] = ReturnFp(program)
          /\ StackCells(program)[b + 1] = FinalPc(program)
        BY <2>1, <2>2 DEF StackCells, StackSize
    <2>5. \A o : CellAt(segments, Relocatable(1, o)) = At(segments[2].cells, o)
        BY DEF CellAt, Relocatable
    <2> QED
        BY <2>2, <2>3, <2>4, <2>5 DEF At
<1>8. FramesAt(<<e>>, fp, segments)
    <2>1. Len(<<e>>) = 1 /\ <<e>>[1] = e
        OBVIOUS
    <2> QED
        BY <1>6, <1>7, <2>1 DEF FramesAt, BaseOf
<1>9. StepsCounted
    BY <1>3, EmptySeq DEF StepsCounted
<1>10. FramesHold
    <2>1. <<e>> \in Seq(FrameIn(n)) /\ Len(<<e>>) = 1 /\ <<e>>[1] = e /\ <<e>> # <<>>
        BY <1>6
    <2> QED
        BY <1>2, <1>5, <1>6, <1>8, <1>9, <2>1 DEF FramesHold, finalPc
<1>11. Stack!Init
    BY <1>5 DEF Stack!Init
<1> QED
    BY <1>10, <1>11

\* However many steps lie between, and whatever the program, its hints and the
\* deductions write, the calls of a run nest: CairoRunner implements CallStack.
THEOREM CallsNest == Spec => ImplementsCallStack
BY InitIInv, StepIInv, TraceInvariant, InitFrames, StepFrames, PTL
   DEF Spec, ImplementsCallStack, Stack!Spec
=============================================================================
