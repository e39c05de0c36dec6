---------------------------- MODULE VirtualMachine ----------------------------
(***************************************************************************)
(* Class VirtualMachine (vm/virtualMachine.ts): the memory, the registers  *)
(* and the trace, and the step that executes the hints and the instruction *)
(* at pc.                                                                  *)
(*                                                                         *)
(* step() runs to its end or to an exception.  It is taken here hint by    *)
(* hint, then instruction; nextHint tells how far it is, and nothing else  *)
(* happens in between.  An exception ends the run, with what was written   *)
(* to the memory, the trace and the registers before it left in place.     *)
(***************************************************************************)
EXTENDS Hints

CONSTANT decodeInstruction(_)   \* Instruction.decodeInstruction, from a felt's
                                \* integer to an instruction or the error it throws

ASSUME DecodeAssumption ==
    \A n \in 0..(P - 1) : decodeInstruction(n) \in Instruction \cup Errors

VARIABLES
    segments,       \* vm.memory.segments
    pc, ap, fp,     \* the registers
    trace,          \* the registers before each instruction
    currentStep,    \* the number of instructions executed
    nextHint,       \* the hints of the step in progress already executed
    thrown          \* the exception that ended the run, undefined before

vmVars == <<segments, pc, ap, fp, trace, currentStep, nextHint, thrown>>

registers == [Pc |-> pc, Ap |-> ap, Fp |-> fp]

-----------------------------------------------------------------------------
(* computeStepValues *)

\* The operands in the order they are read; each read may deduce a cell.
ReadOperands(memory, regs, ins) ==
    LET op0 == get(memory, op0Address(ins, regs))
        address == op1Address(ins, regs, op0.value)
        op1 == get(op0.segments, address)
        dst == get(op1.segments, dstAddress(ins, regs))
        Step(segs, values) == [segments |-> segs, values |-> values]
    IN IF isError(op0.value) THEN Step(op0.segments, Thrown(op0.value))
       ELSE IF isError(address) THEN Step(op0.segments, Thrown(address))
       ELSE IF isError(op1.value) THEN Step(op1.segments, Thrown(op1.value))
       ELSE IF isError(dst.value) THEN Step(dst.segments, Thrown(dst.value))
       ELSE Step(dst.segments, StepValues(ins, regs, op0.value, op1.value, dst.value))

\* if (value !== undefined) memory.assertEq(address, value), unless an earlier
\* assertion has thrown
ThenAssert(write, address, value) ==
    IF isError(write.value) \/ value = undefined
      THEN write
      ELSE assertEq(write.segments, address, value)

\* op0, op1 and dst are asserted in this order.
AssertValues(read, op0Addr, op1Addr, dstAddr) ==
    ThenAssert(ThenAssert(ThenAssert(Result(read.segments, undefined),
                                     op0Addr, read.values.op0),
                          op1Addr, read.values.op1),
               dstAddr, read.values.dst)

\* What the step comes to once its values are asserted; res is the error of
\* whatever threw.
StepResult(read, write) ==
    [segments |-> write.segments,
     values |-> IF isError(write.value) THEN Thrown(write.value) ELSE read.values]

\* The memory after the step's assertions and the values of the step
computeStepValues(memory, regs, ins) ==
    LET read == ReadOperands(memory, regs, ins)
        op0Addr == op0Address(ins, regs)
        op1Addr == op1Address(ins, regs, get(memory, op0Addr).value)
    IN IF isError(read.values.res)
         THEN read
         ELSE StepResult(read, AssertValues(read, op0Addr, op1Addr, dstAddress(ins, regs)))

-----------------------------------------------------------------------------
(* The actions of step() *)

InitMachine ==
    /\ trace = <<>>
    /\ currentStep = 0
    /\ nextHint = 0
    /\ thrown = undefined

Running == thrown = undefined

\* One hint of the list at pc
ExecuteHint(hints) ==
    /\ Running
    /\ nextHint < Len(hints)
    /\ \E run \in {executeHint(segments, registers, hints[nextHint + 1])} :
          /\ segments' = run.segments
          /\ thrown' = IF isError(run.value) THEN run.value ELSE undefined
    /\ nextHint' = nextHint + 1
    /\ UNCHANGED <<pc, ap, fp, trace, currentStep>>

\* The instruction word at pc; reading it may deduce it.
Fetched == get(segments, pc)

Decoded ==
    IF isError(Fetched.value) THEN Fetched.value
    ELSE IF Fetched.value = undefined THEN Error("UndefinedInstruction")
    ELSE IF isRelocatable(Fetched.value) THEN Error("ExpectedFelt")
    ELSE decodeInstruction(Fetched.value.inner)

\* The fetch or the decoding throws: the step does nothing more.
FailToDecode ==
    /\ isError(Decoded)
    /\ thrown' = Decoded
    /\ segments' = Fetched.segments
    /\ UNCHANGED <<pc, ap, fp, trace, currentStep>>

\* computeStepValues throws: neither the trace nor the registers are touched.
FailToCompute(step) ==
    /\ isError(step.values.res)
    /\ thrown' = step.values.res
    /\ segments' = step.segments
    /\ UNCHANGED <<pc, ap, fp, trace, currentStep>>

\* (mutant: pc takes the outcome of updatePc even when it throws)
UpdateRegistersUnchecked(ins, step) ==
    LET newPc == nextPc(ins, registers, step.values.res, step.values.dst)
        newFp == nextFp(ins, registers, step.values.dst)
        newAp == nextAp(ins, registers, step.values.res)
        failed == IF isError(newPc) THEN newPc ELSE IF isError(newFp) THEN newFp ELSE newAp
    IN /\ ~isError(step.values.res)
       /\ segments' = step.segments
       /\ trace' = Append(trace, registers)
       /\ pc' = newPc
       /\ fp' = IF isError(newPc) \/ isError(newFp) THEN fp ELSE newFp
       /\ ap' = IF isError(failed) THEN ap ELSE newAp
       /\ thrown' = IF isError(failed) THEN failed ELSE undefined
       /\ currentStep' = IF isError(failed) THEN currentStep ELSE currentStep + 1

\* The registers are updated in the order pc, fp, ap; the first one that throws
\* leaves those before it updated, and the trace one entry ahead of currentStep.
UpdateRegisters(ins, step) ==
    LET newPc == nextPc(ins, registers, step.values.res, step.values.dst)
        newFp == nextFp(ins, registers, step.values.dst)
        newAp == nextAp(ins, registers, step.values.res)
        failed == IF isError(newPc) THEN newPc ELSE IF isError(newFp) THEN newFp ELSE newAp
    IN /\ ~isError(step.values.res)
       /\ segments' = step.segments
       /\ trace' = Append(trace, registers)
       /\ pc' = IF isError(newPc) THEN pc ELSE newPc
       /\ fp' = IF isError(newPc) \/ isError(newFp) THEN fp ELSE newFp
       /\ ap' = IF isError(failed) THEN ap ELSE newAp
       /\ thrown' = IF isError(failed) THEN failed ELSE undefined
       /\ currentStep' = IF isError(failed) THEN currentStep ELSE currentStep + 1

RunInstruction(ins) ==
    \E step \in {computeStepValues(Fetched.segments, registers, ins)} :
        FailToCompute(step) \/ UpdateRegisters(ins, step)

\* The hints are done: fetch, decode and run the instruction at pc.
ExecuteInstruction(hints) ==
    /\ Running
    /\ nextHint = Len(hints)
    /\ \/ FailToDecode
       \/ ~isError(Decoded) /\ RunInstruction(Decoded)
    /\ nextHint' = 0

-----------------------------------------------------------------------------
(* What the machine must never do *)

\* A pointer into a segment that exists, not before its first cell
Points(v) ==
    isRelocatable(v) /\ v.segmentId + 1 \in DOMAIN segments /\ v.offset >= 0

CellsOf(i) == segments[i].cells

\* The type of the machine's state: registers are relocatables, a cell holds a
\* felt or a relocatable, and what ended the run is an error.
MachineTypeOK ==
    /\ registers \in Registers
    /\ \A i \in DOMAIN segments :
          /\ segments[i].builtin \in Builtins
          /\ \A o \in DOMAIN CellsOf(i) : o \in Int /\ CellsOf(i)[o] \in SegmentValue
    /\ trace \in Seq(Registers)
    /\ currentStep \in Nat
    /\ nextHint \in Nat
    /\ Running \/ thrown \in Errors
=============================================================================
