------------------------------- MODULE CallFrames -------------------------------
(***************************************************************************)
(* The stack of calls a run makes, and its implementation by the memory    *)
(* cells below fp: CairoRunner implements CallStack.                       *)
(***************************************************************************)
EXTENDS CairoRunner

\* The calls and returns of Cairo: call saves fp in [ap] and the return address
\* in [ap + 1] and moves both past them; ret jumps to [fp - 1] and takes fp
\* from [fp - 2].  The compilers emit no other.
StandardCall(ins) ==
    /\ ins.dstRegister = "Ap" /\ ins.dstOffset = 0
    /\ ins.op0Register = "Ap" /\ ins.op0Offset = 1
    /\ ins.apUpdate = "Add2" /\ ins.fpUpdate = "ApPlus2"
    /\ ins.pcUpdate \in {"Jump", "JumpRel"}

StandardRet(ins) ==
    /\ ins.dstRegister = "Fp" /\ ins.dstOffset = -2
    /\ ins.op1Register = "Fp" /\ ins.op1Offset = -1
    /\ ins.resLogic = "Op1"
    /\ ins.pcUpdate = "Jump" /\ ins.apUpdate = "Ap" /\ ins.fpUpdate = "Dst"

ASSUME StandardFrames ==
    \A n \in 0..(P - 1) :
        LET ins == decodeInstruction(n)
        IN ins \in Instruction =>
              /\ ins.opcode = "Call" => StandardCall(ins)
              /\ ins.opcode = "Ret" => StandardRet(ins)
              /\ ins.opcode \in {"NoOp", "AssertEq"} => ins.fpUpdate = "Fp"

-----------------------------------------------------------------------------

\* What the k-th step of the trace was, with the frame it pushes if it is a call
StepOf(k) ==
    [opcode |-> Executed(k).opcode,
     frame |-> [returnPc |-> AddOffset(trace[k].Pc, size(Executed(k))),
                callerFp |-> trace[k].Fp]]

Effect(frames, step) ==
    IF step.opcode = "Call" THEN <<step.frame>> \o frames
    ELSE IF step.opcode = "Ret" THEN Tail(frames)
    ELSE frames

\* The calls that have not returned after some steps
StackAfter(entry, steps) ==
    LET frames[k \in 0..Len(steps)] ==
            IF k = 0 THEN <<entry>> ELSE Effect(frames[k - 1], steps[k])
    IN frames[Len(steps)]

\* The frame the entry point returns to
EntryFrame(p) == [returnPc |-> FinalPc(p), callerFp |-> ReturnFp(p)]

\* The calls that have not returned: those of the steps that ended
Frames == StackAfter(EntryFrame(program), [k \in 1..currentStep |-> StepOf(k)])

ReturnAddresses(r) == {AddOffset(r, 1), AddOffset(r, 2)}

Stack == INSTANCE CallStack WITH stack <- Frames, After <- ReturnAddresses

\* Every call of a run is a call of the abstract stack, every ret takes pc and fp
\* back to the matching call, and no other step moves fp: what the memory cells
\* below fp hold is that stack, although the program, its hints and the
\* deductions write memory freely.  virtualMachine.ts:198-230, 331-413
ImplementsCallStack == Stack!Spec
=============================================================================
