----------------------------- MODULE Instructions -----------------------------
(***************************************************************************)
(* The fields of a decoded instruction (vm/instruction.ts) and the rules   *)
(* of the step that depend on them alone: which values an instruction      *)
(* computes from its operands (computeStepValues) and where it takes the   *)
(* registers (updatePc, updateAp, updateFp of vm/virtualMachine.ts).       *)
(*                                                                         *)
(* Values are those of SegmentValues; a rule that throws returns an error. *)
(***************************************************************************)
EXTENDS SegmentValues

InstructionWith(Offsets) == [
    tag : {"instruction"},
    dstOffset : Offsets, op0Offset : Offsets, op1Offset : Offsets,
    dstRegister : {"Ap", "Fp"},
    op0Register : {"Ap", "Fp"},
    op1Register : {"Pc", "Ap", "Fp", "Op0"},
    resLogic : {"Op1", "Add", "Mul"},
    pcUpdate : {"Regular", "Jump", "JumpRel", "Jnz"},
    apUpdate : {"Ap", "AddRes", "Add1", "Add2"},
    fpUpdate : {"Fp", "ApPlus2", "Dst"},
    opcode : {"NoOp", "Call", "Ret", "AssertEq"}]

Instruction == InstructionWith(Int)

\* An immediate operand is the word after the instruction.
size(ins) == IF ins.op1Register = "Pc" THEN 2 ELSE 1

Registers == [Pc : Relocatables, Ap : Relocatables, Fp : Relocatables]

-----------------------------------------------------------------------------
(* Addresses of the operands *)

op0Address(ins, regs) == AddOffset(regs[ins.op0Register], ins.op0Offset)

dstAddress(ins, regs) == AddOffset(regs[ins.dstRegister], ins.dstOffset)

op1Address(ins, regs, op0) ==
    IF ins.op1Register # "Op0" THEN AddOffset(regs[ins.op1Register], ins.op1Offset)
    ELSE IF op0 = undefined THEN Error("UndefinedOp0")
    ELSE IF isFelt(op0) THEN Error("ExpectedFelt")
    ELSE AddOffset(op0, ins.op1Offset)

-----------------------------------------------------------------------------
(* The values of the step, from the operands read in memory.               *)
(* Each rule returns the four values as a record, undefined for those that *)
(* stay unknown; when the rule throws, res is the error.                   *)

Values(op0, op1, res, dst) == [op0 |-> op0, op1 |-> op1, res |-> res, dst |-> dst]

Thrown(error) == Values(undefined, undefined, error, undefined)

\* (mutant: the immediate is not skipped by the return address)
CallValuesOneWord(ins, regs, op0, op1) ==
    LET next == AddOffset(regs.Pc, 1)
        res == IF ins.resLogic = "Op1" THEN op1
               ELSE IF ins.resLogic = "Add" THEN Add(next, op1)
               ELSE Error("ExpectedFelt")
    IN IF op0 \notin {undefined, next} THEN Thrown(Error("InvalidCallOp0Value"))
       ELSE IF op1 = undefined THEN Thrown(Error("UndefinedOp1"))
       ELSE Values(next, op1, res, regs.Fp)

\* A call saves the return address in op0 and the frame pointer in dst.
CallValues(ins, regs, op0, op1) ==
    LET next == AddOffset(regs.Pc, size(ins))
        res == IF ins.resLogic = "Op1" THEN op1
               ELSE IF ins.resLogic = "Add" THEN Add(next, op1)
               ELSE Error("ExpectedFelt")
    IN IF op0 \notin {undefined, next} THEN Thrown(Error("InvalidCallOp0Value"))
       ELSE IF op1 = undefined THEN Thrown(Error("UndefinedOp1"))
       ELSE Values(next, op1, res, regs.Fp)

\* assert [dst] = op1: whichever of the two is known gives the other.  When
\* neither is, nothing is asserted and nothing is thrown.
AssertOp1Values(op0, op1, dst) ==
    LET res == IF op1 = undefined THEN dst ELSE op1
    IN Values(op0, res, res, res)

\* The operand an assertion deduces from the result dst and the other operand
MissingTerm(dst, other, error) ==
    IF undefined \in {dst, other} THEN Error(error) ELSE Sub(dst, other)

\* (mutant: a destination that is known is not compared with the sum)
AssertAddValuesKeepingDst(op0, op1, dst) ==
    LET a == IF op0 = undefined THEN MissingTerm(dst, op1, "InvalidOp0") ELSE op0
        b == IF op1 = undefined THEN MissingTerm(dst, op0, "InvalidOp1") ELSE op1
    IN IF isError(a) THEN Thrown(a)
       ELSE IF isError(b) THEN Thrown(b)
       ELSE Values(a, b, Add(a, b), IF dst = undefined THEN Add(a, b) ELSE dst)

\* assert [dst] = op0 + op1
AssertAddValues(op0, op1, dst) ==
    LET a == IF op0 = undefined THEN MissingTerm(dst, op1, "InvalidOp0") ELSE op0
        b == IF op1 = undefined THEN MissingTerm(dst, op0, "InvalidOp1") ELSE op1
    IN IF isError(a) THEN Thrown(a)
       ELSE IF isError(b) THEN Thrown(b)
       ELSE Values(a, b, Add(a, b), Add(a, b))

MissingFactor(dst, other, error) ==
    IF undefined \in {dst, other} \/ ~isFelt(dst) THEN Error(error) ELSE Div(dst, other)

\* assert [dst] = op0 * op1
AssertMulValues(op0, op1, dst) ==
    LET a == IF op0 = undefined THEN MissingFactor(dst, op1, "InvalidOp0") ELSE op0
        b == IF op1 = undefined THEN MissingFactor(dst, op0, "InvalidOp1") ELSE op1
    IN IF isError(a) THEN Thrown(a)
       ELSE IF ~isFelt(a) THEN Thrown(Error("ExpectedFelt"))
       ELSE IF isError(b) THEN Thrown(b)
       ELSE Values(a, b, Mul(a, b), Mul(a, b))

\* No-op and ret deduce nothing; the result of unknown operands is unknown.
OtherValues(ins, op0, op1, dst) ==
    LET known == undefined \notin {op0, op1}
        res == IF ins.resLogic = "Op1" THEN op1
               ELSE IF ins.resLogic = "Add" /\ known THEN Add(op0, op1)
               ELSE IF ins.resLogic = "Mul" /\ known /\ isFelt(op0) THEN Mul(op0, op1)
               ELSE undefined
    IN Values(op0, op1, res, dst)

StepValues(ins, regs, op0, op1, dst) ==
    IF ins.opcode = "Call" THEN CallValues(ins, regs, op0, op1)
    ELSE IF ins.opcode # "AssertEq" THEN OtherValues(ins, op0, op1, dst)
    ELSE IF ins.resLogic = "Op1" THEN AssertOp1Values(op0, op1, dst)
    ELSE IF ins.resLogic = "Add" THEN AssertAddValues(op0, op1, dst)
    ELSE AssertMulValues(op0, op1, dst)

-----------------------------------------------------------------------------
(* The registers after the step: a relocatable, or the error thrown *)

RelativeTo(register, res, missing) ==
    IF res = undefined THEN Error(missing)
    ELSE IF isFelt(res) THEN AddFelt(register, res)
    ELSE Error("ExpectedFelt")

JumpTo(res) ==
    IF res = undefined THEN Error("UnusedRes")
    ELSE IF isRelocatable(res) THEN res
    ELSE Error("ExpectedRelocatable")

nextPc(ins, regs, res, dst) ==
    LET regular == AddOffset(regs.Pc, size(ins))
    IN IF ins.pcUpdate = "Jump" THEN JumpTo(res)
       ELSE IF ins.pcUpdate = "JumpRel" THEN RelativeTo(regs.Pc, res, "UnusedRes")
       ELSE IF ins.pcUpdate = "Jnz" /\ dst = undefined THEN Error("InvalidDst")
       ELSE IF ins.pcUpdate = "Jnz" /\ dst # Zero THEN RelativeTo(regs.Pc, res, "UndefinedOp1")
       ELSE regular

nextFp(ins, regs, dst) ==
    IF ins.fpUpdate = "Fp" THEN regs.Fp
    ELSE IF ins.fpUpdate = "ApPlus2" THEN AddOffset(regs.Ap, 2)
    ELSE IF dst = undefined THEN Error("InvalidDst")
    ELSE IF isFelt(dst) THEN AddFelt(regs.Fp, dst)
    ELSE dst

nextAp(ins, regs, res) ==
    IF ins.apUpdate = "AddRes" THEN RelativeTo(regs.Ap, res, "UnusedRes")
    ELSE IF ins.apUpdate = "Add1" THEN AddOffset(regs.Ap, 1)
    ELSE IF ins.apUpdate = "Add2" THEN AddOffset(regs.Ap, 2)
    ELSE regs.Ap
=============================================================================
