----------------------------- MODULE MCCallFrames -----------------------------
(* Every program of at most MaxStatements statements of a small instruction  *)
(* set, with each of a few hints before the first instruction, with and      *)
(* without a hash builtin, and the shorter ones with a segment arena and a   *)
(* builtin after it too.                                                     *)
EXTENDS CallFrames

CONSTANT MaxStatements

\* An instruction in which nothing happens, to be completed
Base == [tag |-> "instruction",
         dstOffset |-> 0, op0Offset |-> -1, op1Offset |-> 1,
         dstRegister |-> "Ap", op0Register |-> "Fp", op1Register |-> "Pc",
         resLogic |-> "Op1", pcUpdate |-> "Regular", apUpdate |-> "Ap",
         fpUpdate |-> "Fp", opcode |-> "NoOp"]

AssertEqual == [Base EXCEPT !.opcode = "AssertEq"]

\* The instruction set: the word n encodes the n-th instruction.
InstructionSet == <<
    \* 1: call rel imm
    [Base EXCEPT !.opcode = "Call", !.op0Register = "Ap", !.op0Offset = 1,
                 !.pcUpdate = "JumpRel", !.apUpdate = "Add2", !.fpUpdate = "ApPlus2"],
    \* 2: ret
    [Base EXCEPT !.opcode = "Ret", !.dstRegister = "Fp", !.dstOffset = -2,
                 !.op1Register = "Fp", !.op1Offset = -1,
                 !.pcUpdate = "Jump", !.fpUpdate = "Dst"],
    \* 3: [ap] = imm; ap++
    [AssertEqual EXCEPT !.apUpdate = "Add1"],
    \* 4: [ap] = [fp - 3]; ap++
    [AssertEqual EXCEPT !.op1Register = "Fp", !.op1Offset = -3, !.apUpdate = "Add1"],
    \* 5: [ap - 1] = [ap] + imm
    [AssertEqual EXCEPT !.dstOffset = -1, !.op0Register = "Ap", !.op0Offset = 0,
                        !.resLogic = "Add"],
    \* 6: [ap - 1] = [ap] * imm
    [AssertEqual EXCEPT !.dstOffset = -1, !.op0Register = "Ap", !.op0Offset = 0,
                        !.resLogic = "Mul"],
    \* 7: jmp rel imm if [ap - 1] != 0
    [Base EXCEPT !.dstOffset = -1, !.pcUpdate = "Jnz"],
    \* 8: jmp abs [ap - 1]
    [Base EXCEPT !.op1Register = "Ap", !.op1Offset = -1, !.pcUpdate = "Jump"],
    \* 9: ap += imm
    [Base EXCEPT !.apUpdate = "AddRes"],
    \* 10: [ap] = [[fp - 3]]
    [AssertEqual EXCEPT !.op0Offset = -3, !.op1Register = "Op0", !.op1Offset = 0],
    \* 11: [ap + 1] = [[fp - 3] + 1]
    [AssertEqual EXCEPT !.dstOffset = 1, !.op0Offset = -3, !.op1Register = "Op0"],
    \* 12: [ap + 2] = [[fp - 3] + 2]
    [AssertEqual EXCEPT !.dstOffset = 2, !.op0Offset = -3, !.op1Register = "Op0",
                        !.op1Offset = 2],
    \* 13: [fp - 1] = [ap - 1] + [ap - 2]
    [AssertEqual EXCEPT !.dstRegister = "Fp", !.dstOffset = -1, !.op0Register = "Ap",
                        !.op1Register = "Ap", !.op1Offset = -2, !.resLogic = "Add"] >>

MCDecode(n) ==
    IF n \in DOMAIN InstructionSet THEN InstructionSet[n] ELSE Error("InvalidOpcode")

\* Doubles of few bits: from 24 on, the even numbers only
MCToNumber == [n \in 0..(P - 1) |-> IF n < 24 THEN n ELSE n - (n % 2)]

\* The hash: an injection of the pairs used
MCCompute(b, xs, i) == Felt(2 * xs[1].inner + xs[2].inner)

Statements ==
    {<<1, 2>>, <<1, 3>>, <<2>>, <<3, 0>>, <<3, 5>>, <<4>>, <<5, 3>>, <<6, 2>>, <<6, 0>>,
     <<7, 2>>, <<7, P - 2>>, <<8>>, <<9, 1>>, <<9, P - 1>>, <<10>>, <<11>>, <<12>>, <<13>>}

LOCAL Lists == INSTANCE SequencesExt

Code(statements) ==
    LET words == Lists!FlattenSeq(statements)
    IN [k \in DOMAIN words |-> Felt(words[k])]

Cell(register, offset) == [register |-> register, offset |-> offset]
Imm(n) == [type |-> "Immediate", value |-> Felt(n)]

NoHints == [o \in {} |-> <<>>]

HintChoices == {
    NoHints,
    [o \in {0} |-> <<[type |-> "AllocSegment", dst |-> Cell("Ap", 0)]>>],
    [o \in {0} |-> <<[type |-> "DivMod", lhs |-> Imm(7), rhs |-> Imm(2),
                      quotient |-> Cell("Ap", 1), remainder |-> Cell("Ap", 0)]>>],
    [o \in {2} |-> <<[type |-> "AllocSegment", dst |-> Cell("Ap", 0)],
                     [type |-> "TestLessThan", lhs |-> Imm(1),
                      rhs |-> [type |-> "BinOp", op |-> "Add", a |-> Cell("Ap", 0),
                               b |-> Imm(1)],
                      dst |-> Cell("Ap", 1)]>>]}

ProgramsOf(length, builtins) ==
    {[bytecode |-> Code(s), hints |-> h, builtins |-> b, initialPc |-> 0] :
        s \in UNION {[1..n -> Statements] : n \in 1..length},
        h \in HintChoices, b \in builtins}

\* One statement less for the programs with a segment arena, one for those with a
\* builtin after it
MCPrograms ==
    ProgramsOf(MaxStatements, {<<>>, <<"pedersen">>})
    \cup ProgramsOf(MaxStatements - 1, {<<"pedersen", "segment_arena">>})
    \cup ProgramsOf(MaxStatements - 2, {<<"pedersen", "segment_arena", "gas_builtin">>})

MCAllowed == <<"output", "pedersen", "segment_arena", "gas_builtin", "system">>
=============================================================================
