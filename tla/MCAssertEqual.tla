----------------------------- MODULE MCAssertEqual -----------------------------
(* Programs that assert the equality of two cells before, between and after  *)
(* they write them.                                                          *)
EXTENDS CairoRunner

CONSTANT MaxStatements

MCToNumber == [n \in 0..(P - 1) |-> n]

MCDecode(n) ==
    LET assertEqual ==
            [tag |-> "instruction",
             dstOffset |-> 0, op0Offset |-> -1, op1Offset |-> 1,
             dstRegister |-> "Ap", op0Register |-> "Fp", op1Register |-> "Ap",
             resLogic |-> "Op1", pcUpdate |-> "Regular", apUpdate |-> "Ap",
             fpUpdate |-> "Fp", opcode |-> "AssertEq"]
    IN IF n = 1 THEN assertEqual                                \* [ap] = [ap + 1]
       ELSE IF n = 2                                            \* [ap] = imm; ap++
         THEN [assertEqual EXCEPT !.op1Register = "Pc", !.apUpdate = "Add1"]
       ELSE Error("InvalidOpcode")

MCCompute(b, xs, i) == Zero

LOCAL Lists == INSTANCE SequencesExt

Code(statements) ==
    LET words == Lists!FlattenSeq(statements)
    IN [k \in DOMAIN words |-> Felt(words[k])]

MCPrograms ==
    {[bytecode |-> Code(s), hints |-> [o \in {} |-> <<>>], builtins |-> <<>>,
      initialPc |-> 0] :
        s \in UNION {[1..n -> {<<1>>, <<2, 0>>, <<2, 3>>}] : n \in 1..MaxStatements}}

MCAllowed == <<>>
=============================================================================
