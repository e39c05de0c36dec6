-------------------------- MODULE InstructionDecoding --------------------------
(***************************************************************************)
(* Instruction.decodeInstruction (vm/instruction.ts:202-388): the word of  *)
(* an instruction, three biased offsets and 15 flags, to its fields.       *)
(*                                                                         *)
(* The module scans every word of Words; the properties compare the        *)
(* decoder with the layout of the Cairo whitepaper, given by Encode.       *)
(***************************************************************************)
EXTENDS Instructions

CONSTANT OffsetRange    \* the values of an offset field: 2^16 in the code

ASSUME OffsetAssumption ==
    /\ OffsetRange \in Nat
    /\ OffsetRange > 0
    /\ OffsetRange % 2 = 0

-----------------------------------------------------------------------------
(* The fields of a word *)

BIAS == OffsetRange \div 2

fromBiased(value) == value - BIAS

\* encodedInstruction >> 16, >> 32, >> 48: the word without its first offsets
Drop1(word) == word \div OffsetRange
Drop2(word) == Drop1(word) \div OffsetRange
flags(word) == Drop2(word) \div OffsetRange

\* The flags of each field
dstRegisterFlag(word) == flags(word) % 2
op0RegisterFlag(word) == (flags(word) \div 2) % 2
op1RegisterFlag(word) == (flags(word) \div 4) % 8
resLogicFlag(word) == (flags(word) \div 32) % 4
pcUpdateFlag(word) == (flags(word) \div 128) % 8

\* (mutant: one bit too many, the first of the opcode)
apUpdateFlagWide(word) == (flags(word) \div 1024) % 8

apUpdateFlag(word) == (flags(word) \div 1024) % 4
opcodeFlag(word) == (flags(word) \div 4096) % 8

\* What the valid flags mean; those out of the domain are invalid.
registerOf == [flag \in {0, 1} |-> IF flag = 0 THEN "Ap" ELSE "Fp"]

\* (mutant: ap and fp are exchanged)
op1RegisterSwapped ==
    [flag \in {0, 1, 2, 4} |->
        IF flag = 0 THEN "Op0" ELSE IF flag = 1 THEN "Pc"
        ELSE IF flag = 2 THEN "Ap" ELSE "Fp"]

op1RegisterOf ==
    [flag \in {0, 1, 2, 4} |->
        IF flag = 0 THEN "Op0" ELSE IF flag = 1 THEN "Pc"
        ELSE IF flag = 2 THEN "Fp" ELSE "Ap"]

resLogicOf ==
    [flag \in {0, 1, 2} |->
        IF flag = 0 THEN "Op1" ELSE IF flag = 1 THEN "Add" ELSE "Mul"]

pcUpdateOf ==
    [flag \in {0, 1, 2, 4} |->
        IF flag = 0 THEN "Regular" ELSE IF flag = 1 THEN "Jump"
        ELSE IF flag = 2 THEN "JumpRel" ELSE "Jnz"]

opcodeOf ==
    [flag \in {0, 1, 2, 4} |->
        IF flag = 0 THEN "NoOp" ELSE IF flag = 1 THEN "Call"
        ELSE IF flag = 2 THEN "Ret" ELSE "AssertEq"]

\* A call without a flag moves ap past the two cells it saves.
apUpdateOf(opcode) ==
    [flag \in {0, 1, 2} |->
        IF flag = 1 THEN "AddRes" ELSE IF flag = 2 THEN "Add1"
        ELSE IF opcode = "Call" THEN "Add2" ELSE "Ap"]

fpUpdateOf(opcode) ==
    IF opcode = "Call" THEN "ApPlus2" ELSE IF opcode = "Ret" THEN "Dst" ELSE "Fp"

-----------------------------------------------------------------------------
(* The decoder *)

\* The first invalid field, in the order of the switches
DecodeError(word) ==
    IF flags(word) \div 32768 # 0 THEN Error("HighBitSetError")
    ELSE IF op1RegisterFlag(word) \notin DOMAIN op1RegisterOf THEN Error("InvalidOp1Register")
    ELSE IF pcUpdateFlag(word) \notin DOMAIN pcUpdateOf THEN Error("InvalidPcUpdate")
    ELSE IF resLogicFlag(word) \notin DOMAIN resLogicOf THEN Error("InvalidResLogic")
    ELSE IF opcodeFlag(word) \notin DOMAIN opcodeOf THEN Error("InvalidOpcode")
    ELSE IF apUpdateFlag(word) \notin {0, 1, 2} THEN Error("InvalidApUpdate")
    ELSE undefined

InstructionOf(word) ==
    LET opcode == opcodeOf[opcodeFlag(word)]
    IN [tag |-> "instruction",
        dstOffset |-> fromBiased(word % OffsetRange),
        op0Offset |-> fromBiased(Drop1(word) % OffsetRange),
        op1Offset |-> fromBiased(Drop2(word) % OffsetRange),
        dstRegister |-> registerOf[dstRegisterFlag(word)],
        op0Register |-> registerOf[op0RegisterFlag(word)],
        op1Register |-> op1RegisterOf[op1RegisterFlag(word)],
        resLogic |-> resLogicOf[resLogicFlag(word)],
        pcUpdate |-> pcUpdateOf[pcUpdateFlag(word)],
        apUpdate |-> apUpdateOf(opcode)[apUpdateFlag(word)],
        fpUpdate |-> fpUpdateOf(opcode),
        opcode |-> opcode]

decodeInstruction(word) ==
    IF isError(DecodeError(word)) THEN DecodeError(word) ELSE InstructionOf(word)

-----------------------------------------------------------------------------
(* The layout of a word, bit by bit (the diagram of instruction.ts:11-26) *)

Bit(isSet, weight) == IF isSet THEN weight ELSE 0

FlagWord(ins) ==
    Bit(ins.dstRegister = "Fp", 1) + Bit(ins.op0Register = "Fp", 2)
    + Bit(ins.op1Register = "Pc", 4) + Bit(ins.op1Register = "Fp", 8)
    + Bit(ins.op1Register = "Ap", 16)
    + Bit(ins.resLogic = "Add", 32) + Bit(ins.resLogic = "Mul", 64)
    + Bit(ins.pcUpdate = "Jump", 128) + Bit(ins.pcUpdate = "JumpRel", 256)
    + Bit(ins.pcUpdate = "Jnz", 512)
    + Bit(ins.apUpdate = "AddRes", 1024) + Bit(ins.apUpdate = "Add1", 2048)
    + Bit(ins.opcode = "Call", 4096) + Bit(ins.opcode = "Ret", 8192)
    + Bit(ins.opcode = "AssertEq", 16384)

Encode(ins) ==
    (ins.dstOffset + BIAS)
    + OffsetRange * ((ins.op0Offset + BIAS)
        + OffsetRange * ((ins.op1Offset + BIAS) + OffsetRange * FlagWord(ins)))


\* The instructions of the machine: the opcode decides fp, and what ap does when
\* no flag says so.
Encodable ==
    {ins \in InstructionWith((-BIAS)..(BIAS - 1)) :
        /\ ins.fpUpdate = fpUpdateOf(ins.opcode)
        /\ ins.apUpdate \in {"AddRes", "Add1"}
                \cup (IF ins.opcode = "Call" THEN {"Add2"} ELSE {"Ap"})}

Encodings == {Encode(ins) : ins \in Encodable}

-----------------------------------------------------------------------------
(* The scan *)

VARIABLE word

\* Every combination of the flags, the high bit included
FlagWords == 0..65535

Init == word \in {f * OffsetRange * OffsetRange * OffsetRange : f \in FlagWords}

\* With every combination of the offsets
Next ==
    /\ flags(word + 1) = flags(word)
    /\ word' = word + 1

Spec == Init /\ [][Next]_word

-----------------------------------------------------------------------------
(* Properties *)

\* An accepted word is the encoding of the instruction it is decoded to, all of
\* its bits accounted for: two words never decode to the same instruction.
\* instruction.ts:206-388
DecodingInvertsEncoding ==
    ~isError(decodeInstruction(word)) => Encode(decodeInstruction(word)) = word

\* A word is refused only if it encodes no instruction of the machine: no legal
\* combination of operands, result logic and register updates is out of reach.
\* instruction.ts:206-388
EveryInstructionDecodes ==
    isError(decodeInstruction(word)) => word \notin Encodings
=============================================================================
