----------------------- MODULE InstructionDecodingProofs -----------------------
(***************************************************************************)
(* The decoder for every width of the offsets: what it returns is an       *)
(* instruction or an error, and nothing of an accepted word is lost.       *)
(***************************************************************************)
EXTENDS InstructionDecoding, HintsProofs

\* A division by the offset range, and its inverse
LEMMA SplitWord ==
    ASSUME NEW w \in Nat
    PROVE /\ w % OffsetRange \in Nat /\ w \div OffsetRange \in Nat
          /\ w = (w % OffsetRange) + OffsetRange * (w \div OffsetRange)
<1>1. OffsetRange \in Nat /\ OffsetRange > 0
    BY OffsetAssumption
<1> QED
    BY <1>1

LEMMA FieldsType ==
    ASSUME NEW w \in Nat
    PROVE /\ Drop1(w) \in Nat /\ Drop2(w) \in Nat /\ flags(w) \in Nat /\ BIAS \in Int
          /\ w % OffsetRange \in Nat
          /\ Drop1(w) % OffsetRange \in Nat
          /\ Drop2(w) % OffsetRange \in Nat
<1>1. Drop1(w) \in Nat
    BY SplitWord DEF Drop1
<1>2. Drop2(w) \in Nat
    BY <1>1, SplitWord DEF Drop2
<1>3. flags(w) \in Nat
    BY <1>2, SplitWord DEF flags
<1>4. BIAS \in Int
    BY OffsetAssumption DEF BIAS
<1> QED
    BY <1>1, <1>2, <1>3, <1>4, SplitWord

\* A word that is not refused has valid flags only.
LEMMA ValidFlags ==
    ASSUME NEW w \in Nat, ~isError(DecodeError(w))
    PROVE /\ flags(w) \div 32768 = 0
          /\ op1RegisterFlag(w) \in {0, 1, 2, 4}
          /\ pcUpdateFlag(w) \in {0, 1, 2, 4}
          /\ resLogicFlag(w) \in {0, 1, 2}
          /\ opcodeFlag(w) \in {0, 1, 2, 4}
          /\ apUpdateFlag(w) \in {0, 1, 2}
          /\ dstRegisterFlag(w) \in {0, 1}
          /\ op0RegisterFlag(w) \in {0, 1}
<1>1. \A name : isError(Error(name))
    BY DEF isError, Error
<1>2. flags(w) \in Nat
    BY FieldsType
<1>3. dstRegisterFlag(w) \in {0, 1} /\ op0RegisterFlag(w) \in {0, 1}
    BY <1>2 DEF dstRegisterFlag, op0RegisterFlag
<1> QED
    BY <1>1, <1>3 DEF DecodeError, op1RegisterOf, pcUpdateOf, resLogicOf, opcodeOf

\* The fields of an accepted word
LEMMA InstructionOfType ==
    ASSUME NEW w \in Nat, ~isError(DecodeError(w))
    PROVE InstructionOf(w) \in Instruction
<1> DEFINE opcode == opcodeOf[opcodeFlag(w)]
<1>1. /\ fromBiased(w % OffsetRange) \in Int
      /\ fromBiased(Drop1(w) % OffsetRange) \in Int
      /\ fromBiased(Drop2(w) % OffsetRange) \in Int
    BY FieldsType DEF fromBiased
<1>2. /\ registerOf[dstRegisterFlag(w)] \in {"Ap", "Fp"}
      /\ registerOf[op0RegisterFlag(w)] \in {"Ap", "Fp"}
    BY ValidFlags DEF registerOf
<1>3. op1RegisterOf[op1RegisterFlag(w)] \in {"Pc", "Ap", "Fp", "Op0"}
    BY ValidFlags DEF op1RegisterOf
<1>4. resLogicOf[resLogicFlag(w)] \in {"Op1", "Add", "Mul"}
    BY ValidFlags DEF resLogicOf
<1>5. pcUpdateOf[pcUpdateFlag(w)] \in {"Regular", "Jump", "JumpRel", "Jnz"}
    BY ValidFlags DEF pcUpdateOf
<1>6. opcode \in {"NoOp", "Call", "Ret", "AssertEq"}
    BY ValidFlags DEF opcodeOf
<1>7. apUpdateOf(opcode)[apUpdateFlag(w)] \in {"Ap", "AddRes", "Add1", "Add2"}
    BY ValidFlags DEF apUpdateOf
<1>8. fpUpdateOf(opcode) \in {"Fp", "ApPlus2", "Dst"}
    BY DEF fpUpdateOf
<1> QED
    BY <1>1, <1>2, <1>3, <1>4, <1>5, <1>6, <1>7, <1>8
    DEF InstructionOf, Instruction, InstructionWith

\* Whatever word a program makes the machine fetch, decoding it gives an
\* instruction or throws one of the errors of the decoder: what VirtualMachine
\* assumes of its decoder.  instruction.ts:206-388
THEOREM DecoderMeetsAssumption ==
    \A n \in 0..(P - 1) : decodeInstruction(n) \in Instruction \cup Errors
<1> SUFFICES ASSUME NEW n \in 0..(P - 1)
             PROVE decodeInstruction(n) \in Instruction \cup Errors
    OBVIOUS
<1>1. n \in Nat
    BY FieldAssumption
<1>2. CASE isError(DecodeError(n))
    <2>1. ~isError(undefined)
        BY Tags
    <2>2. /\ Error("HighBitSetError") \in Errors /\ Error("InvalidOp1Register") \in Errors
          /\ Error("InvalidPcUpdate") \in Errors /\ Error("InvalidResLogic") \in Errors
          /\ Error("InvalidOpcode") \in Errors /\ Error("InvalidApUpdate") \in Errors
        BY ErrorType DEF ErrorNames
    <2>3. DecodeError(n) \in Errors
        BY <1>2, <2>1, <2>2 DEF DecodeError
    <2> QED
        BY <1>2, <2>3 DEF decodeInstruction
<1>3. CASE ~isError(DecodeError(n))
    BY <1>1, <1>3, InstructionOfType DEF decodeInstruction
<1> QED
    BY <1>2, <1>3

-----------------------------------------------------------------------------
(* The round trip *)

\* The flags are those of the fields, one beside the other.
LEMMA FlagsSplit ==
    ASSUME NEW w \in Nat, flags(w) \div 32768 = 0
    PROVE flags(w) = dstRegisterFlag(w) + 2 * op0RegisterFlag(w) + 4 * op1RegisterFlag(w)
                     + 32 * resLogicFlag(w) + 128 * pcUpdateFlag(w)
                     + 1024 * apUpdateFlag(w) + 4096 * opcodeFlag(w)
<1> DEFINE F == flags(w)
<1>1. F \in Nat /\ F \div 32768 = 0
    BY FieldsType
<1> HIDE DEF F
<1>2. F = (F % 2) + 2 * (F \div 2)
    BY <1>1
<1>3. F \div 2 = ((F \div 2) % 2) + 2 * (F \div 4)
    BY <1>1
<1>4. F \div 4 = ((F \div 4) % 8) + 8 * (F \div 32)
    BY <1>1
<1>5. F \div 32 = ((F \div 32) % 4) + 4 * (F \div 128)
    BY <1>1
<1>6. F \div 128 = ((F \div 128) % 8) + 8 * (F \div 1024)
    BY <1>1
<1>7. F \div 1024 = ((F \div 1024) % 4) + 4 * (F \div 4096)
    BY <1>1
<1>8. F \div 4096 = (F \div 4096) % 8
    BY <1>1
<1>9. /\ (F % 2) \in Int /\ F \div 2 \in Int /\ (F \div 2) % 2 \in Int /\ F \div 4 \in Int
      /\ (F \div 4) % 8 \in Int /\ F \div 32 \in Int /\ (F \div 32) % 4 \in Int
      /\ F \div 128 \in Int /\ (F \div 128) % 8 \in Int /\ F \div 1024 \in Int
      /\ (F \div 1024) % 4 \in Int /\ F \div 4096 \in Int /\ (F \div 4096) % 8 \in Int
    BY <1>1
<1>10. F = (F % 2) + 2 * ((F \div 2) % 2) + 4 * ((F \div 4) % 8) + 32 * ((F \div 32) % 4)
           + 128 * ((F \div 128) % 8) + 1024 * ((F \div 1024) % 4)
           + 4096 * ((F \div 4096) % 8)
    BY <1>1, <1>2, <1>3, <1>4, <1>5, <1>6, <1>7, <1>8, <1>9
<1> QED
    BY <1>10 DEF F, dstRegisterFlag, op0RegisterFlag, op1RegisterFlag, resLogicFlag,
                 pcUpdateFlag, apUpdateFlag, opcodeFlag

\* The bits the layout gives to the fields of an accepted word are its flags.
LEMMA FlagsRoundTrip ==
    ASSUME NEW w \in Nat, ~isError(DecodeError(w))
    PROVE FlagWord(InstructionOf(w)) = flags(w)
<1> DEFINE ins == InstructionOf(w)
           opcode == opcodeOf[opcodeFlag(w)]
<1>1. Bit(ins.dstRegister = "Fp", 1) = dstRegisterFlag(w)
    BY ValidFlags DEF InstructionOf, registerOf, Bit
<1>2. Bit(ins.op0Register = "Fp", 2) = 2 * op0RegisterFlag(w)
    BY ValidFlags DEF InstructionOf, registerOf, Bit
<1>3. Bit(ins.op1Register = "Pc", 4) + Bit(ins.op1Register = "Fp", 8)
      + Bit(ins.op1Register = "Ap", 16) = 4 * op1RegisterFlag(w)
    BY ValidFlags DEF InstructionOf, op1RegisterOf, Bit
<1>4. Bit(ins.resLogic = "Add", 32) + Bit(ins.resLogic = "Mul", 64) = 32 * resLogicFlag(w)
    BY ValidFlags DEF InstructionOf, resLogicOf, Bit
<1>5. Bit(ins.pcUpdate = "Jump", 128) + Bit(ins.pcUpdate = "JumpRel", 256)
      + Bit(ins.pcUpdate = "Jnz", 512) = 128 * pcUpdateFlag(w)
    BY ValidFlags DEF InstructionOf, pcUpdateOf, Bit
<1>6. Bit(ins.apUpdate = "AddRes", 1024) + Bit(ins.apUpdate = "Add1", 2048)
      = 1024 * apUpdateFlag(w)
    BY ValidFlags DEF InstructionOf, apUpdateOf, Bit
<1>7. Bit(ins.opcode = "Call", 4096) + Bit(ins.opcode = "Ret", 8192)
      + Bit(ins.opcode = "AssertEq", 16384) = 4096 * opcodeFlag(w)
    BY ValidFlags DEF InstructionOf, opcodeOf, Bit
<1>8. /\ Bit(ins.op1Register = "Pc", 4) \in Int /\ Bit(ins.op1Register = "Fp", 8) \in Int
      /\ Bit(ins.op1Register = "Ap", 16) \in Int
      /\ Bit(ins.resLogic = "Add", 32) \in Int /\ Bit(ins.resLogic = "Mul", 64) \in Int
      /\ Bit(ins.pcUpdate = "Jump", 128) \in Int /\ Bit(ins.pcUpdate = "JumpRel", 256) \in Int
      /\ Bit(ins.pcUpdate = "Jnz", 512) \in Int
      /\ Bit(ins.apUpdate = "AddRes", 1024) \in Int
      /\ Bit(ins.apUpdate = "Add1", 2048) \in Int
      /\ Bit(ins.opcode = "Call", 4096) \in Int /\ Bit(ins.opcode = "Ret", 8192) \in Int
      /\ Bit(ins.opcode = "AssertEq", 16384) \in Int
    BY DEF Bit
<1>9. flags(w) = dstRegisterFlag(w) + 2 * op0RegisterFlag(w) + 4 * op1RegisterFlag(w)
                 + 32 * resLogicFlag(w) + 128 * pcUpdateFlag(w)
                 + 1024 * apUpdateFlag(w) + 4096 * opcodeFlag(w)
    BY ValidFlags, FlagsSplit
<1>10. /\ dstRegisterFlag(w) \in Int /\ op0RegisterFlag(w) \in Int
       /\ op1RegisterFlag(w) \in Int /\ resLogicFlag(w) \in Int
       /\ pcUpdateFlag(w) \in Int /\ apUpdateFlag(w) \in Int /\ opcodeFlag(w) \in Int
    BY ValidFlags
<1> HIDE DEF ins
<1>11. FlagWord(ins) = flags(w)
    BY <1>1, <1>2, <1>3, <1>4, <1>5, <1>6, <1>7, <1>8, <1>9, <1>10 DEF FlagWord
<1> QED
    BY <1>11 DEF ins

LEMMA WordRoundTrip ==
    ASSUME NEW w \in Nat, ~isError(decodeInstruction(w))
    PROVE Encode(decodeInstruction(w)) = w
<1> DEFINE ins == InstructionOf(w)
<1>1. ~isError(DecodeError(w)) /\ decodeInstruction(w) = ins
    BY DEF decodeInstruction
<1>2. /\ ins.dstOffset + BIAS = w % OffsetRange
      /\ ins.op0Offset + BIAS = Drop1(w) % OffsetRange
      /\ ins.op1Offset + BIAS = Drop2(w) % OffsetRange
    BY FieldsType DEF InstructionOf, fromBiased
<1>3. FlagWord(ins) = flags(w)
    BY <1>1, FlagsRoundTrip
<1>4. Drop2(w) = (Drop2(w) % OffsetRange) + OffsetRange * flags(w)
    BY FieldsType, SplitWord DEF flags
<1>5. Drop1(w) = (Drop1(w) % OffsetRange) + OffsetRange * Drop2(w)
    BY FieldsType, SplitWord DEF Drop2
<1>6. w = (w % OffsetRange) + OffsetRange * Drop1(w)
    BY SplitWord DEF Drop1
<1>7. Encode(ins) = (w % OffsetRange) + OffsetRange * ((Drop1(w) % OffsetRange)
                        + OffsetRange * ((Drop2(w) % OffsetRange) + OffsetRange * flags(w)))
    BY <1>2, <1>3 DEF Encode
<1> HIDE DEF ins
<1> QED
    BY <1>1, <1>4, <1>5, <1>6, <1>7

\* Decoding loses nothing of a word, for offsets of any width: an accepted word is
\* the encoding of the instruction it is decoded to.  instruction.ts:206-388
THEOREM DecodingIsFaithful == Spec => []DecodingInvertsEncoding
<1>1. Init => word \in Nat
    <2>1. OffsetRange \in Nat
        BY OffsetAssumption
    <2>2. ASSUME NEW x \in Nat
          PROVE x * OffsetRange \in Nat
        BY <2>1
    <2>3. FlagWords \subseteq Nat
        BY DEF FlagWords
    <2>4. ASSUME NEW f \in FlagWords
          PROVE f * OffsetRange * OffsetRange * OffsetRange \in Nat
        <3>1. f * OffsetRange \in Nat
            BY <2>2, <2>3
        <3>2. f * OffsetRange * OffsetRange \in Nat
            BY <2>2, <3>1
        <3> QED
            BY <2>2, <3>2
    <2> QED
        BY <2>4 DEF Init
<1>2. word \in Nat /\ [Next]_word => (word \in Nat)'
    BY DEF Next
<1>3. word \in Nat => DecodingInvertsEncoding
    BY WordRoundTrip DEF DecodingInvertsEncoding
<1> QED
    BY <1>1, <1>2, <1>3, PTL DEF Spec
-----------------------------------------------------------------------------
(* Nothing of the machine is refused *)

\* The word of the flags of an instruction has one valid flag for each field.
LEMMA FlagWordFields ==
    ASSUME NEW ins
    PROVE \E d \in {0, 1}, o \in {0, 1}, p \in {0, 1, 2, 4}, r \in {0, 1, 2},
             u \in {0, 1, 2, 4}, a \in {0, 1, 2}, c \in {0, 1, 2, 4} :
             FlagWord(ins) = d + 2 * o + 4 * p + 32 * r + 128 * u + 1024 * a + 4096 * c
<1>1. PICK d \in {0, 1} : Bit(ins.dstRegister = "Fp", 1) = d
    BY DEF Bit
<1>2. PICK o \in {0, 1} : Bit(ins.op0Register = "Fp", 2) = 2 * o
    BY DEF Bit
<1>3. PICK p \in {0, 1, 2, 4} :
         Bit(ins.op1Register = "Pc", 4) + Bit(ins.op1Register = "Fp", 8)
         + Bit(ins.op1Register = "Ap", 16) = 4 * p
    BY DEF Bit
<1>4. PICK r \in {0, 1, 2} :
         Bit(ins.resLogic = "Add", 32) + Bit(ins.resLogic = "Mul", 64) = 32 * r
    BY DEF Bit
<1>5. PICK u \in {0, 1, 2, 4} :
         Bit(ins.pcUpdate = "Jump", 128) + Bit(ins.pcUpdate = "JumpRel", 256)
         + Bit(ins.pcUpdate = "Jnz", 512) = 128 * u
    BY DEF Bit
<1>6. PICK a \in {0, 1, 2} :
         Bit(ins.apUpdate = "AddRes", 1024) + Bit(ins.apUpdate = "Add1", 2048) = 1024 * a
    BY DEF Bit
<1>7. PICK c \in {0, 1, 2, 4} :
         Bit(ins.opcode = "Call", 4096) + Bit(ins.opcode = "Ret", 8192)
         + Bit(ins.opcode = "AssertEq", 16384) = 4096 * c
    BY DEF Bit
<1>8. /\ Bit(ins.op1Register = "Pc", 4) \in Int /\ Bit(ins.op1Register = "Fp", 8) \in Int
      /\ Bit(ins.op1Register = "Ap", 16) \in Int
      /\ Bit(ins.resLogic = "Add", 32) \in Int /\ Bit(ins.resLogic = "Mul", 64) \in Int
      /\ Bit(ins.pcUpdate = "Jump", 128) \in Int /\ Bit(ins.pcUpdate = "JumpRel", 256) \in Int
      /\ Bit(ins.pcUpdate = "Jnz", 512) \in Int
      /\ Bit(ins.apUpdate = "AddRes", 1024) \in Int
      /\ Bit(ins.apUpdate = "Add1", 2048) \in Int
      /\ Bit(ins.opcode = "Call", 4096) \in Int /\ Bit(ins.opcode = "Ret", 8192) \in Int
      /\ Bit(ins.opcode = "AssertEq", 16384) \in Int
    BY DEF Bit
<1>9. d \in Int /\ o \in Int /\ p \in Int /\ r \in Int /\ u \in Int /\ a \in Int /\ c \in Int
    OBVIOUS
<1>10. FlagWord(ins) = d + 2 * o + 4 * p + 32 * r + 128 * u + 1024 * a + 4096 * c
    BY <1>1, <1>2, <1>3, <1>4, <1>5, <1>6, <1>7, <1>8, <1>9 DEF FlagWord
<1> QED
    BY <1>10

\* Each field finds its own flag in the word of the flags of an instruction.
LEMMA FlagWordIsValid ==
    ASSUME NEW ins
    PROVE /\ FlagWord(ins) \in Nat /\ FlagWord(ins) \div 32768 = 0
          /\ (FlagWord(ins) \div 4) % 8 \in {0, 1, 2, 4}
          /\ (FlagWord(ins) \div 32) % 4 \in {0, 1, 2}
          /\ (FlagWord(ins) \div 128) % 8 \in {0, 1, 2, 4}
          /\ (FlagWord(ins) \div 1024) % 4 \in {0, 1, 2}
          /\ (FlagWord(ins) \div 4096) % 8 \in {0, 1, 2, 4}
<1> DEFINE F == FlagWord(ins)
<1> HIDE DEF F
<1>1. PICK d \in {0, 1}, o \in {0, 1}, p \in {0, 1, 2, 4}, r \in {0, 1, 2},
           u \in {0, 1, 2, 4}, a \in {0, 1, 2}, c \in {0, 1, 2, 4} :
           F = d + 2 * o + 4 * p + 32 * r + 128 * u + 1024 * a + 4096 * c
    BY FlagWordFields DEF F
<1>2. F \in Nat /\ F \div 32768 = 0
    BY <1>1
<1>3. F \div 4 = p + 8 * r + 32 * u + 256 * a + 1024 * c
    BY <1>1
<1>4. F \div 32 = r + 4 * u + 32 * a + 128 * c
    BY <1>1
<1>5. F \div 128 = u + 8 * a + 32 * c
    BY <1>1
<1>6. F \div 1024 = a + 4 * c
    BY <1>1
<1>7. F \div 4096 = c
    BY <1>1
<1>8. (p + 8 * r + 32 * u + 256 * a + 1024 * c) % 8 = p
    BY <1>1
<1>9. (r + 4 * u + 32 * a + 128 * c) % 4 = r
    BY <1>1
<1>10. (u + 8 * a + 32 * c) % 8 = u /\ (a + 4 * c) % 4 = a /\ c % 8 = c
    BY <1>1
<1> QED
    BY <1>1, <1>2, <1>3, <1>4, <1>5, <1>6, <1>7, <1>8, <1>9, <1>10 DEF F

\* Shifting an offset field out of a word leaves what is above it.
LEMMA DropField ==
    ASSUME NEW a \in 0..(OffsetRange - 1), NEW b \in Nat
    PROVE a + OffsetRange * b \in Nat /\ (a + OffsetRange * b) \div OffsetRange = b
<1> DEFINE w == a + OffsetRange * b
           q == w \div OffsetRange
           r == w % OffsetRange
<1>1. OffsetRange \in Nat /\ OffsetRange > 0
    BY OffsetAssumption
<1>2. OffsetRange * b \in Nat
    BY <1>1
<1>3. w \in Nat
    BY <1>1, <1>2
<1>4. r \in 0..(OffsetRange - 1) /\ q \in Nat /\ w = r + OffsetRange * q
    <2> HIDE DEF w
    <2> QED
        BY <1>1, <1>3, SplitWord
<1>5. OffsetRange * q \in Nat
    BY <1>1, <1>4
<1> HIDE DEF q, r
<1>6. a + OffsetRange * b = r + OffsetRange * q
    BY <1>4
<1>7. ASSUME NEW x \in Nat, NEW y \in Nat, x < y
      PROVE OffsetRange * x + OffsetRange <= OffsetRange * y
    <2> DEFINE z == y - x - 1
    <2>1. z \in Nat /\ y = x + 1 + z
        BY <1>7
    <2> HIDE DEF z
    <2>2. OffsetRange * y = OffsetRange * x + OffsetRange + OffsetRange * z
        BY <1>1, <2>1
    <2>3. OffsetRange * z \in Nat /\ OffsetRange * x \in Nat
        BY <1>1, <2>1
    <2> QED
        BY <1>1, <2>2, <2>3
<1>8. ~(q < b)
    BY <1>1, <1>2, <1>4, <1>5, <1>6, <1>7
<1>9. ~(b < q)
    BY <1>1, <1>2, <1>4, <1>5, <1>6, <1>7
<1>10. q = b
    BY <1>4, <1>8, <1>9
<1> QED
    BY <1>3, <1>10 DEF q

\* Decoding finds in the word of an instruction the flags it was given.
LEMMA EncodedFlags ==
    ASSUME NEW ins \in Encodable
    PROVE flags(Encode(ins)) = FlagWord(ins) /\ FlagWord(ins) \in Nat
<1> DEFINE F == FlagWord(ins)
           a == ins.dstOffset + BIAS
           b == ins.op0Offset + BIAS
           c == ins.op1Offset + BIAS
<1>1. F \in Nat
    BY FlagWordIsValid
<1>2. BIAS \in Int /\ 2 * BIAS = OffsetRange
    BY OffsetAssumption DEF BIAS
<1>3. a \in 0..(OffsetRange - 1) /\ b \in 0..(OffsetRange - 1) /\ c \in 0..(OffsetRange - 1)
    BY <1>2 DEF Encodable, InstructionWith
<1>4. Encode(ins) = a + OffsetRange * (b + OffsetRange * (c + OffsetRange * F))
    BY DEF Encode
<1> HIDE DEF F, a, b, c
<1>5. c + OffsetRange * F \in Nat /\ (c + OffsetRange * F) \div OffsetRange = F
    BY <1>1, <1>3, DropField
<1> DEFINE v == c + OffsetRange * F
<1> HIDE DEF v
<1>6. v \in Nat /\ v \div OffsetRange = F
    BY <1>5 DEF v
<1>7. b + OffsetRange * v \in Nat /\ (b + OffsetRange * v) \div OffsetRange = v
    BY <1>3, <1>6, DropField
<1> DEFINE u == b + OffsetRange * v
<1> HIDE DEF u
<1>8. u \in Nat /\ u \div OffsetRange = v
    BY <1>7 DEF u
<1>9. (a + OffsetRange * u) \div OffsetRange = u
    BY <1>3, <1>8, DropField
<1>10. Encode(ins) = a + OffsetRange * u
    BY <1>4 DEF u, v
<1> QED
    BY <1>1, <1>6, <1>8, <1>9, <1>10 DEF F, flags, Drop1, Drop2

LEMMA EncodingsAreAccepted ==
    ASSUME NEW ins \in Encodable
    PROVE ~isError(decodeInstruction(Encode(ins)))
<1> DEFINE w == Encode(ins)
           F == FlagWord(ins)
<1>1. flags(w) = F
    BY EncodedFlags
<1> HIDE DEF w
<1>2. /\ F \div 32768 = 0
      /\ (F \div 4) % 8 \in {0, 1, 2, 4} /\ (F \div 32) % 4 \in {0, 1, 2}
      /\ (F \div 128) % 8 \in {0, 1, 2, 4}
      /\ (F \div 1024) % 4 \in {0, 1, 2} /\ (F \div 4096) % 8 \in {0, 1, 2, 4}
    BY FlagWordIsValid
<1> HIDE DEF F
<1>3. /\ flags(w) \div 32768 = 0
      /\ op1RegisterFlag(w) \in {0, 1, 2, 4} /\ pcUpdateFlag(w) \in {0, 1, 2, 4}
      /\ resLogicFlag(w) \in {0, 1, 2} /\ opcodeFlag(w) \in {0, 1, 2, 4}
      /\ apUpdateFlag(w) \in {0, 1, 2}
    BY <1>1, <1>2
    DEF op1RegisterFlag, pcUpdateFlag, resLogicFlag, opcodeFlag, apUpdateFlag
<1>4. DecodeError(w) = undefined
    BY <1>3 DEF DecodeError, op1RegisterOf, pcUpdateOf, resLogicOf, opcodeOf
<1>5. ~isError(undefined)
    BY Tags
<1>6. decodeInstruction(w) = InstructionOf(w)
    BY <1>4, <1>5 DEF decodeInstruction
<1>7. ~isError(InstructionOf(w))
    BY DEF InstructionOf, isError
<1> QED
    BY <1>6, <1>7 DEF w

\* No instruction of the machine is out of a program's reach, for offsets of any
\* width: whatever the combination of operands, result logic and register updates,
\* its word is accepted.  instruction.ts:206-388
THEOREM InstructionsAreReachable == Spec => []EveryInstructionDecodes
<1>1. EveryInstructionDecodes
    BY EncodingsAreAccepted DEF EveryInstructionDecodes, Encodings
<1> QED
    BY <1>1, PTL
=============================================================================
