-------------------------------- MODULE Hints --------------------------------
(***************************************************************************)
(* The operands of the hints (hints/hintParamsSchema.ts and                *)
(* vm/virtualMachine.ts:478-659) and the handlers of the hints that read   *)
(* and write memory only (hints/allocSegment.ts, hints/math/divMod.ts and  *)
(* testLessThan.ts).                                                       *)
(*                                                                         *)
(* As in SegmentMemory each operator returns the segments after the call,  *)
(* for a read of a builtin segment may deduce a cell, and its value or the *)
(* error it throws.                                                        *)
(***************************************************************************)
EXTENDS SegmentMemory, Instructions

CellRef == [register : {"Ap", "Fp"}, offset : Int]

Deref == [type : {"Deref"}, cell : CellRef]
Immediate == [type : {"Immediate"}, value : Felts]

\* [cell]; [[cell] + offset]; a constant; the sum or the product of a cell and a
\* cell or a constant
ResOperand ==
    Deref
    \cup [type : {"DoubleDeref"}, cell : CellRef, offset : Int]
    \cup Immediate
    \cup [type : {"BinOp"}, op : {"Add", "Mul"}, a : CellRef, b : Deref \cup Immediate]

Hint ==
    [type : {"AllocSegment"}, dst : CellRef]
    \cup [type : {"TestLessThan"}, lhs : ResOperand, rhs : ResOperand, dst : CellRef]
    \cup [type : {"DivMod"}, lhs : ResOperand, rhs : ResOperand,
          quotient : CellRef, remainder : CellRef]

cellRefToRelocatable(regs, cell) == AddOffset(regs[cell.register], cell.offset)

\* The value of a read, which throws error(v) unless ok(v)
Checked(read, ok, error) ==
    IF isError(read.value) \/ ok THEN read ELSE Result(read.segments, Error(error))

getSegmentValue(segments, regs, cell) ==
    LET read == get(segments, cellRefToRelocatable(regs, cell))
    IN Checked(read, read.value # undefined, "UndefinedSegmentValue")

getFelt(segments, regs, cell) ==
    LET read == get(segments, cellRefToRelocatable(regs, cell))
    IN Checked(read, isFelt(read.value), "ExpectedFelt")

getRelocatable(segments, regs, cell) ==
    LET read == get(segments, cellRefToRelocatable(regs, cell))
    IN Checked(read, isRelocatable(read.value), "ExpectedRelocatable")

-----------------------------------------------------------------------------
(* The value of an operand *)

\* The cell a pointer that was read points to
PointedTo(pointer, offset) ==
    LET read == get(pointer.segments, AddOffset(pointer.value, offset))
    IN IF isError(pointer.value)
         THEN pointer
         ELSE Checked(read, read.value # undefined, "UndefinedSegmentValue")

getDoubleDeref(segments, regs, operand) ==
    PointedTo(getRelocatable(segments, regs, operand.cell), operand.offset)

\* The operation on two values that were read, one after the other
Combine(op, a, b) ==
    IF isError(a.value) THEN a
    ELSE IF isError(b.value) THEN b
    ELSE IF op = "Add" THEN Result(b.segments, Add(a.value, b.value))
    ELSE IF isFelt(a.value) THEN Result(b.segments, Mul(a.value, b.value))
    ELSE Result(b.segments, Error("ExpectedFelt"))

getBinOp(segments, regs, operand) ==
    LET a == getSegmentValue(segments, regs, operand.a)
    IN Combine(operand.op, a,
               IF operand.b.type = "Deref"
                 THEN getFelt(a.segments, regs, operand.b.cell)
                 ELSE Result(a.segments, operand.b.value))

getResOperandSegmentValue(segments, regs, operand) ==
    IF operand.type = "Deref" THEN getSegmentValue(segments, regs, operand.cell)
    ELSE IF operand.type = "DoubleDeref" THEN getDoubleDeref(segments, regs, operand)
    ELSE IF operand.type = "Immediate" THEN Result(segments, operand.value)
    ELSE getBinOp(segments, regs, operand)

getResOperandValue(segments, regs, operand) ==
    LET read == getResOperandSegmentValue(segments, regs, operand)
    IN Checked(read, isFelt(read.value), "ExpectedFelt")

getResOperandRelocatable(segments, regs, operand) ==
    LET read == getResOperandSegmentValue(segments, regs, operand)
    IN Checked(read, isRelocatable(read.value), "ExpectedRelocatable")

\* A pointer that was read, plus a felt
Advanced(read, offset) ==
    IF isError(read.value) THEN read ELSE Result(read.segments, AddFelt(read.value, offset))

\* getPointer(...extractBuffer(operand)): the pointer in a cell, plus a constant.
\* The operation of a BinOp is not looked at.
getPointer(segments, regs, operand) ==
    IF operand.type = "Deref"
      THEN Advanced(getRelocatable(segments, regs, operand.cell), Zero)
    ELSE IF operand.type = "BinOp" /\ operand.b.type = "Immediate"
      THEN Advanced(getRelocatable(segments, regs, operand.a), operand.b.value)
    ELSE Result(segments, Error("InvalidBufferResOp"))

-----------------------------------------------------------------------------
(* Handlers *)

\* (mutant: the base is that of the segment after the one added)
allocSegmentNext(segments, regs, hint) ==
    assertEq(addSegment(segments, "none"), cellRefToRelocatable(regs, hint.dst),
             Relocatable(Len(segments) + 1, 0))

\* The segment is added before its base is stored: it stays when that fails.
allocSegment(segments, regs, hint) ==
    assertEq(addSegment(segments, "none"), cellRefToRelocatable(regs, hint.dst),
             Relocatable(Len(segments), 0))

\* Two operands read one after the other; error is what their reads throw.
Both(lhs, rhs) ==
    IF isError(lhs.value)
      THEN [segments |-> lhs.segments, lhs |-> undefined, rhs |-> undefined,
            error |-> lhs.value]
      ELSE [segments |-> rhs.segments, lhs |-> lhs.value, rhs |-> rhs.value,
            error |-> IF isError(rhs.value) THEN rhs.value ELSE undefined]

\* Both operands of a hint, which must be felts
Operands(segments, regs, hint) ==
    LET lhs == getResOperandValue(segments, regs, hint.lhs)
    IN Both(lhs, getResOperandValue(lhs.segments, regs, hint.rhs))

StoreLess(of, address) ==
    IF isError(of.error)
      THEN Result(of.segments, of.error)
      ELSE assertEq(of.segments, address,
                    Felt(IF of.lhs.inner < of.rhs.inner THEN 1 ELSE 0))

testLessThan(segments, regs, hint) ==
    StoreLess(Operands(segments, regs, hint), cellRefToRelocatable(regs, hint.dst))

\* An assertion, unless the one before has thrown
ThenStore(write, address, value) ==
    IF isError(write.value) THEN write ELSE assertEq(write.segments, address, value)

\* The quotient is stored before the remainder: it stays when the latter fails.
StoreQuotient(of, quotientAddress, remainderAddress) ==
    IF isError(of.error) THEN Result(of.segments, of.error)
    ELSE IF of.rhs = Zero THEN Result(of.segments, Error("CannotDivideByZero"))
    ELSE ThenStore(assertEq(of.segments, quotientAddress,
                            Felt(of.lhs.inner \div of.rhs.inner)),
                   remainderAddress, Felt(of.lhs.inner % of.rhs.inner))

divMod(segments, regs, hint) ==
    StoreQuotient(Operands(segments, regs, hint),
                  cellRefToRelocatable(regs, hint.quotient),
                  cellRefToRelocatable(regs, hint.remainder))

\* handlers[hint.type](vm, hint)
executeHint(segments, regs, hint) ==
    IF hint.type = "AllocSegment" THEN allocSegment(segments, regs, hint)
    ELSE IF hint.type = "TestLessThan" THEN testLessThan(segments, regs, hint)
    ELSE IF hint.type = "DivMod" THEN divMod(segments, regs, hint)
    ELSE Result(segments, Error("UnknownHint"))
=============================================================================
