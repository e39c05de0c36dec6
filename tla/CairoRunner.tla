----------------------------- MODULE CairoRunner -----------------------------
(***************************************************************************)
(* Class CairoRunner (runners/cairoRunner.ts): it lays out the memory of a *)
(* program and its entry point, steps the virtual machine until pc is the  *)
(* final pc, then relocates memory and trace (VirtualMachine.relocate).    *)
(***************************************************************************)
EXTENDS VirtualMachine

CONSTANTS
    Programs,       \* what is run: bytecode, hints, builtins and initialPc
    Allowed,        \* the builtins of the layout, in its order, then
                    \* segment_arena, gas_builtin and system
    RelocateOffset, \* the offset run() is asked to relocate at
    MaxSteps        \* bound on the number of instructions of a run

ASSUME RunnerAssumption ==
    /\ "none" \in Builtins
    /\ RelocateOffset \in Nat
    /\ MaxSteps \in Nat
    /\ \A p \in Programs :
          /\ p.bytecode \in Seq(Felts)
          /\ p.builtins \in Seq(STRING)
          /\ \A o \in DOMAIN p.hints : p.hints[o] \in Seq(Hint)
          /\ p.initialPc \in Nat

VARIABLES
    program,    \* the program of the run
    relocated   \* relocatedMemory and relocatedTrace, undefined before the end

vars == <<vmVars, program, relocated>>

-----------------------------------------------------------------------------
(* The constructor *)

\* s is a subsequence of t.
isSubsequence(s, t) ==
    \E at \in [DOMAIN s -> DOMAIN t] :
        /\ \A i \in DOMAIN s : s[i] = t[at[i]]
        /\ \A i, j \in DOMAIN s : i < j => at[i] < at[j]

\* getBuiltin: a name without a handler gets a plain segment.
getBuiltin(name) == IF name \in Builtins THEN name ELSE "none"

\* The position of segment_arena among the builtins of p, 0 when it is not there
ArenaIndex(p) ==
    IF \E k \in DOMAIN p.builtins : p.builtins[k] = "segment_arena"
      THEN CHOOSE k \in DOMAIN p.builtins : p.builtins[k] = "segment_arena"
      ELSE 0

\* segment_arena takes two segments, the info segment first.
BuiltinSegmentCount(p) == Len(p.builtins) + (IF ArenaIndex(p) = 0 THEN 0 ELSE 1)

\* The segment the pointer of the k-th builtin is in
BuiltinSegmentId(p, k) ==
    IF ArenaIndex(p) = 0 \/ k < ArenaIndex(p) THEN k + 1 ELSE k + 2

\* What each builtin finds on the stack: the base of its segment; the arena
\* has three cells already.
BuiltinPointer(p, k) ==
    Relocatable(BuiltinSegmentId(p, k), IF k = ArenaIndex(p) THEN 3 ELSE 0)

ArenaCells(p) ==
    [o \in 0..2 |-> IF o = 0 THEN Relocatable(ArenaIndex(p) + 1, 0) ELSE Zero]

ReturnFp(p) == Relocatable(2 + BuiltinSegmentCount(p), 0)
FinalPc(p) == Relocatable(3 + BuiltinSegmentCount(p), 0)

StackSize(p) == Len(p.builtins) + 2

\* The stack of the entry point: the builtins, the frame and the pc to return to
StackCells(p) ==
    [o \in 0..(StackSize(p) - 1) |->
        IF o < Len(p.builtins) THEN BuiltinPointer(p, o + 1)
        ELSE IF o = Len(p.builtins) THEN ReturnFp(p)
        ELSE FinalPc(p)]

BytecodeCells(p) == [o \in 0..(Len(p.bytecode) - 1) |-> p.bytecode[o + 1]]

\* The handler of segment i of a builtin
HandlerOf(p, i) ==
    IF \E k \in DOMAIN p.builtins : BuiltinSegmentId(p, k) = i
      THEN getBuiltin(p.builtins[CHOOSE k \in DOMAIN p.builtins : BuiltinSegmentId(p, k) = i])
      ELSE "none"

\* The segments the constructor leaves, setValues of the bytecode and of the
\* stack included: program, execution, builtins, return fp, final pc.
InitialSegments(p) ==
    [i \in 1..(BuiltinSegmentCount(p) + 4) |->
        [builtin |-> HandlerOf(p, i - 1),
         cells |-> IF i = 1 THEN BytecodeCells(p)
                   ELSE IF i = 2 THEN StackCells(p)
                   ELSE IF ArenaIndex(p) # 0 /\ i = ArenaIndex(p) + 3 THEN ArenaCells(p)
                   ELSE NoCells]]

Init ==
    /\ program \in {p \in Programs : isSubsequence(p.builtins, Allowed)}
    /\ segments = InitialSegments(program)
    /\ pc = Relocatable(0, program.initialPc)
    /\ ap = Relocatable(1, StackSize(program))
    /\ fp = Relocatable(1, StackSize(program))
    /\ InitMachine
    /\ relocated = undefined

finalPc == FinalPc(program)

\* (mutant: the second segment of the arena is not its own)
getBuiltinSegmentAfterArena(p, k) ==
    k + (IF ArenaIndex(p) # 0 /\ k > ArenaIndex(p) THEN 2 ELSE 1)

\* getBuiltinSegment of the k-th builtin: the number of its segment, computed from
\* the names alone
getBuiltinSegment(p, k) ==
    k + (IF ArenaIndex(p) # 0 /\ k >= ArenaIndex(p) THEN 2 ELSE 1)

-----------------------------------------------------------------------------
(* The run *)

\* The hints are found by the offset of pc alone.
HintsAtPc == IF pc.offset \in DOMAIN program.hints THEN program.hints[pc.offset] ELSE <<>>

InLoop == Running /\ pc # finalPc /\ currentStep < MaxSteps

StepHint == InLoop /\ ExecuteHint(HintsAtPc) /\ UNCHANGED <<program, relocated>>

StepInstruction ==
    InLoop /\ ExecuteInstruction(HintsAtPc) /\ UNCHANGED <<program, relocated>>

\* (mutant: a segment is placed by its own length, not by the one before)
relocationTableShifted ==
    LET start[i \in DOMAIN segments] ==
            IF i = 1 THEN RelocateOffset
                     ELSE start[i - 1] + Length(segments[i].cells)
    IN start

\* The address of the first cell of each segment: the lengths of those before
relocationTable ==
    LET start[i \in DOMAIN segments] ==
            IF i = 1 THEN RelocateOffset
                     ELSE start[i - 1] + Length(segments[i - 1].cells)
    IN start

RelocatedAddress(r) == relocationTable[r.segmentId + 1] + r.offset

RelocatedValue(v) == IF isFelt(v) THEN v ELSE Felt(RelocatedAddress(v))

\* The cells that have an index in their array
RelocatableCells ==
    UNION {{Relocatable(i - 1, o) : o \in Indices(CellsOf(i))} : i \in DOMAIN segments}

relocate == [
    memory |-> {[address |-> RelocatedAddress(r),
                 value |-> RelocatedValue(CellAt(segments, r))] : r \in RelocatableCells},
    trace |-> [k \in DOMAIN trace |->
                 [r \in DOMAIN trace[k] |-> Felt(RelocatedAddress(trace[k][r]))]]]

\* pc is the final pc: the loop is left and run() relocates.
Finish ==
    /\ Running
    /\ pc = finalPc
    /\ relocated = undefined
    /\ relocated' = relocate
    /\ UNCHANGED <<vmVars, program>>

Next == StepHint \/ StepInstruction \/ Finish

Spec == Init /\ [][Next]_vars

-----------------------------------------------------------------------------
(* Properties *)

\* No register, no register of the trace and no cell ever points into a segment
\* that does not exist, or before the first cell of one: neither the arithmetic of
\* a program nor its hints can forge a segment number or an offset below zero,
\* so no step throws SegmentOutOfBounds, and relocation finds every pointer in its
\* table and takes none into the segment before its own.
\* virtualMachine.ts:155-464, relocatable.ts
NoDanglingPointer ==
    /\ \A r \in DOMAIN registers : Points(registers[r])
    /\ \A k \in DOMAIN trace : \A r \in DOMAIN trace[k] : Points(trace[k][r])
    /\ \A i \in DOMAIN segments :
          \A o \in DOMAIN CellsOf(i) :
              isRelocatable(CellsOf(i)[o]) => Points(CellsOf(i)[o])

\* The instruction the k-th entry of the trace executed, and its operands as the
\* memory holds them now
Executed(k) == decodeInstruction(CellAt(segments, trace[k].Pc).inner)
Op0(k) == CellAt(segments, op0Address(Executed(k), trace[k]))
Op1(k) == CellAt(segments, op1Address(Executed(k), trace[k], Op0(k)))
Dst(k) == CellAt(segments, dstAddress(Executed(k), trace[k]))

Asserts(k, logic) == Executed(k).opcode = "AssertEq" /\ Executed(k).resLogic = logic

\* Every sum and product asserted by an instruction of the trace holds of the
\* memory from then on, whichever operand was deduced, by subtraction or by
\* division, and whatever the operands (felts or pointers).
\* virtualMachine.ts:238-271
AssertedResultsHold ==
    \A k \in DOMAIN trace :
        /\ Asserts(k, "Add") => Dst(k) = Add(Op0(k), Op1(k))
        /\ Asserts(k, "Mul") => Dst(k) = Mul(Op0(k), Op1(k))

\* An assert_eq of two cells that was executed makes them equal: instruction.ts
\* calls it "Assert equal instruction".
AssertedCellsAreEqual ==
    \A k \in DOMAIN trace : Asserts(k, "Op1") => Dst(k) = Op1(k)

\* The segment getBuiltinSegment returns for a builtin is the one the entry point
\* was given a pointer to, with the handler of that builtin, however many segments
\* the builtins before it take.  cairoRunner.ts:76-95 and 210-218.
BuiltinSegmentsAreFound ==
    \A k \in DOMAIN program.builtins :
        LET id == getBuiltinSegment(program, k)
        IN /\ id = CellAt(segments, Relocatable(1, k - 1)).segmentId
           /\ segments[id + 1].builtin = getBuiltin(program.builtins[k])

\* Relocation gives every cell an address of its own, and the relocated trace
\* finds at each of its pcs the instruction that was executed there.
\* virtualMachine.ts:425-457
RelocationKeepsProgram ==
    relocated # undefined =>
        /\ \A r, s \in RelocatableCells :
              r # s => RelocatedAddress(r) # RelocatedAddress(s)
        /\ \A k \in DOMAIN trace :
              [address |-> relocated.trace[k].Pc.inner,
               value |-> CellAt(segments, trace[k].Pc)] \in relocated.memory
=============================================================================
