------------------------------- MODULE DictHints -------------------------------
(***************************************************************************)
(* The hints that allocate, read and update dictionaries (hints/dict/*.ts) *)
(* and the dictionary manager of the machine (vm/virtualMachine.ts:661-686)*)
(*                                                                         *)
(* One action per handler.  Its first two parameters are the memory and    *)
(* the registers when the hint is executed, the others its operands.  A    *)
(* handler that throws sets thrown, with what it changed before in place.  *)
(* A Felt that is a key or an index is kept as its integer.                *)
(***************************************************************************)
EXTENDS Hints, FiniteSets

\* Reading never changes the memory: the segments a program with dictionaries
\* is modelled with deduce nothing.
ASSUME NoDeductionAssumption == Builtins \cap DeductionBuiltins = {}

VARIABLES
    segments,       \* vm.memory.segments
    dictManager,    \* vm.dictManager: from the number of a segment to a Dictionary
    keys,           \* vm.squashedDictManager.keys
    keyToIndices,   \* vm.squashedDictManager.keyToIndices
    thrown          \* the exception that ended the run, undefined before

squashedDictManager == <<keys, keyToIndices>>
hintVars == <<segments, dictManager, squashedDictManager, thrown>>

DICT_ACCESS_SIZE == 3
DICT_NUMBER_OFFSET == 2
INFO_PTR_OFFSET == 3
KEY_OFFSET == 3
PREV_VALUE_OFFSET == 1

InitManagers ==
    /\ dictManager = NoCells
    /\ keys = <<>>
    /\ keyToIndices = NoCells

-----------------------------------------------------------------------------
(* Reading.  An error that was read is passed on by what depends on it. *)

\* memory.get(address)
Load(segs, address) == IF isError(address) THEN address ELSE get(segs, address).value

Expect(v, ok, error) == IF isError(v) \/ ok THEN v ELSE Error(error)

\* memory.get(address), which must be a felt
LoadFelt(segs, address) ==
    LET v == Load(segs, address) IN Expect(v, isFelt(v), "ExpectedFelt")

LoadRelocatable(segs, address) ==
    LET v == Load(segs, address) IN Expect(v, isRelocatable(v), "ExpectedRelocatable")

\* address.sub(n)
Back(address, n) ==
    IF isError(address) THEN address
    ELSE IF address.offset < n THEN Error("OffsetUnderflow")
    ELSE AddOffset(address, -n)

\* What is thrown by reads made in this order, undefined when none throws
FirstError(reads) ==
    LET failed == {i \in DOMAIN reads : isError(reads[i])}
    IN IF failed = {} THEN undefined
                      ELSE reads[CHOOSE i \in failed : \A j \in failed : i <= j]

Throw(segs, error) == segments' = segs /\ thrown' = error

\* What a write leaves; its value is an error or undefined.
Written(write) == segments' = write.segments /\ thrown' = write.value

AssertEq(segs, address, value) ==
    \E at \in {address}, v \in {value} :
    \E write \in {assertEq(segs, at, v)} : Written(write)

PointerOf(segs, regs, operand) == getPointer(segs, regs, operand).value
ValueOf(segs, regs, operand) == getResOperandValue(segs, regs, operand).value

-----------------------------------------------------------------------------
(* Dictionaries *)

Dictionary(id) == [tag |-> "dictionary", id |-> Felt(id), entries |-> NoCells]

\* vm.getDict(address)
getDict(address) ==
    IF isError(address) THEN address
    ELSE IF address.segmentId \in DOMAIN dictManager THEN dictManager[address.segmentId]
    ELSE Error("DictNotFound")

\* dict.get(key), zero when the key is new
Entry(dict, key) == IF key \in DOMAIN dict.entries THEN dict.entries[key] ELSE Zero

\* dict.set(key, value) in the dictionary of a segment
SetEntry(segmentId, key, value) ==
    dictManager' = [dictManager EXCEPT ![segmentId].entries = Put(@, key, value)]

\* (mutant: the dictionaries are numbered by their segment)
newDictBySegment(segs) == dictManager' = Put(dictManager, Len(segs), Dictionary(Len(segs)))

\* (mutant: the dictionary is filed under the segment after its own)
newDictMisfiled(segs) ==
    dictManager' = Put(dictManager, Len(segs) + 1,
                       Dictionary(Cardinality(DOMAIN dictManager)))

\* A dictionary, numbered after those there are, for the segment to be added to segs
newDict(segs) ==
    dictManager' = Put(dictManager, Len(segs),
                       Dictionary(Cardinality(DOMAIN dictManager)))

\* The number of dictionaries is read before the pointer to their info.  The segment
\* and the dictionary stay when the info cell holds something else.
allocFelt252Dict(segs, regs, segmentArenaPtr) ==
    \E arenaPtr \in {PointerOf(segs, regs, segmentArenaPtr)} :
    \E dictNumber \in {LoadFelt(segs, Back(arenaPtr, DICT_NUMBER_OFFSET))} :
    \E infoPtr \in {LoadRelocatable(segs, Back(arenaPtr, INFO_PTR_OFFSET))} :
    \E error \in {FirstError(<<dictNumber, infoPtr>>)} :
        /\ IF isError(error)
             THEN Throw(segs, error) /\ UNCHANGED dictManager
             ELSE /\ newDict(segs)
                  /\ \E added \in {addSegment(segs, "none")} :
                        AssertEq(added,
                                 AddFelt(infoPtr, Mul(dictNumber, Felt(DICT_ACCESS_SIZE))),
                                 Relocatable(Len(segs), 0))
        /\ UNCHANGED squashedDictManager

\* (mutant: the entry is initialized, whether it is there or not)
felt252DictEntryInitReset(segs, regs, dictPtr, key) ==
    \E address \in {PointerOf(segs, regs, dictPtr)} :
    \E keyValue \in {ValueOf(segs, regs, key)} :
        /\ SetEntry(address.segmentId, keyValue.inner, Zero)
        /\ AssertEq(segs, AddOffset(address, PREV_VALUE_OFFSET), Zero)
        /\ UNCHANGED squashedDictManager

\* (mutant: a previous value that memory already holds becomes that of the entry)
felt252DictEntryInitFromMemory(segs, regs, dictPtr, key) ==
    \E address \in {PointerOf(segs, regs, dictPtr)} :
    \E keyValue \in {ValueOf(segs, regs, key)} :
    \E held \in {Load(segs, AddOffset(address, PREV_VALUE_OFFSET))} :
        /\ SetEntry(address.segmentId, keyValue.inner,
                    IF held = undefined THEN Entry(getDict(address), keyValue.inner) ELSE held)
        /\ AssertEq(segs, AddOffset(address, PREV_VALUE_OFFSET),
                    Entry(getDict(address), keyValue.inner))
        /\ UNCHANGED squashedDictManager

\* The entry is set before its value is asserted, and stays when that throws.
felt252DictEntryInit(segs, regs, dictPtr, key) ==
    \E address \in {PointerOf(segs, regs, dictPtr)} :
    \E keyValue \in {ValueOf(segs, regs, key)} :
    \E error \in {FirstError(<<address, keyValue, getDict(address)>>)} :
        /\ IF isError(error)
             THEN Throw(segs, error) /\ UNCHANGED dictManager
             ELSE \E prevValue \in {Entry(getDict(address), keyValue.inner)} :
                     /\ SetEntry(address.segmentId, keyValue.inner, prevValue)
                     /\ AssertEq(segs, AddOffset(address, PREV_VALUE_OFFSET), prevValue)
        /\ UNCHANGED squashedDictManager

\* dict_ptr is the pointer after the access: its key is three cells before.
felt252DictEntryUpdate(segs, regs, dictPtr, value) ==
    \E address \in {PointerOf(segs, regs, dictPtr)} :
    \E key \in {LoadFelt(segs, Back(address, KEY_OFFSET))} :
    \E val \in {IF value.type = "Deref" THEN getSegmentValue(segs, regs, value.cell).value
                                        ELSE ValueOf(segs, regs, value)} :
    \E error \in {FirstError(<<key, val, getDict(address)>>)} :
        /\ segments' = segs
        /\ thrown' = error
        /\ IF isError(error) THEN UNCHANGED dictManager
                             ELSE SetEntry(address.segmentId, key.inner, val)
        /\ UNCHANGED squashedDictManager

getSegmentArenaIndex(segs, regs, dictEndPtr, dictIndex) ==
    \E dict \in {getDict(PointerOf(segs, regs, dictEndPtr))} :
        /\ IF isError(dict) THEN Throw(segs, dict)
                            ELSE AssertEq(segs, cellRefToRelocatable(regs, dictIndex), dict.id)
        /\ UNCHANGED <<dictManager, squashedDictManager>>
=============================================================================
