----------------------------- MODULE DictPrograms -----------------------------
(***************************************************************************)
(* Programs that use dictionaries, as the Cairo compiler emits them: each  *)
(* hint of DictHints and SquashHints with the instructions around it.  The *)
(* hints are the code's; the programs are external to it.                  *)
(*                                                                         *)
(* A step is one hint and the instructions up to the next one.  The values *)
(* a hint takes and the cells it fills are fresh cells at ap.  Segments:   *)
(* execution, arena info, arena, range check, then the dictionaries.       *)
(***************************************************************************)
EXTENDS SquashHints

CONSTANTS
    Keys,           \* the keys programs use, integers
    NewValues,      \* the values they store
    AheadValues,    \* the values they write ahead of a hint that fills the cell
    Limits          \* bounds on what a program does: how many dictionaries, accesses,
                    \* cells written ahead and squashes, and how many keys

ASSUME ProgramAssumption ==
    /\ Keys \subseteq 0..(P - 1)
    /\ NewValues \cup AheadValues \subseteq SegmentValue
    /\ Limits \subseteq [dicts : Nat, accesses : Nat, ahead : Nat, squashes : Nat,
                          keys : SUBSET Keys]

\* The segments there are before the dictionaries
ASSUME SegmentAssumption == {"none", "segment_arena", "range_check"} \subseteq Builtins

\* A program stays below 2^53 cells in a segment: a number of cells is exact as a double,
\* and far below the prime.
ASSUME ExactAssumption ==
    \A bound \in Limits :
        \A n \in 0..(3 * (bound.dicts + bound.accesses + bound.squashes) + 3) :
            n < P /\ ToNumber[n] = n

VARIABLES
    limits,     \* the bounds of this program
    ap,         \* the first free cell of the execution segment
    arenaPtr,   \* the end of the arena
    dictPtr,    \* the end of each dictionary, by its segment
    open,       \* the dictionaries with an entry that is read and not yet updated
    ahead,      \* how many cells were written ahead of their hint
    pending,    \* what the program asserts before it comes to its next hint
    squash,     \* where the program is in squashing which dictionary
    visited,    \* the accesses of that dictionary it has gone through
    squashed    \* the dictionaries that were squashed

programVars == <<limits, ap, arenaPtr, dictPtr, open, ahead, pending, squash, visited,
                 squashed>>
vars == <<hintVars, programVars>>

Info == 1
Arena == 2
RangeCheck == 3

ArenaBlock(o, dicts, count) ==
    [x \in o..(o + 2) |-> IF x = o THEN Relocatable(Info, 0)
                          ELSE IF x = o + 1 THEN Felt(dicts)
                          ELSE Felt(count)]

NotSquashing == [at |-> "none", dict |-> 0]

Init ==
    /\ segments = <<Segment("none"), Segment("segment_arena"),
                    [builtin |-> "segment_arena", cells |-> ArenaBlock(0, 0, 0)],
                    Segment("range_check")>>
    /\ InitManagers
    /\ thrown = undefined
    /\ limits \in Limits
    /\ ap = 0
    /\ arenaPtr = 3
    /\ dictPtr = NoCells
    /\ open = {}
    /\ ahead = 0
    /\ pending = <<>>
    /\ squash = NotSquashing
    /\ visited = <<>>
    /\ squashed = {}

-----------------------------------------------------------------------------
(* Frames: a pointer at ap and two cells after it *)

FRAME == 3

Regs == [Pc |-> Relocatable(0, 0), Ap |-> Relocatable(0, ap), Fp |-> Relocatable(0, 0)]

Cell(o) == [register |-> "Ap", offset |-> o]
DerefAp(o) == [type |-> "Deref", cell |-> Cell(o)]
Imm(n) == [type |-> "Immediate", value |-> Felt(n)]
Plus(o, n) == [type |-> "BinOp", op |-> "Add", a |-> Cell(o), b |-> Imm(n)]

WithCell(segs, s, o, v) == [segs EXCEPT ![s + 1].cells = Put(@, o, v)]

\* The memory once the program has put a pointer, or a pointer and a value, at ap
Framed(pointer) == WithCell(segments, 0, ap, pointer)
FramedWith(pointer, v) == WithCell(Framed(pointer), 0, ap + 1, v)

\* The cell of the frame a hint has filled
Filled(o) == CellAt(segments', Relocatable(0, ap + o))

DictEnd(d) == Relocatable(d, dictPtr[d])
AccessCount(d) == dictPtr[d] \div DICT_ACCESS_SIZE
AccessTotal ==
    Cardinality({access \in (DOMAIN dictPtr) \X (1..limits.accesses) :
                     access[2] <= AccessCount(access[1])})
CellOf(d, o) == CellAt(segments, Relocatable(d, o))

Running == thrown = undefined

\* The program is at its next hint, and not inside a squash.
Ready == Running /\ pending = <<>> /\ squash.at = "none"

-----------------------------------------------------------------------------
(* The instructions between two hints *)

\* The next assertion [address] = value
AssertInstruction ==
    /\ Running
    /\ pending # <<>>
    /\ AssertEq(segments, Head(pending).address, Head(pending).value)
    /\ pending' = Tail(pending)
    /\ UNCHANGED <<dictManager, squashedDictManager, limits, ap, arenaPtr, dictPtr, open, ahead,
                   squash, visited, squashed>>

Equals(s, o, v) == [address |-> Relocatable(s, o), value |-> v]

\* The block appended to the arena
NewBlock(dicts, squashes) ==
    <<Equals(Arena, arenaPtr, Relocatable(Info, 0)),
      Equals(Arena, arenaPtr + 1, Felt(dicts)),
      Equals(Arena, arenaPtr + 2, Felt(squashes))>>

\* A cell that a hint will fill is written before: the previous value of the next
\* access of a dictionary, the info of the next dictionary.
WriteAhead ==
    /\ Ready
    /\ ahead < limits.ahead
    /\ \E address \in {Relocatable(d, dictPtr[d] + PREV_VALUE_OFFSET) :
                           d \in DOMAIN dictPtr \ (open \cup squashed)}
                      \cup {Relocatable(Info, DICT_ACCESS_SIZE * Cardinality(DOMAIN dictPtr))},
          v \in AheadValues :
          /\ CellAt(segments, address) = undefined
          /\ Written(assertEq(segments, address, v))
    /\ ahead' = ahead + 1
    /\ UNCHANGED <<dictManager, squashedDictManager, limits, ap, arenaPtr, dictPtr, open, pending,
                   squash, visited, squashed>>

-----------------------------------------------------------------------------
(* Dictionaries *)

\* The rest of a step, unless its hint has thrown
Unless(hasThrown, advance) ==
    IF hasThrown
      THEN UNCHANGED programVars
      ELSE advance /\ ap' = ap + FRAME /\ UNCHANGED <<limits, ahead, squashed>>

Alloc ==
    /\ Ready
    /\ Cardinality(DOMAIN dictPtr) < limits.dicts
    /\ \E segs \in {Framed(Relocatable(Arena, arenaPtr))} :
          allocFelt252Dict(segs, Regs, DerefAp(0))
    /\ Unless(thrown' # undefined,
           /\ dictPtr' = Put(dictPtr, Len(segments), 0)
           /\ pending' = NewBlock(Cardinality(DOMAIN dictPtr) + 1, Cardinality(squashed))
           /\ arenaPtr' = arenaPtr + 3
           /\ UNCHANGED <<open, squash, visited>>)

\* felt252_dict_entry_get
EntryGet(d, key) ==
    /\ Ready
    /\ d \notin open \cup squashed
    /\ AccessTotal < limits.accesses
    /\ \E segs \in {FramedWith(DictEnd(d), Felt(key))} :
          felt252DictEntryInit(segs, Regs, DerefAp(0), DerefAp(1))
    /\ Unless(thrown' # undefined,
           /\ pending' = <<Equals(d, dictPtr[d], Felt(key))>>
           /\ dictPtr' = [dictPtr EXCEPT ![d] = @ + DICT_ACCESS_SIZE]
           /\ open' = open \cup {d}
           /\ UNCHANGED <<arenaPtr, squash, visited>>)

\* felt252_dict_entry_finalize
EntryFinalize(d, v) ==
    /\ Ready
    /\ d \in open
    /\ \E segs \in {FramedWith(Relocatable(d, dictPtr[d] - DICT_ACCESS_SIZE), v)} :
          felt252DictEntryUpdate(segs, Regs, Plus(0, DICT_ACCESS_SIZE), DerefAp(1))
    /\ Unless(thrown' # undefined,
           /\ pending' = <<Equals(d, dictPtr[d] - 1, v)>>
           /\ open' = open \ {d}
           /\ UNCHANGED <<arenaPtr, dictPtr, squash, visited>>)

-----------------------------------------------------------------------------
(* felt252_dict_squash, step by step; a dictionary without accesses needs none *)

\* The info of the dictionary in the arena: its start, which the program checks, its
\* end and when it is squashed
InfoChecks(index, d) ==
    <<Equals(Info, 3 * index, Relocatable(d, 0)),
      Equals(Info, 3 * index + 1, DictEnd(d)),
      Equals(Info, 3 * index + 2, Felt(Cardinality(squashed)))>>

BeginSquash(d) ==
    /\ Ready
    /\ d \notin open \cup squashed
    /\ AccessCount(d) > 0
    /\ Cardinality(squashed) < limits.squashes
    /\ \E segs \in {Framed(DictEnd(d))} :
          getSegmentArenaIndex(segs, Regs, DerefAp(0), Cell(1))
    /\ Unless(thrown' # undefined,
           /\ pending' = InfoChecks(Filled(1).inner, d)
                         \o NewBlock(Cardinality(DOMAIN dictPtr), Cardinality(squashed) + 1)
           /\ arenaPtr' = arenaPtr + 3
           /\ squash' = [at |-> "init", dict |-> d]
           /\ UNCHANGED <<dictPtr, open, visited>>)

Squashing(step) == Running /\ pending = <<>> /\ squash.at = step

Jump(step) == squash' = [squash EXCEPT !.at = step]

\* The program goes on with a step of the squash.
Continue(hasThrown, step, visits) ==
    Unless(hasThrown, /\ Jump(step)
                      /\ visited' = visits
                      /\ UNCHANGED <<arenaPtr, dictPtr, open, pending>>)

InitSquash ==
    /\ Squashing("init")
    /\ \E segs \in {Framed(Relocatable(squash.dict, 0))} :
          initSquashData(segs, Regs, DerefAp(0), Imm(dictPtr[squash.dict]),
                         Imm(AccessCount(squash.dict)), Cell(1), Cell(2))
    /\ Continue(thrown' # undefined, "index", visited)

RangeCheckPtr == Relocatable(RangeCheck, Length(segments[RangeCheck + 1].cells))

FirstIndex ==
    /\ Squashing("index")
    /\ \E segs \in {Framed(RangeCheckPtr)} :
          getCurrentAccessIndex(segs, Regs, DerefAp(0))
    /\ Continue(thrown' # undefined, "skip",
                Append(visited, CellAt(segments', RangeCheckPtr).inner))

SkipLoop ==
    /\ Squashing("skip")
    /\ shouldSkipSquashLoop(segments, Regs, Cell(1))
    /\ Continue(thrown' # undefined, IF Filled(1) = Zero THEN "delta" ELSE "key", visited)

NextIndex ==
    /\ Squashing("delta")
    /\ getCurrentAccessDelta(segments, Regs, Cell(1))
    /\ Continue(thrown' # undefined, "continue",
                Append(visited, Last(visited) + Filled(1).inner + 1))

ContinueLoop ==
    /\ Squashing("continue")
    /\ shouldContinueSquashLoop(segments, Regs, Cell(1))
    /\ Continue(thrown' # undefined, IF Filled(1) = Zero THEN "key" ELSE "delta", visited)

\* The program counts the accesses that remain, and asks for a key while there are.
NextKey ==
    /\ Squashing("key")
    /\ Len(visited) < AccessCount(squash.dict)
    /\ getNextDictKey(segments, Regs, Cell(1))
    /\ Continue(thrown' # undefined, "index", visited)

EndSquash ==
    /\ Squashing("key")
    /\ Len(visited) >= AccessCount(squash.dict)
    /\ squash' = NotSquashing
    /\ visited' = <<>>
    /\ squashed' = squashed \cup {squash.dict}
    /\ UNCHANGED <<hintVars, limits, ap, arenaPtr, dictPtr, open, ahead, pending>>

SquashStep ==
    \/ InitSquash \/ FirstIndex \/ SkipLoop \/ NextIndex \/ ContinueLoop
    \/ NextKey \/ EndSquash

Next ==
    \/ AssertInstruction
    \/ WriteAhead
    \/ Alloc
    \/ \E d \in DOMAIN dictPtr :
          \/ \E key \in limits.keys : EntryGet(d, key)
          \/ \E v \in NewValues : EntryFinalize(d, v)
          \/ BeginSquash(d)
    \/ SquashStep

\* CairoRunner.run steps until the final pc: a program that has begun a squash, in
\* which it has no choice to make, goes on with it.
Fairness == WF_vars(AssertInstruction \/ SquashStep)

Spec == Init /\ [][Next]_vars /\ Fairness
=============================================================================
