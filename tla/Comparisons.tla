----------------------------- MODULE Comparisons -----------------------------
(***************************************************************************)
(* The hints that compare felts and addresses: assertLeFindSmallArc.ts,    *)
(* assertLeIsFirstArcExcluded.ts, assertLeIsSecondArcExcluded.ts and       *)
(* math/testLessThanOrEqualAddress.ts in hints/, and the variable of the   *)
(* scope (scopeManager.ts) through which the first tells the next two what *)
(* it found.                                                               *)
(*                                                                         *)
(* To prove a <= b a program splits the field in three arcs, from 0 to a,  *)
(* from a to b and from b to -1, and has two of them range-checked: none   *)
(* of the numbers a, b - a and -1 - b wraps when the two least ones do     *)
(* not.  The program calls the hints one after the other, each with a cell *)
(* of its own for the answer.                                              *)
(***************************************************************************)
EXTENDS Hints

CONSTANTS
    Frame,      \* the cells the program has filled at fp: what the operands read
    Pointers,   \* the operands for the range check pointer,
    Numbers,    \* for the two numbers compared
    Addresses,  \* and for the two addresses compared
    CallLimit,  \* how many hints the program calls
    DecimalBound,       \* 10^21, from which on a number is not written by its digits
    ExponentText(_)     \* but by some of them and an exponent

RangeCheck == 2     \* the segment of the builtin

ASSUME ComparisonAssumption ==
    /\ {"none", "range_check"} \subseteq Builtins
    /\ Builtins \cap DeductionBuiltins = {}
    /\ Pointers \cup Numbers \cup Addresses \subseteq ResOperand
    /\ CallLimit \in Nat
    /\ DecimalBound \in Nat /\ DecimalBound > 9

\* Values of the machine: no pointer is into a segment that does not exist.
ASSUME FrameAssumption ==
    /\ DOMAIN Frame \subseteq Nat
    /\ Frame \in [DOMAIN Frame ->
                    Felts \cup [tag : {"relocatable"}, segmentId : 0..2, offset : Nat]]

\* An operand for the range check pointer takes it from a cell the program has
\* filled, and a pointer there is that of the builtin.
ASSUME PointerAssumption ==
    \A operand \in {p \in Pointers : p.type \in {"Deref", "BinOp"}} :
        LET cell == IF operand.type = "Deref" THEN operand.cell ELSE operand.a
        IN /\ cell.register = "Fp" /\ cell.offset \in DOMAIN Frame
           /\ isRelocatable(Frame[cell.offset]) => Frame[cell.offset].segmentId = RangeCheck

\* What a quotient must be multiplied by for the quotients that the range check
\* accepts to reach a third, and a half, of the field: the two numerals of the code
PrimeOver3High == ((P \div 3) \div RangeBound) + 1
PrimeOver2High == ((P \div 2) \div RangeBound) + 1

ASSUME HighAssumption ==
    /\ RangeBound > 0
    /\ \A high \in {PrimeOver3High, PrimeOver2High} : high < P /\ high * RangeBound <= P

VARIABLES
    segments,   \* vm.memory.segments
    scope,      \* the main scope, the only one the machine has
    ap,         \* the offset of the next cell of the program
    thrown,     \* the exception that ended the run, undefined before
    calls       \* the hints that returned, with what they were called for

vars == <<segments, scope, ap, thrown, calls>>

Regs == [Pc |-> Relocatable(0, 0), Ap |-> Relocatable(1, ap), Fp |-> Relocatable(1, 0)]

dst == Regs.Ap

Init ==
    /\ segments = <<Segment("none"), [builtin |-> "none", cells |-> Frame],
                    Segment("range_check")>>
    /\ scope = [name \in {} |-> 0]
    /\ ap = Length(Frame)
    /\ thrown = undefined
    /\ calls = <<>>

\* A hint leaves its write; the program goes on unless it threw.
Return(write, call) ==
    /\ segments' = write.segments
    /\ IF isError(write.value)
         THEN thrown' = write.value /\ UNCHANGED <<ap, calls>>
         ELSE thrown' = undefined /\ ap' = ap + 1 /\ calls' = Append(calls, call)

-----------------------------------------------------------------------------
(* The scope *)

\* scopeManager.get(name)
getVariable(name) == IF name \in DOMAIN scope THEN scope[name]
                                              ELSE Error("VariableNotInScope")

\* (mutant: a variable keeps its first value)
setVariableOnce(name, value) ==
    scope' = IF name \in DOMAIN scope THEN scope ELSE Put(scope, name, value)

\* scopeManager.set(name, value)
setVariable(name, value) == scope' = Put(scope, name, value)

-----------------------------------------------------------------------------
(* The three arcs *)

\* A JavaScript number
Number(n) == [tag |-> "number", n |-> n]

Arc(n, pos) == [tag |-> "arc", value |-> Felt(n), pos |-> Number(pos)]

\* (mutant: the positions are counted from one)
ArcsFromOne(a, b) ==
    <<Arc(a.inner, 1), Arc(b.inner - a.inner, 2), Arc(-1 - b.inner, 3)>>

Arcs(a, b) == <<Arc(a.inner, 0), Arc(b.inner - a.inner, 1), Arc(-1 - b.inner, 2)>>

Shorter(x, y) ==
    \/ x.value.inner < y.value.inner
    \/ x.value = y.value /\ x.pos.n < y.pos.n

\* (mutant: the arc of the middle comes last)
SortedMiddleLast(arcs) ==
    CHOOSE s \in [1..3 -> {arcs[i] : i \in 1..3}] :
        Shorter(s[1], s[3]) /\ Shorter(s[3], s[2])

\* The sort keeps the order of equal arcs.
Sorted(arcs) ==
    CHOOSE s \in [1..3 -> {arcs[i] : i \in 1..3}] :
        Shorter(s[1], s[2]) /\ Shorter(s[2], s[3])

Mod(a, n) == Felt(a.inner % n)

\* The quotient of the field, not of the integers
DivHigh(a, n) == Div(a, Felt(n))

\* The remainder of an arc and its quotient, in the two cells at ptr
StoreArc(write, ptr, arc, high) ==
    ThenStore(ThenStore(write, ptr, Mod(arc.value, high)),
              AddOffset(ptr, 1), DivHigh(arc.value, high))

\* The position of the greatest arc is in the scope before the pointer is read.
FindArcs(of, pointer) ==
    IF isError(of.error)
      THEN Return(Result(of.segments, of.error), undefined) /\ UNCHANGED scope
      ELSE \E arcs \in {Sorted(Arcs(of.lhs, of.rhs))} :
           \E ptr \in {getPointer(of.segments, Regs, pointer)} :
           \E least \in {StoreArc(ptr, ptr.value, arcs[1], PrimeOver3High)} :
           \E both \in {StoreArc(least, AddOffset(ptr.value, 2), arcs[2],
                                 PrimeOver2High)} :
               /\ setVariable("excluded_arc", arcs[3].pos)
               /\ Return(both, [hint |-> "arcs", at |-> ptr.value, a |-> of.lhs,
                                b |-> of.rhs, excluded |-> arcs[3].pos])

assertLeFindSmallArcs(rangeCheckPtr, a, b) ==
    \E of \in {Operands(segments, Regs, [lhs |-> a, rhs |-> b])} :
        FindArcs(of, rangeCheckPtr)

\* The field pos of a value: a number has none.
posOf(v) == IF v.tag = "arc" THEN v.pos ELSE undefined

\* The readers take the variable for an arc.
AssertFlag(hint, pos) ==
    \E excludedArc \in {getVariable("excluded_arc")} :
        /\ Return(IF isError(excludedArc)
                    THEN Result(segments, excludedArc)
                    ELSE assertEq(segments, dst,
                                  Felt(IF posOf(excludedArc) # Number(pos) THEN 1 ELSE 0)),
                  [hint |-> hint, at |-> dst, excluded |-> excludedArc])
        /\ UNCHANGED scope

assertLeIsFirstArcExcluded == AssertFlag("first", 0)
assertLeIsSecondArcExcluded == AssertFlag("second", 1)

-----------------------------------------------------------------------------
(* Addresses.  They are objects, which <= compares as texts: the number of *)
(* the segment, a colon and the offset.                                    *)

\* The characters of a text, in the order JavaScript compares them
MINUS == -1
COLON == 10

digits[n \in Nat] == IF n < 10 THEN <<n>> ELSE Append(digits[n \div 10], n % 10)

Decimal(n) == -DecimalBound < n /\ n < DecimalBound

NumberText(n) ==
    IF ~Decimal(n) THEN ExponentText(n)
    ELSE IF n < 0 THEN <<MINUS>> \o digits[-n] ELSE digits[n]

toString(r) == NumberText(r.segmentId) \o <<COLON>> \o NumberText(r.offset)

\* (mutant: a text is not below itself)
TextBelow(s, t) ==
    \E i \in DOMAIN t :
        /\ \A j \in 1..(i - 1) : s[j] = t[j]
        /\ i <= Len(s) => s[i] < t[i]

\* The order of texts: by the first character that differs, a prefix first
TextLeq(s, t) ==
    \/ s = t
    \/ \E i \in DOMAIN t :
          /\ i <= Len(s) + 1
          /\ \A j \in 1..(i - 1) : s[j] = t[j]
          /\ i <= Len(s) => s[i] < t[i]

StoreAnswer(of) ==
    IF isError(of.error)
      THEN Result(of.segments, of.error)
      ELSE assertEq(of.segments, dst,
                    Felt(IF TextLeq(toString(of.lhs), toString(of.rhs)) THEN 1 ELSE 0))

testLessThanOrEqualAddress(lhs, rhs) ==
    LET left == getResOperandRelocatable(segments, Regs, lhs)
    IN \E of \in {Both(left, getResOperandRelocatable(left.segments, Regs, rhs))} :
        /\ Return(StoreAnswer(of),
                  [hint |-> "address", at |-> dst, lhs |-> of.lhs, rhs |-> of.rhs])
        /\ UNCHANGED scope

-----------------------------------------------------------------------------

Running == thrown = undefined /\ Len(calls) < CallLimit

Next ==
    /\ Running
    /\ \/ \E ptr \in Pointers, a, b \in Numbers : assertLeFindSmallArcs(ptr, a, b)
       \/ assertLeIsFirstArcExcluded
       \/ assertLeIsSecondArcExcluded
       \/ \E lhs, rhs \in Addresses : testLessThanOrEqualAddress(lhs, rhs)

Spec == Init /\ [][Next]_vars

-----------------------------------------------------------------------------
(* Properties *)

Called(hint) == {calls[k] : k \in {i \in DOMAIN calls : calls[i].hint = hint}}

Held(address) == CellAt(segments, address)

\* The cells hold what a memory may hold, the variable a position.
\* memory.ts:44-56, assertLeFindSmallArc.ts:60.
TypeOK ==
    /\ \A i \in DOMAIN segments :
          segments[i].cells \in [DOMAIN segments[i].cells -> SegmentValue]
    /\ \A name \in DOMAIN scope : scope[name] \in {Number(pos) : pos \in 0..2}

\* The arcs of a call, as the natural numbers they are between 0 and P - 1
Lengths(call) ==
    <<call.a.inner, (call.b.inner - call.a.inner) % P, (-1 - call.b.inner) % P>>

\* What a remainder and a quotient make up, over the integers
Rebuilt(address, high) == Held(address).inner + high * Held(AddOffset(address, 1)).inner

\* When the arcs are found, what the four range-checked cells make up are the
\* lengths of two arcs, without wrapping around the field, and the third, at the
\* position left in the scope, is at least as long as both.  The quotients are
\* of the field: it is the range check of the cells they go to that leaves only
\* the exact ones, and it must keep doing so for every later call.
\* assertLeFindSmallArc.ts:54-69, rangeCheck.ts.
SmallArcsAreRebuilt ==
    \A call \in Called("arcs") :
        \E order \in [1..3 -> 1..3] :
            /\ {order[i] : i \in 1..3} = 1..3
            /\ Rebuilt(call.at, PrimeOver3High) = Lengths(call)[order[1]]
            /\ Rebuilt(AddOffset(call.at, 2), PrimeOver2High) = Lengths(call)[order[2]]
            /\ \A i \in 1..2 : Lengths(call)[order[i]] <= Lengths(call)[order[3]]
            /\ call.excluded = Number(order[3] - 1)

\* The last of the comparisons begun by the calls before the k-th
Current(k) ==
    {j \in 1..(k - 1) : /\ calls[j].hint = "arcs"
                       /\ \A i \in (j + 1)..(k - 1) : calls[i].hint # "arcs"}

\* Is the position that of a greatest arc of the call?
Greatest(call, pos) ==
    \E n \in 1..3 : /\ pos = Number(n - 1)
                    /\ \A i \in 1..3 : Lengths(call)[i] <= Lengths(call)[n]

\* What a hint that answers for an arc has read in the scope is the position of a
\* greatest arc of the comparison it belongs to, and so is what the next one will
\* read, never that of an earlier comparison: the scope has one variable for all of
\* them.
\* assertLeFindSmallArc.ts:60, scopeManager.ts:36-45.
ScopeTellsGreatestArc ==
    /\ \A k \in DOMAIN calls : calls[k].hint \in {"first", "second"} =>
          /\ Current(k) # {}
          /\ \A j \in Current(k) : Greatest(calls[j], calls[k].excluded)
    /\ thrown = undefined =>
          \A j \in Current(Len(calls) + 1) : Greatest(calls[j], getVariable("excluded_arc"))

\* As long as offsets are written without an exponent, the addresses of one segment
\* whose offsets have as many digits are ordered as their offsets are; so are, by
\* their segments, those of segments 0 to 9.
\* testLessThanOrEqualAddress.ts:58-62.
AlikeAddressesAreOrdered ==
    \A call \in Called("address") :
        LET l == call.lhs
            r == call.rhs
            sameSegment == l.segmentId = r.segmentId
            asWide == l.offset >= 0 /\ Len(NumberText(l.offset)) = Len(NumberText(r.offset))
        IN Decimal(l.offset) /\ Decimal(r.offset) =>
              /\ sameSegment /\ asWide =>
                    (Held(call.at) = Felt(1) <=> l.offset <= r.offset)
              /\ ~sameSegment /\ {l.segmentId, r.segmentId} \subseteq 0..9 =>
                    (Held(call.at) = Felt(1) <=> l.segmentId < r.segmentId)

\* Stated by assertLeIsFirstArcExcluded.ts:30 ("Assert if the arc (0, a) from
\* `AssertLeFindSmallArcs` was excluded."): the flag, whose name says to skip,
\* is down exactly when the variable says that the first arc is the one excluded.
FirstArcFlagTells ==
    \A call \in Called("first") :
        Held(call.at) = Zero <=> call.excluded = Number(0)
=============================================================================
