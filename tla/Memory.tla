------------------------------- MODULE Memory -------------------------------
(***************************************************************************)
(* Class Memory (memory/memory.ts) under every sequence of calls.          *)
(*                                                                         *)
(* The class is used by the virtual machine, the hints, the runner and by  *)
(* whoever imports the library; a caller may catch what a method throws    *)
(* and go on, so an exception ends the call, not the behaviour.            *)
(***************************************************************************)
EXTENDS SegmentMemory

CONSTANTS
    Offsets,        \* the offsets callers use
    CallerValues,   \* the values they write
    MaxSegments,    \* bound on the number of segments
    MaxBatch        \* bound on the number of values one setValues call takes

ASSUME CallerAssumption ==
    /\ Offsets \subseteq Int
    /\ \A v \in CallerValues : v \in SegmentValue
    /\ MaxSegments \in Nat
    /\ MaxBatch \in Nat

VARIABLES
    segments,   \* Memory.segments
    pending,    \* what is left to do of the setValues call in progress
    outcome     \* what the last call returned

vars == <<segments, pending, outcome>>

-----------------------------------------------------------------------------

Idle == [address |-> undefined, values |-> <<>>]

\* No call is in progress: JavaScript runs each call to its end.
Ready == pending = Idle

\* The address of a call may be in a segment that does not exist.
CallerAddresses ==
    {Relocatable(s, o) : s \in 0..(Len(segments) - 1), o \in Offsets}
        \cup {Relocatable(Len(segments), 0)}

Nothing == [op |-> "none"]
Throws == [op |-> "throw"]

Init ==
    /\ segments = <<>>
    /\ pending = Idle
    /\ outcome = Nothing

AddSegment(builtin) ==
    /\ Ready
    /\ Len(segments) < MaxSegments
    /\ segments' = addSegment(segments, builtin)
    /\ outcome' = Nothing
    /\ UNCHANGED pending

Get(address) ==
    LET read == get(segments, address)
    IN /\ Ready
       /\ segments' = read.segments
       /\ outcome' = IF isError(read.value)
                       THEN Throws
                       ELSE [op |-> "read", address |-> address, value |-> read.value]
       /\ UNCHANGED pending

\* The outcome of one assertEq, on its own or in the loop of setValues
Asserted(address, value) ==
    LET write == assertEq(segments, address, value)
    IN /\ segments' = write.segments
       /\ outcome' = IF isError(write.value)
                       THEN Throws
                       ELSE [op |-> "assert", address |-> address, value |-> value]

AssertEq(address, value) ==
    /\ Ready
    /\ Asserted(address, value)
    /\ UNCHANGED pending

\* setValues(address, values) is called: its loop is taken one value at a time,
\* and no other call starts before its end.
SetValues(address, values) ==
    /\ Ready
    /\ values # <<>>
    /\ pending' = [address |-> address, values |-> values]
    /\ outcome' = Nothing
    /\ UNCHANGED segments

\* One turn of the loop.  An exception ends it: the values before are written,
\* those after are not.
SetNextValue ==
    /\ ~Ready
    /\ Asserted(pending.address, Head(pending.values))
    /\ pending' = IF \/ isError(assertEq(segments, pending.address, Head(pending.values)).value)
                     \/ Tail(pending.values) = <<>>
                    THEN Idle
                    ELSE [address |-> AddOffset(pending.address, 1),
                          values |-> Tail(pending.values)]

Next ==
    \/ \E b \in Builtins : AddSegment(b)
    \/ \E a \in CallerAddresses : Get(a)
    \/ \E a \in CallerAddresses, v \in CallerValues : AssertEq(a, v)
    \/ \E a \in CallerAddresses, n \in 1..MaxBatch :
          \E values \in [1..n -> CallerValues] : SetValues(a, values)
    \/ SetNextValue

Spec == Init /\ [][Next]_vars

-----------------------------------------------------------------------------
(* Properties *)

\* The type of the state.  A cell holds a canonical felt or a relocatable, never
\* an error or undefined, whatever handler it was written through.
TypeOK ==
    /\ \A i \in DOMAIN segments :
          /\ segments[i].builtin \in Builtins
          /\ \A o \in DOMAIN segments[i].cells :
                o \in Int /\ segments[i].cells[o] \in SegmentValue
    /\ Ready \/ (pending.address \in Relocatables /\ pending.values \in Seq(SegmentValue))

\* The output cells of the builtins whose handler needs all of its inputs
Deduced(b, o) == b \in DeductionBuiltins \ {"keccak"} /\ Position(b, o) >= InputCellsPer(b)

InstanceInputs(b, cells, o) ==
    [k \in 1..InputCellsPer(b) |-> At(cells, o - Position(b, o) + k - 1)]

\* v is what b computes for the output cell o from the inputs beside it.
AgreesAt(b, cells, o, v) ==
    LET xs == InstanceInputs(b, cells, o)
    IN /\ \A k \in DOMAIN xs : isFelt(xs[k])
       /\ v = Compute(b, xs, Position(b, o) - InputCellsPer(b))

OutputsAgree(b, cells) ==
    \A o \in DOMAIN cells : Deduced(b, o) => AgreesAt(b, cells, o, cells[o])

\* An output cell that has a value has the one its builtin computes from the
\* input cells beside it, which all have values: a deduction is cached once and
\* for all, and nothing that happens to the segment afterwards (a write to an
\* input, an assertion on the output before it is read, a failed call) makes the
\* cached value stale.  builtins/*.ts and Memory.assertEq
DeducedOutputsAgree ==
    \A i \in DOMAIN segments : OutputsAgree(segments[i].builtin, segments[i].cells)

\* A keccak output that has a value is the permutation of the state its eight
\* input cells hold: the documentation of keccakHandler, keccak.ts:14-20.
KeccakOutputsAgree ==
    \A i \in DOMAIN segments :
        segments[i].builtin = "keccak" =>
            \A o \in DOMAIN segments[i].cells :
                Position("keccak", o) >= InputCellsPer("keccak") =>
                    AgreesAt("keccak", segments[i].cells, o, segments[i].cells[o])

Validated(b, cells) ==
    \A o \in DOMAIN cells :
        /\ b \in {"range_check", "range_check96", "output"} => isFelt(cells[o])
        /\ b = "range_check" => cells[o].inner < RangeBound
        /\ b = "range_check96" => cells[o].inner < RangeBound96

\* No cell of a range check segment is out of its range and no cell of an output
\* segment is a pointer, whichever way the cell was written, a deduction or the
\* first values of a setValues that failed included.  rangeCheck.ts, output.ts
ValidatedCells ==
    \A i \in DOMAIN segments : Validated(segments[i].builtin, segments[i].cells)

-----------------------------------------------------------------------------
(* The memory is a write-once store. *)

\* The store the segments of m are: every address with a value, and its value
StoreOf(m) ==
    [a \in UNION {{Relocatable(i - 1, o) : o \in DOMAIN m[i].cells} : i \in DOMAIN m}
        |-> CellAt(m, a)]

Store == StoreOf(segments)

WriteOnce == INSTANCE WriteOnceStore WITH
    Missing <- undefined, store <- Store, allocated <- Len(segments)

\* Every call is one of the store's operations or changes nothing: a cell never
\* changes its value, an assertion that returns holds, a read returns the cell,
\* and a call that throws has undone or overwritten nothing.  memory.ts:14-56
ImplementsWriteOnce == WriteOnce!Spec
=============================================================================
