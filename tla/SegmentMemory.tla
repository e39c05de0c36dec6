---------------------------- MODULE SegmentMemory ----------------------------
(***************************************************************************)
(* The methods of class Memory (memory/memory.ts) as functions of its      *)
(* array of segments.  Each returns the segments after the call and its    *)
(* value; the value is an error when the method throws, and the segments   *)
(* then hold what was written before the throw.                            *)
(*                                                                         *)
(* A segment is the array of its cells behind the proxy handler it was     *)
(* created with.  Segment i of the code is element i + 1 here.             *)
(***************************************************************************)
EXTENDS BuiltinHandlers, Sequences

Segment(builtin) == [builtin |-> builtin, cells |-> NoCells]

Result(segments, value) == [segments |-> segments, value |-> value]

SetCells(segments, i, cells) ==
    [segments EXCEPT ![i] = [builtin |-> @.builtin, cells |-> cells]]

\* Is address in an allocated segment?
InSegment(segments, address) == address.segmentId < Len(segments)

\* The cell at an address as the array holds it, no trap involved
CellAt(segments, address) == At(segments[address.segmentId + 1].cells, address.offset)

-----------------------------------------------------------------------------
(* The methods *)

addSegment(segments, builtin) == Append(segments, Segment(builtin))

\* What a trap leaves in segment i, and what it returns or throws
Trapped(segments, i, trap) == Result(SetCells(segments, i, trap.cells), trap.value)

get(segments, address) ==
    LET i == address.segmentId + 1
    IN IF ~InSegment(segments, address)
         THEN Result(segments, Error("SegmentOutOfBounds"))
         ELSE Trapped(segments, i,
                      GetTrap(segments[i].builtin, segments[i].cells, address.offset))

\* this.data[segmentId][offset] = value
put(segments, address, value) ==
    LET i == address.segmentId + 1
    IN Trapped(segments, i,
               SetTrap(segments[i].builtin, segments[i].cells, address.offset, value))

\* (mutant: the comparison does not go through the handler)
assertEqRaw(segments, address, value) ==
    IF ~InSegment(segments, address)
      THEN Result(segments, Error("SegmentOutOfBounds"))
    ELSE IF CellAt(segments, address) \notin {undefined, value}
      THEN Result(segments, Error("InconsistentMemory"))
    ELSE put(segments, address, value)

\* (mutant: the value is written whatever the cell holds)
assertEqOverwriting(segments, address, value) ==
    LET read == get(segments, address)
    IN IF isError(read.value) THEN read ELSE put(read.segments, address, value)

\* The value is written unless the cell, as it was read, holds another one; it is
\* written back even when the cell already holds it.
Compared(read, address, value) ==
    IF isError(read.value) THEN read
    ELSE IF read.value \notin {undefined, value}
      THEN Result(read.segments, Error("InconsistentMemory"))
    ELSE put(read.segments, address, value)

\* The comparison reads the cell through the handler, which may deduce it.
assertEq(segments, address, value) == Compared(get(segments, address), address, value)
=============================================================================
