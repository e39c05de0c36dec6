--------------------------- MODULE BuiltinHandlers ---------------------------
(***************************************************************************)
(* The proxy handlers of the builtin segments (builtins/*.ts).  A handler  *)
(* intercepts the reads (get trap) or the writes (set trap) of one array   *)
(* of cells:                                                               *)
(*   - bitwise, pedersen, poseidon, ec_op and keccak deduce an output cell *)
(*     from the input cells of its instance when it is first read, and     *)
(*     cache it;                                                           *)
(*   - range_check, range_check96 and output validate what is written;     *)
(*   - a segment without a handler, and segment_arena, do neither.         *)
(* The functions the deductions compute (hashes, curve operations) are a   *)
(* constant.  ecdsa, whose handler has a state of its own, is not here.    *)
(***************************************************************************)
EXTENDS SegmentValues

CONSTANTS
    Builtins,          \* the handlers of the segments: names of builtins, "none"
    ArrayLimit,        \* offsets below it are array indices: 2^32 - 1 in JavaScript
    Compute(_, _, _),  \* Compute(b, xs, i): the value the i-th output of b takes on
                       \* the inputs xs, a felt, or the error the library throws
    RangeBound,        \* what range_check accepts: 2^128 in the code
    RangeBound96,      \* what range_check96 accepts: 2^96 in the code
    KeccakBound        \* what keccak takes as input: 2^200 in the code

ASSUME BoundAssumption ==
    /\ ArrayLimit \in Nat
    /\ RangeBound \in Nat
    /\ RangeBound96 \in Nat
    /\ KeccakBound \in Nat

-----------------------------------------------------------------------------
(* The cells of one segment: a function from the offsets written so far *)

NoCells == [o \in {} |-> undefined]

At(cells, o) == IF o \in DOMAIN cells THEN cells[o] ELSE undefined

Put(cells, o, v) == [x \in DOMAIN cells \cup {o} |-> IF x = o THEN v ELSE cells[x]]

\* The length of the array.  A property whose name is not an array index (a
\* negative offset, a huge one) is kept by the object but does not count.
Indices(cells) == {o \in DOMAIN cells : 0 <= o /\ o < ArrayLimit}

Length(cells) ==
    IF Indices(cells) = {}
      THEN 0
      ELSE 1 + CHOOSE o \in Indices(cells) : \A x \in Indices(cells) : x <= o

-----------------------------------------------------------------------------
(* Deduction *)

\* The handlers that name their inputs one by one, and those that slice them
NamedBuiltins == {"bitwise", "pedersen", "poseidon"}
SlicedBuiltins == {"ec_op", "keccak"}
DeductionBuiltins == NamedBuiltins \cup SlicedBuiltins

CellsPer(b) ==
    [bitwise |-> 5, pedersen |-> 3, poseidon |-> 6, ec_op |-> 7, keccak |-> 16][b]

InputCellsPer(b) ==
    [bitwise |-> 2, pedersen |-> 2, poseidon |-> 3, ec_op |-> 5, keccak |-> 8][b]

\* How many inputs a handler may compute from: keccak takes what it finds
InputCounts(b) == IF b = "keccak" THEN 0..InputCellsPer(b) ELSE {InputCellsPer(b)}

\* What the libraries compute from felts is a felt, or they throw.
ASSUME ComputeAssumption ==
    \A b \in Builtins \cap DeductionBuiltins :
        \A n \in InputCounts(b) :
            \A xs \in [1..n -> Felts], i \in 0..(CellsPer(b) - InputCellsPer(b) - 1) :
                Compute(b, xs, i) \in Felts \cup Errors

\* The position of an offset in its instance; the remainder of a negative
\* number is negative in JavaScript and so below the number of inputs.
Position(b, o) == IF o < 0 THEN 0 ELSE o % CellsPer(b)

\* The input cells of the instance that starts at base, and how many of them
\* the handler gets: a slice stops at the end of the array.
Inputs(b, cells, base) ==
    LET end == base + InputCellsPer(b)
        stop == IF b \in SlicedBuiltins /\ Length(cells) < end THEN Length(cells) ELSE end
    IN [k \in 1..(stop - base) |-> At(cells, base + k - 1)]

\* What a handler throws on one input, undefined when it takes it.  A cell without
\* a value is a hole, which slice().map() skips.
InputError(b, x) ==
    IF x = undefined /\ b \in SlicedBuiltins THEN undefined
    ELSE IF x = undefined THEN Error("UndefinedValue")
    ELSE IF ~isFelt(x) THEN Error("ExpectedFelt")
    ELSE IF b = "keccak" /\ x.inner >= KeccakBound THEN Error("Error")
    ELSE undefined

BadInputs(b, xs) == {k \in DOMAIN xs : isError(InputError(b, xs[k]))}

\* Why the handler refuses the inputs xs, undefined when it accepts them: the
\* first bad input, then a hole the libraries stumble on.  keccak concatenates
\* the inputs it finds, however few; ec_op needs every coordinate.
Refusal(b, xs) ==
    IF BadInputs(b, xs) # {}
      THEN InputError(b, xs[CHOOSE k \in BadInputs(b, xs) :
                               \A j \in BadInputs(b, xs) : k <= j])
    ELSE IF \/ \E k \in DOMAIN xs : xs[k] = undefined
            \/ b = "ec_op" /\ DOMAIN xs # 1..InputCellsPer(b)
      THEN Error("TypeError")
    ELSE undefined

\* The i-th output of b on the inputs xs, or the error it throws
Computed(b, xs, i) == IF isError(Refusal(b, xs)) THEN Refusal(b, xs) ELSE Compute(b, xs, i)

\* The value a handler deduces for the output cell at offset o, or its error
Deduce(b, cells, o) ==
    Computed(b, Inputs(b, cells, o - Position(b, o)), Position(b, o) - InputCellsPer(b))

\* (mutant: what was thrown is cached too)
GetTrapCachingErrors(b, cells, o) ==
    IF b \notin DeductionBuiltins \/ Position(b, o) < InputCellsPer(b) \/ o \in DOMAIN cells
      THEN [cells |-> cells, value |-> At(cells, o)]
      ELSE [cells |-> Put(cells, o, Deduce(b, cells, o)), value |-> Deduce(b, cells, o)]

\* A deduction v is written to its cell, unless the handler has thrown.
Cached(cells, o, v) == [cells |-> IF isError(v) THEN cells ELSE Put(cells, o, v), value |-> v]

\* The get trap: the value read (or the error thrown) and the cells after it
GetTrap(b, cells, o) ==
    IF \/ b \notin DeductionBuiltins
       \/ Position(b, o) < InputCellsPer(b)
       \/ o \in DOMAIN cells
      THEN [cells |-> cells, value |-> At(cells, o)]
      ELSE Cached(cells, o, Deduce(b, cells, o))

-----------------------------------------------------------------------------
(* Validation *)

BoundOf(b) == IF b = "range_check96" THEN RangeBound96 ELSE RangeBound

\* (mutant: the bound itself is accepted)
RejectionAboveBound(b, v) ==
    IF b \in {"range_check", "range_check96", "output"} /\ ~isFelt(v)
      THEN Error("ExpectedFelt")
    ELSE IF b \in {"range_check", "range_check96"} /\ v.inner > BoundOf(b)
      THEN Error("RangeCheckOutOfBounds")
    ELSE undefined

\* Why the set trap refuses to write v, undefined when it writes it
Rejection(b, v) ==
    IF b \in {"range_check", "range_check96", "output"} /\ ~isFelt(v)
      THEN Error("ExpectedFelt")
    ELSE IF b \in {"range_check", "range_check96"} /\ v.inner >= BoundOf(b)
      THEN Error("RangeCheckOutOfBounds")
    ELSE undefined

\* The set trap: undefined (or the error thrown) and the cells after it
SetTrap(b, cells, o, v) ==
    [cells |-> IF isError(Rejection(b, v)) THEN cells ELSE Put(cells, o, v),
     value |-> Rejection(b, v)]
=============================================================================
