---------------------------- MODULE SegmentValues ----------------------------
(***************************************************************************)
(* The values a memory cell can hold and their arithmetic:                 *)
(* primitives/felt.ts, primitives/relocatable.ts, primitives/segmentValue. *)
(*                                                                         *)
(* A method that throws returns an error value instead; its caller tests   *)
(* isError and stops, as the exception would make it.  A felt is kept in   *)
(* its canonical representative 0..P-1, P standing for Felt.PRIME.         *)
(***************************************************************************)
EXTENDS Integers

CONSTANTS
    P,          \* Felt.PRIME
    ToNumber    \* Number(felt): the double nearest to each representative, itself
                \* below 2^53

\* Felt.PRIME is prime: Felt.inv (Fermat's little theorem) returns a field
\* inverse for every element but zero.
ASSUME FieldAssumption ==
    /\ P \in Nat
    /\ P > 1
    /\ \A a \in 1..(P - 1) : \E b \in 1..(P - 1) : (a * b) % P = 1

ASSUME NumberAssumption == ToNumber \in [0..(P - 1) -> Nat]

-----------------------------------------------------------------------------
(* Constructors and types *)

\* new Felt(n): reduced to the canonical representative, for any sign of n
Felt(n) == [tag |-> "felt", inner |-> n % P]

Relocatable(segmentId, offset) ==
    [tag |-> "relocatable", segmentId |-> segmentId, offset |-> offset]

Felts == [tag : {"felt"}, inner : 0..(P - 1)]

\* Offsets are JavaScript numbers: adding a negative instruction offset may
\* leave them below zero.
Relocatables == [tag : {"relocatable"}, segmentId : Nat, offset : Int]

SegmentValue == Felts \cup Relocatables

isFelt(v) == v.tag = "felt"
isRelocatable(v) == v.tag = "relocatable"

\* The JavaScript value read from a cell that was never written
undefined == [tag |-> "undefined"]

\* A thrown error, named after its class (errors/*.ts)
Error(name) == [tag |-> "error", name |-> name]

ErrorNames ==
    {"ExpectedFelt", "ExpectedRelocatable", "CannotDivideByZero", "OffsetUnderflow",
     "SegmentError"}
    \cup {"SegmentOutOfBounds", "InconsistentMemory", "UndefinedSegmentValue"}
    \cup {"UndefinedValue", "RangeCheckOutOfBounds", "LadderFailed"}
    \cup {"UndefinedInstruction", "UnusedRes", "InvalidDst", "InvalidCallOp0Value",
          "InvalidOp0", "UndefinedOp0", "InvalidOp1", "UndefinedOp1"}
    \cup {"HighBitSetError", "InvalidDstRegister", "InvalidOp0Register",
          "InvalidOp1Register", "InvalidPcUpdate", "InvalidApUpdate",
          "InvalidResLogic", "InvalidOpcode"}
    \cup {"UnknownHint", "InvalidBufferResOp", "DictNotFound",
          "InvalidDictAccessesNumber", "EmptyKeys", "EmptyIndices", "EmptyIndex",
          "VariableNotInScope"}
    \cup {"UndefinedSignatureDict", "UndefinedECDSASignature", "InvalidSignature"}
    \cup {"Error", "TypeError"}     \* JavaScript's own, and those of libraries

Errors == {Error(name) : name \in ErrorNames}
isError(v) == v.tag = "error"

Zero == Felt(0)

-----------------------------------------------------------------------------
(* Arithmetic *)

\* The overload of Relocatable.add for a plain number
AddOffset(r, n) == Relocatable(r.segmentId, r.offset + n)

\* Relocatable + felt: the sum is taken in the field, then made a number again
AddFelt(r, f) == Relocatable(r.segmentId, ToNumber[(r.offset + f.inner) % P])

\* a.add(b)
Add(a, b) ==
    IF isFelt(b)
      THEN IF isFelt(a) THEN Felt(a.inner + b.inner) ELSE AddFelt(a, b)
      ELSE IF isFelt(a) THEN AddFelt(b, a) ELSE Error("ExpectedFelt")

\* Relocatable - felt: unlike the sum, the difference is not taken in the field
SubFelt(r, f) ==
    LET delta == ToNumber[f.inner]
    IN IF r.offset < delta
         THEN Error("OffsetUnderflow")
         ELSE Relocatable(r.segmentId, r.offset - delta)

\* Relocatable - Relocatable: the underflow is tested before the segments
SubRelocatable(r, s) ==
    IF r.offset < s.offset THEN Error("OffsetUnderflow")
    ELSE IF r.segmentId # s.segmentId THEN Error("SegmentError")
    ELSE Felt(r.offset - s.offset)

\* a.sub(b)
Sub(a, b) ==
    IF isFelt(b)
      THEN IF isFelt(a) THEN Felt(a.inner - b.inner) ELSE SubFelt(a, b)
      ELSE IF isFelt(a) THEN Error("ExpectedFelt") ELSE SubRelocatable(a, b)

\* a.mul(b) for a felt a
Mul(a, b) ==
    IF isFelt(b) THEN Felt(a.inner * b.inner) ELSE Error("ExpectedFelt")

\* The multiplicative inverse computed by Felt.inv
Inv(n) == CHOOSE b \in 1..(P - 1) : (n * b) % P = 1

\* a.div(b) for a felt a: division in the field
Div(a, b) ==
    IF ~isFelt(b) THEN Error("ExpectedFelt")
    ELSE IF b.inner = 0 THEN Error("CannotDivideByZero")
    ELSE Felt(a.inner * Inv(b.inner))
=============================================================================
