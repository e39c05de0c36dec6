-------------------------------- MODULE Ecdsa --------------------------------
(***************************************************************************)
(* The segment of the signature builtin (builtins/ecdsa.ts).  Its cells    *)
(* come in pairs, the x coordinate of a public key and a message; the      *)
(* signature of a pair is kept beside them, in a dictionary that the user  *)
(* of the virtual machine fills.  The assertion that completes a pair      *)
(* verifies its signature, with one of the two keys of that x coordinate   *)
(* and then with the other.                                                *)
(*                                                                         *)
(* The curve and the verification are constants.  Whoever calls may go on  *)
(* after an exception: nothing in the segment tells that there was one.    *)
(***************************************************************************)
EXTENDS BuiltinHandlers

CONSTANTS
    recoverY(_),        \* the square root recoverY finds for a felt, or the error it throws
    verify(_, _, _, _), \* verify(sig, msg, x, y): "valid" or "invalid", or "throws"
    Offsets,            \* the cells used
    Asserted,           \* the values asserted
    Given               \* the signatures given, each with a key; a component may
                        \* be no felt

ASSUME CurveAssumption == \A x \in Felts : recoverY(x) \in Felts \cup Errors

ASSUME AssertedAssumption ==
    /\ Offsets \subseteq Int
    /\ Asserted \subseteq SegmentValue
    /\ \A given \in Given :
          /\ given.key \in Int
          /\ {given.sig.r, given.sig.s} \subseteq SegmentValue \cup {undefined}

VARIABLES
    cells,      \* the array
    signatures, \* its property of this name: undefined, or the dictionary
    outcome,    \* of the last operation
    offered,    \* the signatures ever put in the dictionary, each with its key
    refused     \* the pairs whose second assertion threw

vars == <<cells, signatures, outcome, offered, refused>>

Signatures == [r : Felts, s : Felts]

Dict(at) == [tag |-> "signatures", at |-> at]

Done == [op |-> "none"]
Throw == [op |-> "throw"]

Init ==
    /\ cells = NoCells
    /\ signatures = undefined
    /\ outcome = Done
    /\ offered = {}
    /\ refused = {}

-----------------------------------------------------------------------------
(* The dictionary of signatures *)

\* segment.signatures: created when it is first read or assigned to; what is
\* assigned is ignored.
Created == IF signatures = undefined THEN Dict(NoCells) ELSE signatures

UseSignatures ==
    /\ signatures' = Created
    /\ outcome' = Done
    /\ UNCHANGED <<cells, offered, refused>>

\* segment.signatures[key] = {r, s}
AddSignature(key, sig) ==
    /\ sig \in Signatures
    /\ signatures' = Dict(Put(Created.at, key, sig))
    /\ outcome' = Done
    /\ offered' = offered \cup {[key |-> key, sig |-> sig]}
    /\ UNCHANGED <<cells, refused>>

RefuseSignature(key, sig) ==
    /\ sig \notin Signatures
    /\ signatures' = Created
    /\ outcome' = Throw
    /\ UNCHANGED <<cells, offered, refused>>

-----------------------------------------------------------------------------
(* The cells *)

PubKeyXOffset(o) == IF o % 2 = 0 THEN o ELSE o - 1
MsgOffset(o) == PubKeyXOffset(o) + 1

Neg(y) == Felt(-y.inner)

\* (mutant: one of the two keys is tried)
VerifyOneKey(sig, msg, x, y) ==
    IF verify(sig, msg, x, y) = "valid" THEN undefined ELSE Error("InvalidSignature")

VerifyKeys(sig, msg, x, y) ==
    LET verdicts == <<verify(sig, msg, x, y), verify(sig, msg, x, Neg(y))>>
    IN IF verdicts[1] = "throws" THEN Error("Error")
       ELSE IF verdicts[1] = "valid" THEN undefined
       ELSE IF verdicts[2] = "throws" THEN Error("Error")
       ELSE IF verdicts[2] = "valid" THEN undefined
       ELSE Error("InvalidSignature")

\* The verification of the pair that the cell o completes, once it is written
VerifyPair(written, o) ==
    LET x == written[PubKeyXOffset(o)]
        msg == written[MsgOffset(o)]
        y == recoverY(x)
    IN IF isError(y) THEN y
       ELSE IF PubKeyXOffset(o) \notin DOMAIN signatures.at
         THEN Error("UndefinedECDSASignature")
       ELSE VerifyKeys(signatures.at[PubKeyXOffset(o)], msg, x, y)

\* What the set trap leaves in the cells, and the error it throws
Trap(left, error) == [cells |-> left, value |-> error]

\* (mutant: a pointer is stored like a felt)
SetCellOfAnyType(o, v) ==
    IF signatures = undefined THEN Trap(cells, Error("UndefinedSignatureDict"))
    ELSE Trap(Put(cells, o, v), undefined)

\* (mutant: the pair is left alone while either of its cells is empty)
SetCellUnlessPair(o, v) ==
    IF signatures = undefined THEN Trap(cells, Error("UndefinedSignatureDict"))
    ELSE IF ~isFelt(v) THEN Trap(cells, Error("ExpectedFelt"))
    ELSE IF PubKeyXOffset(o) \notin DOMAIN cells \/ MsgOffset(o) \notin DOMAIN cells
      THEN Trap(Put(cells, o, v), undefined)
    ELSE Trap(cells, undefined)

\* A cell that is written already is left alone, whether its pair is complete
\* or not; the cell that completes a pair stays written when this throws.
SetCell(o, v) ==
    IF signatures = undefined THEN Trap(cells, Error("UndefinedSignatureDict"))
    ELSE IF ~isFelt(v) THEN Trap(cells, Error("ExpectedFelt"))
    ELSE IF {PubKeyXOffset(o), MsgOffset(o)} \cap DOMAIN cells = {}
      THEN Trap(Put(cells, o, v), undefined)
    ELSE IF o \in DOMAIN cells THEN Trap(cells, undefined)
    ELSE LET written == Put(cells, o, v) IN Trap(written, VerifyPair(written, o))

\* (mutant: what the cell holds is not compared)
AssertedUncompared(o, v) == SetCell(o, v)

\* memory.assertEq: the cell, read without a trap, is compared first.
AssertedAt(o, v) ==
    IF At(cells, o) \notin {undefined, v}
      THEN Trap(cells, Error("InconsistentMemory"))
      ELSE SetCell(o, v)

AssertEq(o, v) ==
    \E trap \in {AssertedAt(o, v)} :
        /\ cells' = trap.cells
        /\ outcome' = IF isError(trap.value)
                        THEN Throw
                        ELSE [op |-> "assert", address |-> o, value |-> v]
        /\ refused' = IF isError(trap.value) /\ trap.cells # cells
                        THEN refused \cup {PubKeyXOffset(o)}
                        ELSE refused
        /\ UNCHANGED <<signatures, offered>>

-----------------------------------------------------------------------------

Next ==
    \/ UseSignatures
    \/ \E given \in Given :
          \/ AddSignature(given.key, given.sig)
          \/ RefuseSignature(given.key, given.sig)
    \/ \E o \in Offsets, v \in Asserted : AssertEq(o, v)

Spec == Init /\ [][Next]_vars

-----------------------------------------------------------------------------
(* Properties *)

\* The cells hold felts, the dictionary signatures of felts, whatever was
\* asserted and assigned.  ecdsa.ts:22-23 and 51.
TypeOK ==
    /\ cells \in [DOMAIN cells -> Felts]
    /\ signatures = undefined \/ signatures.at \in [DOMAIN signatures.at -> Signatures]
    /\ DOMAIN cells \subseteq Offsets

\* The pairs both of whose cells are written
CompletePairs ==
    {o \in DOMAIN cells : o = PubKeyXOffset(o) /\ MsgOffset(o) \in DOMAIN cells}

\* Does the library find verdict for sig and one of the keys of the pair at o?
SomeKey(sig, held, o, verdict) ==
    LET y == recoverY(held[o])
    IN ~isError(y) /\ \E root \in {y, Neg(y)} :
                         verify(sig, held[MsgOffset(o)], held[o], root) = verdict

\* A complete pair whose assertions all returned is signed by a signature that
\* was offered for it, in whichever order its cells were asserted and whatever
\* else was asserted, offered or refused meanwhile.  ecdsa.ts:41-106.
PairsAreSigned ==
    \A o \in CompletePairs \ refused :
        \E offer \in offered : offer.key = o /\ SomeKey(offer.sig, cells, o, "valid")

\* A pair is refused only when the signature in the dictionary at that moment,
\* if there is one, signs it for neither key, or when the library throws on one
\* of them.  ecdsa.ts:78-104.
RefusalsAreJustified ==
    [][\A o \in refused' \ refused :
          (o \in DOMAIN signatures'.at /\ SomeKey(signatures'.at[o], cells', o, "valid"))
              => SomeKey(signatures'.at[o], cells', o, "throws")]_vars

\* Seen from the memory the segment is a store of immutable cells: a written
\* cell keeps its value, and an assertion that returns has made its cell equal
\* to the value asserted.  memory.ts:44-56, ecdsa.ts:60-71.
WriteOnce == INSTANCE WriteOnceStore
                 WITH Missing <- undefined, store <- cells, allocated <- 0

ImplementsWriteOnce == WriteOnce!Spec
=============================================================================
