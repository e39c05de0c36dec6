------------------------------- MODULE CallStack -------------------------------
(***************************************************************************)
(* What call and ret promise a program: a stack of frames.  A call pushes  *)
(* where to return and the frame of the caller; a return takes pc and fp   *)
(* back to those of the matching call, however many steps, calls and       *)
(* returns lie between; any other step leaves the frame alone.             *)
(***************************************************************************)
EXTENDS Sequences

CONSTANT After(_)   \* the addresses a call at an address may return to

VARIABLES
    stack,  \* the calls that have not returned, the last one first
    pc, fp

vars == <<stack, pc, fp>>

\* The frame the entry point returns to
Init == Len(stack) = 1

Call ==
    /\ \E r \in After(pc) : stack' = <<[returnPc |-> r, callerFp |-> fp]>> \o stack
    /\ fp' # fp

Return ==
    /\ stack # <<>>
    /\ pc' = Head(stack).returnPc
    /\ fp' = Head(stack).callerFp
    /\ stack' = Tail(stack)

Local == UNCHANGED <<stack, fp>>

Next == Call \/ Return \/ Local

Spec == Init /\ [][Next]_vars
=============================================================================
