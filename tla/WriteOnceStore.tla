---------------------------- MODULE WriteOnceStore ----------------------------
(***************************************************************************)
(* What the Cairo memory promises its users, whatever the segments are:    *)
(* a store of immutable cells.  A cell has no value until it gets one and  *)
(* keeps that value for ever; an assertion that returns has made the cell  *)
(* equal to the value asserted; a read returns what the cell holds.  Cells *)
(* may get values on their own (deductions).                               *)
(***************************************************************************)
EXTENDS Naturals

CONSTANT Missing    \* what reading a cell without a value returns

VARIABLES
    store,      \* a function from the addresses that have a value
    allocated,  \* the number of segments
    outcome     \* of the last operation

Nothing == [op |-> "none"]

Init ==
    /\ store = [a \in {} |-> Missing]
    /\ allocated = 0
    /\ outcome = Nothing

\* Every cell that has a value keeps it.
Grow == \A a \in DOMAIN store : a \in DOMAIN store' /\ store'[a] = store[a]

Allocate ==
    /\ allocated' = allocated + 1
    /\ UNCHANGED store
    /\ outcome' = Nothing

\* A read tells the address it reads and what the store holds there.
Read ==
    /\ Grow
    /\ outcome'.op = "read"
    /\ outcome'.value = IF outcome'.address \in DOMAIN store'
                          THEN store'[outcome'.address]
                          ELSE Missing
    /\ UNCHANGED allocated

\* An assertion that returns has made its cell equal to its value.
Assert ==
    /\ Grow
    /\ outcome'.op = "assert"
    /\ outcome'.address \in DOMAIN store'
    /\ store'[outcome'.address] = outcome'.value
    /\ UNCHANGED allocated

\* An operation that fails may leave deduced values behind, nothing else.
Fail ==
    /\ Grow
    /\ outcome' = [op |-> "throw"]
    /\ UNCHANGED allocated

\* A call that takes several operations begins.
Begin ==
    /\ outcome' = Nothing
    /\ UNCHANGED <<store, allocated>>

Next ==
    \/ Allocate
    \/ Begin
    \/ Read
    \/ Assert
    \/ Fail

vars == <<store, allocated, outcome>>

Spec == Init /\ [][Next]_vars
=============================================================================
