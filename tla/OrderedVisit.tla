----------------------------- MODULE OrderedVisit -----------------------------
(***************************************************************************)
(* What the squashing of a dictionary promises: once it begins, every      *)
(* access is visited once, key by key in ascending order and in the order  *)
(* of the accesses for one key, and it ends.                               *)
(***************************************************************************)
EXTENDS Integers, Sequences

CONSTANT Keys

VARIABLES
    log,        \* the keys of the accesses being squashed, empty when none are
    visited     \* the accesses visited so far, by their index from 0

vars == <<log, visited>>

Indexes == 0..(Len(log) - 1)
Unvisited == Indexes \ {visited[k] : k \in DOMAIN visited}

KeyOf(i) == log[i + 1]
Before(i, j) == KeyOf(i) < KeyOf(j) \/ (KeyOf(i) = KeyOf(j) /\ i < j)

Init == log = <<>> /\ visited = <<>>

Begin ==
    /\ log = <<>>
    /\ log' \in Seq(Keys) \ {<<>>}
    /\ UNCHANGED visited

Visit ==
    \E i \in Unvisited :
        /\ \A j \in Unvisited \ {i} : Before(i, j)
        /\ visited' = Append(visited, i)
        /\ UNCHANGED log

End ==
    /\ log # <<>>
    /\ Unvisited = {}
    /\ log' = <<>>
    /\ visited' = <<>>

Next == Begin \/ Visit \/ End

Spec == Init /\ [][Next]_vars /\ WF_vars(Visit \/ End)
=============================================================================
