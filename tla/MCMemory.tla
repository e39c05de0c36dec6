------------------------------ MODULE MCMemory ------------------------------
(* Memory with hash and range check segments, over two felts. *)
EXTENDS Memory

MCToNumber == [n \in 0..(P - 1) |-> n]

\* A stand-in for the hash that depends on both of its inputs and on their order
MCCompute(b, xs, i) ==
    IF xs[1].inner = 1 /\ xs[2].inner = 0 THEN Felt(1) ELSE Felt(0)

\* Values the range check accepts and refuses, and a pointer
MCCallerValues == {Felt(0), Felt(1), Relocatable(0, 0)}
=============================================================================
