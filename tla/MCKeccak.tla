------------------------------- MODULE MCKeccak -------------------------------
(* Memory with keccak segments, of which callers use the first input and the *)
(* first output.                                                             *)
EXTENDS Memory

MCToNumber == [n \in 0..(P - 1) |-> n]

\* A stand-in for the permutation: how many bits of the state are set
MCCompute(b, xs, i) ==
    LET ones == {k \in DOMAIN xs : xs[k] = Felt(1)}
    IN IF xs = <<>> THEN Error("Error")
       ELSE IF ones = {} THEN Felt(0) ELSE Felt(1)

MCCallerValues == {Felt(0), Felt(1)}
=============================================================================
