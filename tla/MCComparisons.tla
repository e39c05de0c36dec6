---------------------------- MODULE MCComparisons ----------------------------
(* Every pair of felts of a small field as the numbers compared, and a cell  *)
(* with a pointer instead of a number; addresses on both sides of ten, and   *)
(* of twenty, from which on numbers are written with an exponent here.       *)
EXTENDS Comparisons

MCToNumber == [n \in 0..(P - 1) |-> n]

MCCompute(b, xs, i) == Zero

MCFrame ==
    [o \in 0..6 |->
        <<Relocatable(RangeCheck, 0), Relocatable(1, 3), Relocatable(1, 9),
          Relocatable(1, 10), Relocatable(1, 12), Relocatable(0, 12), Felt(5)>>[o + 1]]

Cell(o) == [register |-> "Fp", offset |-> o]
At0(o) == [type |-> "Deref", cell |-> Cell(o)]
Constant(n) == [type |-> "Immediate", value |-> Felt(n)]
Plus(o, n) == [type |-> "BinOp", op |-> "Add", a |-> Cell(o), b |-> Constant(n)]

\* The pointer, the one past the cells of a first call, and a felt
MCPointers == {At0(0), Plus(0, 4), At0(6)}
MCNumbers == {Constant(n) : n \in 0..(P - 1)} \cup {At0(1)}
MCAddresses == {At0(o) : o \in 1..6} \cup {Plus(1, 6), Plus(5, 1), Plus(4, 9)}

\* The first digit, an e, the sign and the exponent
MCExponentText(n) == <<n \div 10, 11, -3, 1>>
=============================================================================
