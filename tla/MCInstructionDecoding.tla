------------------------- MODULE MCInstructionDecoding -------------------------
(* Every combination of the flags, with offsets of one bit                   *)
EXTENDS InstructionDecoding

MCToNumber == [n \in 0..(P - 1) |-> n]
=============================================================================
