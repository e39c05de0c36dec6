---------------------------- MODULE MCDictionaries ----------------------------
(* Programs with dictionaries, in several sizes; keys on both sides of what  *)
(* a range check accepts.                                                    *)
EXTENDS Dictionaries

MCToNumber == [n \in 0..(P - 1) |-> n]

MCCompute(b, xs, i) == Zero

MCNewValues == {Felt(1), Relocatable(4, 0)}
MCAheadValues == {Felt(1)}

Size(dicts, accesses, written, squashes, used) ==
    [dicts |-> dicts, accesses |-> accesses, ahead |-> written, squashes |-> squashes,
     keys |-> used]

MCLimits == {
    \* two dictionaries, their accesses interleaved, a cell written ahead
    Size(2, 3, 1, 0, {2, 9}),
    \* one of two dictionaries squashed
    Size(2, 2, 0, 1, {2, 9}),
    \* the squash of a longer one, three keys
    Size(1, 4, 0, 1, {2, 3, 9})}

\* Two dictionaries, one squashed after the other
MCTwoSquashes == {Size(2, 3, 0, 2, {2, 9})}
=============================================================================
