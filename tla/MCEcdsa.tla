------------------------------- MODULE MCEcdsa -------------------------------
(* Two pairs, one of them at negative offsets; x coordinates of a key and of *)
(* none; signatures valid for the first root, for the second, and for a      *)
(* message that the library rejects with an exception.                       *)
EXTENDS Ecdsa

MCToNumber == [n \in 0..(P - 1) |-> n]

MCCompute(b, xs, i) == Zero

MCrecoverY(x) == IF x.inner = 2 THEN Error("Error") ELSE Felt(1)

\* Signature (0, 0) signs message 1 for the second key of 1, (1, 1) signs
\* message 0 for the first key of 1; a message 2 is too long.
MCverify(sig, msg, x, y) ==
    IF msg.inner = 2 THEN "throws"
    ELSE IF <<sig.r.inner, sig.s.inner, msg.inner, x.inner, y.inner>>
              \in {<<0, 0, 1, 1, 4>>, <<1, 1, 0, 1, 1>>}
      THEN "valid"
      ELSE "invalid"

MCOffsets == {-2, -1, 0, 1}
MCAsserted == {Felt(0), Felt(1), Felt(2), Relocatable(0, 0)}
Sig(key, r, s) == [key |-> key, sig |-> [r |-> r, s |-> s]]
MCGiven ==
    {Sig(0, Felt(0), Felt(0)), Sig(0, Felt(1), Felt(1)), Sig(-2, Felt(1), Felt(1)),
     Sig(-2, Felt(0), Felt(0)), Sig(-1, Felt(1), undefined)}
=============================================================================
