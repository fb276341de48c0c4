------------------------------- MODULE MCBar -------------------------------
(* Instances of Bar: two drinks that share their bottles, poured in opposite *)
(* orders, one of them with a gap.                                           *)
EXTENDS Bar, TLC

CONSTANTS c1, c2, b1, b2

MCDrink == (c1 :> <<1, 2, 0>>) @@ (c2 :> <<2, 0, 1>>)

Symmetry == Permutations({b1, b2})
=============================================================================
