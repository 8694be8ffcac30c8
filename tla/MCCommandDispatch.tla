------------------------- MODULE MCCommandDispatch -------------------------
(* Instances of CommandDispatch for TLC: key k1 writes both aggregates, k2  *)
(* one of them twice.                                                      *)
EXTENDS CommandDispatch, TLC

CONSTANTS c1, c2, k1, k2, b1, b2, r1, r2, a1, a2

MCEmits == k1 :> <<a1, a2>> @@ k2 :> <<a1, a1>>
=============================================================================
