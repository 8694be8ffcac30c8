------------------------- MODULE MCPostgresDispatch -------------------------
(* Instances of PostgresDispatch for TLC: key k1 writes both aggregates,    *)
(* the others one each, so that locks are waited for in a circle and events *)
(* of different aggregates overlap.                                        *)
EXTENDS PostgresDispatch, TLC

CONSTANTS k1, k2, k3, a1, a2, b1, b2

MCRequests == {[key |-> k1, body |-> b1], [key |-> k2, body |-> b1], [key |-> k2, body |-> b2],
               [key |-> k3, body |-> b1]}
MCEmits == k1 :> <<a1, a2>> @@ k2 :> <<a2>> @@ k3 :> <<a1>>
=============================================================================
