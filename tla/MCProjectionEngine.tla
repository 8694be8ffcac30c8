------------------------- MODULE MCProjectionEngine -------------------------
(***************************************************************************)
(* A store with one engine, and a stream of three events of which two are  *)
(* of the tenant.                                                          *)
(***************************************************************************)
EXTENDS ProjectionEngine, TLC

MCMine == {1, 3}

MCReplay == (0 :> <<>>) @@ (1 :> <<1>>) @@ (2 :> <<1>>) @@ (3 :> <<1, 3>>)

OneEngine == [c \in Callers |-> CHOOSE e \in Engines : TRUE]
=============================================================================
