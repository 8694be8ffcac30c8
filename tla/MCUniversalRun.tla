--------------------------- MODULE MCUniversalRun ---------------------------
(* Instances of UniversalRun for TLC: one run may be retried.               *)
EXTENDS UniversalRun, TLC

CONSTANTS r1, r2

MCMaxAttempts == r1 :> 2 @@ r2 :> 1
=============================================================================
