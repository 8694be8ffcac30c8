---------------------------- MODULE MCWorkerPool ----------------------------
(* Instances of WorkerPool for TLC: tenant x has a task in each pool, tenant *)
(* y shares the first pool.                                                *)
EXTENDS WorkerPool, TLC

CONSTANTS t1, t2, t3, x, y, p, q

MCTenantOf == t1 :> x @@ t2 :> x @@ t3 :> y
MCPoolOf == t1 :> p @@ t2 :> q @@ t3 :> p
MCMaxAttempts == t1 :> 2 @@ t2 :> 1 @@ t3 :> 2
MCMaxInFlightByPool == p :> 1 @@ q :> 2
=============================================================================
