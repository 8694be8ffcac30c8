-------------------------- MODULE MCOutboxDispatch --------------------------
(* Instances of OutboxDispatch for TLC: dispatcher d1 has two overlapping   *)
(* calls, d2 has one.                                                      *)
EXTENDS OutboxDispatch, TLC

CONSTANTS d1, d2, c1, c2, c3

MCDispatchers == {d1, d2}
MCCalls == {c1, c2, c3}
MCDispatcherOf == c1 :> d1 @@ c2 :> d1 @@ c3 :> d2
=============================================================================
