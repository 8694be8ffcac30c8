--------------------------- MODULE AtomicCommands ---------------------------
(***************************************************************************)
(* What CommandDispatcher promises its clients: a command takes effect     *)
(* once per idempotency key, all at once, and whoever is answered for the  *)
(* key is answered with the result of that one execution.                  *)
(***************************************************************************)
EXTENDS Sequences

CONSTANTS
    Keys,       \* idempotency keys of a tenant
    Bodies,     \* request digests
    Results,    \* handler results
    Emits,      \* per key: the aggregates its events are about
    None        \* no result

VARIABLES
    done,       \* per key: <<digest, result>> of its execution, or None
    log,        \* the events: <<key, result, aggregate>>
    answers     \* <<key, digest, result>> that clients were given

vars == <<done, log, answers>>

Init ==
    /\ done = [k \in Keys |-> None]
    /\ log = << >>
    /\ answers = {}

Effect(k, r) == [i \in DOMAIN Emits[k] |-> <<k, r, Emits[k][i]>>]

Execute(k, b, r) ==
    /\ done[k] = None
    /\ done' = [done EXCEPT ![k] = <<b, r>>]
    /\ log' = log \o Effect(k, r)
    /\ UNCHANGED answers

Answer(k, b, r) ==
    /\ done[k] = <<b, r>>
    /\ answers' = answers \union {<<k, b, r>>}
    /\ UNCHANGED <<done, log>>

Next == \E k \in Keys, b \in Bodies, r \in Results : Execute(k, b, r) \/ Answer(k, b, r)

Spec == Init /\ [][Next]_vars
=============================================================================
