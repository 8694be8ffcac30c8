----------------------------- MODULE WorkerPool -----------------------------
(***************************************************************************)
(* InMemoryWorkerPool and the workers that poll it: tenant-scoped queues   *)
(* with leases, heartbeats, bounded attempts, redelivery and parking.      *)
(*                                                                         *)
(* Each operation runs to its end without an await, so it is one step; the *)
(* interleaving is that of workers that keep working on a copy of a lease  *)
(* after the pool has taken the task back, or that die.  A lease ID is     *)
(* fresh for every claim, and every claim counts an attempt, so that a     *)
(* task and its attempt name the lease.  Time is kept as what remains of   *)
(* each lease.                                                             *)
(***************************************************************************)
EXTENDS Integers, Sequences, FiniteSets

CONSTANTS
    Tasks, Workers, Tenants, Pools,
    TenantOf, PoolOf,       \* per task
    MaxAttempts,            \* per task: maxAttempts
    LeaseDuration,          \* leaseDurationMs
    MaxQueued,              \* maxQueuedPerTenantAndPool
    MaxInFlightPerTenant,
    MaxInFlightByPool,      \* per pool
    None                    \* no worker, no lease

ASSUME TasksAssumption ==
    /\ IsFiniteSet(Tasks)
    /\ TenantOf \in [Tasks -> Tenants]
    /\ PoolOf \in [Tasks -> Pools]
    /\ MaxAttempts \in [Tasks -> Nat \ {0}]
ASSUME LimitsAssumption ==
    /\ LeaseDuration \in Nat \ {0}
    /\ MaxQueued \in Nat \ {0}
    /\ MaxInFlightPerTenant \in Nat \ {0}
    /\ MaxInFlightByPool \in [Pools -> Nat \ {0}]
ASSUME NoneAssumption == None \notin Workers

VARIABLES
    state,      \* per task; "absent" before enqueue
    place,      \* per task: its position in the insertion order
    attempt,    \* per task
    failures,   \* per task: the attempts that failed, expired or were parked
    holder,     \* per task: the worker of its lease
    remaining,  \* per task: what remains of its lease, 0 when it has expired
    held        \* per worker: its copy of a lease

vars == <<state, place, attempt, failures, holder, remaining, held>>

Init ==
    /\ state = [t \in Tasks |-> "absent"]
    /\ place = [t \in Tasks |-> 0]
    /\ attempt = [t \in Tasks |-> 0]
    /\ failures = [t \in Tasks |-> << >>]
    /\ holder = [t \in Tasks |-> None]
    /\ remaining = [t \in Tasks |-> 0]
    /\ held = [w \in Workers |-> None]

-----------------------------------------------------------------------------
(* The pool.                                                               *)

Queued(tenant, pool) ==
    {t \in Tasks : state[t] = "queued" /\ TenantOf[t] = tenant /\ PoolOf[t] = pool}

\* A task that is known already is returned as it is; a full queue refuses.
Enqueue(t) ==
    /\ state[t] = "absent"
    /\ Cardinality(Queued(TenantOf[t], PoolOf[t])) < MaxQueued
    /\ state' = [state EXCEPT ![t] = "queued"]
    /\ place' = [place EXCEPT ![t] = Cardinality({u \in Tasks : state[u] # "absent"})]
    /\ UNCHANGED <<attempt, failures, holder, remaining, held>>

\* Where a task goes whose attempt has failed.
Retried(t) == IF attempt[t] >= MaxAttempts[t] THEN "parked" ELSE "queued"

\* MUTANT: an expired lease never comes back.
Expired_Never == {}

\* Leases that have run out, reported or not.
Expired == {t \in Tasks : state[t] = "leased" /\ remaining[t] = 0}

\* The task map after requeueExpired.
ReapedState == [t \in Tasks |-> IF t \in Expired THEN Retried(t) ELSE state[t]]

\* MUTANT: an expiry is not recorded as a failure.
ReapedFailures_Silent == failures

ReapedFailures ==
    [t \in Tasks |-> IF t \in Expired THEN Append(failures[t], attempt[t]) ELSE failures[t]]

ReapedHolder == [t \in Tasks |-> IF t \in Expired THEN None ELSE holder[t]]

Reap ==
    /\ state' = ReapedState
    /\ failures' = ReapedFailures
    /\ holder' = ReapedHolder
    /\ UNCHANGED <<place, attempt, remaining, held>>

Leased(s) == {t \in Tasks : s[t] = "leased"}
OfTenant(S, tenant) == {t \in S : TenantOf[t] = tenant}
OfPool(S, pool) == {t \in S : PoolOf[t] = pool}

\* MUTANT: the tenant's quota counts its leases in this pool only.
Full_TenantPerPool(tenant, pool) ==
    LET leased == OfPool(Leased(ReapedState), pool)
    IN  \/ Cardinality(OfTenant(leased, tenant)) >= MaxInFlightPerTenant
        \/ Cardinality(leased) >= MaxInFlightByPool[pool]

\* A quota is used up, after the expired leases have been taken back.
Full(tenant, pool) ==
    LET leased == Leased(ReapedState)
    IN  \/ Cardinality(OfTenant(leased, tenant)) >= MaxInFlightPerTenant
        \/ Cardinality(OfPool(leased, pool)) >= MaxInFlightByPool[pool]

\* The oldest queued task of the tenant and pool.
First(t, tenant, pool) ==
    /\ ReapedState[t] = "queued" /\ TenantOf[t] = tenant /\ PoolOf[t] = pool
    /\ \A u \in Tasks : ReapedState[u] = "queued" /\ TenantOf[u] = tenant /\ PoolOf[u] = pool
                           => place[t] <= place[u]

\* A free worker asks for work.  First every expired lease is taken back;
\* then it gets a task with its next attempt, unless a quota is used up.  A
\* queued task without attempts left is parked instead.
Claim(w, tenant, pool) ==
    /\ held[w] = None
    /\ ~Full(tenant, pool)
    /\ \E t \in Tasks :
           /\ First(t, tenant, pool)
           /\ IF attempt[t] >= MaxAttempts[t]
              THEN /\ state' = [ReapedState EXCEPT ![t] = "parked"]
                   /\ holder' = ReapedHolder
                   /\ UNCHANGED <<attempt, remaining, held>>
              ELSE /\ state' = [ReapedState EXCEPT ![t] = "leased"]
                   /\ attempt' = [attempt EXCEPT ![t] = @ + 1]
                   /\ holder' = [ReapedHolder EXCEPT ![t] = w]
                   /\ remaining' = [remaining EXCEPT ![t] = LeaseDuration]
                   /\ held' = [held EXCEPT ![w] = [task |-> t, attempt |-> attempt[t] + 1]]
    /\ failures' = ReapedFailures
    /\ UNCHANGED place

\* There is nothing for this tenant and pool: only expired leases move.
ClaimNothing(tenant, pool) ==
    /\ \/ Full(tenant, pool)
       \/ ~\E t \in Tasks : First(t, tenant, pool)
    /\ Reap

\* MUTANT: a lease that has not been taken back yet is still good.
Current_Expired(w) ==
    LET t == held[w].task
    IN  state[t] = "leased" /\ attempt[t] = held[w].attempt /\ holder[t] = w

\* The lease the pool still honours (requireLease).
Current(w) ==
    LET t == held[w].task
    IN  /\ state[t] = "leased"
        /\ attempt[t] = held[w].attempt
        /\ holder[t] = w
        /\ remaining[t] > 0

-----------------------------------------------------------------------------
(* Workers.  A refused call leaves the pool as it is.                      *)

DeleteLease(t) ==
    /\ holder' = [holder EXCEPT ![t] = None]
    /\ remaining' = [remaining EXCEPT ![t] = 0]

Drop(w) == held' = [held EXCEPT ![w] = None]

Heartbeat(w) ==
    /\ held[w] # None
    /\ Current(w)
    /\ remaining' = [remaining EXCEPT ![held[w].task] = LeaseDuration]
    /\ UNCHANGED <<state, place, attempt, failures, holder, held>>

Ack(w) ==
    /\ held[w] # None
    /\ Current(w)
    /\ state' = [state EXCEPT ![held[w].task] = "acked"]
    /\ DeleteLease(held[w].task)
    /\ Drop(w)
    /\ UNCHANGED <<place, attempt, failures>>

\* fail() and park(): the attempt is recorded as a failure.
EndAttempt(w, next) ==
    LET t == held[w].task
    IN  /\ held[w] # None
        /\ Current(w)
        /\ state' = [state EXCEPT ![t] = next]
        /\ failures' = [failures EXCEPT ![t] = Append(@, attempt[t])]
        /\ DeleteLease(t)
        /\ Drop(w)
        /\ UNCHANGED <<place, attempt>>

Fail(w) == EndAttempt(w, Retried(held[w].task))

Park(w) == EndAttempt(w, "parked")

\* The pool refused the lease, or the worker died: it works on the task no more.
GiveUp(w) ==
    /\ held[w] # None
    /\ Drop(w)
    /\ UNCHANGED <<state, place, attempt, failures, holder, remaining>>

Tick ==
    /\ \E t \in Tasks : remaining[t] > 0
    /\ remaining' = [t \in Tasks |-> IF remaining[t] > 0 THEN remaining[t] - 1 ELSE 0]
    /\ UNCHANGED <<state, place, attempt, failures, holder, held>>

LetGo(w) == Ack(w) \/ Fail(w) \/ Park(w) \/ GiveUp(w)

Next ==
    \/ \E t \in Tasks : Enqueue(t)
    \/ \E tenant \in Tenants, pool \in Pools :
           \/ \E w \in Workers : Claim(w, tenant, pool)
           \/ ClaimNothing(tenant, pool)
    \/ Reap
    \/ \E w \in Workers : Heartbeat(w) \/ LetGo(w)
    \/ Tick

Spec == Init /\ [][Next]_vars

\* Workers poll every tenant and pool, end their work or die, and time passes.
\* Nobody is assumed to acknowledge, to report a failure or to reap.
FairSpec ==
    /\ Spec
    /\ WF_vars(Tick)
    /\ \A tenant \in Tenants, pool \in Pools :
           WF_vars(\/ \E w \in Workers : Claim(w, tenant, pool)
                   \/ ClaimNothing(tenant, pool))
    /\ \A w \in Workers : WF_vars(LetGo(w))

-----------------------------------------------------------------------------
(* Properties.                                                             *)

States == {"absent", "queued", "leased", "acked", "parked"}
Lease == [task : Tasks, attempt : Nat \ {0}]

\* Every variable has its type, and exactly the leased tasks have a worker.
TypeOK ==
    /\ state \in [Tasks -> States]
    /\ place \in [Tasks -> Nat]
    /\ attempt \in [Tasks -> Nat]
    /\ failures \in [Tasks -> Seq(Nat)]
    /\ holder \in [Tasks -> Workers \union {None}]
    /\ remaining \in [Tasks -> 0 .. LeaseDuration]
    /\ held \in [Workers -> Lease \union {None}]
    /\ \A t \in Tasks : state[t] = "leased" <=> holder[t] # None

\* Every attempt ends exactly once: the failures are the attempts 1, 2, 3 ...
\* of the task, without the one that is running or was acknowledged.
AttemptsAccounted ==
    \A t \in Tasks :
        LET open == IF state[t] \in {"leased", "acked"} THEN 1 ELSE 0
        IN  /\ Len(failures[t]) + open = attempt[t]
            /\ \A i \in 1 .. Len(failures[t]) : failures[t][i] = i

\* A queued task has an attempt left, so that a claim never finds one to park,
\* and no task is attempted more often than allowed.
TaskAttemptsBounded ==
    \A t \in Tasks : /\ attempt[t] <= MaxAttempts[t]
                     /\ state[t] = "queued" => attempt[t] < MaxAttempts[t]

\* A worker may go on working on a task it lost, but never on one the pool does
\* not know to be lost: its copy is the current lease or a recorded failure.
CopiesAccounted ==
    \A w \in Workers :
        held[w] # None =>
            LET t == held[w].task
            IN  \/ /\ state[t] = "leased"
                   /\ holder[t] = w
                   /\ attempt[t] = held[w].attempt
                \/ held[w].attempt \in {failures[t][i] : i \in 1 .. Len(failures[t])}

\* The leases of a tenant, and those of a pool over all tenants, stay within
\* their quotas.
QuotasHold ==
    /\ \A tenant \in Tenants :
           Cardinality(OfTenant(Leased(state), tenant)) <= MaxInFlightPerTenant
    /\ \A pool \in Pools :
           Cardinality(OfPool(Leased(state), pool)) <= MaxInFlightByPool[pool]

Backlog(tenant, pool) ==
    {t \in Tasks : state[t] \in {"queued", "leased"} /\ TenantOf[t] = tenant /\ PoolOf[t] = pool}

\* Failed and expired tasks return to a queue without regard to its limit, but they
\* overfill it by no more than was leased: what a tenant has unsettled in a pool is
\* bounded by the queue limit and a quota.
BacklogBounded ==
    \A tenant \in Tenants, pool \in Pools :
        /\ Cardinality(Backlog(tenant, pool)) <= MaxQueued + MaxInFlightPerTenant
        /\ Cardinality(Backlog(tenant, pool)) <= MaxQueued + MaxInFlightByPool[pool]

\* Acknowledged and parked tasks stay so, whatever late workers report, and a
\* lease that expired is never acknowledged.
SettledIsFinal ==
    [][\A t \in Tasks :
           /\ state[t] \in {"acked", "parked"} =>
                  state'[t] = state[t] /\ failures'[t] = failures[t] /\ attempt'[t] = attempt[t]
           /\ t \in Expired => state'[t] # "acked"]_vars

\* A lost worker does not hold a task forever: every task that was enqueued is
\* acknowledged or parked in the end.
EveryTaskSettles == \A t \in Tasks : state[t] # "absent" ~> state[t] \in {"acked", "parked"}
=============================================================================
