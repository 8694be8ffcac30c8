--------------------------- MODULE OutboxDispatch ---------------------------
(***************************************************************************)
(* The transactional outbox of one tenant and the dispatchers that drain   *)
(* it: TransactionalOutboxDispatcher.dispatch over the outbox repository   *)
(* of a serial StateStore.                                                 *)
(*                                                                         *)
(* Every call of dispatch() interleaves with the others at its awaits:     *)
(* the claim transaction, the attempt transaction of each record, the      *)
(* transport, and the acknowledgement transaction.  A transaction is one   *)
(* step, because the in-memory and SQLite stores run them one at a time.   *)
(* Instants are integers; a sortable outbox ID is a number, so that the    *)
(* order of IDs is the order of numbers.                                   *)
(***************************************************************************)
EXTENDS Integers, FiniteSets

CONSTANTS
    Rows,           \* outbox IDs of the tenant
    Dispatchers,    \* dispatcher instances, each with its own consumer ID
    Calls,          \* concurrent calls of dispatch()
    DispatcherOf,   \* the dispatcher each call belongs to
    ClaimDuration,  \* claimDurationMs
    MaxBatch,       \* maxBatch
    None,           \* no consumer, no record
    MaxClock,       \* bound: the clock stops here
    MaxFaults,      \* bound: transport errors, lost acknowledgements, crashes
    LastFault       \* bound: no fault after this instant, so that the leases it
                    \* leaves behind end before the clock stops

ASSUME RowsAssumption == Rows \subseteq Nat /\ IsFiniteSet(Rows)
ASSUME CallsAssumption == DispatcherOf \in [Calls -> Dispatchers]
ASSUME NoneAssumption == None \notin Dispatchers /\ None \notin Rows
ASSUME DurationAssumption == ClaimDuration \in Nat \ {0} /\ MaxBatch \in Nat \ {0}
ASSUME BoundsAssumption == MaxClock \in Nat /\ MaxFaults \in Nat /\ LastFault \in Nat

VARIABLES
    clock,          \* the wall clock the dispatchers read
    faults,         \* faults so far
    enqueued,       \* rows that exist
    published,      \* rows with publishedAt
    availableAt, attempts, claimedBy, claimExpiresAt,   \* the row's fields
    deliveries,     \* how often the transport accepted the row's event
    alive,          \* the dispatchers whose process has not died
    inFlight,       \* per dispatcher: the inFlight set
    pc,             \* per call: where it awaits
    callNow,        \* per call: `now`, read once when the call starts
    todo,           \* per call: the selected records not looked at yet
    current         \* per call: the record it works on

rowVars  == <<enqueued, published, availableAt, attempts, claimedBy, claimExpiresAt>>
callVars == <<pc, callNow, todo, current>>
vars == <<clock, faults, rowVars, deliveries, alive, inFlight, callVars>>

Init ==
    /\ clock = 0
    /\ faults = 0
    /\ enqueued = {}
    /\ published = {}
    /\ availableAt = [r \in Rows |-> 0]
    /\ attempts = [r \in Rows |-> 0]
    /\ claimedBy = [r \in Rows |-> None]
    /\ claimExpiresAt = [r \in Rows |-> 0]
    /\ deliveries = [r \in Rows |-> 0]
    /\ alive = Dispatchers
    /\ inFlight = [d \in Dispatchers |-> {}]
    /\ pc = [c \in Calls |-> "idle"]
    /\ callNow = [c \in Calls |-> 0]
    /\ todo = [c \in Calls |-> {}]
    /\ current = [c \in Calls |-> None]

-----------------------------------------------------------------------------
(* The outbox repository.                                                  *)

\* Order of a claimed batch: `${availableAt}:${outboxId}`.
Before(q, r) ==
    \/ availableAt[q] < availableAt[r]
    \/ availableAt[q] = availableAt[r] /\ q < r

\* MUTANT: the claim of another consumer is taken over before it expires.
Claimable_AnyOwner(d, n) ==
    {r \in enqueued \ published : availableAt[r] <= n}

\* MUTANT: a claim never expires.
Claimable_NoTakeover(d, n) ==
    {r \in enqueued \ published : availableAt[r] <= n /\ claimedBy[r] \in {None, d}}

\* The rows that consumer d may claim at instant n.
Claimable(d, n) ==
    {r \in enqueued \ published :
        /\ availableAt[r] <= n
        /\ \/ claimedBy[r] \in {None, d}
           \/ claimExpiresAt[r] <= n}

\* The claim that attempt and acknowledgement require (assertOutboxOwnership).
Owns(d, r, n) == claimedBy[r] = d /\ claimExpiresAt[r] > n

\* A command, workflow or run appends an event and its outbox row in one
\* transaction, to be available now or later.
Enqueue(r) ==
    /\ r \notin enqueued
    /\ enqueued' = enqueued \union {r}
    /\ \E t \in {clock, clock + 1} :
           /\ t <= MaxClock
           /\ availableAt' = [availableAt EXCEPT ![r] = t]
    /\ UNCHANGED <<clock, faults, published, attempts, claimedBy, claimExpiresAt,
                   deliveries, alive, inFlight, callVars>>

-----------------------------------------------------------------------------
(* One call of dispatch().                                                 *)

\* The call reads the clock once and queues its claim transaction.
Begin(c) ==
    /\ pc[c] = "idle"
    /\ DispatcherOf[c] \in alive
    /\ pc' = [pc EXCEPT ![c] = "claiming"]
    /\ callNow' = [callNow EXCEPT ![c] = clock]
    /\ UNCHANGED <<clock, faults, rowVars, deliveries, alive, inFlight, todo, current>>

\* Transactions of one process run in the order they were queued, which for
\* claims is the order of the instants they were queued with.
FirstInQueue(c) ==
    \A e \in Calls : DispatcherOf[e] = DispatcherOf[c] /\ pc[e] = "claiming"
                         => callNow[c] <= callNow[e]

\* The claim transaction: the first MaxBatch claimable rows.
Claim(c) ==
    LET d == DispatcherOf[c]
        rows == Claimable(d, callNow[c])
        batch == {r \in rows : Cardinality({q \in rows : Before(q, r)}) < MaxBatch}
    IN  /\ pc[c] = "claiming"
        /\ FirstInQueue(c)
        /\ claimedBy' = [r \in Rows |-> IF r \in batch THEN d ELSE claimedBy[r]]
        /\ claimExpiresAt' = [r \in Rows |->
               IF r \in batch THEN callNow[c] + ClaimDuration ELSE claimExpiresAt[r]]
        /\ todo' = [todo EXCEPT ![c] = batch]
        /\ pc' = [pc EXCEPT ![c] = "draining"]
        /\ UNCHANGED <<clock, faults, enqueued, published, availableAt, attempts,
                       deliveries, alive, inFlight, callNow, current>>

\* MUTANT: the in-flight set is not consulted.
Take_NoInFlightCheck(c, r) ==
    /\ inFlight' = [inFlight EXCEPT ![DispatcherOf[c]] = @ \union {r}]
    /\ current' = [current EXCEPT ![c] = r]
    /\ pc' = [pc EXCEPT ![c] = "attempting"]

\* The next record: skipped when another call of the dispatcher works on it.
Take(c, r) ==
    LET d == DispatcherOf[c]
    IN  IF r \in inFlight[d]
        THEN UNCHANGED <<inFlight, current, pc>>
        ELSE /\ inFlight' = [inFlight EXCEPT ![d] = @ \union {r}]
             /\ current' = [current EXCEPT ![c] = r]
             /\ pc' = [pc EXCEPT ![c] = "attempting"]

NextRecord(c) ==
    /\ pc[c] = "draining"
    /\ \E r \in todo[c] :
           /\ \A q \in todo[c] : ~Before(q, r)
           /\ todo' = [todo EXCEPT ![c] = @ \ {r}]
           /\ Take(c, r)
    /\ UNCHANGED <<clock, faults, rowVars, deliveries, alive, callNow>>

\* `finally`: the record leaves the in-flight set, the loop goes on.
Release(c) ==
    /\ inFlight' = [inFlight EXCEPT ![DispatcherOf[c]] = @ \ {current[c]}]
    /\ current' = [current EXCEPT ![c] = None]
    /\ pc' = [pc EXCEPT ![c] = "draining"]

\* The attempt transaction: counts the attempt if the claim still holds at
\* the call's own `now`; otherwise the record is a failure of stage 'attempt'.
Attempt(c) ==
    /\ pc[c] = "attempting"
    /\ IF Owns(DispatcherOf[c], current[c], callNow[c])
       THEN /\ attempts' = [attempts EXCEPT ![current[c]] = @ + 1]
            /\ pc' = [pc EXCEPT ![c] = "publishing"]
            /\ UNCHANGED <<inFlight, current>>
       ELSE /\ UNCHANGED attempts
            /\ Release(c)
    /\ UNCHANGED <<clock, faults, enqueued, published, availableAt, claimedBy,
                   claimExpiresAt, deliveries, alive, callNow, todo>>

\* The transport accepts the event and resolves.
Publish(c) ==
    /\ pc[c] = "publishing"
    /\ deliveries' = [deliveries EXCEPT ![current[c]] = @ + 1]
    /\ pc' = [pc EXCEPT ![c] = "acknowledging"]
    /\ UNCHANGED <<clock, faults, rowVars, alive, inFlight, callNow, todo, current>>

\* Something fails (bounded in number and in time).
Fault ==
    /\ faults < MaxFaults
    /\ clock <= LastFault
    /\ faults' = faults + 1

\* The transport rejects; the event may have been accepted all the same.
PublishFails(c) ==
    /\ pc[c] = "publishing"
    /\ Fault
    /\ \E accepted \in {0, 1} :
           deliveries' = [deliveries EXCEPT ![current[c]] = @ + accepted]
    /\ Release(c)
    /\ UNCHANGED <<clock, rowVars, alive, callNow, todo>>

\* MUTANT: the acknowledgement keeps the claim.
MarkPublished_KeepsClaim(r) ==
    /\ published' = published \union {r}
    /\ UNCHANGED <<claimedBy, claimExpiresAt>>

MarkPublished(r) ==
    /\ published' = published \union {r}
    /\ claimedBy' = [claimedBy EXCEPT ![r] = None]
    /\ claimExpiresAt' = [claimExpiresAt EXCEPT ![r] = 0]

\* The acknowledgement transaction: a row already published is left alone; a
\* row claimed by another consumer is a failure of stage 'acknowledge'.
Acknowledge(c) ==
    LET r == current[c]
    IN  /\ pc[c] = "acknowledging"
        /\ IF r \notin published /\ Owns(DispatcherOf[c], r, callNow[c])
           THEN MarkPublished(r)
           ELSE UNCHANGED <<published, claimedBy, claimExpiresAt>>
        /\ Release(c)
        /\ UNCHANGED <<clock, faults, enqueued, availableAt, attempts, deliveries,
                       alive, callNow, todo>>

\* The store fails in the attempt or acknowledgement transaction.
TransactionFails(c) ==
    /\ pc[c] \in {"attempting", "acknowledging"}
    /\ Fault
    /\ Release(c)
    /\ UNCHANGED <<clock, rowVars, deliveries, alive, callNow, todo>>

\* Every selected record was looked at: the call returns.
Return(c) ==
    /\ pc[c] = "draining"
    /\ todo[c] = {}
    /\ pc' = [pc EXCEPT ![c] = "idle"]
    /\ UNCHANGED <<clock, faults, rowVars, deliveries, alive, inFlight, callNow, todo, current>>

-----------------------------------------------------------------------------
(* The environment.                                                        *)

\* The process of dispatcher d dies: its calls and its in-flight set are gone,
\* the rows stay, claimed by a consumer ID that nobody has any more.  A process
\* started in its place makes a new dispatcher with a new consumer ID, which is
\* another member of Dispatchers, idle until then.
Crash(d) ==
    /\ d \in alive
    /\ Fault
    /\ alive' = alive \ {d}
    /\ inFlight' = [inFlight EXCEPT ![d] = {}]
    /\ pc' = [c \in Calls |-> IF DispatcherOf[c] = d THEN "idle" ELSE pc[c]]
    /\ todo' = [c \in Calls |-> IF DispatcherOf[c] = d THEN {} ELSE todo[c]]
    /\ current' = [c \in Calls |-> IF DispatcherOf[c] = d THEN None ELSE current[c]]
    /\ UNCHANGED <<clock, rowVars, deliveries, callNow>>

Tick ==
    /\ clock < MaxClock
    /\ clock' = clock + 1
    /\ UNCHANGED <<faults, rowVars, deliveries, alive, inFlight, callVars>>

CallStep(c) ==
    \/ Claim(c)
    \/ NextRecord(c)
    \/ Attempt(c)
    \/ Publish(c)
    \/ Acknowledge(c)
    \/ Return(c)

CallFails(c) == PublishFails(c) \/ TransactionFails(c)

Next ==
    \/ \E r \in Rows : Enqueue(r)
    \/ \E c \in Calls : Begin(c) \/ CallStep(c) \/ CallFails(c)
    \/ \E d \in Dispatchers : Crash(d)
    \/ Tick

Spec == Init /\ [][Next]_vars

\* Every await of a call resolves, and time passes (up to the bound, after which
\* calls take no time).  That dispatch() is called at all is not assumed.
FairSpec == Spec /\ WF_vars(Tick) /\ \A c \in Calls : WF_vars(CallStep(c))

-----------------------------------------------------------------------------
(* Properties.                                                             *)

Places == {"idle", "claiming", "draining", "attempting", "publishing", "acknowledging"}

\* The call works on a record of its batch.
Working(c) == pc[c] \in {"attempting", "publishing", "acknowledging"}

\* The call ran for longer than the claim it took.
Overran(c) == clock >= callNow[c] + ClaimDuration

\* Every variable has its type, and a claim has both of its fields or none.
TypeOK ==
    /\ clock \in 0 .. MaxClock
    /\ faults \in 0 .. MaxFaults
    /\ enqueued \subseteq Rows
    /\ published \subseteq enqueued
    /\ availableAt \in [Rows -> Nat]
    /\ attempts \in [Rows -> Nat]
    /\ claimedBy \in [Rows -> Dispatchers \union {None}]
    /\ claimExpiresAt \in [Rows -> Nat]
    /\ \A r \in Rows : claimedBy[r] = None <=> claimExpiresAt[r] = 0
    /\ deliveries \in [Rows -> Nat]
    /\ alive \subseteq Dispatchers
    /\ inFlight \in [Dispatchers -> SUBSET Rows]
    /\ pc \in [Calls -> Places]
    /\ callNow \in [Calls -> 0 .. MaxClock]
    /\ todo \in [Calls -> SUBSET enqueued]
    /\ current \in [Calls -> enqueued \union {None}]
    /\ \A c \in Calls : Working(c) <=> current[c] # None

\* At-least-once: a row is marked published only after the transport accepted
\* its event (the class comment of TransactionalOutboxDispatcher).
PublishedWasDelivered == \A r \in published : deliveries[r] >= 1

\* A call that publishes or acknowledges within its lease works on a row that
\* is still unpublished and still its own: the claim excludes every other
\* consumer, although the call checks it against the instant it started at.
LeaseExclusion ==
    \A c \in Calls :
        pc[c] \in {"publishing", "acknowledging"} /\ ~Overran(c)
            => /\ current[c] \notin published
               /\ claimedBy[current[c]] = DispatcherOf[c]

\* Two calls never publish one row at a time, unless one of them overran its
\* lease; two calls of one dispatcher never do (the in-flight set).
ExclusivePublication ==
    \A c, e \in Calls :
        c # e /\ pc[c] = "publishing" /\ pc[e] = "publishing" /\ current[c] = current[e]
            => /\ DispatcherOf[c] # DispatcherOf[e]
               /\ Overran(c) \/ Overran(e)

\* While nothing fails and no lease can have expired, at-least-once is
\* exactly once: concurrent and repeated calls alone redeliver nothing.
ExactlyOnceWithoutFaults ==
    faults = 0 /\ clock < ClaimDuration => \A r \in Rows : deliveries[r] <= 1

\* A published row stays published, is claimed by nobody and is attempted no
\* more.
PublishedIsFinal ==
    [][\A r \in published : /\ r \in published'
                            /\ claimedBy'[r] = None
                            /\ attempts'[r] = attempts[r]]_vars

\* If dispatch() is called again and again, by whichever dispatchers are left, every
\* enqueued row is published in the end: nothing that fails strands it, and the
\* claim of a dispatcher that died is taken over once it has expired.
PublishedIfDispatched ==
    []<>(\E c \in Calls : pc[c] = "claiming")
        => \A r \in Rows : r \in enqueued ~> r \in published

-----------------------------------------------------------------------------
(* The inductive invariant behind LeaseExclusion and ExclusivePublication.  *)

\* The in-flight set gives a record to one call of the dispatcher at a time.
InFlightInv ==
    /\ \A c \in Calls : Working(c) => current[c] \in inFlight[DispatcherOf[c]]
    /\ \A c, e \in Calls :
           c # e /\ Working(c) /\ Working(e) /\ DispatcherOf[c] = DispatcherOf[e]
               => current[c] # current[e]

\* Claims of one dispatcher are taken in the order of their instants.
ClaimOrderInv ==
    /\ \A c \in Calls : callNow[c] <= clock
    /\ \A c, e \in Calls :
           /\ DispatcherOf[c] = DispatcherOf[e]
           /\ pc[e] = "claiming"
           /\ pc[c] \notin {"idle", "claiming"}
           => callNow[c] <= callNow[e]

\* A call that has not overrun its lease holds the claim on every record it
\* selected and that is not published yet.
Holds(c, r) ==
    \/ Overran(c)
    \/ r \in published
    \/ claimedBy[r] = DispatcherOf[c] /\ claimExpiresAt[r] >= callNow[c] + ClaimDuration

LeaseInv ==
    /\ \A c \in Calls : /\ pc[c] \in {"idle", "claiming"} => todo[c] = {}
                        /\ \A r \in todo[c] : Holds(c, r)
                        /\ Working(c) => Holds(c, current[c])
    /\ \A r \in published : claimedBy[r] = None

\* A call acknowledges only what the transport accepted.
DeliveryInv ==
    /\ PublishedWasDelivered
    /\ \A c \in Calls : pc[c] = "acknowledging" => deliveries[current[c]] >= 1

IInv == TypeOK /\ InFlightInv /\ ClaimOrderInv /\ LeaseInv /\ LeaseExclusion
=============================================================================
