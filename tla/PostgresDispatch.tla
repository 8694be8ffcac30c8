-------------------------- MODULE PostgresDispatch --------------------------
(***************************************************************************)
(* CommandDispatcher.dispatch over the PostgresStateStore, whose           *)
(* transactions run at once on connections of their own.                   *)
(*                                                                         *)
(* CommandDispatch has the same dispatcher over a store that runs one      *)
(* transaction at a time.  Here a statement sees what was committed when   *)
(* it began (READ COMMITTED, PostgreSQL's default) and what its own        *)
(* transaction wrote; it waits for row locks, for the uncommitted insert   *)
(* of an equal key, and for the advisory locks that append() takes, all of *)
(* which a transaction holds to its end.  PostgreSQL rolls one transaction *)
(* of a waiting circle back.  An event stands for its outbox row as well.  *)
(***************************************************************************)
EXTENDS Integers, Sequences, FiniteSets

CONSTANTS
    Calls,      \* concurrent calls of dispatch()
    Keys,       \* idempotency keys of the tenant
    Bodies,     \* request digests
    Aggregates, \* aggregates the events are about
    Requests,   \* the requests of the clients: a key with a digest
    Emits,      \* per key: the aggregates its handler emits events for, in order
    None,
    MaxFaults   \* bound: handler errors and lost connections

ASSUME PostgresAssumption ==
    /\ Requests \subseteq [key : Keys, body : Bodies]
    /\ Emits \in [Keys -> Seq(Aggregates)]
    /\ None \notin Calls \union Bodies
    /\ MaxFaults \in Nat

VARIABLES
    commands,   \* command_deduplication: per key, the digest of its committed row
    events,     \* domain_events: the committed rows
    keyLock,    \* per key: the transaction that inserted or locked its row
    aggregateLock, streamLock,      \* the advisory locks
    pc,         \* per call: the statement it is at
    request,    \* per call: key and digest
    seen,       \* per call: the aggregate versions its handler read
    wrote,      \* per call: the events it inserted, in order
    faults

tables == <<commands, events>>
locks == <<keyLock, aggregateLock, streamLock>>
locals == <<request, seen, wrote>>
vars == <<tables, locks, pc, locals, faults>>

Init ==
    /\ commands = [k \in Keys |-> None]
    /\ events = {}
    /\ keyLock = [k \in Keys |-> None]
    /\ aggregateLock = [a \in Aggregates |-> None]
    /\ streamLock = None
    /\ pc = [c \in Calls |-> "idle"]
    /\ request = [c \in Calls |-> None]
    /\ seen = [c \in Calls |-> None]
    /\ wrote = [c \in Calls |-> << >>]
    /\ faults = 0

Key(c) == request[c].key
Row(c) == commands[Key(c)]
Goto(c, next) == pc' = [pc EXCEPT ![c] = next]

\* What a statement of the call sees, and the highest number in it.
Visible(c) == events \union {wrote[c][i] : i \in DOMAIN wrote[c]}
Highest(numbers) == IF numbers = {} THEN 0 ELSE CHOOSE n \in numbers : \A m \in numbers : m <= n
Version(rows, a) == Highest({e.version : e \in {f \in rows : f.aggregate = a}})

-----------------------------------------------------------------------------
(* Locks.                                                                  *)

NextAggregate(c) == Emits[Key(c)][Len(wrote[c]) + 1]

\* MUTANT: the append takes no lock on the stream.
Holder_NoStream(c) ==
    CASE pc[c] = "selecting" /\ Row(c) # None -> keyLock[Key(c)]
      [] pc[c] = "inserting" /\ Row(c) = None -> keyLock[Key(c)]
      [] pc[c] = "appending" /\ Len(wrote[c]) < Len(Emits[Key(c)]) ->
             aggregateLock[NextAggregate(c)]
      [] OTHER -> None

\* MUTANT: the append takes no lock on the aggregate.
Holder_NoAggregate(c) ==
    CASE pc[c] = "selecting" /\ Row(c) # None -> keyLock[Key(c)]
      [] pc[c] = "inserting" /\ Row(c) = None -> keyLock[Key(c)]
      [] pc[c] = "numbering" -> streamLock
      [] OTHER -> None

\* Who has the lock that the next statement needs: FOR UPDATE locks the row it
\* sees, an insert waits for one of the same key that is not committed yet.
Holder(c) ==
    CASE pc[c] = "selecting" /\ Row(c) # None -> keyLock[Key(c)]
      [] pc[c] = "inserting" /\ Row(c) = None -> keyLock[Key(c)]
      [] pc[c] = "appending" /\ Len(wrote[c]) < Len(Emits[Key(c)]) ->
             aggregateLock[NextAggregate(c)]
      [] pc[c] = "numbering" -> streamLock
      [] OTHER -> None

WaitsFor(c) == IF Holder(c) = c THEN None ELSE Holder(c)
Granted(c) == WaitsFor(c) = None

\* Following who waits for whom leads back to the call.
Deadlocked(c) ==
    LET after[n \in Nat] == IF n = 0 THEN c
                            ELSE IF after[n - 1] = None THEN None ELSE WaitsFor(after[n - 1])
    IN  \E n \in 1 .. Cardinality(Calls) : after[n] = c

Released(lock, c) == [x \in DOMAIN lock |-> IF lock[x] = c THEN None ELSE lock[x]]

\* MUTANT: the advisory lock on the stream outlives a transaction that failed.
Unlock_Session(c) ==
    /\ keyLock' = Released(keyLock, c)
    /\ aggregateLock' = Released(aggregateLock, c)
    /\ streamLock' = IF streamLock = c /\ wrote[c] # << >> /\ Len(wrote[c]) = Len(Emits[Key(c)])
                     THEN None ELSE streamLock

Unlock(c) ==
    /\ keyLock' = Released(keyLock, c)
    /\ aggregateLock' = Released(aggregateLock, c)
    /\ streamLock' = IF streamLock = c THEN None ELSE streamLock

Forget(c) ==
    /\ request' = [request EXCEPT ![c] = None]
    /\ seen' = [seen EXCEPT ![c] = None]
    /\ wrote' = [wrote EXCEPT ![c] = << >>]

\* The call fails and what its transaction wrote is gone.
Rollback(c) ==
    /\ Unlock(c)
    /\ Forget(c)
    /\ Goto(c, "idle")
    /\ UNCHANGED tables

-----------------------------------------------------------------------------
(* One call of dispatch().                                                 *)

Dispatch(c) ==
    /\ pc[c] = "idle"
    /\ \E q \in Requests : request' = [request EXCEPT ![c] = q]
    /\ Goto(c, "looking")
    /\ UNCHANGED <<tables, locks, seen, wrote, faults>>

\* get(): a record with its result is the answer.  One that another
\* transaction has not committed is not seen.
Look(c) ==
    /\ pc[c] = "looking"
    /\ \/ /\ Row(c) = None
          /\ Goto(c, "selecting")
          /\ UNCHANGED <<locks, locals>>
       \/ /\ Row(c) = request[c].body
          /\ Goto(c, "answering")
          /\ Forget(c)
          /\ UNCHANGED locks
       \/ /\ Row(c) \notin {None, request[c].body}
          /\ Rollback(c)
    /\ UNCHANGED <<tables, faults>>

\* MUTANT: reserve() leaves the digest to the check before it.
SameRequest_Assumed(c) == TRUE

SameRequest(c) == Row(c) = request[c].body

\* reserve() looks again, and locks what it finds.  The dispatcher ignores what
\* it returns: a command that was completed meanwhile is executed again.
Select(c) ==
    /\ pc[c] = "selecting" /\ Granted(c)
    /\ \/ /\ Row(c) = None
          /\ Goto(c, "inserting")
          /\ UNCHANGED <<locks, locals>>
       \/ /\ Row(c) # None /\ SameRequest(c)
          /\ keyLock' = [keyLock EXCEPT ![Key(c)] = c]
          /\ Goto(c, "handling")
          /\ UNCHANGED <<aggregateLock, streamLock, locals>>
       \/ /\ Row(c) # None /\ ~SameRequest(c)
          /\ Rollback(c)
    /\ UNCHANGED <<tables, faults>>

\* The insert of reserve(); a row committed meanwhile violates the primary key.
Insert(c) ==
    /\ pc[c] = "inserting" /\ Granted(c)
    /\ \/ /\ Row(c) = None
          /\ keyLock' = [keyLock EXCEPT ![Key(c)] = c]
          /\ Goto(c, "handling")
          /\ UNCHANGED <<aggregateLock, streamLock, locals>>
       \/ /\ Row(c) # None
          /\ Rollback(c)
    /\ UNCHANGED <<tables, faults>>

\* The handler reads the aggregates in the transaction and decides on them.
Handle(c) ==
    /\ pc[c] = "handling"
    /\ seen' = [seen EXCEPT ![c] = [a \in Aggregates |-> Version(events, a)]]
    /\ Goto(c, "appending")
    /\ UNCHANGED <<tables, locks, request, wrote, faults>>

\* The version that the next event declares: after those of its aggregate that
\* the handler saw and emitted before.
Declared(c) ==
    seen[c][NextAggregate(c)] + 1
        + Cardinality({i \in DOMAIN wrote[c] : wrote[c][i].aggregate = NextAggregate(c)})

\* append(): with the aggregate locked, its version is what the event expects.
LockAggregate(c) ==
    /\ pc[c] = "appending" /\ Len(wrote[c]) < Len(Emits[Key(c)]) /\ Granted(c)
    /\ IF Version(Visible(c), NextAggregate(c)) = Declared(c) - 1
       THEN /\ aggregateLock' = [aggregateLock EXCEPT ![NextAggregate(c)] = c]
            /\ Goto(c, "numbering")
            /\ UNCHANGED <<keyLock, streamLock, locals>>
       ELSE Rollback(c)
    /\ UNCHANGED <<tables, faults>>

\* With the stream locked, the event gets the next number of the stream.
InsertEvent(c) ==
    /\ pc[c] = "numbering" /\ Granted(c)
    /\ streamLock' = c
    /\ wrote' = [wrote EXCEPT ![c] = Append(@,
                    [number |-> Highest({e.number : e \in Visible(c)}) + 1,
                     aggregate |-> NextAggregate(c), version |-> Declared(c),
                     key |-> Key(c), body |-> request[c].body])]
    /\ Goto(c, "appending")
    /\ UNCHANGED <<tables, keyLock, aggregateLock, request, seen, faults>>

\* complete() and COMMIT: the row with its result and the events become visible,
\* the locks are released.
Commit(c) ==
    /\ pc[c] = "appending" /\ Len(wrote[c]) = Len(Emits[Key(c)])
    /\ commands' = [commands EXCEPT ![Key(c)] = request[c].body]
    /\ events' = Visible(c)
    /\ Unlock(c)
    /\ Forget(c)
    /\ Goto(c, "answering")
    /\ UNCHANGED faults

Answer(c) ==
    /\ pc[c] = "answering"
    /\ Goto(c, "idle")
    /\ UNCHANGED <<tables, locks, locals, faults>>

-----------------------------------------------------------------------------
\* The handler throws, the connection is lost or the process of the call ends;
\* the client of a call that had committed is not answered.
Fail(c) ==
    /\ pc[c] # "idle" /\ faults < MaxFaults
    /\ faults' = faults + 1
    /\ Rollback(c)

\* PostgreSQL finds a circle of waiting transactions, and picks one of them.
DeadlockVictim(c) ==
    /\ Deadlocked(c)
    /\ Rollback(c)
    /\ UNCHANGED faults

DispatchStep(c) ==
    \/ Look(c) \/ Select(c) \/ Insert(c) \/ Handle(c)
    \/ LockAggregate(c) \/ InsertEvent(c) \/ Commit(c) \/ Answer(c)

Next == \E c \in Calls : Dispatch(c) \/ DispatchStep(c) \/ Fail(c) \/ DeadlockVictim(c)

Spec == Init /\ [][Next]_vars

\* A statement that has its locks ends, one that waits gets a lock that is free
\* again and again, and circles are found.
FairSpec ==
    Spec /\ \A c \in Calls : SF_vars(DispatchStep(c)) /\ WF_vars(DeadlockVictim(c))

-----------------------------------------------------------------------------
(* Properties.                                                             *)

Statements == {"idle", "looking", "selecting", "inserting", "handling", "appending",
               "numbering", "answering"}
Event == [number : Nat \ {0}, aggregate : Aggregates, version : Nat \ {0},
          key : Keys, body : Bodies]

\* Every variable has its type.
TypeOK ==
    /\ commands \in [Keys -> Bodies \union {None}]
    /\ events \subseteq Event
    /\ keyLock \in [Keys -> Calls \union {None}]
    /\ aggregateLock \in [Aggregates -> Calls \union {None}]
    /\ streamLock \in Calls \union {None}
    /\ pc \in [Calls -> Statements]
    /\ request \in [Calls -> Requests \union {None}]
    /\ seen \in [Calls -> [Aggregates -> Nat] \union {None}]
    /\ wrote \in [Calls -> Seq(Event)]
    /\ faults \in Nat

\* Events become visible in the order of their numbers, although their
\* transactions number them before they commit: a reader whose cursor is at the
\* last event it saw misses none.
StreamInOrder ==
    [][\A e \in events' \ events, f \in events : e.number > f.number]_vars

\* The numbers of the stream have no gap, although transactions that had one are
\* rolled back: append() takes the maximum it sees, not the next of a sequence.
StreamHasNoGap ==
    \A e \in events : \A n \in 1 .. e.number : \E f \in events : f.number = n

\* The events of an aggregate are numbered 1, 2, 3 ... in stream order, although
\* their writers decided before they had its lock.
AggregatesInOrder ==
    \A e \in events :
        e.version = Cardinality({f \in events : f.aggregate = e.aggregate /\ f.number <= e.number})

\* A key is executed for one request, however requests with it overlap.
OneRequestPerKey ==
    \A e \in events : commands[e.key] = e.body

\* A dispatch that started comes to an end: waiting for locks does not keep it.
EveryDispatchEnds == \A c \in Calls : pc[c] # "idle" ~> pc[c] = "idle"

\* The events of a key are those of one execution of its handler.
OneExecution ==
    \A k \in Keys : Cardinality({e \in events : e.key = k}) <= Len(Emits[k])
=============================================================================
