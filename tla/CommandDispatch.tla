--------------------------- MODULE CommandDispatch ---------------------------
(***************************************************************************)
(* CommandDispatcher.dispatch over a serial StateStore: one transaction    *)
(* looks the idempotency key up, reserves it, runs the handler, appends    *)
(* its events with their outbox rows and completes the command.            *)
(*                                                                         *)
(* The transaction is not one step here.  It works on a draft, awaits in   *)
(* between, and is committed or dropped as a whole; transactions queue up, *)
(* the process can die at any await, and clients call again with the same  *)
(* key.  Events declare the aggregate version their writer saw before the  *)
(* transaction started, which another command may have advanced since; the *)
(* event store compares it with the actual version and numbers the event   *)
(* itself.                                                                 *)
(***************************************************************************)
EXTENDS Integers, Sequences, FiniteSets

CONSTANTS
    Dispatches,      \* concurrent calls of dispatch()
    Keys,       \* idempotency keys of the tenant
    Bodies,     \* request digests
    Results,    \* what a handler may return; executions may differ
    Aggregates, \* aggregates the events are about
    Emits,      \* per key: the aggregates its handler emits events for, in order
    Nothing,       \* nothing recorded, nobody running
    MaxFailures   \* bound: handler errors and process crashes

ASSUME EmitsAssumption == Emits \in [Keys -> Seq(Aggregates)]
ASSUME NothingAssumption ==
    /\ Nothing \notin Dispatches \union Results
    /\ Nothing \notin [body : Bodies, result : Results \union {Nothing}]
ASSUME FailuresAssumption == MaxFailures \in Nat

VARIABLES
    store,      \* the committed commands, events and outbox
    draft,      \* the open transaction's view of them; empty without one
    queue,      \* calls waiting for or holding the store, in order
    at,         \* per call: where it awaits
    request,    \* per call: key and digest
    seen,       \* per call: aggregate versions read before dispatching
    result,     \* per call: what its handler, or the record, returned
    emitted,    \* per call: how many of its events it has appended
    answers,    \* <<key, digest, result>> that clients were given
    failures      \* failures so far

dispatchVars == <<at, request, seen, result, emitted>>
commandVars == <<store, draft, queue, dispatchVars, answers, failures>>

\* A store without commands, events and outbox rows.
EmptyStore == [commands |-> [k \in Keys |-> Nothing], events |-> << >>, outbox |-> << >>]

\* The version of an aggregate: that of its last event, 0 without one.
Version(events, a) ==
    LET own == {i \in DOMAIN events : events[i].aggregate = a}
    IN  IF own = {} THEN 0
        ELSE LET last == CHOOSE i \in own : \A j \in own : j <= i
             IN  events[last].version

Versions(events) == [a \in Aggregates |-> Version(events, a)]

CommandInit ==
    /\ store = EmptyStore
    /\ draft = EmptyStore
    /\ queue = << >>
    /\ at = [c \in Dispatches |-> "idle"]
    /\ request = [c \in Dispatches |-> Nothing]
    /\ seen = [c \in Dispatches |-> Nothing]
    /\ result = [c \in Dispatches |-> Nothing]
    /\ emitted = [c \in Dispatches |-> 0]
    /\ answers = {}
    /\ failures = 0

-----------------------------------------------------------------------------
(* The store's transaction queue.                                          *)

\* The call's transaction is the one that runs.
Running(c) == queue # << >> /\ Head(queue) = c

\* MUTANT: a dropped transaction leaves its writes behind.
Abort_Dirty(c) ==
    /\ queue' = Tail(queue)
    /\ store' = draft
    /\ draft' = EmptyStore
    /\ at' = [at EXCEPT ![c] = "failed"]

\* MUTANT: a rejected transaction is not taken off the promise chain.
Abort_Stuck(c) ==
    /\ UNCHANGED <<queue, store, draft>>
    /\ at' = [at EXCEPT ![c] = "failed"]

\* The transaction's work throws: the draft is dropped, the next one runs.
Abort(c) ==
    /\ queue' = Tail(queue)
    /\ draft' = EmptyStore
    /\ at' = [at EXCEPT ![c] = "failed"]
    /\ UNCHANGED store

\* The transaction's work resolves: the draft becomes the store.
Commit(c) ==
    /\ queue' = Tail(queue)
    /\ store' = draft
    /\ draft' = EmptyStore
    /\ at' = [at EXCEPT ![c] = "answering"]

-----------------------------------------------------------------------------
(* One call of dispatch().                                                 *)

\* A client reads the aggregates and dispatches a command, valid and with a
\* registered handler; the authorizer is asked before the transaction.
Dispatch(c) ==
    /\ at[c] = "idle"
    /\ \E q \in [key : Keys, body : Bodies] : request' = [request EXCEPT ![c] = q]
    /\ seen' = [seen EXCEPT ![c] = Versions(store.events)]
    /\ at' = [at EXCEPT ![c] = "authorizing"]
    /\ UNCHANGED <<store, draft, queue, result, emitted, answers, failures>>

Authorize(c) ==
    /\ at[c] = "authorizing"
    /\ \/ /\ at' = [at EXCEPT ![c] = "queued"]
          /\ queue' = Append(queue, c)
       \/ /\ at' = [at EXCEPT ![c] = "failed"]
          /\ UNCHANGED queue
    /\ UNCHANGED <<store, draft, request, seen, result, emitted, answers, failures>>

\* MUTANT: the digest of an existing record is not compared.
Lookup_AnyBody(c) ==
    LET existing == store.commands[request[c].key]
    IN  IF existing = Nothing THEN "new"
        ELSE IF existing.result = Nothing THEN "busy" ELSE "replay"

\* What the record of the key says about this request.
Lookup(c) ==
    LET existing == store.commands[request[c].key]
    IN  IF existing = Nothing THEN "new"
        ELSE IF existing.body # request[c].body THEN "mismatch"
        ELSE IF existing.result = Nothing THEN "busy"
        ELSE "replay"

\* A key seen before: its result again, or an error; nothing is written.
Replay(c) ==
    /\ at[c] = "queued"
    /\ Running(c)
    /\ Lookup(c) # "new"
    /\ IF Lookup(c) = "replay"
       THEN /\ result' = [result EXCEPT ![c] = store.commands[request[c].key].result]
            /\ queue' = Tail(queue)
            /\ at' = [at EXCEPT ![c] = "answering"]
            /\ UNCHANGED <<store, draft>>
       ELSE /\ UNCHANGED result
            /\ Abort(c)
    /\ UNCHANGED <<request, seen, emitted, answers, failures>>

\* A new key: reserved in the draft before the handler runs.
Reserve(c) ==
    /\ at[c] = "queued"
    /\ Running(c)
    /\ Lookup(c) = "new"
    /\ draft' = [store EXCEPT !.commands[request[c].key] =
                     [body |-> request[c].body, result |-> Nothing]]
    /\ emitted' = [emitted EXCEPT ![c] = 0]
    /\ at' = [at EXCEPT ![c] = "handling"]
    /\ UNCHANGED <<store, queue, request, seen, result, answers, failures>>

Handle(c) ==
    /\ at[c] = "handling"
    /\ \E r \in Results : result' = [result EXCEPT ![c] = r]
    /\ at' = [at EXCEPT ![c] = "appending"]
    /\ UNCHANGED <<store, draft, queue, request, seen, emitted, answers, failures>>

HandlerThrows(c) ==
    /\ at[c] = "handling"
    /\ failures < MaxFailures
    /\ failures' = failures + 1
    /\ Abort(c)
    /\ UNCHANGED <<request, seen, result, emitted, answers>>

\* The aggregate of the call's next event and the version the event declares:
\* one more than what its writer saw, counting the call's own events.
NextAggregate(c) == Emits[request[c].key][emitted[c] + 1]
Declared(c) ==
    LET own == {i \in 1 .. emitted[c] : Emits[request[c].key][i] = NextAggregate(c)}
    IN  seen[c][NextAggregate(c)] + Cardinality(own) + 1

\* MUTANT: the expected version of the aggregate is not checked.
Expected_Unchecked(c) == TRUE

\* The event store's check: the aggregate is at the version before.
Expected(c) == Version(draft.events, NextAggregate(c)) = Declared(c) - 1

\* The event as stored: numbered after the last of its aggregate.  `basis`, the
\* version that its writer decided on, is not stored; a property speaks of it.
NextEvent(c) ==
    [aggregate |-> NextAggregate(c),
     version |-> Version(draft.events, NextAggregate(c)) + 1,
     basis |-> seen[c][NextAggregate(c)],
     key |-> request[c].key,
     result |-> result[c]]

\* An event and its outbox row.
WithEvent(d, e) == [d EXCEPT !.events = Append(@, e), !.outbox = Append(@, e)]

AppendEvent(c) ==
    /\ at[c] = "appending"
    /\ emitted[c] < Len(Emits[request[c].key])
    /\ IF Expected(c)
       THEN /\ draft' = WithEvent(draft, NextEvent(c))
            /\ emitted' = [emitted EXCEPT ![c] = @ + 1]
            /\ UNCHANGED <<store, queue, at>>
       ELSE /\ Abort(c)
            /\ UNCHANGED emitted
    /\ UNCHANGED <<request, seen, result, answers, failures>>

\* The draft with the command's result recorded.
Completed(c) == [draft EXCEPT !.commands[request[c].key].result = result[c]]

Complete(c) ==
    /\ at[c] = "appending"
    /\ emitted[c] = Len(Emits[request[c].key])
    /\ draft' = Completed(c)
    /\ at' = [at EXCEPT ![c] = "committing"]
    /\ UNCHANGED <<store, queue, request, seen, result, emitted, answers, failures>>

CommitCommand(c) ==
    /\ at[c] = "committing"
    /\ Commit(c)
    /\ UNCHANGED <<request, seen, result, emitted, answers, failures>>

\* The call is over and its variables with it.
Leave(c) ==
    /\ at' = [at EXCEPT ![c] = "idle"]
    /\ request' = [request EXCEPT ![c] = Nothing]
    /\ seen' = [seen EXCEPT ![c] = Nothing]
    /\ result' = [result EXCEPT ![c] = Nothing]
    /\ emitted' = [emitted EXCEPT ![c] = 0]

Answer(c) ==
    /\ at[c] = "answering"
    /\ answers' = answers \union {<<request[c].key, request[c].body, result[c]>>}
    /\ Leave(c)
    /\ UNCHANGED <<store, draft, queue, failures>>

\* The promise rejects; the client may dispatch the command again.
Fail(c) ==
    /\ at[c] = "failed"
    /\ Leave(c)
    /\ UNCHANGED <<store, draft, queue, answers, failures>>

-----------------------------------------------------------------------------
\* The process dies: the open transaction, the queue and every answer under
\* way are lost, what was committed stays.
ProcessDies ==
    /\ failures < MaxFailures
    /\ failures' = failures + 1
    /\ queue' = << >>
    /\ draft' = EmptyStore
    /\ at' = [c \in Dispatches |-> "idle"]
    /\ request' = [c \in Dispatches |-> Nothing]
    /\ seen' = [c \in Dispatches |-> Nothing]
    /\ result' = [c \in Dispatches |-> Nothing]
    /\ emitted' = [c \in Dispatches |-> 0]
    /\ UNCHANGED <<store, answers>>

DispatchStep(c) ==
    \/ Authorize(c)
    \/ Replay(c)
    \/ Reserve(c)
    \/ Handle(c)
    \/ AppendEvent(c)
    \/ Complete(c)
    \/ CommitCommand(c)
    \/ Answer(c)
    \/ Fail(c)

CommandNext ==
    \/ \E c \in Dispatches : Dispatch(c) \/ DispatchStep(c) \/ HandlerThrows(c)
    \/ ProcessDies

CommandSpec == CommandInit /\ [][CommandNext]_commandVars

\* Every promise a dispatch awaits settles.
FairCommandSpec == CommandSpec /\ \A c \in Dispatches : WF_commandVars(DispatchStep(c))

-----------------------------------------------------------------------------
(* Properties.                                                             *)

Awaits == {"idle", "authorizing", "queued", "handling", "appending", "committing",
           "answering", "failed"}
Event == [aggregate : Aggregates, version : Nat \ {0}, basis : Nat, key : Keys,
          result : Results]
Command == [body : Bodies, result : Results \union {Nothing}]
StoreType == [commands : [Keys -> Command \union {Nothing}], events : Seq(Event),
              outbox : Seq(Event)]

\* Every variable has its type, and only the head of the queue has a
\* transaction open.
CommandTypeOK ==
    /\ store \in StoreType
    /\ draft \in StoreType
    /\ queue \in Seq(Dispatches)
    /\ at \in [Dispatches -> Awaits]
    /\ request \in [Dispatches -> [key : Keys, body : Bodies] \union {Nothing}]
    /\ seen \in [Dispatches -> [Aggregates -> Nat] \union {Nothing}]
    /\ result \in [Dispatches -> Results \union {Nothing}]
    /\ emitted \in [Dispatches -> Nat]
    /\ \A c \in Dispatches : at[c] \in {"handling", "appending", "committing"}
                           => queue # << >> /\ Head(queue) = c
    /\ failures \in 0 .. MaxFailures

\* Where the events of a key are in the stream.
Own(k) == {i \in DOMAIN store.events : store.events[i].key = k}

\* A committed command has its result and, in one piece, exactly the events of
\* one execution; a command without a result left nothing behind (no reservation,
\* no event), whichever step failed or crashed.  Every event has its outbox row.
AllOrNothing ==
    /\ store.outbox = store.events
    /\ \A k \in Keys :
        LET command == store.commands[k]
        IN  IF command = Nothing THEN Own(k) = {}
            ELSE /\ command.result # Nothing
                 /\ \E n \in 0 .. Len(store.events) :
                        /\ Own(k) = n + 1 .. n + Len(Emits[k])
                        /\ \A i \in DOMAIN Emits[k] :
                               /\ store.events[n + i].aggregate = Emits[k][i]
                               /\ store.events[n + i].result = command.result

\* Between the version that an event was decided on and the event there is no event
\* of another command on its aggregate.
DecidedOnLatest(events) ==
    \A i, j \in DOMAIN events :
        /\ j < i
        /\ events[j].aggregate = events[i].aggregate
        /\ events[j].key # events[i].key
        => events[j].version <= events[i].basis

\* No command commits a stale decision: what its writer saw of an aggregate, before it
\* had the store, is what its events follow.
NoStaleDecision == DecidedOnLatest(store.events)

\* A dispatch that started comes to an end, even behind failing ones.
EveryDispatchEnds == \A c \in Dispatches : at[c] # "idle" ~> at[c] = "idle"

\* The dispatcher implements atomic commands: the draft is never seen, and
\* whoever is answered gets the result of the key's one execution.
Atomic == INSTANCE AtomicCommands WITH
    None <- Nothing,
    done <- [k \in Keys |-> IF store.commands[k] = Nothing THEN Nothing
                            ELSE <<store.commands[k].body, store.commands[k].result>>],
    log <- [i \in DOMAIN store.events |->
               <<store.events[i].key, store.events[i].result, store.events[i].aggregate>>]
ImplementsAtomicCommands == Atomic!Spec
=============================================================================
