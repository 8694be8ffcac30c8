-------------------------- MODULE ProjectionEngine --------------------------
(***************************************************************************)
(* The projection engine (packages/projections/src/engine.ts) for one      *)
(* tenant and one projection: the views that engines keep in memory, the   *)
(* checkpoint they share through the state store, and the calls project()  *)
(* and rebuild() that bring a view up to the event stream.                 *)
(*                                                                         *)
(* A transaction of the store is one action, together with the code that   *)
(* runs between it and the next await: only the holder of an engine's lock *)
(* looks at that engine's view.                                            *)
(***************************************************************************)
EXTENDS Integers, Sequences

CONSTANTS
    Engines,        \* ProjectionEngine instances over one state store
    Callers,        \* concurrent calls
    EngineOf,       \* the engine each of them is a call of
    MaxEvents,      \* bound: events in the stream
    Mine,           \* the events of the tenant
    Replay,         \* the state after the first k events, see below
    MaxFaults,      \* bound: failed steps and crashes
    None

(***************************************************************************)
(* The state of a projection is the sequence of events applied to it, the  *)
(* finest there is: what any projection computes is a function of it.      *)
(* Replay[k] is what one uninterrupted replay makes of the first k events. *)
(***************************************************************************)
State == Seq(Nat)

Applied(state, n) == IF n \in Mine THEN Append(state, n) ELSE state

ASSUME EventsAssumption == MaxEvents \in Nat
ASSUME ReplayAssumption ==
    /\ DOMAIN Replay = 0..MaxEvents
    /\ Replay[0] = <<>>
    /\ \A n \in 1..MaxEvents : Replay[n] = Applied(Replay[n - 1], n)
ASSUME FaultsAssumption == MaxFaults \in Nat
ASSUME EngineOfAssumption == EngineOf \in [Callers -> Engines]
ASSUME NoneAssumption == None \notin Callers /\ None \notin State

VARIABLES
    head,           \* events in the stream
    checkpoint,     \* the stored cursor, 0 when none is stored
    view,           \* this.states of each engine, None when it has no state
    waiting,        \* who awaits each engine's lock, in order
    holder,         \* who has it, or None
    call,           \* the call in progress of each caller
    answer,         \* the last snapshot each engine returned
    faults          \* history: failed steps and crashes so far

vars == <<head, checkpoint, view, waiting, holder, call, answer, faults>>

store == <<head, checkpoint>>
lock == <<waiting, holder>>

Phases == {"idle", "waiting", "clearing", "reading", "starting", "dropping",
           "applying"}

(***************************************************************************)
(* A call: its phase, whether it is a rebuild(), whether options.events    *)
(* were given, the head of the stream when it was made, the events it has  *)
(* (a set: they are sorted first), and its local state and cursor.         *)
(***************************************************************************)
NoCall == [phase |-> "idle", rebuild |-> FALSE, supplied |-> FALSE,
           asked |-> 0, source |-> {}, state |-> <<>>, cursor |-> 0]

Calls == [phase : Phases, rebuild : BOOLEAN, supplied : BOOLEAN,
          asked : Nat, source : SUBSET Nat, state : State, cursor : Nat]

Snapshots == [state : State, cursor : Nat]

InPhase(c, phase) == call[c].phase = phase

Holds(c) == holder[EngineOf[c]] = c

Init ==
    /\ head = 0
    /\ checkpoint = 0
    /\ view = [e \in Engines |-> None]
    /\ waiting = [e \in Engines |-> <<>>]
    /\ holder = [e \in Engines |-> None]
    /\ call = [c \in Callers |-> NoCall]
    /\ answer = [e \in Engines |-> [state |-> <<>>, cursor |-> 0]]
    /\ faults = 0

(***************************************************************************)
(* Another component appends an event, of the tenant or of another one.    *)
(***************************************************************************)
AppendEvent ==
    /\ head < MaxEvents
    /\ head' = head + 1
    /\ UNCHANGED <<checkpoint, view, lock, call, answer, faults>>

(***************************************************************************)
(* project() or rebuild(), with or without options.events: a list that the *)
(* caller read earlier, perhaps filtered.  The call awaits the lock.       *)
(***************************************************************************)
Request(c, rebuild, supplied, source) ==
    /\ InPhase(c, "idle")
    /\ call' = [call EXCEPT ![c] =
                  [phase |-> "waiting", rebuild |-> rebuild,
                   supplied |-> supplied, asked |-> head, source |-> source,
                   state |-> <<>>, cursor |-> 0]]
    /\ waiting' = [waiting EXCEPT ![EngineOf[c]] = Append(@, c)]
    /\ UNCHANGED <<store, view, holder, answer, faults>>

\* A call is made with a list of its own or reads the stream.
Ask(c) ==
    \E rebuild \in BOOLEAN :
        \/ Request(c, rebuild, FALSE, {})
        \/ \E source \in SUBSET (1..head) : Request(c, rebuild, TRUE, source)

\* What a call does after it has the lock, and after a rebuild's clear().
Reading(c) == IF call[c].supplied THEN "starting" ELSE "reading"

\* The previous holder has resolved its promise.
Enter(c) ==
    /\ InPhase(c, "waiting")
    /\ holder[EngineOf[c]] = None
    /\ waiting[EngineOf[c]] # <<>>
    /\ Head(waiting[EngineOf[c]]) = c
    /\ waiting' = [waiting EXCEPT ![EngineOf[c]] = Tail(@)]
    /\ holder' = [holder EXCEPT ![EngineOf[c]] = c]
    /\ call' = [call EXCEPT ![c].phase =
                  IF call[c].rebuild THEN "clearing" ELSE Reading(c)]
    /\ UNCHANGED <<store, view, answer, faults>>

\* rebuild() forgets the checkpoint, then its own state.
Clear(c) ==
    /\ Holds(c) /\ InPhase(c, "clearing")
    /\ checkpoint' = 0
    /\ view' = [view EXCEPT ![EngineOf[c]] = None]
    /\ call' = [call EXCEPT ![c].phase = Reading(c)]
    /\ UNCHANGED <<head, lock, answer, faults>>

Read_BeforeTheEnd(c) ==
    /\ Holds(c) /\ InPhase(c, "reading")
    /\ call' = [call EXCEPT ![c].source = 1..(head - 1), ![c].phase = "starting"]
    /\ UNCHANGED <<store, view, lock, answer, faults>>

\* readAllEvents()
Read(c) ==
    /\ Holds(c) /\ InPhase(c, "reading")
    /\ call' = [call EXCEPT ![c].source = 1..head, ![c].phase = "starting"]
    /\ UNCHANGED <<store, view, lock, answer, faults>>

(***************************************************************************)
(* run() gets the checkpoint and looks at the state of its engine.  If the *)
(* first has no second, the engine restarted: the checkpoint goes.         *)
(***************************************************************************)
\* MUTANT: a stored checkpoint is always resumed from.
Restarted_Never(c) == FALSE

Restarted(c) == checkpoint > 0 /\ view[EngineOf[c]] = None

Start(c) ==
    /\ Holds(c) /\ InPhase(c, "starting")
    /\ \/ /\ Restarted(c)
          /\ call' = [call EXCEPT ![c].phase = "dropping"]
       \/ /\ ~Restarted(c)
          /\ call' = [call EXCEPT
                        ![c].phase = "applying",
                        ![c].cursor = checkpoint,
                        ![c].state = IF view[EngineOf[c]] = None THEN <<>>
                                     ELSE view[EngineOf[c]]]
    /\ UNCHANGED <<store, view, lock, answer, faults>>

Drop(c) ==
    /\ Holds(c) /\ InPhase(c, "dropping")
    /\ checkpoint' = 0
    /\ call' = [call EXCEPT ![c].phase = "applying"]
    /\ UNCHANGED <<head, view, lock, answer, faults>>

(***************************************************************************)
(* The loop over the events after the cursor: the next one must follow it, *)
(* it is applied, the checkpoint is saved, and then the engine's state and *)
(* the call's cursor move.                                                 *)
(***************************************************************************)
Remaining(c) == {n \in call[c].source : n > call[c].cursor}

IsNext(c, n) == n \in Remaining(c) /\ n = call[c].cursor + 1

Apply(c) ==
    /\ Holds(c) /\ InPhase(c, "applying")
    /\ \E n \in Remaining(c) :
        /\ IsNext(c, n)
        /\ checkpoint' = n
        /\ view' = [view EXCEPT ![EngineOf[c]] = Applied(call[c].state, n)]
        /\ call' = [call EXCEPT ![c].cursor = n,
                                ![c].state = Applied(call[c].state, n)]
    /\ UNCHANGED <<head, lock, answer, faults>>

\* The finally of withLock(): the next call in line may go on.
Leave(c) ==
    /\ call' = [call EXCEPT ![c] = NoCall]
    /\ holder' = [holder EXCEPT ![EngineOf[c]] = None]
    /\ UNCHANGED waiting

\* Events are left but the next one is missing: the call throws.
MeetGap(c) ==
    /\ Holds(c) /\ InPhase(c, "applying")
    /\ Remaining(c) # {}
    /\ ~\E n \in Remaining(c) : IsNext(c, n)
    /\ Leave(c)
    /\ UNCHANGED <<store, view, answer, faults>>

Return(c) ==
    /\ Holds(c) /\ InPhase(c, "applying")
    /\ Remaining(c) = {}
    /\ answer' = [answer EXCEPT ![EngineOf[c]] =
                    [state |-> call[c].state, cursor |-> call[c].cursor]]
    /\ Leave(c)
    /\ UNCHANGED <<store, view, faults>>

\* MUTANT: withLock() without its finally.
StepFails_KeepsLock(c) ==
    /\ Holds(c) /\ call[c].phase \notin {"idle", "waiting"}
    /\ InPhase(c, "applying") => Remaining(c) # {}
    /\ faults < MaxFaults
    /\ faults' = faults + 1
    /\ call' = [call EXCEPT ![c] = NoCall]
    /\ UNCHANGED <<store, view, lock, answer>>

\* A transaction is rejected and rolled back, or the projector throws.
StepFails(c) ==
    /\ Holds(c) /\ call[c].phase \notin {"idle", "waiting"}
    /\ InPhase(c, "applying") => Remaining(c) # {}
    /\ faults < MaxFaults
    /\ faults' = faults + 1
    /\ Leave(c)
    /\ UNCHANGED <<store, view, answer>>

\* The process of an engine ends: its memory and its calls are gone.
Crash(e) ==
    /\ faults < MaxFaults
    /\ faults' = faults + 1
    /\ view' = [view EXCEPT ![e] = None]
    /\ waiting' = [waiting EXCEPT ![e] = <<>>]
    /\ holder' = [holder EXCEPT ![e] = None]
    /\ call' = [c \in Callers |-> IF EngineOf[c] = e THEN NoCall ELSE call[c]]
    /\ UNCHANGED <<store, answer>>

Work(c) ==
    \/ Enter(c) \/ Clear(c) \/ Read(c) \/ Start(c) \/ Drop(c)
    \/ Apply(c) \/ MeetGap(c) \/ Return(c)

Next ==
    \/ AppendEvent
    \/ \E c \in Callers : Ask(c) \/ Work(c) \/ StepFails(c)
    \/ \E e \in Engines : Crash(e)

Spec == Init /\ [][Next]_vars

(***************************************************************************)
(* Weak fairness: the store answers and the event loop runs what awaits.   *)
(***************************************************************************)
FairSpec == Spec /\ \A c \in Callers : WF_vars(Work(c))

-----------------------------------------------------------------------------
TypeOK ==
    /\ head \in 0..MaxEvents
    /\ checkpoint \in 0..head
    /\ view \in [Engines -> State \cup {None}]
    /\ waiting \in [Engines -> Seq(Callers)]
    /\ holder \in [Engines -> Callers \cup {None}]
    /\ call \in [Callers -> Calls]
    /\ \A c \in Callers : call[c].source \subseteq 1..head
    /\ answer \in [Engines -> Snapshots]
    /\ faults \in 0..MaxFaults

(***************************************************************************)
(* What an engine holds is the replay of the stream up to the stored       *)
(* checkpoint, never a part of it: "this keeps a durable cursor from       *)
(* producing a partial in-memory view" (engine.ts:96-98), whatever calls   *)
(* overlap, fail, bring lists of their own, or die half-way.               *)
(***************************************************************************)
ViewsAreWhole ==
    \A e \in Engines : view[e] # None => view[e] = Replay[checkpoint]

(***************************************************************************)
(* A snapshot that project() or rebuild() returned is the replay of the    *)
(* stream up to the cursor it names.                                       *)
(***************************************************************************)
SnapshotsAreReplays ==
    \A e \in Engines : answer[e].state = Replay[answer[e].cursor]

(***************************************************************************)
(* A call that reads the stream itself reflects every event that was there *)
(* when it was made, and never shows less than an earlier snapshot of its  *)
(* engine: the cursor of a projection is monotonic.                        *)
(***************************************************************************)
SnapshotsAreCurrent ==
    [][\A c \in Callers :
         (Return(c) /\ ~call[c].supplied) =>
            LET e == EngineOf[c]
            IN  /\ answer'[e].cursor >= call[c].asked
                /\ answer'[e].cursor >= answer[e].cursor]_vars

(***************************************************************************)
(* Every call is answered, fails or dies with its engine: a call that      *)
(* throws hands the lock on (the finally of withLock).                     *)
(***************************************************************************)
EveryCallEnds ==
    \A c \in Callers : ~InPhase(c, "idle") ~> InPhase(c, "idle")
=============================================================================
