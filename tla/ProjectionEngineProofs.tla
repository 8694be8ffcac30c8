----------------------- MODULE ProjectionEngineProofs -----------------------
(***************************************************************************)
(* Type correctness of ProjectionEngine for any engines, and for a store   *)
(* with one engine the proof that views and snapshots are whole replays.   *)
(***************************************************************************)
EXTENDS ProjectionEngine, TLAPS

\* Applying an event gives a state again.
LEMMA AppliedIsState ==
    ASSUME NEW s \in State, NEW n \in Nat
    PROVE  Applied(s, n) \in State
BY DEF Applied, State

\* Updates of the fields of a call keep it a call.
LEMMA PhaseUpdated ==
    ASSUME NEW r \in Calls, NEW p \in Phases
    PROVE  [r EXCEPT !.phase = p] \in Calls
BY DEF Calls

LEMMA SourceUpdated ==
    ASSUME NEW r \in Calls, NEW p \in Phases, NEW src \in SUBSET Nat
    PROVE  [r EXCEPT !.source = src, !.phase = p] \in Calls
BY DEF Calls

LEMMA StateUpdated ==
    ASSUME NEW r \in Calls, NEW n \in Nat, NEW s \in State
    PROVE  /\ [r EXCEPT !.cursor = n, !.state = s] \in Calls
           /\ [r EXCEPT !.cursor = n, !.state = s].source = r.source
           /\ [r EXCEPT !.cursor = n, !.state = s].phase = r.phase
           /\ [r EXCEPT !.cursor = n, !.state = s].cursor = n
           /\ [r EXCEPT !.cursor = n, !.state = s].state = s
BY DEF Calls

LEMMA CallStarted ==
    ASSUME NEW r \in Calls, NEW p \in Phases, NEW n \in Nat, NEW s \in State
    PROVE  /\ [r EXCEPT !.phase = p, !.cursor = n, !.state = s] \in Calls
           /\ [r EXCEPT !.phase = p, !.cursor = n, !.state = s].source = r.source
           /\ [r EXCEPT !.phase = p, !.cursor = n, !.state = s].phase = p
           /\ [r EXCEPT !.phase = p, !.cursor = n, !.state = s].cursor = n
           /\ [r EXCEPT !.phase = p, !.cursor = n, !.state = s].state = s
<1> DEFINE q == [r EXCEPT !.phase = p]
<1>1. q \in Calls /\ q.phase = p /\ q.source = r.source
  BY PhaseUpdated DEF Calls
<1> HIDE DEF q
<1>2. [q EXCEPT !.cursor = n, !.state = s] \in Calls
  BY <1>1, StateUpdated
<1>3. /\ [q EXCEPT !.cursor = n, !.state = s].source = q.source
      /\ [q EXCEPT !.cursor = n, !.state = s].phase = q.phase
      /\ [q EXCEPT !.cursor = n, !.state = s].cursor = n
      /\ [q EXCEPT !.cursor = n, !.state = s].state = s
  BY <1>1 DEF Calls
<1> QED
  BY ONLY <1>1, <1>2, <1>3 DEF q

\* What a step that replaces or updates one call leaves of the calls.
LEMMA CallReplaced ==
    ASSUME call \in [Callers -> Calls], NEW c \in Callers, NEW r \in Calls,
           call' = [call EXCEPT ![c] = r]
    PROVE  /\ call' \in [Callers -> Calls]
           /\ call'[c] = r
           /\ \A d \in Callers \ {c} : call'[d] = call[d]
OBVIOUS

LEMMA PhaseMoves ==
    ASSUME call \in [Callers -> Calls], NEW c \in Callers, NEW p \in Phases,
           call' = [call EXCEPT ![c].phase = p]
    PROVE  /\ call' \in [Callers -> Calls]
           /\ call'[c] = [call[c] EXCEPT !.phase = p]
           /\ call'[c].phase = p
           /\ call'[c].source = call[c].source
           /\ call'[c].state = call[c].state
           /\ call'[c].cursor = call[c].cursor
           /\ \A d \in Callers \ {c} : call'[d] = call[d]
<1> DEFINE r == [call[c] EXCEPT !.phase = p]
<1>1. r \in Calls
  BY PhaseUpdated
<1>2. call' = [call EXCEPT ![c] = r]
  OBVIOUS
<1>3. /\ r.phase = p /\ r.source = call[c].source /\ r.state = call[c].state
      /\ r.cursor = call[c].cursor
  BY DEF Calls
<1> HIDE DEF r
<1>4. /\ call' \in [Callers -> Calls] /\ call'[c] = r
      /\ \A d \in Callers \ {c} : call'[d] = call[d]
  BY ONLY <1>1, <1>2, CallReplaced, call \in [Callers -> Calls], c \in Callers
<1> QED
  BY <1>3, <1>4 DEF r

Held(c) == IF view[EngineOf[c]] = None THEN <<>> ELSE view[EngineOf[c]]

LEMMA StartMoves ==
    ASSUME TypeOK, NEW c \in Callers, Start(c), ~Restarted(c)
    PROVE  /\ call' \in [Callers -> Calls]
           /\ call'[c].phase = "applying"
           /\ call'[c].source = call[c].source
           /\ call'[c].state = Held(c)
           /\ call'[c].cursor = checkpoint
           /\ \A d \in Callers \ {c} : call'[d] = call[d]
<1> DEFINE r == [call[c] EXCEPT !.phase = "applying", !.cursor = checkpoint,
                                !.state = Held(c)]
<1>1. call' = [call EXCEPT ![c] = r]
  BY DEF Start, Held
<1>2. /\ call \in [Callers -> Calls] /\ call[c] \in Calls
      /\ "applying" \in Phases /\ checkpoint \in Nat /\ Held(c) \in State
  BY EngineOfAssumption DEF TypeOK, Phases, Held, State
<1>3. /\ r \in Calls /\ r.source = call[c].source /\ r.phase = "applying"
      /\ r.cursor = checkpoint /\ r.state = Held(c)
  <2>1. r \in Calls
    BY ONLY <1>2, CallStarted
  <2>2. call[c] \in Calls => /\ r.source = call[c].source /\ r.cursor = checkpoint
                             /\ r.phase = "applying" /\ r.state = Held(c)
    BY DEF Calls
  <2> QED
    BY ONLY <1>2, <2>1, <2>2
<1> HIDE DEF r
<1>4. /\ call' \in [Callers -> Calls] /\ call'[c] = r
      /\ \A d \in Callers \ {c} : call'[d] = call[d]
  BY ONLY <1>1, <1>2, <1>3, CallReplaced, c \in Callers
<1> QED
  BY ONLY <1>3, <1>4

LEMMA ApplyMoves ==
    ASSUME TypeOK, NEW c \in Callers, Apply(c)
    PROVE  /\ call' \in [Callers -> Calls]
           /\ call[c].cursor + 1 \in call[c].source
           /\ checkpoint' = call[c].cursor + 1
           /\ call'[c].phase = call[c].phase
           /\ call'[c].source = call[c].source
           /\ call'[c].state = Applied(call[c].state, checkpoint')
           /\ call'[c].cursor = checkpoint'
           /\ view' = [view EXCEPT ![EngineOf[c]] = call'[c].state]
           /\ \A d \in Callers \ {c} : call'[d] = call[d]
<1>1. PICK n \in Remaining(c) :
          /\ IsNext(c, n)
          /\ checkpoint' = n
          /\ view' = [view EXCEPT ![EngineOf[c]] = Applied(call[c].state, n)]
          /\ call' = [call EXCEPT ![c].cursor = n,
                                  ![c].state = Applied(call[c].state, n)]
  BY DEF Apply
<1>2. n \in call[c].source /\ n = call[c].cursor + 1 /\ n \in Nat
  BY <1>1 DEF IsNext, Remaining, TypeOK
<1> DEFINE s == Applied(call[c].state, n)
           r == [call[c] EXCEPT !.cursor = n, !.state = s]
<1>3. call' = [call EXCEPT ![c] = r]
  BY <1>1
<1>4. call \in [Callers -> Calls] /\ call[c] \in Calls /\ s \in State
  BY <1>2, AppliedIsState DEF TypeOK, Calls
<1> HIDE DEF s
<1>5. /\ r \in Calls /\ r.source = call[c].source /\ r.phase = call[c].phase
      /\ r.cursor = n /\ r.state = s
  <2>1. r \in Calls
    BY ONLY <1>2, <1>4, StateUpdated
  <2>2. call[c] \in Calls => /\ r.source = call[c].source /\ r.cursor = n
                             /\ r.phase = call[c].phase /\ r.state = s
    BY DEF Calls
  <2> QED
    BY ONLY <1>4, <2>1, <2>2
<1> HIDE DEF r
<1>6. /\ call' \in [Callers -> Calls] /\ call'[c] = r
      /\ \A d \in Callers \ {c} : call'[d] = call[d]
  BY ONLY <1>3, <1>4, <1>5, CallReplaced, c \in Callers
<1> QED
  BY <1>1, <1>2, <1>5, <1>6 DEF s

LEMMA StepIsTyped == TypeOK /\ [Next]_vars => TypeOK'
<1> SUFFICES ASSUME TypeOK, [Next]_vars PROVE TypeOK'
  OBVIOUS
<1> USE EventsAssumption, FaultsAssumption, EngineOfAssumption, NoneAssumption
<1>1. CASE UNCHANGED vars
  BY <1>1 DEF TypeOK, vars, Calls, NoCall
<1>2. CASE AppendEvent
  BY <1>2 DEF AppendEvent, TypeOK, lock, Calls
<1>3. ASSUME NEW c \in Callers, Ask(c) PROVE TypeOK'
  <2>1. PICK rebuild \in BOOLEAN, supplied \in BOOLEAN,
             source \in SUBSET (1..head) : Request(c, rebuild, supplied, source)
    BY <1>3 DEF Ask
  <2>2. EngineOf[c] \in Engines
    OBVIOUS
  <2>3. waiting' \in [Engines -> Seq(Callers)]
    BY <2>1, <2>2 DEF Request, TypeOK
  <2>4. call' \in [Callers -> Calls]
    <3> DEFINE r == [phase |-> "waiting", rebuild |-> rebuild,
                     supplied |-> supplied, asked |-> head,
                     source |-> source, state |-> <<>>, cursor |-> 0]
    <3>2. r \in Calls
      BY DEF TypeOK, Calls, Phases, State
    <3> HIDE DEF r
    <3> QED
      BY <2>1, <3>2 DEF Request, TypeOK, r
  <2>5. \A d \in Callers : call'[d].source \subseteq 1..head
    BY <2>1 DEF Request, TypeOK, NoCall
  <2> QED
    BY <2>1, <2>3, <2>4, <2>5 DEF Request, TypeOK, store
<1>4. ASSUME NEW c \in Callers, Enter(c) PROVE TypeOK'
  <2>1. waiting' \in [Engines -> Seq(Callers)]
    BY <1>4 DEF Enter, TypeOK
  <2> DEFINE p == IF call[c].rebuild THEN "clearing" ELSE Reading(c)
  <2>2. call' = [call EXCEPT ![c].phase = p] /\ call \in [Callers -> Calls]
    BY <1>4 DEF Enter, TypeOK
  <2>4. p \in Phases
    BY DEF Phases, Reading
  <2> HIDE DEF p
  <2>3. /\ call' \in [Callers -> Calls]
        /\ \A d \in Callers : call'[d].source = call[d].source
    BY ONLY <2>2, <2>4, PhaseMoves, c \in Callers
  <2> QED
    BY <1>4, <2>1, <2>3 DEF Enter, TypeOK, store
<1>5. ASSUME NEW c \in Callers, Clear(c) PROVE TypeOK'
  <2>1. Reading(c) \in Phases
    BY DEF Reading, Phases
  <2>2. /\ call' \in [Callers -> Calls]
        /\ \A d \in Callers : call'[d].source = call[d].source
    <3>1. call' = [call EXCEPT ![c].phase = Reading(c)] /\ call \in [Callers -> Calls]
      BY <1>5 DEF Clear, TypeOK
    <3> QED
      BY ONLY <2>1, <3>1, PhaseMoves, c \in Callers
  <2> QED
    BY <1>5, <2>2 DEF Clear, TypeOK, lock
<1>6. ASSUME NEW c \in Callers, Read(c) PROVE TypeOK'
  <2> DEFINE r == [call[c] EXCEPT !.source = 1..head, !.phase = "starting"]
  <2>1. r \in Calls /\ r.source = 1..head
    <3>1. "starting" \in Phases /\ 1..head \in SUBSET Nat /\ call[c] \in Calls
      BY DEF Phases, TypeOK
    <3>2. r \in Calls
      BY <3>1, SourceUpdated
    <3> QED
      BY <3>1, <3>2 DEF Calls
  <2>2. call' = [call EXCEPT ![c] = r]
    BY <1>6 DEF Read
  <2> HIDE DEF r
  <2>3. /\ call' \in [Callers -> Calls]
        /\ \A d \in Callers : call'[d].source \subseteq 1..head
    BY <2>1, <2>2, CallReplaced DEF TypeOK
  <2> QED
    BY <1>6, <2>3 DEF Read, TypeOK, lock, store
<1>7. ASSUME NEW c \in Callers, Start(c) PROVE TypeOK'
  <2>1. /\ call' \in [Callers -> Calls]
        /\ \A d \in Callers : call'[d].source = call[d].source
    <3>1. CASE Restarted(c)
      <4>1. call' = [call EXCEPT ![c].phase = "dropping"]
        BY <1>7, <3>1 DEF Start
      <4>2. call \in [Callers -> Calls] /\ "dropping" \in Phases
        BY DEF TypeOK, Phases
      <4> QED
        BY ONLY <4>1, <4>2, PhaseMoves, c \in Callers
    <3>2. CASE ~Restarted(c)
      BY <1>7, <3>2, StartMoves
    <3> QED
      BY <3>1, <3>2
  <2> QED
    BY <1>7, <2>1 DEF Start, TypeOK, lock, store
<1>8. ASSUME NEW c \in Callers, Drop(c) PROVE TypeOK'
  <2>1. /\ call' \in [Callers -> Calls]
        /\ \A d \in Callers : call'[d].source = call[d].source
    <3>1. call' = [call EXCEPT ![c].phase = "applying"]
      BY <1>8 DEF Drop
    <3>2. call \in [Callers -> Calls] /\ "applying" \in Phases
      BY DEF TypeOK, Phases
    <3> QED
      BY ONLY <3>1, <3>2, PhaseMoves, c \in Callers
  <2> QED
    BY <1>8, <2>1 DEF Drop, TypeOK, lock
<1>9. ASSUME NEW c \in Callers, Apply(c) PROVE TypeOK'
  <2>1. checkpoint' \in 0..head
    <3>1. checkpoint' \in call[c].source /\ call[c].source \subseteq 1..head
      BY <1>9, ApplyMoves DEF TypeOK
    <3> QED
      BY ONLY <3>1, head \in Nat DEF TypeOK
  <2>2. call' \in [Callers -> Calls] /\ call'[c].state \in State
    BY <1>9, ApplyMoves DEF Calls
  <2>3. view' \in [Engines -> State \cup {None}]
    BY <1>9, <2>2, ApplyMoves DEF TypeOK
  <2>4. \A d \in Callers : call'[d].source = call[d].source
    BY <1>9, ApplyMoves
  <2> QED
    BY <1>9, <2>1, <2>2, <2>3, <2>4 DEF Apply, TypeOK, lock
<1>10. ASSUME NEW c \in Callers, Leave(c), UNCHANGED <<head, checkpoint, view>>,
              answer' \in [Engines -> Snapshots], faults' \in 0..MaxFaults
       PROVE  TypeOK'
  BY <1>10 DEF Leave, TypeOK, Calls, NoCall, Phases, State
<1>11. ASSUME NEW c \in Callers, MeetGap(c) PROVE TypeOK'
  BY <1>10, <1>11 DEF MeetGap, TypeOK, store
<1>12. ASSUME NEW c \in Callers, Return(c) PROVE TypeOK'
  <2>1. answer' \in [Engines -> Snapshots]
    BY <1>12 DEF Return, TypeOK, Snapshots, Calls
  <2> QED
    BY <1>10, <1>12, <2>1 DEF Return, TypeOK, store
<1>13. ASSUME NEW c \in Callers, StepFails(c) PROVE TypeOK'
  BY <1>10, <1>13 DEF StepFails, TypeOK, store
<1>14. ASSUME NEW e \in Engines, Crash(e) PROVE TypeOK'
  BY <1>14 DEF Crash, TypeOK, store, Calls, NoCall, Phases, State
<1> QED
  BY <1>1, <1>2, <1>3, <1>4, <1>5, <1>6, <1>7, <1>8, <1>9, <1>11, <1>12,
     <1>13, <1>14 DEF Next, Work

LEMMA InitIsTyped == Init => TypeOK
BY EventsAssumption, FaultsAssumption
   DEF Init, TypeOK, Calls, NoCall, Phases, State, Snapshots

(***************************************************************************)
(* Engines, calls and the stored checkpoint stay well typed; a call has    *)
(* only events of the stream, and the checkpoint never passes its head.    *)
(***************************************************************************)
THEOREM TypeCorrect == Spec => []TypeOK
<1>1. Init => TypeOK
  BY InitIsTyped
<1>2. TypeOK /\ [Next]_vars => TypeOK'
  BY StepIsTyped
<1> QED
  BY <1>1, <1>2, PTL DEF Spec

-----------------------------------------------------------------------------
OneEngineOnly == \A d, e \in Engines : d = e

(***************************************************************************)
(* The strengthening: a call past the lock holds it; one that is dropping  *)
(* the checkpoint, or clearing it, has applied nothing; one in the loop is *)
(* at the stored checkpoint with the replay up to it.                      *)
(***************************************************************************)
LockHeld ==
    \A c \in Callers : call[c].phase \notin {"idle", "waiting"} => Holds(c)

LoopAtCheckpoint ==
    \A c \in Callers :
        /\ InPhase(c, "dropping") => view[EngineOf[c]] = None
        /\ call[c].phase # "applying" =>
              call[c].state = <<>> /\ call[c].cursor = 0
        /\ InPhase(c, "applying") =>
              call[c].cursor = checkpoint /\ call[c].state = Replay[checkpoint]

Whole == TypeOK /\ LockHeld /\ LoopAtCheckpoint /\ ViewsAreWhole
         /\ SnapshotsAreReplays

LEMMA InitIsWhole == Init => Whole
BY InitIsTyped, ReplayAssumption
   DEF Init, Whole, LockHeld, LoopAtCheckpoint, ViewsAreWhole,
       SnapshotsAreReplays, InPhase, NoCall

\* With one engine no other call is past the lock.
LEMMA OthersAreOutside ==
    ASSUME OneEngineOnly, Whole, NEW c \in Callers, Holds(c)
    PROVE  \A d \in Callers \ {c} : call[d].phase \in {"idle", "waiting"}
<1> TAKE d \in Callers \ {c}
<1>1. EngineOf[d] = EngineOf[c]
  BY EngineOfAssumption DEF OneEngineOnly
<1>2. ~Holds(d)
  BY <1>1 DEF Holds
<1> QED
  BY <1>2 DEF Whole, LockHeld

LEMMA AppliedIsReplay ==
    ASSUME NEW n \in 0..MaxEvents, n + 1 \in 0..MaxEvents
    PROVE  Replay[n + 1] = Applied(Replay[n], n + 1)
BY ReplayAssumption, EventsAssumption

LEMMA StepIsWhole == OneEngineOnly /\ Whole /\ [Next]_vars => Whole'
<1> SUFFICES ASSUME OneEngineOnly, Whole, [Next]_vars PROVE Whole'
  OBVIOUS
<1> USE EngineOfAssumption
<1>t. TypeOK /\ TypeOK'
  BY StepIsTyped DEF Whole
<1>1. CASE UNCHANGED vars
  BY <1>1, <1>t DEF Whole, vars, LockHeld, LoopAtCheckpoint, ViewsAreWhole,
                    SnapshotsAreReplays, Holds, InPhase
<1>2. CASE AppendEvent
  BY <1>2, <1>t DEF AppendEvent, lock, Whole, LockHeld, LoopAtCheckpoint,
                    ViewsAreWhole, SnapshotsAreReplays, Holds, InPhase
<1>3. ASSUME NEW c \in Callers, Ask(c) PROVE Whole'
  <2>1. /\ call'[c].phase = "waiting" /\ call'[c].state = <<>>
        /\ call'[c].cursor = 0
        /\ \A d \in Callers \ {c} : call'[d] = call[d]
        /\ UNCHANGED <<checkpoint, view, holder, answer>>
    BY <1>3, <1>t DEF Ask, Request, store, TypeOK
  <2> QED
    BY <2>1, <1>t DEF Whole, LockHeld, LoopAtCheckpoint, ViewsAreWhole,
                      SnapshotsAreReplays, Holds, InPhase
<1>4. ASSUME NEW c \in Callers, Enter(c) PROVE Whole'
  <2>1. /\ call'[c].phase \in {"clearing", "reading", "starting"}
        /\ call'[c].state = call[c].state /\ call'[c].cursor = call[c].cursor
        /\ \A d \in Callers \ {c} : call'[d] = call[d]
    <3> DEFINE p == IF call[c].rebuild THEN "clearing" ELSE Reading(c)
    <3>1. call' = [call EXCEPT ![c].phase = p] /\ call \in [Callers -> Calls]
      BY <1>4, <1>t DEF Enter, TypeOK
    <3>2. p \in {"clearing", "reading", "starting"} /\ p \in Phases
      BY DEF Phases, Reading
    <3> HIDE DEF p
    <3> QED
      BY ONLY <3>1, <3>2, PhaseMoves, c \in Callers
  <2>2. /\ call[c].phase = "waiting"
        /\ UNCHANGED <<checkpoint, view, answer>>
    BY <1>4 DEF Enter, store, InPhase
  <2>3. LockHeld'
    <3>1. \A d \in Callers : call[d].phase \in {"idle", "waiting"}
      BY <1>4, NoneAssumption
         DEF Enter, Whole, LockHeld, Holds, OneEngineOnly
    <3>2. holder'[EngineOf[c]] = c
      BY <1>4, <1>t DEF Enter, TypeOK
    <3> QED
      BY <2>1, <3>1, <3>2 DEF LockHeld, Holds
  <2> QED
    BY <2>1, <2>2, <2>3, <1>t DEF Whole, LoopAtCheckpoint, ViewsAreWhole,
                                  SnapshotsAreReplays, InPhase
<1>5. ASSUME NEW c \in Callers, Clear(c) PROVE Whole'
  <2>1. /\ call'[c].phase \in {"reading", "starting"}
        /\ call'[c].state = call[c].state /\ call'[c].cursor = call[c].cursor
        /\ \A d \in Callers \ {c} : call'[d] = call[d]
    <3>1. call' = [call EXCEPT ![c].phase = Reading(c)] /\ call \in [Callers -> Calls]
      BY <1>5, <1>t DEF Clear, TypeOK
    <3>2. Reading(c) \in {"reading", "starting"} /\ Reading(c) \in Phases
      BY DEF Phases, Reading
    <3> QED
      BY ONLY <3>1, <3>2, PhaseMoves, c \in Callers
  <2>2. /\ call[c].phase = "clearing" /\ Holds(c)
        /\ view' = [view EXCEPT ![EngineOf[c]] = None]
        /\ UNCHANGED <<holder, answer>>
    BY <1>5 DEF Clear, lock, InPhase
  <2>3. \A e \in Engines : view'[e] = None
    BY <2>2, <1>t DEF OneEngineOnly, TypeOK
  <2> QED
    BY <2>1, <2>2, <2>3, <1>t, OthersAreOutside
       DEF Whole, LockHeld, LoopAtCheckpoint, ViewsAreWhole,
           SnapshotsAreReplays, InPhase, Holds
<1>6. ASSUME NEW c \in Callers, Read(c) PROVE Whole'
  <2>1. /\ call'[c].phase = "starting"
        /\ call'[c].state = call[c].state /\ call'[c].cursor = call[c].cursor
        /\ \A d \in Callers \ {c} : call'[d] = call[d]
    <3>1. call[c] \in Calls
      BY <1>t DEF TypeOK
    <3> QED
      BY <1>6, <3>1, <1>t DEF Read, TypeOK, Calls
  <2>2. /\ call[c].phase = "reading" /\ Holds(c)
        /\ UNCHANGED <<checkpoint, view, holder, answer>>
    BY <1>6 DEF Read, store, lock, InPhase
  <2> QED
    BY <2>1, <2>2, <1>t
       DEF Whole, LockHeld, LoopAtCheckpoint, ViewsAreWhole,
           SnapshotsAreReplays, InPhase, Holds
<1>7. ASSUME NEW c \in Callers, Start(c) PROVE Whole'
  <2>1. /\ call[c].phase = "starting" /\ Holds(c)
        /\ UNCHANGED <<checkpoint, view, holder, answer>>
    BY <1>7 DEF Start, store, lock, InPhase
  <2>2. CASE Restarted(c)
    <3>1. /\ call'[c].phase = "dropping"
          /\ call'[c].state = call[c].state /\ call'[c].cursor = call[c].cursor
          /\ \A d \in Callers \ {c} : call'[d] = call[d]
      <4>1. call' = [call EXCEPT ![c].phase = "dropping"] /\ call \in [Callers -> Calls]
        BY <1>7, <1>t, <2>2 DEF Start, TypeOK
      <4>2. "dropping" \in Phases
        BY DEF Phases
      <4> QED
        BY ONLY <4>1, <4>2, PhaseMoves, c \in Callers
    <3> QED
      BY <2>1, <2>2, <3>1, <1>t
         DEF Whole, LockHeld, LoopAtCheckpoint, ViewsAreWhole,
             SnapshotsAreReplays, InPhase, Holds, Restarted
  <2>3. CASE ~Restarted(c)
    <3>1. /\ call'[c].phase = "applying" /\ call'[c].cursor = checkpoint
          /\ call'[c].state = Held(c)
          /\ \A d \in Callers \ {c} : call'[d] = call[d]
      BY <1>7, <1>t, <2>3, StartMoves
    <3>2. Held(c) = Replay[checkpoint]
      BY <2>3, <1>t, ReplayAssumption
         DEF Held, Restarted, Whole, ViewsAreWhole, TypeOK
    <3> QED
      BY <2>1, <3>1, <3>2, <1>t
         DEF Whole, LockHeld, LoopAtCheckpoint, ViewsAreWhole,
             SnapshotsAreReplays, InPhase, Holds
  <2> QED
    BY <2>2, <2>3
<1>8. ASSUME NEW c \in Callers, Drop(c) PROVE Whole'
  <2>1. /\ call'[c].phase = "applying"
        /\ call'[c].state = call[c].state /\ call'[c].cursor = call[c].cursor
        /\ \A d \in Callers \ {c} : call'[d] = call[d]
    <3>1. call' = [call EXCEPT ![c].phase = "applying"] /\ call \in [Callers -> Calls]
      BY <1>8, <1>t DEF Drop, TypeOK
    <3>2. "applying" \in Phases
      BY DEF Phases
    <3> QED
      BY ONLY <3>1, <3>2, PhaseMoves, c \in Callers
  <2>2. /\ call[c].phase = "dropping" /\ Holds(c) /\ checkpoint' = 0
        /\ UNCHANGED <<view, holder, answer>>
    BY <1>8 DEF Drop, lock, InPhase
  <2>3. \A e \in Engines : view[e] = None
    BY <2>2 DEF OneEngineOnly, Whole, LoopAtCheckpoint, InPhase
  <2> QED
    BY <2>1, <2>2, <2>3, <1>t, OthersAreOutside, ReplayAssumption
       DEF Whole, LockHeld, LoopAtCheckpoint, ViewsAreWhole,
           SnapshotsAreReplays, InPhase, Holds
<1>9. ASSUME NEW c \in Callers, Apply(c) PROVE Whole'
  <2>1. /\ call[c].phase = "applying" /\ Holds(c)
        /\ UNCHANGED <<holder, answer>>
    BY <1>9 DEF Apply, lock, InPhase
  <2>2. /\ call[c].cursor + 1 \in call[c].source
        /\ checkpoint' = call[c].cursor + 1
        /\ call'[c].phase = "applying" /\ call'[c].cursor = checkpoint'
        /\ call'[c].state = Applied(call[c].state, checkpoint')
        /\ view' = [view EXCEPT ![EngineOf[c]] = call'[c].state]
        /\ \A d \in Callers \ {c} : call'[d] = call[d]
    BY <1>9, <1>t, <2>1, ApplyMoves
  <2>3. /\ call[c].cursor = checkpoint /\ call[c].state = Replay[checkpoint]
        /\ checkpoint' = checkpoint + 1
    BY <2>1, <2>2 DEF Whole, LoopAtCheckpoint, InPhase
  <2>4. checkpoint \in 0..MaxEvents /\ checkpoint + 1 \in 0..MaxEvents
    <3>1. checkpoint \in 0..head /\ head \in 0..MaxEvents /\ checkpoint' \in 0..head
      <4>1. checkpoint' \in call[c].source /\ call[c].source \subseteq 1..head
        BY <2>2, <1>t DEF TypeOK
      <4>2. checkpoint \in 0..head /\ head \in 0..MaxEvents
        BY <1>t DEF TypeOK
      <4> QED
        BY ONLY <4>1, <4>2
    <3> QED
      BY ONLY <3>1, <2>3, EventsAssumption
  <2>5. call'[c].state = Replay[checkpoint']
    BY <2>2, <2>3, <2>4, AppliedIsReplay
  <2>6. \A e \in Engines : view'[e] = Replay[checkpoint']
    BY <2>2, <2>5, <1>t DEF OneEngineOnly, TypeOK
  <2> QED
    BY <2>1, <2>2, <2>5, <2>6, <1>t, OthersAreOutside
       DEF Whole, LockHeld, LoopAtCheckpoint, ViewsAreWhole,
           SnapshotsAreReplays, InPhase, Holds
<1>10. ASSUME NEW c \in Callers, Holds(c), Leave(c), UNCHANGED <<checkpoint, view>>,
              SnapshotsAreReplays'
       PROVE  Whole'
  <2>1. /\ call'[c] = NoCall /\ \A d \in Callers \ {c} : call'[d] = call[d]
    BY <1>10, <1>t DEF Leave, TypeOK
  <2> QED
    BY <1>10, <2>1, <1>t, OthersAreOutside
       DEF Whole, LockHeld, LoopAtCheckpoint, ViewsAreWhole, InPhase, NoCall
<1>11. ASSUME NEW c \in Callers, MeetGap(c) PROVE Whole'
  <2>1. SnapshotsAreReplays'
    BY <1>11 DEF MeetGap, Whole, SnapshotsAreReplays
  <2> QED
    BY <1>10, <1>11, <2>1 DEF MeetGap, store
<1>12. ASSUME NEW c \in Callers, Return(c) PROVE Whole'
  <2>1. call[c].state = Replay[call[c].cursor]
    BY <1>12 DEF Return, Whole, LoopAtCheckpoint, InPhase
  <2>2. SnapshotsAreReplays'
    BY <1>12, <2>1, <1>t DEF Return, Whole, SnapshotsAreReplays, TypeOK
  <2> QED
    BY <1>10, <1>12, <2>2 DEF Return, store
<1>13. ASSUME NEW c \in Callers, StepFails(c) PROVE Whole'
  <2>1. SnapshotsAreReplays'
    BY <1>13 DEF StepFails, Whole, SnapshotsAreReplays
  <2> QED
    BY <1>10, <1>13, <2>1 DEF StepFails, store
<1>14. ASSUME NEW e \in Engines, Crash(e) PROVE Whole'
  <2>1. /\ \A d \in Callers : call'[d] = NoCall
        /\ \A d \in Engines : view'[d] = None
        /\ UNCHANGED <<checkpoint, answer>>
    BY <1>14, <1>t DEF Crash, OneEngineOnly, TypeOK, store
  <2> QED
    BY <2>1, <1>t DEF Whole, LockHeld, LoopAtCheckpoint, ViewsAreWhole,
                      SnapshotsAreReplays, InPhase, NoCall
<1> QED
  BY <1>1, <1>2, <1>3, <1>4, <1>5, <1>6, <1>7, <1>8, <1>9, <1>11, <1>12,
     <1>13, <1>14 DEF Next, Work

(***************************************************************************)
(* An engine that has its store to itself holds whole replays only:        *)
(* restarts, failures half-way, rebuilds and the lists callers bring never *)
(* leave it with a part of the stream (engine.ts:96-98).                   *)
(***************************************************************************)
THEOREM ViewsAreWholeHolds ==
    ASSUME OneEngineOnly PROVE Spec => []ViewsAreWhole
<1>1. Init => Whole
  BY InitIsWhole
<1>2. Whole /\ [Next]_vars => Whole'
  BY StepIsWhole
<1>3. Whole => ViewsAreWhole
  BY DEF Whole
<1> QED
  BY <1>1, <1>2, <1>3, PTL DEF Spec

(***************************************************************************)
(* And every snapshot it returned is the replay up to the cursor it names. *)
(***************************************************************************)
THEOREM SnapshotsAreReplaysHolds ==
    ASSUME OneEngineOnly PROVE Spec => []SnapshotsAreReplays
<1>1. Init => Whole
  BY InitIsWhole
<1>2. Whole /\ [Next]_vars => Whole'
  BY StepIsWhole
<1>3. Whole => SnapshotsAreReplays
  BY DEF Whole
<1> QED
  BY <1>1, <1>2, <1>3, PTL DEF Spec
-----------------------------------------------------------------------------
(***************************************************************************)
(* Snapshots that are current, for any number of engines.  A call that     *)
(* read the stream has all of it up to an event h that is not before the   *)
(* head it was made at nor before the cursor its engine last returned; the *)
(* lock keeps other calls of the engine from returning meanwhile.          *)
(***************************************************************************)
HasRead(r) == r.phase \in {"starting", "dropping", "applying"} /\ ~r.supplied

CallCurrent(c) ==
    /\ call[c].phase \notin {"idle", "waiting"} => Holds(c)
    /\ call[c].asked <= head /\ call[c].cursor <= head
    /\ HasRead(call[c]) =>
          \E h \in Nat : /\ call[c].source = 1..h
                         /\ call[c].asked <= h /\ answer[EngineOf[c]].cursor <= h

Current ==
    /\ TypeOK
    /\ \A c \in Callers : CallCurrent(c)
    /\ \A e \in Engines : answer[e].cursor <= head

\* What the steps of a call leave of its record.
LEMMA FieldsKept ==
    ASSUME NEW r \in Calls, NEW p, NEW n, NEW s, NEW src
    PROVE  /\ [r EXCEPT !.phase = p].asked = r.asked
           /\ [r EXCEPT !.phase = p].supplied = r.supplied
           /\ [r EXCEPT !.phase = p].cursor = r.cursor
           /\ [r EXCEPT !.phase = p].source = r.source
           /\ [r EXCEPT !.phase = p].phase = p
           /\ [r EXCEPT !.source = src, !.phase = p].asked = r.asked
           /\ [r EXCEPT !.source = src, !.phase = p].supplied = r.supplied
           /\ [r EXCEPT !.source = src, !.phase = p].cursor = r.cursor
           /\ [r EXCEPT !.source = src, !.phase = p].source = src
           /\ [r EXCEPT !.source = src, !.phase = p].phase = p
           /\ [r EXCEPT !.phase = p, !.cursor = n, !.state = s].asked = r.asked
           /\ [r EXCEPT !.phase = p, !.cursor = n, !.state = s].supplied = r.supplied
           /\ [r EXCEPT !.cursor = n, !.state = s].asked = r.asked
           /\ [r EXCEPT !.cursor = n, !.state = s].supplied = r.supplied
BY DEF Calls

\* A call that the step is not about.
LEMMA OtherIsCurrent ==
    ASSUME Current, TypeOK', NEW d \in Callers, call'[d] = call[d], head <= head',
           call[d].phase \notin {"idle", "waiting"} =>
               /\ holder'[EngineOf[d]] = holder[EngineOf[d]]
               /\ answer'[EngineOf[d]].cursor = answer[EngineOf[d]].cursor
    PROVE  CallCurrent(d)'
<1>1. /\ call[d].asked \in Nat /\ call[d].cursor \in Nat /\ head \in Nat /\ head' \in Nat
  BY EventsAssumption DEF Current, TypeOK, Calls
<1>2. call'[d].asked <= head' /\ call'[d].cursor <= head'
  BY <1>1 DEF Current, CallCurrent
<1> QED
  BY <1>2 DEF Current, CallCurrent, HasRead, Holds

\* A call that left.
LEMMA NoCallIsCurrent ==
    ASSUME TypeOK', NEW c \in Callers, call'[c] = NoCall
    PROVE  CallCurrent(c)'
BY EventsAssumption DEF CallCurrent, NoCall, HasRead, TypeOK

\* Another call of the engine whose lock c holds is not past the lock.
LEMMA HolderExcludes ==
    ASSUME Current, NEW c \in Callers, Holds(c), NEW d \in Callers \ {c},
           call[d].phase \notin {"idle", "waiting"}
    PROVE  EngineOf[d] # EngineOf[c]
BY DEF Current, CallCurrent, Holds

LEMMA StepIsCurrent == Current /\ [Next]_vars => Current'
<1> SUFFICES ASSUME Current, [Next]_vars PROVE Current'
  OBVIOUS
<1> USE EngineOfAssumption, EventsAssumption, NoneAssumption
<1>t. TypeOK /\ TypeOK'
  BY StepIsTyped DEF Current
<1>h. ASSUME head' = head, answer' = answer PROVE \A e \in Engines : answer'[e].cursor <= head'
  BY <1>h DEF Current
<1>1. CASE UNCHANGED vars
  <2>1. UNCHANGED <<head, call, holder, answer>>
    BY <1>1 DEF vars
  <2> QED
    BY <1>h, <1>t, <2>1, OtherIsCurrent DEF Current, TypeOK
<1>2. CASE AppendEvent
  <2>1. head' = head + 1 /\ UNCHANGED <<call, holder, answer>>
    BY <1>2 DEF AppendEvent, lock
  <2>2. head \in Nat /\ \A e \in Engines : answer[e].cursor \in Nat
    BY <1>t DEF TypeOK, Snapshots
  <2>3. \A e \in Engines : answer'[e].cursor <= head'
    BY <2>1, <2>2 DEF Current
  <2>4. \A d \in Callers : CallCurrent(d)'
    BY <1>t, <2>1, <2>2, OtherIsCurrent
  <2> QED
    BY <1>t, <2>3, <2>4 DEF Current
\* A step of c that keeps the lock and answers nothing.
<1>3. ASSUME NEW c \in Callers, NEW r \in Calls, call' = [call EXCEPT ![c] = r],
             UNCHANGED <<head, holder, answer>>, CallCurrent(c)'
      PROVE  Current'
  <2>1. \A d \in Callers \ {c} : call'[d] = call[d]
    BY <1>3, <1>t, CallReplaced DEF TypeOK
  <2>2. head <= head'
    BY <1>3, <1>t DEF TypeOK
  <2>3. \A d \in Callers \ {c} : CallCurrent(d)'
    BY <1>3, <1>t, <2>1, <2>2, OtherIsCurrent
  <2> QED
    BY <1>3, <1>h, <1>t, <2>3 DEF Current
\* The facts about c that most steps of it keep.
<1>4. ASSUME NEW c \in Callers, NEW r \in Calls, call' = [call EXCEPT ![c] = r],
             UNCHANGED <<head, holder, answer>>, Holds(c),
             r.asked = call[c].asked, r.cursor <= head,
             HasRead(r) =>
                 \E h \in Nat : /\ r.source = 1..h /\ r.asked <= h
                                /\ answer[EngineOf[c]].cursor <= h
      PROVE  Current'
  <2>1. call'[c] = r
    BY <1>4, <1>t, CallReplaced DEF TypeOK
  <2>2. CallCurrent(c)'
    BY <1>4, <2>1 DEF Current, CallCurrent, Holds
  <2> QED
    BY <1>3, <1>4, <2>2
<1>5. ASSUME NEW c \in Callers, Ask(c) PROVE Current'
  <2>1. PICK rebuild \in BOOLEAN, supplied \in BOOLEAN, source \in SUBSET (1..head) :
            call' = [call EXCEPT ![c] =
                       [phase |-> "waiting", rebuild |-> rebuild,
                        supplied |-> supplied, asked |-> head, source |-> source,
                        state |-> <<>>, cursor |-> 0]]
    BY <1>5, <1>t DEF Ask, Request, TypeOK
  <2> DEFINE r == [phase |-> "waiting", rebuild |-> rebuild,
                   supplied |-> supplied, asked |-> head, source |-> source,
                   state |-> <<>>, cursor |-> 0]
  <2>2. r \in Calls
    BY <1>t DEF Calls, Phases, State, TypeOK
  <2>3. UNCHANGED <<head, holder, answer>>
    BY <1>5 DEF Ask, Request, store
  <2>4. r.phase = "waiting" /\ r.asked = head /\ r.cursor = 0
    OBVIOUS
  <2>5. call' = [call EXCEPT ![c] = r]
    BY <2>1
  <2> HIDE DEF r
  <2>6. call'[c] = r
    BY <1>t, <2>2, <2>5, CallReplaced DEF TypeOK
  <2>7. CallCurrent(c)'
    BY <1>t, <2>3, <2>4, <2>6 DEF CallCurrent, HasRead, TypeOK
  <2> QED
    BY <1>3, <2>2, <2>3, <2>5, <2>7
<1>6. ASSUME NEW c \in Callers, Enter(c) PROVE Current'
  <2>1. PICK p \in {"clearing", "reading", "starting"} :
            /\ call' = [call EXCEPT ![c].phase = p]
            /\ p = "starting" => call[c].supplied
    BY <1>6 DEF Enter, Reading
  <2>2. /\ call[c].phase = "waiting" /\ holder[EngineOf[c]] = None
        /\ UNCHANGED <<head, answer>>
        /\ holder'[EngineOf[c]] = c
        /\ \A e \in Engines \ {EngineOf[c]} : holder'[e] = holder[e]
    BY <1>6, <1>t DEF Enter, store, InPhase, TypeOK
  <2>3. /\ call'[c].phase = p /\ call'[c].asked = call[c].asked
        /\ call'[c].supplied = call[c].supplied /\ call'[c].cursor = call[c].cursor
        /\ \A d \in Callers \ {c} : call'[d] = call[d]
    BY <1>t, <2>1, FieldsKept DEF TypeOK
  <2>4. CallCurrent(c)'
    BY <2>1, <2>2, <2>3 DEF Current, CallCurrent, HasRead, Holds
  <2>5. ASSUME NEW d \in Callers \ {c} PROVE CallCurrent(d)'
    <3>1. call[d].phase \notin {"idle", "waiting"} => EngineOf[d] # EngineOf[c]
      BY <2>2 DEF Current, CallCurrent, Holds
    <3>2. head <= head'
      BY <2>2, <1>t DEF TypeOK
    <3> QED
      BY <1>t, <2>2, <2>3, <3>1, <3>2, OtherIsCurrent
  <2> QED
    BY <1>h, <1>t, <2>2, <2>4, <2>5 DEF Current
<1>7. ASSUME NEW c \in Callers, Clear(c) \/ Read(c) \/ Drop(c) PROVE Current'
  <2>1. Holds(c) /\ UNCHANGED <<head, holder, answer>>
    BY <1>7 DEF Clear, Read, Drop, store, lock
  <2>2. call[c] \in Calls /\ call[c].cursor <= head
    BY <1>t DEF TypeOK, Current, CallCurrent
  <2>3. CASE Clear(c)
    <3> DEFINE r == [call[c] EXCEPT !.phase = Reading(c)]
    <3>1. r \in Calls /\ call' = [call EXCEPT ![c] = r]
      BY <2>2, <2>3, PhaseUpdated DEF Clear, Reading, Phases
    <3>2. r.asked = call[c].asked /\ r.cursor = call[c].cursor /\ ~HasRead(r)
      BY <2>2, FieldsKept DEF HasRead, Reading
    <3> HIDE DEF r
    <3> QED
      BY <1>4, <2>1, <2>2, <3>1, <3>2
  <2>4. CASE Drop(c)
    <3> DEFINE r == [call[c] EXCEPT !.phase = "applying"]
    <3>1. r \in Calls /\ call' = [call EXCEPT ![c] = r]
      BY <2>2, <2>4, PhaseUpdated DEF Drop, Phases
    <3>2. /\ r.asked = call[c].asked /\ r.cursor = call[c].cursor
          /\ r.source = call[c].source
          /\ HasRead(r) => HasRead(call[c])
      BY <2>2, <2>4, FieldsKept DEF HasRead, Drop, InPhase
    <3> HIDE DEF r
    <3>3. HasRead(r) => \E h \in Nat : /\ r.source = 1..h /\ r.asked <= h
                                        /\ answer[EngineOf[c]].cursor <= h
      BY <3>2 DEF Current, CallCurrent
    <3> QED
      BY <1>4, <2>1, <2>2, <3>1, <3>2, <3>3
  <2>5. CASE Read(c)
    <3> DEFINE r == [call[c] EXCEPT !.source = 1..head, !.phase = "starting"]
    <3>1. head \in Nat /\ 1..head \in SUBSET Nat
      BY <1>t DEF TypeOK
    <3>2. r \in Calls /\ call' = [call EXCEPT ![c] = r]
      BY <2>2, <2>5, <3>1, SourceUpdated DEF Read, Phases
    <3>3. r.asked = call[c].asked /\ r.cursor = call[c].cursor /\ r.source = 1..head
      BY <2>2, FieldsKept
    <3> HIDE DEF r
    <3>4. r.asked <= head /\ answer[EngineOf[c]].cursor <= head
      BY <3>3 DEF Current, CallCurrent
    <3> QED
      BY <1>4, <2>1, <2>2, <3>1, <3>2, <3>3, <3>4
  <2> QED
    BY <1>7, <2>3, <2>4, <2>5
<1>8. ASSUME NEW c \in Callers, Start(c) PROVE Current'
  <2>1. Holds(c) /\ UNCHANGED <<head, holder, answer>>
    BY <1>8 DEF Start, store, lock
  <2>2. call[c] \in Calls /\ call[c].cursor <= head /\ checkpoint <= head /\ checkpoint \in Nat
    BY <1>t DEF TypeOK, Current, CallCurrent
  <2>3. PICK r \in Calls :
            /\ call' = [call EXCEPT ![c] = r]
            /\ r.asked = call[c].asked /\ r.cursor <= head
            /\ r.source = call[c].source /\ r.supplied = call[c].supplied
    <3>1. CASE Restarted(c)
      <4> DEFINE r == [call[c] EXCEPT !.phase = "dropping"]
      <4>1. r \in Calls /\ call' = [call EXCEPT ![c] = r]
        BY <1>8, <2>2, <3>1, PhaseUpdated DEF Start, Phases
      <4>2. /\ r.asked = call[c].asked /\ r.cursor = call[c].cursor
            /\ r.source = call[c].source /\ r.supplied = call[c].supplied
        BY <2>2, FieldsKept
      <4> HIDE DEF r
      <4> QED
        BY <2>2, <4>1, <4>2
    <3>2. CASE ~Restarted(c)
      <4> DEFINE r == [call[c] EXCEPT !.phase = "applying", !.cursor = checkpoint,
                                      !.state = Held(c)]
      <4>1. call' = [call EXCEPT ![c] = r]
        BY <1>8, <3>2 DEF Start, Held
      <4>2. Held(c) \in State
        BY <1>t DEF TypeOK, Held, State
      <4>3. r \in Calls /\ r.source = call[c].source /\ r.cursor = checkpoint
        <5>1. "applying" \in Phases
          BY DEF Phases
        <5>2. r \in Calls
          BY ONLY <2>2, <4>2, <5>1, CallStarted
        <5>3. call[c] \in Calls => r.source = call[c].source /\ r.cursor = checkpoint
          BY DEF Calls
        <5> QED
          BY ONLY <2>2, <5>2, <5>3
      <4>4. r.asked = call[c].asked /\ r.supplied = call[c].supplied
        BY <2>2, FieldsKept
      <4> HIDE DEF r
      <4> QED
        BY <2>2, <4>1, <4>3, <4>4
    <3> QED
      BY <3>1, <3>2
  <2>4. HasRead(r) => HasRead(call[c])
    BY <1>8, <2>3 DEF HasRead, Start, InPhase
  <2>5. HasRead(r) => \E h \in Nat : /\ r.source = 1..h /\ r.asked <= h
                                      /\ answer[EngineOf[c]].cursor <= h
    BY <2>3, <2>4 DEF Current, CallCurrent
  <2> QED
    BY <1>4, <2>1, <2>3, <2>5
<1>9. ASSUME NEW c \in Callers, Apply(c) PROVE Current'
  <2>1. Holds(c) /\ UNCHANGED <<head, holder, answer>> /\ call[c].phase = "applying"
    BY <1>9 DEF Apply, lock, InPhase
  <2>2. PICK n \in call[c].source : call' = [call EXCEPT ![c].cursor = n,
                                               ![c].state = Applied(call[c].state, n)]
    BY <1>9 DEF Apply, Remaining
  <2> DEFINE s == Applied(call[c].state, n)
             r == [call[c] EXCEPT !.cursor = n, !.state = s]
  <2>3. n \in Nat /\ n <= head /\ call[c] \in Calls
    BY <1>t DEF TypeOK
  <2>4. s \in State
    BY <2>3, AppliedIsState DEF Calls
  <2>5. call' = [call EXCEPT ![c] = r]
    BY <2>2
  <2> HIDE DEF s
  <2>6. /\ r \in Calls /\ r.source = call[c].source /\ r.phase = call[c].phase
        /\ r.cursor = n
    <3>1. r \in Calls
      BY ONLY <2>3, <2>4, StateUpdated
    <3>2. call[c] \in Calls => /\ r.source = call[c].source /\ r.phase = call[c].phase
                               /\ r.cursor = n
      BY DEF Calls
    <3> QED
      BY ONLY <2>3, <3>1, <3>2
  <2>7. r.asked = call[c].asked /\ r.supplied = call[c].supplied
    BY <2>3, FieldsKept
  <2> HIDE DEF r
  <2>8. HasRead(r) => \E h \in Nat : /\ r.source = 1..h /\ r.asked <= h
                                      /\ answer[EngineOf[c]].cursor <= h
    BY <2>6, <2>7 DEF Current, CallCurrent, HasRead
  <2> QED
    BY <1>4, <2>1, <2>3, <2>5, <2>6, <2>7, <2>8
\* A call that leaves, with a snapshot or without.
<1>10. ASSUME NEW c \in Callers, Holds(c), Leave(c), head' = head,
              \A e \in Engines : /\ answer'[e].cursor <= head'
                                 /\ e # EngineOf[c] => answer'[e] = answer[e]
       PROVE  Current'
  <2>1. /\ call'[c] = NoCall /\ \A d \in Callers \ {c} : call'[d] = call[d]
        /\ \A e \in Engines \ {EngineOf[c]} : holder'[e] = holder[e]
    BY <1>10, <1>t DEF Leave, TypeOK
  <2>2. CallCurrent(c)'
    BY <1>t, <2>1, NoCallIsCurrent
  <2>3. head <= head'
    BY <1>10, <1>t DEF TypeOK
  <2>4. ASSUME NEW d \in Callers \ {c} PROVE CallCurrent(d)'
    <3>1. call[d].phase \notin {"idle", "waiting"} => EngineOf[d] # EngineOf[c]
      BY <1>10, HolderExcludes
    <3> QED
      BY <1>10, <1>t, <2>1, <2>3, <3>1, OtherIsCurrent
  <2> QED
    BY <1>10, <1>t, <2>2, <2>4 DEF Current
<1>11. ASSUME NEW c \in Callers, MeetGap(c) \/ StepFails(c) PROVE Current'
  <2>1. Holds(c) /\ Leave(c) /\ UNCHANGED <<head, answer>>
    BY <1>11 DEF MeetGap, StepFails, store
  <2> QED
    BY <1>10, <1>h, <2>1
<1>12. ASSUME NEW c \in Callers, Return(c) PROVE Current'
  <2>1. /\ Holds(c) /\ Leave(c) /\ head' = head
        /\ answer' = [answer EXCEPT ![EngineOf[c]] =
                        [state |-> call[c].state, cursor |-> call[c].cursor]]
    BY <1>12 DEF Return, store
  <2>2. /\ answer'[EngineOf[c]].cursor = call[c].cursor
        /\ \A e \in Engines : e # EngineOf[c] => answer'[e] = answer[e]
    BY <2>1, <1>t DEF TypeOK
  <2>3. \A e \in Engines : answer'[e].cursor <= head'
    BY <2>1, <2>2 DEF Current, CallCurrent
  <2> QED
    BY <1>10, <2>1, <2>2, <2>3
<1>13. ASSUME NEW e \in Engines, Crash(e) PROVE Current'
  <2>1. /\ UNCHANGED <<head, answer>>
        /\ \A d \in Callers : call'[d] = IF EngineOf[d] = e THEN NoCall ELSE call[d]
        /\ \A f \in Engines : f # e => holder'[f] = holder[f]
    BY <1>13, <1>t DEF Crash, store, TypeOK
  <2>2. head <= head'
    BY <2>1, <1>t DEF TypeOK
  <2>3. ASSUME NEW d \in Callers PROVE CallCurrent(d)'
    <3>1. CASE EngineOf[d] = e
      BY <1>t, <2>1, <3>1, NoCallIsCurrent
    <3>2. CASE EngineOf[d] # e
      BY <1>t, <2>1, <2>2, <3>2, OtherIsCurrent
    <3> QED
      BY <3>1, <3>2
  <2> QED
    BY <1>h, <1>t, <2>1, <2>3 DEF Current
<1> QED
  BY <1>1, <1>2, <1>5, <1>6, <1>7, <1>8, <1>9, <1>11, <1>12, <1>13 DEF Next, Work

(***************************************************************************)
(* A call that reads the stream itself shows all that was there when it    *)
(* was made, and never less than its engine showed before, however many    *)
(* engines share the store.                                                *)
(***************************************************************************)
THEOREM SnapshotsAreCurrentHolds == Spec => SnapshotsAreCurrent
<1> DEFINE Monotonic ==
        \A c \in Callers :
         (Return(c) /\ ~call[c].supplied) =>
            LET e == EngineOf[c]
            IN  /\ answer'[e].cursor >= call[c].asked
                /\ answer'[e].cursor >= answer[e].cursor
<1>1. Init => Current
  BY InitIsTyped, EventsAssumption
     DEF Init, Current, CallCurrent, HasRead, NoCall
<1>2. Current => [Monotonic]_vars
  <2> SUFFICES ASSUME Current, NEW c \in Callers, Return(c), ~call[c].supplied
               PROVE  /\ answer'[EngineOf[c]].cursor >= call[c].asked
                      /\ answer'[EngineOf[c]].cursor >= answer[EngineOf[c]].cursor
    OBVIOUS
  <2>1. answer'[EngineOf[c]].cursor = call[c].cursor
    BY EngineOfAssumption DEF Return, Current, TypeOK
  <2>2. HasRead(call[c])
    BY DEF Return, HasRead, InPhase
  <2>3. PICK h \in Nat : /\ call[c].source = 1..h
                         /\ call[c].asked <= h /\ answer[EngineOf[c]].cursor <= h
    BY <2>2 DEF Current, CallCurrent
  <2>4. /\ call[c].cursor \in Nat /\ call[c].asked \in Nat
        /\ answer[EngineOf[c]].cursor \in Nat
    BY EngineOfAssumption DEF Current, TypeOK, Calls, Snapshots
  <2>5. ~\E n \in 1..h : n > call[c].cursor
    BY <2>3 DEF Return, Remaining
  <2>6. call[c].cursor >= h
    BY <2>4, <2>5
  <2> QED
    BY <2>1, <2>3, <2>4, <2>6
<1> QED
  BY <1>1, <1>2, StepIsCurrent, PTL DEF Spec, SnapshotsAreCurrent
=============================================================================
