-------------------------- MODULE ExecutionProofs --------------------------
(***************************************************************************)
(* Proofs about what executes work: WorkflowEngine, which runs activities, *)
(* and WorkerPool, which leases tasks.                                     *)
(*                                                                         *)
(* First the workflow, for any activities, approvals, limits and crashes.  *)
(* With any number of overlapping calls, WorkflowInv keeps what a call     *)
(* read consistent, since that is what it stores later.  The bound on the  *)
(* attempts and the reach of a cancellation need OneCall: resumptions of a *)
(* workflow do not overlap, while callers do what they like.  AloneInv     *)
(* then says what may have become of the activity that the call read, and  *)
(* that an attempt beyond the limit was paid for by a crash or an upgrade. *)
(*                                                                         *)
(* Then the pool, for any tasks, workers, tenants, pools and limits:       *)
(* types, the bound on attempts, and the account of every attempt and of   *)
(* every worker's copy of a lease.  The invariant is inductive once it is  *)
(* known that a task starts with no attempt.                               *)
(***************************************************************************)
EXTENDS WorkflowEngine, WorkerPool, SequenceTheorems, FiniteSetTheorems, TLAPS

-----------------------------------------------------------------------------
(* WorkflowEngine: any calls, whatever else callers begin.                 *)

\* HistoryConsistent of a record, whether it is stored or only remembered.
Consistent(a) ==
    LET h == a.attempts
    IN  /\ \A i \in 1 .. Len(h) :
               /\ h[i].attempt <= a.attempt
               /\ i > 1 => h[i - 1].attempt <= h[i].attempt
        /\ {i \in 1 .. Len(h) : h[i].outcome = "succeeded"}
               = IF a.status = "succeeded" THEN {Len(h)} ELSE {}
        /\ a.status = "succeeded" => h[Len(h)].attempt = a.attempt

Unsettled(a) == a.status \in {"scheduled", "running"}

\* What a call read may be old by now; it is a consistent record of an activity
\* that was not settled.
SeenInv ==
    \A r \in Calls : pc[r] # "idle" =>
        seen[r] \in Activity /\ Unsettled(seen[r]) /\ Consistent(seen[r])

WorkflowInv ==
    /\ WorkflowTypeOK
    /\ WaitsCanEnd
    /\ activity # Nothing => Consistent(activity)
    /\ SeenInv

\* A record of the history appended when an attempt ends: in order, and a success
\* exactly when the activity succeeds by it.
LEMMA RecordAttempt ==
  ASSUME NEW a \in Activity, Consistent(a), a.status # "succeeded",
         NEW b \in Activity, b.attempt >= a.attempt,
         NEW o \in {"retrying", "failed", "succeeded"},
         b.attempts = Append(a.attempts, [attempt |-> b.attempt, outcome |-> o]),
         o = "succeeded" <=> b.status = "succeeded"
  PROVE  Consistent(b)
<1> DEFINE h == a.attempts
           g == b.attempts
           n == Len(h)
           e == [attempt |-> b.attempt, outcome |-> o]
<1>1. h \in Seq(Record) /\ a.attempt \in Nat /\ b.attempt \in Nat /\ n \in Nat
  BY LenProperties DEF Activity
<1>2. e \in Record /\ e.attempt = b.attempt /\ e.outcome = o
  BY <1>1 DEF Record
<1>3. Len(g) = n + 1 /\ g[n + 1] = e /\ \A i \in 1 .. n : g[i] = h[i]
  BY <1>1, <1>2, AppendProperties
<1>4. \A i \in 1 .. n : h[i].attempt \in Nat
  <2> SUFFICES ASSUME NEW i \in 1 .. n PROVE h[i].attempt \in Nat
    OBVIOUS
  <2>1. h[i] \in Record
    BY <1>1, ElementOfSeq
  <2> QED BY <2>1 DEF Record
<1>5. \A i \in 1 .. n : h[i].attempt <= a.attempt
  BY DEF Consistent
<1>8. \A i \in 1 .. n : i > 1 => h[i - 1].attempt <= h[i].attempt
  BY DEF Consistent
<1>9. \A i \in 1 .. n : h[i].outcome # "succeeded"
  BY DEF Consistent
<1> HIDE DEF h, g, n, e
<1>6. ASSUME NEW i \in 1 .. n + 1
      PROVE  g[i].attempt <= b.attempt /\ (i > 1 => g[i - 1].attempt <= g[i].attempt)
  <2>1. CASE i \in 1 .. n
    <3>1. g[i] = h[i] /\ h[i].attempt <= b.attempt
      <4>1. g[i] = h[i]
        BY <1>3, <2>1
      <4>2. h[i].attempt <= a.attempt /\ h[i].attempt \in Nat
        BY <1>4, <1>5, <2>1
      <4> QED BY <1>1, <4>1, <4>2
    <3>2. ASSUME i > 1 PROVE g[i - 1] = h[i - 1]
      <4>1. i - 1 \in 1 .. n
        BY <1>1, <2>1, <3>2
      <4> QED BY <1>3, <4>1
    <3> QED BY <1>8, <2>1, <3>1, <3>2
  <2>2. CASE i = n + 1
    <3>1. ASSUME i > 1 PROVE g[i - 1].attempt <= b.attempt
      <4>1. i - 1 \in 1 .. n
        BY <1>1, <2>2, <3>1
      <4>2. g[i - 1] = h[i - 1]
        BY <1>3, <4>1
      <4>3. h[i - 1].attempt <= a.attempt /\ h[i - 1].attempt \in Nat
        BY <1>4, <1>5, <4>1
      <4> QED BY <1>1, <4>2, <4>3
    <3> QED BY <1>1, <1>2, <1>3, <2>2, <3>1
  <2> QED BY <1>1, <2>1, <2>2
<1>7. {i \in 1 .. n + 1 : g[i].outcome = "succeeded"}
          = IF b.status = "succeeded" THEN {n + 1} ELSE {}
  <2>1. \A i \in 1 .. n + 1 : i \in 1 .. n \/ i = n + 1
    BY <1>1
  <2>2. \A i \in 1 .. n + 1 : g[i].outcome = "succeeded" <=> (i = n + 1 /\ b.status = "succeeded")
    BY <1>1, <1>2, <1>3, <1>9, <2>1
  <2>3. n + 1 \in 1 .. n + 1
    BY <1>1
  <2> QED BY <2>2, <2>3
<1> QED BY <1>2, <1>3, <1>6, <1>7 DEF Consistent, g

\* An attempt that begins leaves the history alone, which the attempt is beyond.
LEMMA KeepHistory ==
  ASSUME NEW a \in Activity, Consistent(a), a.status # "succeeded",
         NEW b \in Activity, b.attempt >= a.attempt, b.attempts = a.attempts,
         b.status # "succeeded"
  PROVE  Consistent(b)
<1>1. a.attempts \in Seq(Record) /\ a.attempt \in Nat /\ b.attempt \in Nat
  BY DEF Activity
<1>2. ASSUME NEW i \in 1 .. Len(a.attempts) PROVE a.attempts[i].attempt \in Nat
  <2>1. a.attempts[i] \in Record
    BY <1>1, ElementOfSeq
  <2> QED BY <2>1 DEF Record
<1>3. \A i \in 1 .. Len(a.attempts) :
          /\ a.attempts[i].attempt <= b.attempt
          /\ i > 1 => a.attempts[i - 1].attempt <= a.attempts[i].attempt
  BY <1>1, <1>2 DEF Consistent
<1> QED BY <1>3 DEF Consistent

\* The record of a new activity.
LEMMA NewActivity ==
  ASSUME NEW a \in Activities
  PROVE  LET b == [id |-> a, status |-> "scheduled", attempt |-> 0, attempts |-> << >>]
         IN  b \in Activity /\ Consistent(b)
  BY DEF Activity, Consistent

\* What is stored is well typed and consistent, whatever the calls remember.
Stored == WorkflowTypeOK /\ WaitsCanEnd /\ (activity # Nothing => Consistent(activity))

LEMMA WorkflowInvInit == WorkflowInit => WorkflowInv
<1> SUFFICES ASSUME WorkflowInit PROVE WorkflowInv
  OBVIOUS
<1>1. 0 \in 0 .. LastVersion
  BY WorkflowAssumption
<1>2. WorkflowTypeOK
  BY <1>1 DEF WorkflowInit, WorkflowTypeOK, Points
<1> QED BY <1>2 DEF WorkflowInit, WorkflowInv, SeenInv, WaitsCanEnd

\* The activity that succeeds, with its attempt recorded.
LEMMA SucceedStored ==
  ASSUME Stored, activity # Nothing, ~Settled, Succeed
  PROVE  activity' \in Activity /\ Consistent(activity') /\ status' = "running"
         /\ UNCHANGED <<version, approval>>
<1> DEFINE e == [attempt |-> activity.attempt, outcome |-> "succeeded"]
<1>1. /\ activity \in Activity /\ Consistent(activity) /\ activity.status # "succeeded"
      /\ activity.attempt \in Nat /\ activity.attempts \in Seq(Record)
  BY DEF Stored, WorkflowTypeOK, Settled, Activity
<1>2. activity' = [activity EXCEPT !.status = "succeeded", !.attempts = Append(activity.attempts, e)]
  BY DEF Succeed
<1>3. e \in Record
  BY <1>1 DEF Record
<1>4. Append(activity.attempts, e) \in Seq(Record)
  BY <1>1, <1>3, AppendProperties
<1>5. /\ activity' \in Activity /\ activity'.attempt = activity.attempt
      /\ activity'.attempts = Append(activity.attempts, [attempt |-> activity'.attempt,
                                                        outcome |-> "succeeded"])
      /\ activity'.status = "succeeded"
  BY <1>1, <1>2, <1>4 DEF Activity
<1>6. activity'.attempt >= activity.attempt
  BY <1>1, <1>5
<1>7. Consistent(activity')
  BY <1>1, <1>5, <1>6, RecordAttempt
<1> QED BY <1>5, <1>7 DEF Succeed

LEMMA CallersStored ==
  ASSUME WorkflowInv, Callers
  PROVE  Stored'
<1> USE WorkflowAssumption DEF WorkflowInv, WorkflowTypeOK
<1>1. CASE StartWorkflow \/ UpgradeDefinition \/ Cancel \/ Abort
      \/ \E a \in Approvals : WaitForApproval(a)
  <2>1. version' \in 0 .. LastVersion
    BY <1>1, WorkflowAssumption DEF StartWorkflow, UpgradeDefinition, Cancel, Abort, WaitForApproval,
       engine
  <2>2. activity' = activity /\ aborted' \in [Calls -> BOOLEAN]
    BY <1>1 DEF StartWorkflow, UpgradeDefinition, Cancel, Abort, WaitForApproval, engine, process
  <2>3. WorkflowTypeOK'
    BY <1>1, <2>1, <2>2, WorkflowAssumption
       DEF StartWorkflow, UpgradeDefinition, Cancel, Abort, WaitForApproval, engine, process
  <2>4. WaitsCanEnd'
    BY <1>1, <2>2
       DEF StartWorkflow, UpgradeDefinition, Cancel, Abort, WaitForApproval, WaitsCanEnd, Settled, engine
  <2> QED BY <2>2, <2>3, <2>4 DEF Stored
<1>2. ASSUME NEW a \in Activities, ScheduleActivity(a) PROVE Stored'
  <2>1. activity' \in Activity /\ Consistent(activity') /\ status' = "waiting_for_activity"
    BY <1>2, NewActivity DEF ScheduleActivity
  <2>2. activity' # Nothing
    BY <2>1, WorkflowAssumption
  <2>3. WorkflowTypeOK'
    BY <1>2, <2>1, <2>2 DEF ScheduleActivity, process
  <2>4. WaitsCanEnd'
    BY <1>2, <2>1, <2>2 DEF ScheduleActivity, WaitsCanEnd, Settled
  <2> QED BY <2>1, <2>3, <2>4 DEF Stored
<1>3. ASSUME NEW outcome \in {"approved", "rejected", "expired", "revoked"}, SignalApproval(outcome)
      PROVE  Stored'
  <2>1. /\ status' \in {"running", "cancelled", "failed"} /\ approval' \in {approval, Nothing}
        /\ UNCHANGED <<version, activity, process, crashes>>
    BY <1>3 DEF SignalApproval, Answered
  <2>2. WorkflowTypeOK'
    BY <2>1 DEF process
  <2> QED BY <2>1, <2>2 DEF Stored, WaitsCanEnd
<1>4. CASE SignalActivity
  <2>1. activity # Nothing /\ ~Settled /\ UNCHANGED <<process, crashes>>
    BY <1>4 DEF SignalActivity, Expects
  <2>2. CASE Succeed
    <3>1. /\ activity' \in Activity /\ Consistent(activity') /\ status' = "running"
          /\ UNCHANGED <<version, approval>>
      BY <2>1, <2>2, SucceedStored DEF Stored
    <3>2. WorkflowTypeOK'
      BY <2>1, <3>1 DEF process
    <3> QED BY <3>1, <3>2 DEF Stored, WaitsCanEnd
  <2>3. CASE ~Succeed
    <3>1. /\ status' = "failed" /\ activity' = [activity EXCEPT !.status = "failed"]
          /\ UNCHANGED <<version, approval>>
      BY <1>4, <2>3 DEF SignalActivity
    <3>2. activity \in Activity /\ Consistent(activity) /\ activity.status # "succeeded"
      BY <2>1 DEF Settled
    <3>3. /\ activity' \in Activity /\ activity'.attempt = activity.attempt
          /\ activity'.attempts = activity.attempts /\ activity'.status # "succeeded"
          /\ activity.attempt \in Nat
      BY <3>1, <3>2 DEF Activity
    <3>6. activity'.attempt >= activity.attempt
      BY <3>3
    <3>4. Consistent(activity')
      BY <3>2, <3>3, <3>6, KeepHistory
    <3>5. WorkflowTypeOK'
      BY <2>1, <3>1, <3>3 DEF process
    <3> QED BY <3>1, <3>4, <3>5 DEF Stored, WaitsCanEnd
  <2> QED BY <2>2, <2>3
<1> QED BY <1>1, <1>2, <1>3, <1>4 DEF Callers

\* Callers leave the calls alone.
LEMMA CallersInv ==
  ASSUME WorkflowInv, Callers
  PROVE  WorkflowInv'
<1>1. UNCHANGED <<pc, seen>>
  BY DEF Callers, StartWorkflow, UpgradeDefinition, ScheduleActivity, WaitForApproval, SignalApproval,
         SignalActivity, Cancel, Abort, process
<1> QED BY <1>1, CallersStored DEF WorkflowInv, SeenInv, Stored

\* A call that is under way goes on with what it read.
LEMMA SeenKept ==
  ASSUME WorkflowInv, NEW r \in Calls, pc[r] # "idle", NEW p \in Points,
         pc' = [pc EXCEPT ![r] = p], UNCHANGED seen
  PROVE  SeenInv' /\ pc' \in [Calls -> Points]
  BY DEF WorkflowInv, WorkflowTypeOK, SeenInv

\* What a call under way may rely on.
LEMMA Remembered ==
  ASSUME WorkflowInv, NEW r \in Calls, pc[r] # "idle"
  PROVE  /\ seen[r] \in Activity /\ Unsettled(seen[r]) /\ Consistent(seen[r])
         /\ seen[r].attempt \in Nat /\ seen[r].attempts \in Seq(Record)
         /\ Attempt(r) = seen[r].attempt + 1 /\ Attempt(r) \in Nat
  BY DEF WorkflowInv, SeenInv, Activity, Attempt

LEMMA QueryInv ==
  ASSUME WorkflowInv, NEW r \in Calls, Query(r)
  PROVE  WorkflowInv'
<1>1. activity \in Activity /\ Consistent(activity) /\ activity.status \notin {"succeeded", "failed"}
  BY DEF WorkflowInv, WorkflowTypeOK, WaitsCanEnd, Query, Resumable, Settled
<1>2. Unsettled(activity)
  BY <1>1 DEF Activity, Unsettled
<1>3. /\ handle' = [handle EXCEPT ![r] = version] /\ seen' = [seen EXCEPT ![r] = activity]
      /\ pc' = [pc EXCEPT ![r] = "read"] /\ UNCHANGED <<engine, active, aborted, cancelling, crashes>>
  BY DEF Query, Goto
<1>4. WorkflowTypeOK'
  BY <1>1, <1>3 DEF WorkflowInv, WorkflowTypeOK, Points, engine
<1>5. SeenInv'
  BY <1>1, <1>2, <1>3 DEF WorkflowInv, WorkflowTypeOK, SeenInv
<1> QED BY <1>1, <1>3, <1>4, <1>5 DEF WorkflowInv, WaitsCanEnd, Settled, engine

LEMMA RegisterInv ==
  ASSUME WorkflowInv, NEW r \in Calls, Register(r) \/ HandlerEnds(r)
  PROVE  WorkflowInv'
<1>1. PICK p \in Points : pc' = [pc EXCEPT ![r] = p]
  BY DEF Register, HandlerEnds, Goto, Points
<1>2. pc[r] # "idle" /\ UNCHANGED <<engine, handle, seen, cancelling, crashes>>
  BY DEF Register, HandlerEnds
<1>3. active' \in Registration \union {Nothing} /\ aborted' \in [Calls -> BOOLEAN]
  <2>1. Attempt(r) \in Nat
    BY <1>2, Remembered
  <2>2. CASE Register(r)
    <3>1. active' = [attempt |-> Attempt(r), call |-> r] /\ aborted' = [aborted EXCEPT ![r] = FALSE]
      BY <2>2 DEF Register
    <3> QED BY <2>1, <3>1 DEF WorkflowInv, WorkflowTypeOK, Registration
  <2>3. CASE HandlerEnds(r)
    BY <2>3 DEF HandlerEnds, WorkflowInv, WorkflowTypeOK
  <2> QED BY <2>2, <2>3
<1>4. SeenInv' /\ pc' \in [Calls -> Points]
  BY <1>1, <1>2, SeenKept
<1>5. WorkflowTypeOK'
  BY <1>2, <1>3, <1>4 DEF WorkflowInv, WorkflowTypeOK, engine
<1> QED BY <1>2, <1>4, <1>5 DEF WorkflowInv, WaitsCanEnd, Settled, engine

LEMMA StartAttemptInv ==
  ASSUME WorkflowInv, NEW r \in Calls, StartAttempt(r)
  PROVE  WorkflowInv'
<1>1. /\ pc[r] # "idle"
      /\ UNCHANGED <<status, version, approval, active, handle, seen, aborted, cancelling, crashes>>
  BY DEF StartAttempt
<1>2. PICK p \in Points : pc' = [pc EXCEPT ![r] = p]
  BY DEF StartAttempt, Goto, Points
<1>3. SeenInv' /\ pc' \in [Calls -> Points]
  BY <1>1, <1>2, SeenKept
<1>4. \/ activity' = activity
      \/ activity' \in Activity /\ Consistent(activity') /\ activity'.status = "running"
  <2>1. CASE Valid(r)
    <3>1. activity' = [seen[r] EXCEPT !.status = "running", !.attempt = Attempt(r)]
      BY <2>1 DEF StartAttempt
    <3>2. /\ seen[r] \in Activity /\ Consistent(seen[r]) /\ seen[r].status # "succeeded"
          /\ seen[r].attempt \in Nat /\ Attempt(r) = seen[r].attempt + 1 /\ Attempt(r) \in Nat
      BY <1>1, Remembered DEF Unsettled
    <3>3. /\ activity' \in Activity /\ activity'.attempt = Attempt(r)
          /\ activity'.attempts = seen[r].attempts /\ activity'.status = "running"
      BY <3>1, <3>2 DEF Activity
    <3>4. activity'.attempt >= seen[r].attempt
      BY <3>2, <3>3
    <3> QED BY <3>2, <3>3, <3>4, KeepHistory
  <2>2. CASE ~Valid(r)
    BY <2>2 DEF StartAttempt
  <2> QED BY <2>1, <2>2
<1>5. activity' # Nothing \/ activity' = activity
  BY <1>4, WorkflowAssumption
<1>6. WorkflowTypeOK'
  BY <1>1, <1>3, <1>4, <1>5 DEF WorkflowInv, WorkflowTypeOK
<1>7. WaitsCanEnd'
  BY <1>1, <1>4, <1>5 DEF WorkflowInv, WaitsCanEnd, Settled
<1> QED BY <1>3, <1>4, <1>6, <1>7 DEF WorkflowInv

\* The end of a call.
LEMMA EndCallInv ==
  ASSUME WorkflowInv, NEW r \in Calls, pc[r] # "idle", EndCall(r)
  PROVE  /\ SeenInv' /\ pc' \in [Calls -> Points]
         /\ active' \in Registration \union {Nothing}
         /\ UNCHANGED <<handle, seen, aborted, cancelling>>
<1>1. pc' = [pc EXCEPT ![r] = "idle"] /\ "idle" \in Points /\ UNCHANGED seen
  BY DEF EndCall, Goto, Points
<1>2. SeenInv' /\ pc' \in [Calls -> Points]
  BY <1>1, SeenKept
<1> QED BY <1>2 DEF EndCall, WorkflowInv, WorkflowTypeOK

LEMMA StoreResultInv ==
  ASSUME WorkflowInv, NEW r \in Calls, StoreResult(r)
  PROVE  WorkflowInv'
<1>1. /\ pc[r] = "returned" /\ UNCHANGED crashes
      /\ (activity # Nothing /\ ~Settled /\ Succeed) \/ UNCHANGED engine
      /\ \/ Goto(r, "threw") /\ UNCHANGED <<active, handle, seen, aborted, cancelling>>
         \/ EndCall(r)
  BY DEF StoreResult, Expects
<1>2. /\ SeenInv' /\ pc' \in [Calls -> Points]
      /\ active' \in Registration \union {Nothing}
      /\ UNCHANGED <<handle, seen, aborted, cancelling>>
  <2>1. CASE EndCall(r)
    BY <1>1, <2>1, EndCallInv
  <2>2. CASE Goto(r, "threw") /\ UNCHANGED <<active, handle, seen, aborted, cancelling>>
    <3>1. pc' = [pc EXCEPT ![r] = "threw"] /\ "threw" \in Points /\ pc[r] # "idle"
      BY <1>1, <2>2 DEF Goto, Points
    <3> QED BY <2>2, <3>1, SeenKept DEF WorkflowInv, WorkflowTypeOK
  <2> QED BY <1>1, <2>1, <2>2
<1>3. CASE UNCHANGED engine
  <2>1. WorkflowTypeOK'
    BY <1>1, <1>2, <1>3 DEF WorkflowInv, WorkflowTypeOK, engine
  <2> QED BY <1>2, <1>3, <2>1 DEF WorkflowInv, WaitsCanEnd, Settled, engine
<1>4. CASE activity # Nothing /\ ~Settled /\ Succeed
  <2>1. /\ activity' \in Activity /\ Consistent(activity') /\ status' = "running"
        /\ UNCHANGED <<version, approval>>
    BY <1>4, SucceedStored DEF WorkflowInv, Stored
  <2>2. WorkflowTypeOK'
    BY <1>1, <1>2, <2>1 DEF WorkflowInv, WorkflowTypeOK
  <2> QED BY <1>2, <2>1, <2>2 DEF WorkflowInv, WaitsCanEnd
<1> QED BY <1>1, <1>3, <1>4

\* The failed attempt is recorded behind those the call read.
LEMMA StoreFailureInv ==
  ASSUME WorkflowInv, NEW r \in Calls, StoreFailure(r)
  PROVE  WorkflowInv'
<1>1. pc[r] # "idle" /\ EndCall(r) /\ UNCHANGED crashes
  BY DEF StoreFailure
<1>2. /\ SeenInv' /\ pc' \in [Calls -> Points]
      /\ active' \in Registration \union {Nothing}
      /\ UNCHANGED <<handle, seen, aborted, cancelling>>
  BY <1>1, EndCallInv
<1>3. CASE UNCHANGED engine
  <2>1. WorkflowTypeOK'
    BY <1>1, <1>2, <1>3 DEF WorkflowInv, WorkflowTypeOK, engine
  <2> QED BY <1>2, <1>3, <2>1 DEF WorkflowInv, WaitsCanEnd, Settled, engine
<1>4. CASE ~UNCHANGED engine
  <2> DEFINE o == IF Retries(r) THEN "retrying" ELSE "failed"
             e == [attempt |-> Attempt(r), outcome |-> o]
  <2>1. /\ activity' = [seen[r] EXCEPT !.status = IF Retries(r) THEN "scheduled" ELSE "failed",
                                       !.attempt = Attempt(r),
                                       !.attempts = Append(seen[r].attempts, e)]
        /\ status' = IF Retries(r) THEN "waiting_for_activity" ELSE "failed"
        /\ UNCHANGED <<version, approval>>
    BY <1>4 DEF StoreFailure
  <2>2. /\ seen[r] \in Activity /\ Consistent(seen[r]) /\ seen[r].status # "succeeded"
        /\ seen[r].attempt \in Nat /\ Attempt(r) = seen[r].attempt + 1 /\ Attempt(r) \in Nat
        /\ seen[r].attempts \in Seq(Record)
    BY <1>1, Remembered DEF Unsettled
  <2>3. e \in Record /\ o \in {"retrying", "failed", "succeeded"} /\ o # "succeeded"
    BY <2>2 DEF Record
  <2> HIDE DEF o
  <2>4. Append(seen[r].attempts, e) \in Seq(Record)
    BY <2>2, <2>3, AppendProperties
  <2>5. /\ activity' \in Activity /\ activity'.attempt = Attempt(r)
        /\ activity'.attempts = Append(seen[r].attempts, [attempt |-> activity'.attempt, outcome |-> o])
        /\ activity'.status = IF Retries(r) THEN "scheduled" ELSE "failed"
    BY <2>1, <2>2, <2>4 DEF Activity
  <2>6. activity'.attempt >= seen[r].attempt
    BY <2>2, <2>5
  <2>7. Consistent(activity')
    BY <2>2, <2>3, <2>5, <2>6, RecordAttempt
  <2>8. activity' # Nothing
    BY <2>5, WorkflowAssumption
  <2>9. WorkflowTypeOK'
    BY <1>1, <1>2, <2>1, <2>5, <2>8 DEF WorkflowInv, WorkflowTypeOK
  <2>10. WaitsCanEnd'
    <3>1. status' \in {"waiting_for_activity", "failed"}
      BY <2>1
    <3>2. status' = "waiting_for_activity" => activity'.status = "scheduled"
      BY <2>1, <2>5
    <3> QED BY <2>8, <3>1, <3>2 DEF WaitsCanEnd, Settled
  <2> QED BY <1>2, <2>7, <2>9, <2>10 DEF WorkflowInv
<1> QED BY <1>3, <1>4

LEMMA CrashInv ==
  ASSUME WorkflowInv, Crash
  PROVE  WorkflowInv'
<1>3. crashes' \in Nat /\ pc' \in [Calls -> Points]
  BY DEF WorkflowInv, WorkflowTypeOK, Crash, Points
<1>4. active' = Nothing /\ cancelling' = 0 /\ UNCHANGED <<engine, handle, seen, aborted>>
  BY DEF Crash
<1>1. WorkflowTypeOK'
  BY <1>3, <1>4 DEF WorkflowInv, WorkflowTypeOK, engine
<1>2. SeenInv'
  BY DEF SeenInv, Crash
<1> QED BY <1>1, <1>2 DEF WorkflowInv, WaitsCanEnd, Settled, Crash, engine

LEMMA WorkflowInvStep == WorkflowInv /\ [WorkflowNext]_workflowVars => WorkflowInv'
<1> SUFFICES ASSUME WorkflowInv, [WorkflowNext]_workflowVars PROVE WorkflowInv'
  OBVIOUS
<1>1. ASSUME NEW r \in Calls, Resume(r) PROVE WorkflowInv'
  BY <1>1, QueryInv, RegisterInv, StartAttemptInv, StoreResultInv, StoreFailureInv DEF Resume
<1>2. CASE UNCHANGED workflowVars
  BY <1>2 DEF WorkflowInv, WorkflowTypeOK, WaitsCanEnd, Settled, SeenInv, workflowVars, engine, process
<1> QED BY <1>1, <1>2, CallersInv, CrashInv DEF WorkflowNext

LEMMA WorkflowInvHolds == WorkflowSpec => []WorkflowInv
  BY WorkflowInvInit, WorkflowInvStep, PTL DEF WorkflowSpec

\* The engine's state and that of its calls stay well typed.
THEOREM WorkflowTypeCorrect == WorkflowSpec => []WorkflowTypeOK
<1>1. WorkflowInv => WorkflowTypeOK
  BY DEF WorkflowInv
<1> QED BY <1>1, WorkflowInvHolds, PTL

\* The history of an activity stays in order and has one success at most, with any
\* number of calls that work on what they read long ago.
THEOREM HistoryConsistentHolds == WorkflowSpec => []HistoryConsistent
<1>1. WorkflowInv => HistoryConsistent
  BY DEF WorkflowInv, HistoryConsistent, Consistent
<1> QED BY <1>1, WorkflowInvHolds, PTL

LEMMA TerminalStep ==
  ASSUME WorkflowInv, [WorkflowNext]_workflowVars, status \in {"failed", "cancelled"}
  PROVE  /\ status' \in {status, "cancelled"}
         /\ UNCHANGED <<approval, version>>
         /\ activity' = activity \/ activity'.status = "running"
<1>1. ~Open
  BY DEF Open
<1>2. CASE Callers
  <2>1. UNCHANGED engine \/ Cancel
    BY <1>1, <1>2 DEF Callers, StartWorkflow, UpgradeDefinition, ScheduleActivity, WaitForApproval,
       SignalApproval, SignalActivity, Expects, Abort
  <2> QED BY <2>1 DEF Cancel, engine
<1>3. ASSUME NEW r \in Calls, StartAttempt(r)
      PROVE  /\ UNCHANGED <<status, approval, version>>
             /\ activity' = activity \/ activity'.status = "running"
  <2>1. pc[r] # "idle" /\ UNCHANGED <<status, approval, version>>
    BY <1>3 DEF StartAttempt
  <2>2. seen[r] \in Activity
    BY <2>1, Remembered
  <2>3. activity' = activity \/ activity' = [seen[r] EXCEPT !.status = "running", !.attempt = Attempt(r)]
    BY <1>3 DEF StartAttempt
  <2> QED BY <2>1, <2>2, <2>3 DEF Activity
<1>4. ASSUME NEW r \in Calls,
             Query(r) \/ Register(r) \/ HandlerEnds(r) \/ StoreResult(r) \/ StoreFailure(r)
      PROVE  UNCHANGED engine
  BY <1>1, <1>4 DEF Query, Register, HandlerEnds, StoreResult, Expects, StoreFailure, Failable
<1>5. CASE Crash
  BY <1>5 DEF Crash, engine
<1>6. CASE UNCHANGED workflowVars
  BY <1>6 DEF workflowVars, engine
<1> QED BY <1>2, <1>3, <1>4, <1>5, <1>6 DEF WorkflowNext, Resume, engine

\* A workflow that failed or was cancelled does not come back, whatever calls, late
\* results and callers there are.
THEOREM TerminalIsFinalHolds == WorkflowSpec => TerminalIsFinal
<1>1. WorkflowInv /\ [WorkflowNext]_workflowVars =>
        [(status \in {"failed", "cancelled"} =>
             /\ status' \in {status, "cancelled"}
             /\ UNCHANGED <<approval, version>>
             /\ activity' = activity \/ activity.status' = "running")]_workflowVars
  BY TerminalStep
<1> QED BY <1>1, WorkflowInvHolds, PTL DEF WorkflowSpec, TerminalIsFinal

\* However callers and calls overwrite each other's status, a workflow that waits for
\* an activity has one that is not settled, and one that waits for an approval asks
\* for one.
THEOREM WaitsCanEndHolds == WorkflowSpec => []WaitsCanEnd
<1>1. WorkflowInv => WaitsCanEnd
  BY DEF WorkflowInv
<1> QED BY <1>1, WorkflowInvHolds, PTL

LEMMA CompletedStep ==
  ASSUME WorkflowInv, [WorkflowNext]_workflowVars, activity # Nothing, activity' # Nothing,
         activity' # activity, activity.status = "succeeded", activity'.id = activity.id
  PROVE  \E r \in Calls :
             /\ pc[r] = "registered" /\ seen[r].id = activity.id
             /\ seen[r].status \notin {"succeeded", "failed"}
             /\ activity'.attempt = Attempt(r)
<1>1. Settled
  BY DEF Settled
<1>2. ASSUME NEW a \in Activities, ScheduleActivity(a) PROVE FALSE
  <2>1. activity'.id = a
    BY <1>2 DEF ScheduleActivity
  <2> QED BY <1>2, <2>1 DEF ScheduleActivity
<1>3. ~Callers
  BY <1>1, <1>2 DEF Callers, StartWorkflow, UpgradeDefinition, WaitForApproval, SignalApproval,
     SignalActivity, Expects, Cancel, Abort, engine
<1>4. PICK r \in Calls : Resume(r)
  BY <1>3 DEF WorkflowNext, Crash, workflowVars, engine
<1>5. pc[r] = "registered" /\ activity' = [seen[r] EXCEPT !.status = "running", !.attempt = Attempt(r)]
  BY <1>1, <1>4 DEF Resume, Query, Register, StartAttempt, HandlerEnds, StoreResult, Expects,
     StoreFailure, Failable, Settled, engine
<1>6. seen[r] \in Activity /\ Unsettled(seen[r])
  BY <1>5, Remembered
<1> QED BY <1>5, <1>6 DEF Activity, Unsettled

\* An activity that succeeded is left alone by late failures, reports and resumptions,
\* however they overlap; it is run again only by a call that had read it before and
\* was about to store its start.
THEOREM CompletedIsNotReplayedHolds == WorkflowSpec => CompletedIsNotReplayed
<1>1. WorkflowInv /\ [WorkflowNext]_workflowVars =>
        [activity # Nothing /\ activity' # Nothing /\ activity' # activity =>
           (activity.status = "succeeded" /\ activity'.id = activity.id =>
               \E r \in Calls :
                   /\ pc[r] = "registered" /\ seen[r].id = activity.id
                   /\ seen[r].status \notin {"succeeded", "failed"}
                   /\ activity'.attempt = Attempt(r))]_workflowVars
  BY CompletedStep
<1> QED BY <1>1, WorkflowInvHolds, PTL DEF WorkflowSpec, CompletedIsNotReplayed

-----------------------------------------------------------------------------
(* WorkflowEngine: one call of resumeAfterRestart, and any callers.        *)

OneCall == \A r, s \in Calls : r = s

\* Attempts that count: those within the limit, and those that a crash or an
\* upgrade undid.
Allowance == RetryLimit + crashes + (version - 1)

\* What may have become of the activity that the call read: settled or replaced by
\* others, or as the call left it.
CallAlone(r) ==
    pc[r] # "idle" =>
        /\ activity # Nothing
        /\ Attempt(r) <= RetryLimit + crashes + (handle[r] - 1)
        /\ handle[r] <= version
        /\ pc[r] # "read" => active # Nothing
        /\ \/ Settled
           \/ activity.attempt = 0
           \/ pc[r] \in {"read", "registered"} /\ activity.attempt = seen[r].attempt
           \/ /\ pc[r] \notin {"read", "registered"}
              /\ activity.attempt = Attempt(r) /\ activity.status = "running"

\* While the workflow waits for a call, one more attempt is allowed.
RoomForAnother ==
    status = "waiting_for_activity" /\ ~Settled /\ (\A r \in Calls : pc[r] = "idle")
        => activity.attempt < Allowance

AloneInv ==
    /\ WorkflowInv
    /\ AttemptsBounded
    /\ status = "absent" <=> version = 0
    /\ version = 0 => activity = Nothing
    /\ RoomForAnother
    /\ \A r \in Calls : CallAlone(r)

\* The numbers that the limits are about.
LEMMA Numbers ==
  ASSUME WorkflowTypeOK
  PROVE  /\ RetryLimit \in Nat /\ crashes \in Nat /\ version \in Nat /\ 0 < RetryLimit
         /\ \A r \in Calls : handle[r] \in Nat
         /\ activity # Nothing => activity.attempt \in Nat
<1>1. version \in Nat /\ \A r \in Calls : handle[r] \in Nat
  BY WorkflowAssumption DEF WorkflowTypeOK
<1>2. activity # Nothing => activity.attempt \in Nat
  BY DEF WorkflowTypeOK, Activity
<1> QED BY <1>1, <1>2, WorkflowAssumption DEF WorkflowTypeOK

LEMMA AloneInit == WorkflowInit => AloneInv
<1> SUFFICES ASSUME WorkflowInit PROVE AloneInv
  OBVIOUS
<1>1. /\ status = "absent" /\ version = 0 /\ activity = Nothing
      /\ \A r \in Calls : pc[r] = "idle"
  BY DEF WorkflowInit
<1> QED BY <1>1, WorkflowInvInit DEF AloneInv, AttemptsBounded, RoomForAnother, CallAlone

\* A step that makes nothing wait for an activity, and touches neither it nor the call.
LEMMA Untouched ==
  ASSUME AloneInv, WorkflowInv', UNCHANGED <<version, activity, active, pc, handle, seen, crashes>>,
         status' # "waiting_for_activity" \/ status' = status,
         status' = "absent" <=> status = "absent"
  PROVE  AloneInv'
<1>1. ASSUME NEW r \in Calls PROVE CallAlone(r)'
  BY DEF AloneInv, CallAlone, Attempt, Settled
<1> QED BY <1>1 DEF AloneInv, AttemptsBounded, RoomForAnother, Allowance, Settled

\* Callers may settle or replace the activity of a call that is under way.
LEMMA CallersAlone ==
  ASSUME AloneInv, Callers, WorkflowInv'
  PROVE  AloneInv'
<1> USE Numbers DEF WorkflowInv
<1>1. CASE StartWorkflow
  <2>1. /\ status' = "running" /\ version' = 1 /\ activity = Nothing /\ activity' = Nothing
        /\ UNCHANGED pc /\ \A r \in Calls : pc[r] = "idle"
    BY <1>1 DEF StartWorkflow, AloneInv, CallAlone, process
  <2> QED BY <2>1 DEF AloneInv, AttemptsBounded, RoomForAnother, CallAlone
<1>2. CASE UpgradeDefinition
  <2>1. /\ Open /\ version' = version + 1
        /\ UNCHANGED <<status, approval, activity, active, pc, handle, seen, crashes>>
    BY <1>2 DEF UpgradeDefinition, process
  <2>2. version \in Nat /\ version # 0 /\ Allowance \in Int /\ Allowance' = Allowance + 1
    BY <2>1 DEF Open, AloneInv, Allowance
  <2>3. AttemptsBounded'
    BY <2>1, <2>2 DEF AloneInv, AttemptsBounded, Allowance
  <2>4. RoomForAnother'
    <3> SUFFICES ASSUME status = "waiting_for_activity", ~Settled, \A r \in Calls : pc[r] = "idle"
                 PROVE  activity.attempt < Allowance + 1
      BY <2>1, <2>2 DEF RoomForAnother, Settled
    <3>1. activity # Nothing /\ activity.attempt < Allowance
      BY DEF AloneInv, RoomForAnother, WaitsCanEnd
    <3> QED BY <2>2, <3>1 DEF AloneInv
  <2>5. ASSUME NEW r \in Calls PROVE CallAlone(r)'
    <3>1. Attempt(r)' = Attempt(r) /\ Settled' = Settled
      BY <2>1 DEF Attempt, Settled
    <3>2. CallAlone(r) /\ handle[r] \in Nat
      BY DEF AloneInv
    <3> QED BY <2>1, <2>2, <3>1, <3>2 DEF CallAlone
  <2> QED BY <2>1, <2>2, <2>3, <2>4, <2>5 DEF AloneInv, Open
<1>3. ASSUME NEW a \in Activities, ScheduleActivity(a) PROVE AloneInv'
  <2>1. /\ Open /\ status' = "waiting_for_activity"
        /\ activity' = [id |-> a, status |-> "scheduled", attempt |-> 0, attempts |-> << >>]
        /\ UNCHANGED <<version, active, pc, handle, seen, crashes>>
    BY <1>3 DEF ScheduleActivity, process
  <2>2. version >= 1 /\ activity'.attempt = 0 /\ activity' # Nothing
    BY <2>1 DEF AloneInv, Open, WaitsCanEnd
  <2>3. 0 < Allowance' /\ Allowance' \in Int /\ version' # 0
    BY <2>1, <2>2 DEF AloneInv, Allowance
  <2>4. AttemptsBounded'
    BY <2>2, <2>3 DEF AttemptsBounded, Allowance
  <2>5. RoomForAnother'
    BY <2>2, <2>3 DEF RoomForAnother
  <2>6. ASSUME NEW r \in Calls PROVE CallAlone(r)'
    BY <2>1, <2>2 DEF AloneInv, CallAlone, Attempt
  <2> QED BY <2>1, <2>2, <2>3, <2>4, <2>5, <2>6 DEF AloneInv
<1>4. CASE SignalActivity
  <2>1. /\ activity # Nothing /\ Open /\ UNCHANGED <<active, pc, handle, seen, crashes>>
    BY <1>4 DEF SignalActivity, Expects, process
  <2>2. /\ status' \in {"running", "failed"} /\ UNCHANGED version
        /\ activity'.attempt = activity.attempt /\ activity'.status \in {"succeeded", "failed"}
    <3>1. activity \in Activity
      BY <2>1 DEF AloneInv, WorkflowTypeOK
    <3>2. \/ Succeed
          \/ status' = "failed" /\ activity' = [activity EXCEPT !.status = "failed"] /\ UNCHANGED version
      BY <1>4 DEF SignalActivity
    <3>3. CASE Succeed
      BY <3>1, <3>3 DEF Succeed, Activity
    <3> QED BY <3>1, <3>2, <3>3 DEF Activity
  <2>3. Settled' /\ activity' # Nothing /\ status # "absent"
    <3>1. activity' \in Activity
      <4>1. activity \in Activity /\ ~Settled /\ Stored
        BY <1>4, <2>1 DEF SignalActivity, Expects, AloneInv, WorkflowTypeOK, Stored
      <4>2. CASE Succeed
        BY <2>1, <4>1, <4>2, SucceedStored
      <4>3. CASE activity' = [activity EXCEPT !.status = "failed"]
        BY <4>1, <4>3 DEF Activity
      <4> QED BY <1>4, <4>2, <4>3 DEF SignalActivity
    <3> QED BY <2>1, <2>2, <3>1, WorkflowAssumption DEF Settled, Open
  <2>4. ASSUME NEW r \in Calls PROVE CallAlone(r)'
    BY <2>1, <2>2, <2>3 DEF AloneInv, CallAlone, Attempt
  <2>5. AttemptsBounded' /\ RoomForAnother'
    BY <2>1, <2>2, <2>3 DEF AloneInv, AttemptsBounded, RoomForAnother
  <2> QED BY <2>2, <2>3, <2>4, <2>5 DEF AloneInv
<1>5. ASSUME NEW a \in Approvals, WaitForApproval(a) PROVE AloneInv'
  BY <1>5, Untouched DEF WaitForApproval, Open, process
<1>6. ASSUME NEW outcome \in {"approved", "rejected", "expired", "revoked"}, SignalApproval(outcome)
      PROVE  AloneInv'
  BY <1>6, Untouched DEF SignalApproval, Answered, Open, process
<1>7. CASE Cancel
  BY <1>7, Untouched DEF Cancel
<1>8. CASE Abort
  BY <1>8, Untouched DEF Abort, engine
<1> QED BY <1>1, <1>2, <1>3, <1>4, <1>5, <1>6, <1>7, <1>8 DEF Callers

\* The only call there is goes on, and its attempt stays within its limits.
LEMMA ResumeAlone ==
  ASSUME OneCall, AloneInv, NEW r \in Calls, Resume(r), WorkflowInv'
  PROVE  AloneInv'
<1>1. /\ WorkflowTypeOK /\ WorkflowInv /\ CallAlone(r)
      /\ RetryLimit \in Nat /\ crashes \in Nat /\ version \in Nat /\ handle[r] \in Nat /\ 0 < RetryLimit
      /\ \A s \in Calls : s = r
      /\ UNCHANGED <<version, crashes, approval>>
  BY Numbers DEF AloneInv, WorkflowInv, OneCall, Resume, Query, Register, StartAttempt, HandlerEnds,
                 StoreResult, StoreFailure, EndCall, Succeed, engine
<1>3. status # "absent" /\ version # 0 /\ activity # Nothing /\ activity.attempt \in Nat
  <2>1. activity # Nothing
    BY <1>1 DEF CallAlone, Resume, Query, Register, StartAttempt, HandlerEnds, StoreResult, StoreFailure,
       Resumable, WorkflowInv, WaitsCanEnd
  <2> QED BY <1>1, <2>1, Numbers DEF AloneInv
\* It suffices to look at the call and at what its step may change.
<1>2. ASSUME AttemptsBounded', RoomForAnother', CallAlone(r)', status' # "absent"
      PROVE  AloneInv'
  BY <1>1, <1>2, <1>3 DEF AloneInv
<1>4. CASE Query(r)
  <2>1. /\ pc[r] = "idle" /\ status = "waiting_for_activity" /\ ~Settled /\ UNCHANGED engine
        /\ handle'[r] = version /\ seen'[r] = activity /\ pc'[r] = "read"
    BY <1>1, <1>4 DEF Query, Goto, Resumable, WorkflowTypeOK
  <2>2. activity.attempt < Allowance
    BY <1>1, <2>1 DEF AloneInv, RoomForAnother
  <2>3. Attempt(r)' = activity.attempt + 1
    BY <2>1 DEF Attempt
  <2>4. CallAlone(r)'
    BY <1>1, <1>3, <2>1, <2>2, <2>3 DEF CallAlone, Allowance, engine
  <2> QED BY <1>1, <1>2, <1>3, <2>1, <2>4 DEF AloneInv, AttemptsBounded, RoomForAnother, engine
<1>5. CASE ~Query(r)
  <2>1. /\ pc[r] # "idle" /\ UNCHANGED <<handle, seen>> /\ Attempt(r)' = Attempt(r)
    BY <1>5 DEF Resume, Register, StartAttempt, HandlerEnds, StoreResult, StoreFailure, EndCall, Attempt
  <2>2. /\ Attempt(r) <= RetryLimit + crashes + (handle[r] - 1) /\ handle[r] <= version
        /\ pc[r] # "read" => active # Nothing
        /\ seen[r] \in Activity /\ Attempt(r) = seen[r].attempt + 1 /\ seen[r].attempt \in Nat
        /\ Attempt(r) \in Nat
    BY <1>1, <2>1, Remembered DEF CallAlone
  <2>3. /\ pc[r] \in {"read", "registered"} => Settled \/ activity.attempt \in {0, seen[r].attempt}
        /\ pc[r] \notin {"read", "registered"} =>
              \/ Settled \/ activity.attempt = 0
              \/ activity.attempt = Attempt(r) /\ activity.status = "running"
    BY <1>1, <2>1 DEF CallAlone
  \* An attempt that the call leaves behind leaves room for another one, when its handle
  \* is old or the activity is new.
  <2>4. ASSUME handle[r] # version \/ activity.attempt = 0, ~Settled PROVE activity.attempt < Allowance'
    <3>1. 1 <= version /\ 0 < Allowance'
      BY <1>1, <1>3 DEF Allowance
    <3>2. CASE activity.attempt = 0
      BY <3>1, <3>2
    <3>3. CASE handle[r] # version /\ activity.attempt # 0
      <4>1. activity.attempt <= Attempt(r)
        BY <2>2, <2>3, <2>4, <3>3
      <4>2. handle[r] + 1 <= version
        BY <1>1, <2>2, <3>3
      <4> QED BY <1>1, <1>3, <2>2, <4>1, <4>2 DEF Allowance
    <3> QED BY <2>4, <3>2, <3>3
  <2>5. CASE Register(r)
    <3>1. /\ pc[r] = "read" /\ pc'[r] = "registered" /\ UNCHANGED engine
          /\ active' = [attempt |-> Attempt(r), call |-> r]
      BY <1>1, <2>5 DEF Register, Goto, WorkflowTypeOK
    <3>2. active' # Nothing
      BY <2>2, <3>1, WorkflowAssumption DEF Registration
    <3>3. Settled' = Settled
      BY <3>1 DEF Settled, engine
    <3>4. CallAlone(r)'
      BY <1>1, <1>3, <2>1, <2>2, <2>3, <3>1, <3>2, <3>3 DEF CallAlone, engine
    <3> QED BY <1>1, <1>2, <1>3, <3>1, <3>4 DEF AloneInv, AttemptsBounded, RoomForAnother, engine
  <2>6. CASE StartAttempt(r)
    <3>1. pc[r] = "registered" /\ UNCHANGED <<status, active>>
      BY <2>6 DEF StartAttempt
    <3>3. CASE Valid(r)
      <4>1. /\ pc'[r] = "running"
            /\ activity' = [seen[r] EXCEPT !.status = "running", !.attempt = Attempt(r)]
        BY <1>1, <2>6, <3>3 DEF StartAttempt, Goto, WorkflowTypeOK
      <4>2. /\ activity' \in Activity /\ activity'.attempt = Attempt(r) /\ activity'.status = "running"
        BY <2>2, <4>1 DEF Activity
      <4>3. activity' # Nothing
        BY <4>2, WorkflowAssumption
      <4>4. CallAlone(r)' /\ AttemptsBounded'
        BY <1>1, <2>1, <2>2, <3>1, <4>1, <4>2, <4>3 DEF CallAlone, AttemptsBounded
      <4>5. RoomForAnother'
        BY <4>1 DEF RoomForAnother
      <4> QED BY <1>2, <1>3, <3>1, <4>4, <4>5
    <3>4. CASE ~Valid(r)
      <4>1. pc'[r] = "idle" /\ UNCHANGED activity
        BY <1>1, <2>6, <3>4 DEF StartAttempt, Goto, WorkflowTypeOK
      <4>2. CallAlone(r)' /\ AttemptsBounded'
        BY <1>1, <4>1 DEF CallAlone, AttemptsBounded, AloneInv
      <4>3. RoomForAnother'
        BY <2>4, <3>1, <3>4, <4>1 DEF RoomForAnother, Valid, Settled
      <4> QED BY <1>2, <1>3, <3>1, <4>2, <4>3
    <3> QED BY <3>3, <3>4
  <2>7. CASE HandlerEnds(r)
    <3>1. /\ pc[r] = "running" /\ pc'[r] \in {"returned", "threw_retryable", "threw"}
          /\ UNCHANGED <<engine, active>>
      BY <1>1, <2>7 DEF HandlerEnds, Goto, WorkflowTypeOK
    <3>2. Settled' = Settled
      BY <3>1 DEF Settled, engine
    <3>4. CallAlone(r)'
      BY <1>1, <1>3, <2>1, <2>2, <2>3, <3>1, <3>2 DEF CallAlone, engine
    <3> QED BY <1>1, <1>2, <1>3, <3>1, <3>4 DEF AloneInv, AttemptsBounded, RoomForAnother, engine
  <2>8. CASE StoreResult(r)
    <3>1. pc[r] = "returned"
      BY <2>8 DEF StoreResult
    <3> DEFINE refused == ~Valid(r) \/ (Open /\ (activity = Nothing \/ activity.id # seen[r].id))
    <3>2. CASE ~refused /\ Expects(seen[r].id, Attempt(r))
      <4>1. Open /\ Succeed /\ pc'[r] = "idle"
        BY <1>1, <2>8, <3>2 DEF StoreResult, EndCall, Goto, WorkflowTypeOK, Expects
      <4>2. status' = "running" /\ activity'.attempt = activity.attempt
        BY <1>1, <1>3, <4>1 DEF Succeed, WorkflowTypeOK, Activity
      <4>3. AttemptsBounded' /\ RoomForAnother'
        BY <1>1, <1>3, <4>2 DEF AloneInv, AttemptsBounded, RoomForAnother
      <4> QED BY <1>2, <4>1, <4>2, <4>3 DEF CallAlone
    <3>3. CASE refused
      <4>1. pc'[r] = "threw" /\ UNCHANGED <<engine, active>>
        BY <1>1, <2>8, <3>3 DEF StoreResult, Goto, WorkflowTypeOK
      <4>2. Settled' = Settled
        BY <4>1 DEF Settled, engine
      <4>3. CallAlone(r)'
        BY <1>1, <1>3, <2>1, <2>2, <2>3, <3>1, <4>1, <4>2 DEF CallAlone, engine
      <4> QED BY <1>1, <1>2, <1>3, <4>1, <4>3 DEF AloneInv, AttemptsBounded, RoomForAnother, engine
    <3>4. CASE ~refused /\ ~Expects(seen[r].id, Attempt(r))
      <4>1. pc'[r] = "idle" /\ UNCHANGED engine
        BY <1>1, <2>8, <3>4 DEF StoreResult, EndCall, Goto, WorkflowTypeOK
      <4>2. Open /\ ~Settled => activity.attempt = 0
        BY <1>3, <2>3, <3>1, <3>4 DEF Expects
      <4>3. RoomForAnother'
        BY <2>4, <4>1, <4>2 DEF RoomForAnother, Open, Settled, engine
      <4> QED BY <1>1, <1>2, <1>3, <4>1, <4>3 DEF AloneInv, AttemptsBounded, CallAlone, engine
    <3> QED BY <3>2, <3>3, <3>4
  <2>9. CASE StoreFailure(r)
    <3>1. pc[r] \in {"threw", "threw_retryable"} /\ pc'[r] = "idle"
      BY <1>1, <2>9 DEF StoreFailure, EndCall, Goto, WorkflowTypeOK
    <3>2. CallAlone(r)'
      BY <3>1 DEF CallAlone
    <3>3. CASE Failable(r)
      <4>1. /\ status' = IF Retries(r) THEN "waiting_for_activity" ELSE "failed"
            /\ activity'.attempt = Attempt(r)
        <5>1. /\ status' = IF Retries(r) THEN "waiting_for_activity" ELSE "failed"
              /\ activity' = [seen[r] EXCEPT
                    !.status = IF Retries(r) THEN "scheduled" ELSE "failed",
                    !.attempt = Attempt(r),
                    !.attempts = Append(@, [attempt |-> Attempt(r),
                                            outcome |-> IF Retries(r) THEN "retrying" ELSE "failed"])]
          BY <2>9, <3>3 DEF StoreFailure
        <5>2. activity'.attempt = Attempt(r)
          BY <2>2, <5>1 DEF Activity
        <5> QED BY <5>1, <5>2
      <4>2. AttemptsBounded'
        BY <1>1, <2>2, <4>1 DEF AttemptsBounded
      <4>3. RoomForAnother'
        <5> SUFFICES ASSUME Retries(r) PROVE Attempt(r) < Allowance'
          BY <4>1 DEF RoomForAnother
        <5>1. Attempt(r) < RetryLimit /\ version # 0
          BY <1>3 DEF Retries
        <5> QED BY <1>1, <2>2, <5>1 DEF Allowance
      <4> QED BY <1>2, <3>2, <4>1, <4>2, <4>3
    <3>4. CASE ~Failable(r)
      <4>1. UNCHANGED engine
        BY <2>9, <3>4 DEF StoreFailure
      <4>2. AttemptsBounded'
        BY <1>1, <4>1 DEF AloneInv, AttemptsBounded, engine
      <4>4. Open /\ ~Settled => handle[r] # version \/ activity.attempt = 0
        BY <1>3, <2>3, <3>1, <3>4 DEF Failable, Valid
      <4>3. RoomForAnother'
        BY <2>4, <4>1, <4>4 DEF RoomForAnother, Open, Settled, engine
      <4> QED BY <1>2, <1>3, <3>2, <4>1, <4>2, <4>3 DEF engine
    <3> QED BY <3>3, <3>4
  <2> QED BY <1>5, <2>5, <2>6, <2>7, <2>8, <2>9 DEF Resume
<1> QED BY <1>4, <1>5

LEMMA AloneStep == OneCall /\ AloneInv /\ [WorkflowNext]_workflowVars => AloneInv'
<1> SUFFICES ASSUME OneCall, AloneInv, [WorkflowNext]_workflowVars PROVE AloneInv'
  OBVIOUS
<1>1. WorkflowInv'
  BY WorkflowInvStep DEF AloneInv
<1>2. CASE Crash
  <2>1. /\ crashes' = crashes + 1 /\ UNCHANGED engine /\ \A r \in Calls : pc'[r] = "idle"
    BY <1>2 DEF Crash
  <2>2. /\ crashes \in Nat /\ version \in Nat /\ RetryLimit \in Nat
        /\ activity # Nothing => activity.attempt \in Nat
        /\ status = "waiting_for_activity" => activity # Nothing
    BY Numbers DEF AloneInv, WorkflowInv, WaitsCanEnd
  <2>3. AttemptsBounded'
    BY <2>1, <2>2 DEF AloneInv, AttemptsBounded, engine
  <2>4. RoomForAnother'
    BY <2>1, <2>2 DEF AloneInv, AttemptsBounded, RoomForAnother, Allowance, engine
  <2> QED BY <1>1, <2>1, <2>3, <2>4 DEF AloneInv, CallAlone, engine
<1>3. CASE UNCHANGED workflowVars
  <2>1. UNCHANGED <<status, version, activity, active, pc, handle, seen, crashes>>
    BY <1>3 DEF workflowVars, engine, process
  <2> QED BY <1>1, <2>1, Untouched
<1> QED BY <1>1, <1>2, <1>3, CallersAlone, ResumeAlone DEF WorkflowNext

LEMMA AloneHolds == OneCall /\ WorkflowSpec => []AloneInv
<1>1. SUFFICES ASSUME OneCall PROVE WorkflowSpec => []AloneInv
  OBVIOUS
<1>2. AloneInv /\ [WorkflowNext]_workflowVars => AloneInv'
  BY <1>1, AloneStep
<1> QED BY <1>2, AloneInit, PTL DEF WorkflowSpec

\* When resumptions do not overlap, maxAttempts bounds the attempts, except for those
\* that a crash cut short or an upgrade invalidated, whatever callers begin, report or
\* cancel meanwhile.
THEOREM AttemptsBoundedHolds == OneCall /\ WorkflowSpec => []AttemptsBounded
<1>1. AloneInv => AttemptsBounded
  BY DEF AloneInv
<1> QED BY <1>1, AloneHolds, PTL

\* ... and the abort of a cancellation reaches the handler that runs.
THEOREM CancellationReachesHandlersHolds == OneCall /\ WorkflowSpec => CancellationReachesHandlers
<1>3. SUFFICES ASSUME OneCall PROVE WorkflowSpec => CancellationReachesHandlers
  OBVIOUS
<1>1. ASSUME AloneInv, [WorkflowNext]_workflowVars, cancelling' < cancelling,
             crashes' = crashes, NEW r \in Calls, pc[r] = "running"
      PROVE  aborted'[r]
  <2>1. Abort
    <3>1. crashes \in Nat /\ cancelling \in Nat
      BY <1>1 DEF AloneInv, WorkflowInv, WorkflowTypeOK
    <3>2. ~Crash
      BY <1>1, <3>1 DEF Crash
    <3>3. ASSUME NEW c \in Calls, Resume(c) PROVE UNCHANGED cancelling
      BY <3>3 DEF Resume, Query, Register, StartAttempt, HandlerEnds, StoreResult, StoreFailure, EndCall
    <3>4. ~Cancel /\ cancelling' # cancelling
      BY <1>1, <3>1 DEF Cancel
    <3> QED BY <1>1, <3>2, <3>3, <3>4
            DEF WorkflowNext, Callers, StartWorkflow, UpgradeDefinition, ScheduleActivity, WaitForApproval,
                SignalApproval, SignalActivity, process, workflowVars
  <2>2. active # Nothing /\ active \in Registration
    BY <1>1 DEF AloneInv, CallAlone, WorkflowInv, WorkflowTypeOK
  <2>3. active.call = r
    BY <1>3, <2>2 DEF OneCall, Registration
  <2> QED BY <1>1, <2>1, <2>2, <2>3 DEF Abort, Controls
<1>2. AloneInv /\ [WorkflowNext]_workflowVars =>
        [cancelling' < cancelling /\ crashes' = crashes =>
            \A r \in Calls : pc[r] = "running" => aborted'[r]]_workflowVars
  BY <1>1
<1> QED BY <1>2, <1>3, AloneHolds, PTL DEF WorkflowSpec, CancellationReachesHandlers

-----------------------------------------------------------------------------
(* WorkerPool.                                                             *)

USE TasksAssumption, LimitsAssumption, NoneAssumption

\* A task that was never enqueued was never attempted.
Fresh == \A t \in Tasks : state[t] = "absent" => attempt[t] = 0

IInv == TypeOK /\ Fresh /\ TaskAttemptsBounded /\ AttemptsAccounted /\ CopiesAccounted

\* What Append does to a sequence of attempts.
LEMMA AppendFacts ==
    ASSUME NEW s \in Seq(Nat), NEW n \in Nat
    PROVE  /\ Append(s, n) \in Seq(Nat)
           /\ Len(Append(s, n)) = Len(s) + 1
           /\ \A i \in 1 .. Len(s) : Append(s, n)[i] = s[i]
           /\ Append(s, n)[Len(s) + 1] = n
  OBVIOUS

\* Updating a function keeps its type.
LEMMA ExceptType ==
    ASSUME NEW S, NEW T, NEW f \in [S -> T], NEW x, NEW v \in T
    PROVE  [f EXCEPT ![x] = v] \in [S -> T]
  OBVIOUS

\* Every initial state satisfies the invariant.
LEMMA InvInit == Init => IInv
  BY DEF Init, IInv, TypeOK, Fresh, TaskAttemptsBounded, AttemptsAccounted, CopiesAccounted,
         States, Lease

-----------------------------------------------------------------------------
(* Types.                                                                  *)

\* requeueExpired keeps the types of what it changes.
LEMMA ReapType ==
    TypeOK => /\ ReapedState \in [Tasks -> States]
              /\ ReapedFailures \in [Tasks -> Seq(Nat)]
              /\ ReapedHolder \in [Tasks -> Workers \union {None}]
              /\ \A t \in Tasks : ReapedState[t] = "leased" <=> ReapedHolder[t] # None
<1> SUFFICES ASSUME TypeOK
             PROVE  /\ ReapedState \in [Tasks -> States]
                    /\ ReapedFailures \in [Tasks -> Seq(Nat)]
                    /\ ReapedHolder \in [Tasks -> Workers \union {None}]
                    /\ \A t \in Tasks : ReapedState[t] = "leased" <=> ReapedHolder[t] # None
  OBVIOUS
<1>1. \A t \in Tasks : Append(failures[t], attempt[t]) \in Seq(Nat)
  BY DEF TypeOK
<1> QED
  BY <1>1 DEF TypeOK, ReapedState, ReapedFailures, ReapedHolder, Expired, Retried, States

\* Every step keeps the types.
LEMMA TypeStep == TypeOK /\ [Next]_vars => TypeOK'
<1> SUFFICES ASSUME TypeOK, [Next]_vars PROVE TypeOK'
  OBVIOUS
<1>1. ASSUME NEW t \in Tasks, Enqueue(t) PROVE TypeOK'
  <2>1. Cardinality({u \in Tasks : state[u] # "absent"}) \in Nat
    BY FS_Subset, FS_CardinalityType, IsFiniteSet(Tasks)
  <2> QED
    BY <1>1, <2>1 DEF Enqueue, TypeOK, States
<1>2. ASSUME NEW w \in Workers, NEW tenant \in Tenants, NEW pool \in Pools,
             Claim(w, tenant, pool)
      PROVE  TypeOK'
  <2>1. PICK t \in Tasks :
            IF attempt[t] >= MaxAttempts[t]
            THEN /\ state' = [ReapedState EXCEPT ![t] = "parked"]
                 /\ holder' = ReapedHolder
                 /\ First(t, tenant, pool)
                 /\ UNCHANGED <<attempt, remaining, held>>
            ELSE /\ state' = [ReapedState EXCEPT ![t] = "leased"]
                 /\ attempt' = [attempt EXCEPT ![t] = @ + 1]
                 /\ holder' = [ReapedHolder EXCEPT ![t] = w]
                 /\ remaining' = [remaining EXCEPT ![t] = LeaseDuration]
                 /\ held' = [held EXCEPT ![w] = [task |-> t, attempt |-> attempt[t] + 1]]
    BY <1>2 DEF Claim
  <2>2. failures' = ReapedFailures /\ UNCHANGED place
    BY <1>2 DEF Claim
  <2>3. CASE attempt[t] >= MaxAttempts[t]
    BY <2>1, <2>2, <2>3, ReapType DEF TypeOK, First, States
  <2>4. CASE ~(attempt[t] >= MaxAttempts[t])
    <3>1. attempt[t] + 1 \in Nat \ {0}
      BY DEF TypeOK
    <3>2. [task |-> t, attempt |-> attempt[t] + 1] \in Lease
      BY <3>1 DEF Lease
    <3>3. attempt' \in [Tasks -> Nat]
      <4>1. [attempt EXCEPT ![t] = attempt[t] + 1] \in [Tasks -> Nat]
        BY <3>1, ExceptType DEF TypeOK
      <4> QED
        BY <2>1, <2>4, <4>1
    <3>4. held' \in [Workers -> Lease \union {None}]
      <4>1. [held EXCEPT ![w] = [task |-> t, attempt |-> attempt[t] + 1]]
                \in [Workers -> Lease \union {None}]
        BY <3>2, ExceptType DEF TypeOK
      <4> QED
        BY <2>1, <2>4, <4>1
    <3>5. remaining' \in [Tasks -> 0 .. LeaseDuration]
      <4>1. LeaseDuration \in 0 .. LeaseDuration
        OBVIOUS
      <4>2. [remaining EXCEPT ![t] = LeaseDuration] \in [Tasks -> 0 .. LeaseDuration]
        BY <4>1, ExceptType DEF TypeOK
      <4> QED
        BY <2>1, <2>4, <4>2
    <3>6. /\ state' = [ReapedState EXCEPT ![t] = "leased"]
          /\ holder' = [ReapedHolder EXCEPT ![t] = w]
      BY <2>1, <2>4
    <3>7. /\ state' \in [Tasks -> States]
          /\ holder' \in [Tasks -> Workers \union {None}]
          /\ \A u \in Tasks : state'[u] = "leased" <=> holder'[u] # None
      BY <3>6, TypeOK, ReapType DEF States
    <3> QED
      BY <2>2, <3>3, <3>4, <3>5, <3>7, ReapType DEF TypeOK
  <2> QED
    BY <2>3, <2>4
<1>3. CASE Reap
  BY <1>3, ReapType DEF Reap, TypeOK
<1>4. ASSUME NEW w \in Workers, Heartbeat(w) PROVE TypeOK'
  <2>1. LeaseDuration \in 0 .. LeaseDuration
    OBVIOUS
  <2>2. [remaining EXCEPT ![held[w].task] = LeaseDuration] \in [Tasks -> 0 .. LeaseDuration]
    BY <2>1, ExceptType DEF TypeOK
  <2> QED
    BY <1>4, <2>2 DEF Heartbeat, TypeOK
<1>5. ASSUME NEW w \in Workers, Ack(w) PROVE TypeOK'
  <2>1. held[w].task \in Tasks
    BY <1>5 DEF Ack, TypeOK, Lease
  <2>4. held' \in [Workers -> Lease \union {None}]
    BY <1>5 DEF Ack, Drop, TypeOK
  <2>5. state' \in [Tasks -> States] /\ holder' \in [Tasks -> Workers \union {None}]
    BY <1>5, <2>1 DEF Ack, DeleteLease, TypeOK, States
  <2>6. \A t \in Tasks : state'[t] = "leased" <=> holder'[t] # None
    BY <1>5, <2>1 DEF Ack, DeleteLease, TypeOK
  <2>2. [remaining EXCEPT ![held[w].task] = 0] \in [Tasks -> 0 .. LeaseDuration]
    BY 0 \in 0 .. LeaseDuration, ExceptType DEF TypeOK
  <2> QED
    BY <1>5, <2>1, <2>2, <2>4, <2>5, <2>6 DEF Ack, DeleteLease, TypeOK
<1>6. ASSUME NEW w \in Workers, NEW next \in {"queued", "parked"}, EndAttempt(w, next)
      PROVE  TypeOK'
  <2>1. held[w].task \in Tasks
    BY <1>6 DEF EndAttempt, TypeOK, Lease
  <2>4. held' \in [Workers -> Lease \union {None}]
    BY <1>6 DEF EndAttempt, Drop, TypeOK
  <2>5. state' \in [Tasks -> States] /\ holder' \in [Tasks -> Workers \union {None}]
    BY <1>6, <2>1 DEF EndAttempt, DeleteLease, TypeOK, States
  <2>6. \A t \in Tasks : state'[t] = "leased" <=> holder'[t] # None
    BY <1>6, <2>1 DEF EndAttempt, DeleteLease, TypeOK
  <2>2. Append(failures[held[w].task], attempt[held[w].task]) \in Seq(Nat)
    BY <2>1 DEF TypeOK
  <2>3. failures' \in [Tasks -> Seq(Nat)]
    BY <1>6, <2>1, <2>2 DEF EndAttempt, TypeOK
  <2>7. remaining' \in [Tasks -> 0 .. LeaseDuration]
    <3>1. [remaining EXCEPT ![held[w].task] = 0] \in [Tasks -> 0 .. LeaseDuration]
      BY 0 \in 0 .. LeaseDuration, ExceptType DEF TypeOK
    <3> QED
      BY <1>6, <3>1 DEF EndAttempt, DeleteLease
  <2> QED
    BY <1>6, <2>3, <2>4, <2>5, <2>6, <2>7 DEF EndAttempt, TypeOK
<1>7. ASSUME NEW w \in Workers, GiveUp(w) PROVE TypeOK'
  BY <1>7 DEF GiveUp, Drop, TypeOK
<1>8. CASE Tick
  <2>1. remaining' \in [Tasks -> 0 .. LeaseDuration]
    <3>1. \A t \in Tasks : IF remaining[t] > 0 THEN remaining[t] - 1 \in 0 .. LeaseDuration
                                               ELSE remaining[t] \in 0 .. LeaseDuration
      BY DEF TypeOK
    <3> QED
      BY <1>8, <3>1 DEF Tick, TypeOK
  <2> QED
    BY <1>8, <2>1 DEF Tick, TypeOK
<1>9. CASE UNCHANGED vars
  BY <1>9 DEF vars, TypeOK
<1>10. \A w \in Workers : Fail(w) => EndAttempt(w, "queued") \/ EndAttempt(w, "parked")
  BY DEF Fail, Retried
<1> QED
  BY <1>1, <1>2, <1>3, <1>4, <1>5, <1>6, <1>7, <1>8, <1>9, <1>10
     DEF Next, ClaimNothing, LetGo, Park

\* Type correctness of the pool and its workers.
THEOREM TypeCorrect == Spec => []TypeOK
  BY InvInit, TypeStep, PTL DEF Spec, IInv
-----------------------------------------------------------------------------
(* Attempts.                                                               *)

\* What a claim that hands out task t does, in one place.
Given(w, t) ==
    /\ ReapedState[t] = "queued"
    /\ attempt[t] < MaxAttempts[t]
    /\ state' = [ReapedState EXCEPT ![t] = "leased"]
    /\ attempt' = [attempt EXCEPT ![t] = @ + 1]
    /\ holder' = [ReapedHolder EXCEPT ![t] = w]
    /\ held' = [held EXCEPT ![w] = [task |-> t, attempt |-> attempt[t] + 1]]
    /\ failures' = ReapedFailures

\* requeueExpired leaves no queued task without attempts.
LEMMA ReapBounded ==
    TypeOK /\ TaskAttemptsBounded
        => \A t \in Tasks : ReapedState[t] = "queued" => attempt[t] < MaxAttempts[t]
  BY DEF TypeOK, TaskAttemptsBounded, ReapedState, Expired, Retried

\* A claim always finds a task with attempts left: the branch that parks one
\* is never taken.
LEMMA ClaimGives ==
    ASSUME TypeOK, TaskAttemptsBounded, NEW w \in Workers, NEW tenant, NEW pool,
           Claim(w, tenant, pool)
    PROVE  \E t \in Tasks : Given(w, t)
<1>1. PICK t \in Tasks :
          /\ First(t, tenant, pool)
          /\ IF attempt[t] >= MaxAttempts[t]
             THEN TRUE
             ELSE /\ state' = [ReapedState EXCEPT ![t] = "leased"]
                  /\ attempt' = [attempt EXCEPT ![t] = @ + 1]
                  /\ holder' = [ReapedHolder EXCEPT ![t] = w]
                  /\ held' = [held EXCEPT ![w] = [task |-> t, attempt |-> attempt[t] + 1]]
  BY DEF Claim
<1>2. ReapedState[t] = "queued" /\ attempt[t] < MaxAttempts[t]
  BY <1>1, ReapBounded DEF First
<1>3. ~(attempt[t] >= MaxAttempts[t])
  BY <1>2 DEF TypeOK
<1>4. failures' = ReapedFailures
  BY DEF Claim
<1> QED
  BY <1>1, <1>2, <1>3, <1>4 DEF Given

\* No step exceeds the attempts of a task or queues one without attempts left.
LEMMA BoundedStep ==
    TypeOK /\ Fresh /\ TaskAttemptsBounded /\ [Next]_vars => Fresh' /\ TaskAttemptsBounded'
<1> SUFFICES ASSUME TypeOK, Fresh, TaskAttemptsBounded, [Next]_vars
             PROVE  Fresh' /\ TaskAttemptsBounded'
  OBVIOUS
<1> USE DEF TypeOK, Fresh, TaskAttemptsBounded
<1>1. ASSUME NEW t \in Tasks, Enqueue(t) PROVE Fresh' /\ TaskAttemptsBounded'
  BY <1>1 DEF Enqueue
<1>2. ASSUME NEW w \in Workers, NEW t \in Tasks, Given(w, t)
      PROVE  Fresh' /\ TaskAttemptsBounded'
  <2>1. /\ state' = [ReapedState EXCEPT ![t] = "leased"]
        /\ attempt' = [attempt EXCEPT ![t] = @ + 1]
        /\ attempt[t] < MaxAttempts[t]
    BY <1>2 DEF Given
  <2>2. ReapedState \in [Tasks -> States]
    BY ReapType
  <2>3. \A u \in Tasks : ReapedState[u] = "absent" => state[u] = "absent"
    BY DEF ReapedState, Retried
  <2>4. \A u \in Tasks : attempt[u] \in Nat /\ MaxAttempts[u] \in Nat
    OBVIOUS
  <2>5. ASSUME NEW u \in Tasks
        PROVE  /\ state'[u] = "absent" => attempt'[u] = 0
               /\ attempt'[u] <= MaxAttempts[u]
               /\ state'[u] = "queued" => attempt'[u] < MaxAttempts[u]
    <3>1. CASE u = t
      BY <2>1, <2>2, <2>4, <3>1
    <3>2. CASE u # t
      <4>1. state'[u] = ReapedState[u] /\ attempt'[u] = attempt[u]
        BY <2>1, <2>2, <3>2
      <4> QED
        BY <4>1, <2>3, ReapBounded
    <3> QED
      BY <3>1, <3>2
  <2> QED
    BY <2>5
<1>3. CASE Reap
  BY <1>3, ReapBounded DEF Reap, ReapedState, Expired, Retried
<1>4. ASSUME NEW w \in Workers, Heartbeat(w) PROVE Fresh' /\ TaskAttemptsBounded'
  BY <1>4 DEF Heartbeat
<1>5. ASSUME NEW w \in Workers, Ack(w) PROVE Fresh' /\ TaskAttemptsBounded'
  BY <1>5 DEF Ack, Lease
<1>6. ASSUME NEW w \in Workers, Fail(w) \/ Park(w) PROVE Fresh' /\ TaskAttemptsBounded'
  <2>1. CASE Fail(w)
    BY <2>1 DEF Fail, EndAttempt, Retried, Lease
  <2>2. CASE Park(w)
    BY <2>2 DEF Park, EndAttempt, Retried, Lease
  <2> QED BY <1>6, <2>1, <2>2
<1>7. ASSUME NEW w \in Workers, GiveUp(w) PROVE Fresh' /\ TaskAttemptsBounded'
  BY <1>7 DEF GiveUp
<1>8. CASE Tick
  BY <1>8 DEF Tick
<1>9. CASE UNCHANGED vars
  BY <1>9 DEF vars
<1> QED
  BY <1>1, <1>2, <1>3, <1>4, <1>5, <1>6, <1>7, <1>8, <1>9, ClaimGives
     DEF Next, ClaimNothing, LetGo

\* One task's account of its attempts.
Account(s, f, n) ==
    /\ Len(f) + (IF s \in {"leased", "acked"} THEN 1 ELSE 0) = n
    /\ \A i \in 1 .. Len(f) : f[i] = i

\* The account balances task by task.
LEMMA AccountsDef ==
    AttemptsAccounted <=> \A t \in Tasks : Account(state[t], failures[t], attempt[t])
  BY DEF AttemptsAccounted, Account

\* Recording the end of the running attempt keeps the account.
LEMMA AccountEnds ==
    ASSUME NEW f \in Seq(Nat), NEW n \in Nat, NEW s \in {"queued", "parked"},
           Account("leased", f, n)
    PROVE  Account(s, Append(f, n), n)
  BY AppendFacts DEF Account

\* requeueExpired keeps every account.
LEMMA ReapAccounted ==
    TypeOK /\ AttemptsAccounted
        => \A t \in Tasks : Account(ReapedState[t], ReapedFailures[t], attempt[t])
<1> SUFFICES ASSUME TypeOK, AttemptsAccounted, NEW t \in Tasks
             PROVE  Account(ReapedState[t], ReapedFailures[t], attempt[t])
  OBVIOUS
<1>1. Account(state[t], failures[t], attempt[t])
  BY AccountsDef
<1>2. CASE t \in Expired
  <2>1. state[t] = "leased" /\ failures[t] \in Seq(Nat) /\ attempt[t] \in Nat
    BY <1>2 DEF Expired, TypeOK
  <2>2. Account(Retried(t), Append(failures[t], attempt[t]), attempt[t])
    BY <1>1, <2>1, AccountEnds DEF Retried
  <2> QED
    BY <1>2, <2>2 DEF ReapedState, ReapedFailures
<1>3. CASE t \notin Expired
  BY <1>1, <1>3 DEF ReapedState, ReapedFailures
<1> QED
  BY <1>2, <1>3

\* Every step keeps the account of every task.
LEMMA AccountedStep ==
    TypeOK /\ TaskAttemptsBounded /\ AttemptsAccounted /\ [Next]_vars => AttemptsAccounted'
<1> SUFFICES ASSUME TypeOK, TaskAttemptsBounded, AttemptsAccounted, [Next]_vars,
                    NEW u \in Tasks
             PROVE  Account(state'[u], failures'[u], attempt'[u])
  BY DEF AttemptsAccounted, Account
<1> DEFINE Goal == Account(state'[u], failures'[u], attempt'[u])
<1>0. Account(state[u], failures[u], attempt[u]) /\ Account(ReapedState[u], ReapedFailures[u], attempt[u])
  BY AccountsDef, ReapAccounted
<1>1. ASSUME NEW t \in Tasks, Enqueue(t) PROVE Goal
  BY <1>0, <1>1 DEF Enqueue, Account, TypeOK
<1>2. ASSUME NEW w \in Workers, NEW t \in Tasks, Given(w, t) PROVE Goal
  <2>1. CASE u = t
    <3>1. state'[u] = "leased" /\ failures'[u] = ReapedFailures[u] /\ attempt'[u] = attempt[u] + 1
      BY <1>2, <2>1, ReapType DEF Given, TypeOK
    <3>2. ReapedState[u] = "queued" /\ attempt[u] \in Nat /\ ReapedFailures[u] \in Seq(Nat)
      BY <1>2, <2>1, ReapType DEF Given, TypeOK
    <3> QED
      BY <1>0, <3>1, <3>2 DEF Account
  <2>2. CASE u # t
    <3>1. state'[u] = ReapedState[u] /\ failures'[u] = ReapedFailures[u] /\ attempt'[u] = attempt[u]
      BY <1>2, <2>2, ReapType DEF Given, TypeOK
    <3> QED
      BY <1>0, <3>1
  <2> QED
    BY <2>1, <2>2
<1>3. CASE Reap
  BY <1>0, <1>3 DEF Reap
<1>4. ASSUME NEW w \in Workers, Heartbeat(w) PROVE Goal
  BY <1>0, <1>4 DEF Heartbeat
<1>5. ASSUME NEW w \in Workers, Ack(w) PROVE Goal
  BY <1>0, <1>5 DEF Ack, Current, Account, TypeOK
<1>6. ASSUME NEW w \in Workers, NEW next \in {"queued", "parked"}, EndAttempt(w, next)
      PROVE  Goal
  <2>1. CASE u = held[w].task
    <3>1. state[u] = "leased" /\ failures[u] \in Seq(Nat) /\ attempt[u] \in Nat
      BY <1>6, <2>1 DEF EndAttempt, Current, TypeOK
    <3>2. state'[u] = next /\ failures'[u] = Append(failures[u], attempt[u]) /\ attempt'[u] = attempt[u]
      BY <1>6, <2>1 DEF EndAttempt, TypeOK
    <3> QED
      BY <1>0, <3>1, <3>2, AccountEnds
  <2>2. CASE u # held[w].task
    BY <1>0, <1>6, <2>2 DEF EndAttempt, TypeOK
  <2> QED
    BY <2>1, <2>2
<1>7. ASSUME NEW w \in Workers, GiveUp(w) PROVE Goal
  BY <1>0, <1>7 DEF GiveUp
<1>8. CASE Tick
  BY <1>0, <1>8 DEF Tick
<1>9. CASE UNCHANGED vars
  BY <1>0, <1>9 DEF vars
<1>10. \A w \in Workers : Fail(w) => EndAttempt(w, "queued") \/ EndAttempt(w, "parked")
  BY DEF Fail, Retried
<1> QED
  BY <1>1, <1>2, <1>3, <1>4, <1>5, <1>6, <1>7, <1>8, <1>9, <1>10, ClaimGives
     DEF Next, ClaimNothing, LetGo, Park
-----------------------------------------------------------------------------
(* Copies of leases.                                                       *)

Failed(f) == {f[i] : i \in 1 .. Len(f)}

\* A worker's copy of a lease is the current one or a recorded failure.
CopyOK(h, w, s, o, n, f) ==
    \/ s[h.task] = "leased" /\ o[h.task] = w /\ n[h.task] = h.attempt
    \/ h.attempt \in Failed(f[h.task])

\* Recording a failure keeps those recorded before it.
LEMMA FailedGrows ==
    ASSUME NEW f \in Seq(Nat), NEW n \in Nat
    PROVE  Failed(f) \subseteq Failed(Append(f, n)) /\ n \in Failed(Append(f, n))
<1>1. \A i \in 1 .. Len(f) : i \in 1 .. Len(Append(f, n)) /\ Append(f, n)[i] = f[i]
  BY AppendFacts
<1>2. Len(Append(f, n)) \in 1 .. Len(Append(f, n)) /\ Append(f, n)[Len(Append(f, n))] = n
  BY AppendFacts
<1> QED
  BY <1>1, <1>2 DEF Failed

\* requeueExpired turns the copies of the leases it ends into failures.
LEMMA ReapCopies ==
    ASSUME TypeOK, CopiesAccounted, NEW w \in Workers, held[w] # None
    PROVE  CopyOK(held[w], w, ReapedState, ReapedHolder, attempt, ReapedFailures)
<1> DEFINE t == held[w].task
<1>1. t \in Tasks /\ failures[t] \in Seq(Nat) /\ attempt[t] \in Nat
  BY DEF TypeOK, Lease
<1>2. CopyOK(held[w], w, state, holder, attempt, failures)
  BY DEF CopiesAccounted, CopyOK, Failed
<1>3. CASE t \in Expired
  <2>1. ReapedFailures[t] = Append(failures[t], attempt[t])
    BY <1>1, <1>3 DEF ReapedFailures
  <2> QED
    BY <1>1, <1>2, <2>1, FailedGrows DEF CopyOK
<1>4. CASE t \notin Expired
  BY <1>1, <1>2, <1>4 DEF CopyOK, ReapedState, ReapedHolder, ReapedFailures
<1> QED
  BY <1>3, <1>4

\* Every step keeps the account of the copies.
LEMMA CopiesStep == TypeOK /\ TypeOK' /\ TaskAttemptsBounded /\ CopiesAccounted /\ [Next]_vars
                        => CopiesAccounted'
<1> SUFFICES ASSUME TypeOK, TypeOK', TaskAttemptsBounded, CopiesAccounted, [Next]_vars,
                    NEW v \in Workers, held'[v] # None
             PROVE  CopyOK(held'[v], v, state', holder', attempt', failures')
  BY DEF CopiesAccounted, CopyOK, Failed
<1> DEFINE Goal == CopyOK(held'[v], v, state', holder', attempt', failures')
<1>0. held[v] # None => /\ CopyOK(held[v], v, state, holder, attempt, failures)
                        /\ held[v].task \in Tasks
  BY DEF CopiesAccounted, CopyOK, Failed, TypeOK, Lease
<1>1. ASSUME NEW t \in Tasks, Enqueue(t) PROVE Goal
  BY <1>0, <1>1 DEF Enqueue, CopyOK, TypeOK
<1>2. ASSUME NEW w \in Workers, NEW t \in Tasks, Given(w, t) PROVE Goal
  <2>1. /\ state' = [ReapedState EXCEPT ![t] = "leased"]
        /\ attempt' = [attempt EXCEPT ![t] = @ + 1]
        /\ holder' = [ReapedHolder EXCEPT ![t] = w]
        /\ held' = [held EXCEPT ![w] = [task |-> t, attempt |-> attempt[t] + 1]]
        /\ failures' = ReapedFailures
        /\ ReapedState[t] = "queued"
    BY <1>2 DEF Given
  <2>2. CASE v = w
    <3>1. held'[v].task = t /\ held'[v].attempt = attempt[t] + 1
      BY <2>1, <2>2 DEF TypeOK
    <3>2. state'[t] = "leased" /\ holder'[t] = v /\ attempt'[t] = attempt[t] + 1
      BY <2>1, <2>2, ReapType DEF TypeOK
    <3> QED
      BY <3>1, <3>2 DEF CopyOK
  <2>3. CASE v # w
    <3>1. held'[v] = held[v]
      BY <2>1, <2>3 DEF TypeOK
    <3>2. CopyOK(held[v], v, ReapedState, ReapedHolder, attempt, ReapedFailures)
      BY <3>1, ReapCopies
    <3>3. held[v].task # t => /\ state'[held[v].task] = ReapedState[held[v].task]
                              /\ holder'[held[v].task] = ReapedHolder[held[v].task]
                              /\ attempt'[held[v].task] = attempt[held[v].task]
      BY <1>0, <2>1, <3>1, ReapType DEF TypeOK
    <3> QED
      BY <2>1, <3>1, <3>2, <3>3 DEF CopyOK
  <2> QED
    BY <2>2, <2>3
<1>3. CASE Reap
  BY <1>3, ReapCopies DEF Reap
<1>4. ASSUME NEW w \in Workers, Heartbeat(w) PROVE Goal
  BY <1>0, <1>4 DEF Heartbeat
<1>5. ASSUME NEW w \in Workers, Ack(w) PROVE Goal
  <2>1. v # w /\ held'[v] = held[v]
    BY <1>5 DEF Ack, Drop, TypeOK
  <2>2. held[v].task = held[w].task => holder[held[v].task] # v
    BY <1>5, <2>1 DEF Ack, Current
  <2> QED
    BY <1>0, <1>5, <2>1, <2>2 DEF Ack, DeleteLease, CopyOK, TypeOK
<1>6. ASSUME NEW w \in Workers, NEW next \in {"queued", "parked"}, EndAttempt(w, next)
      PROVE  Goal
  <2>1. v # w /\ held'[v] = held[v]
    BY <1>6 DEF EndAttempt, Drop, TypeOK
  <2>2. CASE held[v].task = held[w].task
    <3>1. held[v].attempt \in Failed(failures[held[v].task])
      BY <1>0, <1>6, <2>1, <2>2 DEF EndAttempt, Current, CopyOK
    <3>2. failures'[held[v].task] = Append(failures[held[v].task], attempt[held[v].task])
      BY <1>0, <1>6, <2>1, <2>2 DEF EndAttempt, TypeOK
    <3>3. failures[held[v].task] \in Seq(Nat) /\ attempt[held[v].task] \in Nat
      BY <1>0, <2>1 DEF TypeOK
    <3> QED
      BY <2>1, <3>1, <3>2, <3>3, FailedGrows DEF CopyOK
  <2>3. CASE held[v].task # held[w].task
    BY <1>0, <1>6, <2>1, <2>3 DEF EndAttempt, DeleteLease, CopyOK, TypeOK
  <2> QED
    BY <2>2, <2>3
<1>7. ASSUME NEW w \in Workers, GiveUp(w) PROVE Goal
  BY <1>0, <1>7 DEF GiveUp, Drop, TypeOK
<1>8. CASE Tick
  BY <1>0, <1>8 DEF Tick
<1>9. CASE UNCHANGED vars
  BY <1>0, <1>9 DEF vars
<1>10. \A w \in Workers : Fail(w) => EndAttempt(w, "queued") \/ EndAttempt(w, "parked")
  BY DEF Fail, Retried
<1> QED
  BY <1>1, <1>2, <1>3, <1>4, <1>5, <1>6, <1>7, <1>8, <1>9, <1>10, ClaimGives
     DEF Next, ClaimNothing, LetGo, Park

\* The invariant holds in every reachable state.
LEMMA InductiveInvariant == Spec => []IInv
<1>1. IInv /\ [Next]_vars => IInv'
  BY TypeStep, BoundedStep, AccountedStep, CopiesStep DEF IInv
<1> QED
  BY <1>1, InvInit, PTL DEF Spec

\* No task is attempted more often than allowed, and none waits without an
\* attempt left: the branch of claim() that parks such a task is dead code.
THEOREM TaskAttemptsBoundedHolds == Spec => []TaskAttemptsBounded
  BY InductiveInvariant, PTL DEF IInv

\* Every attempt of every task ends exactly once.
THEOREM AttemptsAccountedHolds == Spec => []AttemptsAccounted
  BY InductiveInvariant, PTL DEF IInv

\* A worker's copy of a lease is the current lease or a recorded failure.
THEOREM CopiesAccountedHolds == Spec => []CopiesAccounted
  BY InductiveInvariant, PTL DEF IInv
-----------------------------------------------------------------------------
(* Quotas.                                                                 *)

\* The quotas hold of any smaller set of leases.
LEMMA FewerLeases ==
    ASSUME QuotasHold, Leased(state') \subseteq Leased(state)
    PROVE  QuotasHold'
<1>1. IsFiniteSet(Leased(state))
  BY FS_Subset, IsFiniteSet(Tasks) DEF Leased
<1>2. ASSUME NEW S, NEW T, IsFiniteSet(S), T \subseteq S, NEW n \in Nat, Cardinality(S) <= n
      PROVE  Cardinality(T) <= n
  <2>1. Cardinality(T) <= Cardinality(S) /\ IsFiniteSet(T)
    BY <1>2, FS_Subset
  <2> QED
    BY <1>2, <2>1, FS_CardinalityType
<1>3. ASSUME NEW tenant \in Tenants
      PROVE  Cardinality(OfTenant(Leased(state'), tenant)) <= MaxInFlightPerTenant
  <2>1. OfTenant(Leased(state'), tenant) \subseteq OfTenant(Leased(state), tenant)
    BY DEF OfTenant
  <2>2. IsFiniteSet(OfTenant(Leased(state), tenant))
    BY <1>1, FS_Subset DEF OfTenant
  <2> QED
    BY <1>2, <2>1, <2>2 DEF QuotasHold
<1>4. ASSUME NEW pool \in Pools
      PROVE  Cardinality(OfPool(Leased(state'), pool)) <= MaxInFlightByPool[pool]
  <2>1. OfPool(Leased(state'), pool) \subseteq OfPool(Leased(state), pool)
    BY DEF OfPool
  <2>2. IsFiniteSet(OfPool(Leased(state), pool))
    BY <1>1, FS_Subset DEF OfPool
  <2> QED
    BY <1>2, <2>1, <2>2 DEF QuotasHold
<1> QED
  BY <1>3, <1>4 DEF QuotasHold

\* A claim adds one lease to those of its own tenant and pool, both of which
\* have room for it once the expired leases are gone.
LEMMA ClaimWithinQuotas ==
    ASSUME TypeOK, TaskAttemptsBounded, QuotasHold,
           NEW w \in Workers, NEW tenant \in Tenants, NEW pool \in Pools,
           Claim(w, tenant, pool)
    PROVE  QuotasHold'
<1> DEFINE L == Leased(ReapedState)
<1>1. PICK t \in Tasks : First(t, tenant, pool) /\ Leased(state') \subseteq L \union {t}
  <2>1. PICK t \in Tasks :
            /\ First(t, tenant, pool)
            /\ \/ state' = [ReapedState EXCEPT ![t] = "parked"]
               \/ state' = [ReapedState EXCEPT ![t] = "leased"]
    BY DEF Claim
  <2> QED
    BY <2>1, ReapType DEF Leased
<1>2. IsFiniteSet(L) /\ IsFiniteSet(Leased(state)) /\ L \subseteq Leased(state)
  BY FS_Subset, IsFiniteSet(Tasks) DEF Leased, ReapedState, Retried
<1>3. ASSUME NEW S, NEW T, NEW n \in Nat, IsFiniteSet(S), Cardinality(S) < n,
             T \subseteq S \union {t}
      PROVE  Cardinality(T) <= n
  <2>1. /\ IsFiniteSet(S \union {t})
        /\ Cardinality(S \union {t}) <= Cardinality(S) + 1
        /\ Cardinality(S) \in Nat /\ Cardinality(S \union {t}) \in Nat
    <3>1. IsFiniteSet(S \union {t}) /\ Cardinality(S) \in Nat
      BY <1>3, FS_AddElement, FS_CardinalityType
    <3>2. Cardinality(S \union {t}) = IF t \in S THEN Cardinality(S) ELSE Cardinality(S) + 1
      BY <1>3, FS_AddElement
    <3> QED
      BY <3>1, <3>2
  <2>2. Cardinality(T) <= Cardinality(S \union {t}) /\ Cardinality(T) \in Nat
    BY <1>3, <2>1, FS_Subset, FS_CardinalityType
  <2> QED
    BY <1>3, <2>1, <2>2
<1>4. ASSUME NEW S, NEW T, NEW n \in Nat, IsFiniteSet(S), Cardinality(S) <= n, T \subseteq S
      PROVE  Cardinality(T) <= n
  <2>1. Cardinality(T) <= Cardinality(S) /\ IsFiniteSet(T)
    BY <1>4, FS_Subset
  <2> QED
    BY <1>4, <2>1, FS_CardinalityType
<1>5. ASSUME NEW x \in Tenants
      PROVE  Cardinality(OfTenant(Leased(state'), x)) <= MaxInFlightPerTenant
  <2>1. IsFiniteSet(OfTenant(L, x)) /\ IsFiniteSet(OfTenant(Leased(state), x))
    BY <1>2, FS_Subset DEF OfTenant
  <2>2. CASE x = tenant
    <3>1. Cardinality(OfTenant(L, x)) < MaxInFlightPerTenant
      BY <2>1, <2>2, FS_CardinalityType DEF Claim, Full
    <3>2. OfTenant(Leased(state'), x) \subseteq OfTenant(L, x) \union {t}
      BY <1>1 DEF OfTenant
    <3> QED
      BY <1>3, <2>1, <3>1, <3>2
  <2>3. CASE x # tenant
    <3>1. OfTenant(Leased(state'), x) \subseteq OfTenant(Leased(state), x)
      BY <1>1, <1>2, <2>3 DEF OfTenant, First
    <3> QED
      BY <1>4, <2>1, <3>1 DEF QuotasHold
  <2> QED
    BY <2>2, <2>3
<1>6. ASSUME NEW p \in Pools
      PROVE  Cardinality(OfPool(Leased(state'), p)) <= MaxInFlightByPool[p]
  <2>1. IsFiniteSet(OfPool(L, p)) /\ IsFiniteSet(OfPool(Leased(state), p))
    BY <1>2, FS_Subset DEF OfPool
  <2>2. CASE p = pool
    <3>1. Cardinality(OfPool(L, p)) < MaxInFlightByPool[p]
      BY <2>1, <2>2, FS_CardinalityType DEF Claim, Full
    <3>2. OfPool(Leased(state'), p) \subseteq OfPool(L, p) \union {t}
      BY <1>1 DEF OfPool
    <3> QED
      BY <1>3, <2>1, <3>1, <3>2
  <2>3. CASE p # pool
    <3>1. OfPool(Leased(state'), p) \subseteq OfPool(Leased(state), p)
      BY <1>1, <1>2, <2>3 DEF OfPool, First
    <3> QED
      BY <1>4, <2>1, <3>1 DEF QuotasHold
  <2> QED
    BY <2>2, <2>3
<1> QED
  BY <1>5, <1>6 DEF QuotasHold

\* The concurrency quotas of tenants and pools hold in every state.
THEOREM QuotasHoldHolds == Spec => []QuotasHold
<1>1. Init => QuotasHold
  <2> SUFFICES ASSUME Init PROVE QuotasHold
    OBVIOUS
  <2>1. \A tenant : OfTenant(Leased(state), tenant) = {}
    BY DEF Init, Leased, OfTenant
  <2>2. \A pool : OfPool(Leased(state), pool) = {}
    BY DEF Init, Leased, OfPool
  <2>3. \A n \in Nat \ {0} : Cardinality({}) <= n
    BY FS_EmptySet
  <2>4. \A pool \in Pools : MaxInFlightByPool[pool] \in Nat \ {0}
    OBVIOUS
  <2> QED
    BY <2>1, <2>2, <2>3, <2>4 DEF QuotasHold
<1>2. IInv /\ QuotasHold /\ [Next]_vars => QuotasHold'
  <2> SUFFICES ASSUME TypeOK, TaskAttemptsBounded, QuotasHold, [Next]_vars PROVE QuotasHold'
    BY DEF IInv
  <2>1. ASSUME NEW w \in Workers, NEW tenant \in Tenants, NEW pool \in Pools,
               Claim(w, tenant, pool)
        PROVE  QuotasHold'
    BY <2>1, ClaimWithinQuotas
  <2>2. CASE \E t \in Tasks : Enqueue(t)
    BY <2>2, FewerLeases DEF Enqueue, Leased, TypeOK
  <2>3. CASE Reap
    BY <2>3, FewerLeases DEF Reap, ReapedState, Retried, Leased
  <2>4. CASE \E w \in Workers : Heartbeat(w) \/ LetGo(w)
    BY <2>4, FewerLeases
       DEF Heartbeat, LetGo, Ack, Fail, Park, EndAttempt, GiveUp, Retried, Leased, TypeOK
  <2>5. CASE Tick \/ UNCHANGED vars
    BY <2>5, FewerLeases DEF Tick, vars, Leased
  <2> QED
    BY <2>1, <2>2, <2>3, <2>4, <2>5 DEF Next, ClaimNothing
<1> QED
  BY <1>1, <1>2, InductiveInvariant, PTL DEF Spec

-----------------------------------------------------------------------------
(* The backlog.                                                            *)

\* Only enqueue() adds to what is unsettled.
LEMMA OnlyEnqueueAdds ==
    ASSUME TypeOK, [Next]_vars, ~\E t \in Tasks : Enqueue(t)
    PROVE  \A t \in Tasks : state'[t] \in {"queued", "leased"} => state[t] \in {"queued", "leased"}
<1>1. ASSUME NEW w \in Workers, NEW tenant \in Tenants, NEW pool \in Pools, Claim(w, tenant, pool),
             NEW t \in Tasks, state'[t] \in {"queued", "leased"}
      PROVE  state[t] \in {"queued", "leased"}
  <2>1. PICK u \in Tasks :
            /\ ReapedState[u] = "queued"
            /\ \/ state' = [ReapedState EXCEPT ![u] = "parked"]
               \/ state' = [ReapedState EXCEPT ![u] = "leased"]
    BY <1>1 DEF Claim, First
  <2>2. ReapedState[t] \in {"queued", "leased"}
    BY <1>1, <2>1 DEF ReapedState
  <2> QED
    BY <2>2 DEF ReapedState, Expired
<1>2. CASE Reap
  BY <1>2 DEF Reap, ReapedState, Expired
<1>3. CASE \E w \in Workers : Heartbeat(w) \/ LetGo(w)
  BY <1>3 DEF Heartbeat, LetGo, Ack, Fail, Park, EndAttempt, GiveUp, Current, TypeOK
<1>4. CASE Tick \/ UNCHANGED vars
  BY <1>4 DEF Tick, vars
<1> QED
  BY <1>1, <1>2, <1>3, <1>4 DEF Next, ClaimNothing

\* A queue that has room, with what is leased of it, has room for one more task.
LEMMA EnqueueWithinBounds ==
    ASSUME TypeOK, QuotasHold, NEW t \in Tasks, Enqueue(t), BacklogBounded
    PROVE  BacklogBounded'
<1> DEFINE x == TenantOf[t]
           p == PoolOf[t]
           Q == Queued(x, p)
           L == OfPool(OfTenant(Leased(state), x), p)
<1>0. x \in Tenants /\ p \in Pools
  OBVIOUS
<1>1. IsFiniteSet(Q) /\ IsFiniteSet(L) /\ Cardinality(Q) < MaxQueued
  BY FS_Subset, IsFiniteSet(Tasks) DEF Queued, OfPool, OfTenant, Leased, Enqueue
<1>2. Cardinality(L) <= MaxInFlightPerTenant /\ Cardinality(L) <= MaxInFlightByPool[p]
  <2>1. /\ IsFiniteSet(OfTenant(Leased(state), x)) /\ IsFiniteSet(OfPool(Leased(state), p))
        /\ L \subseteq OfTenant(Leased(state), x) /\ L \subseteq OfPool(Leased(state), p)
    BY FS_Subset, IsFiniteSet(Tasks) DEF OfPool, OfTenant, Leased
  <2>2. /\ Cardinality(L) <= Cardinality(OfTenant(Leased(state), x))
        /\ Cardinality(L) <= Cardinality(OfPool(Leased(state), p))
    BY <2>1, FS_Subset
  <2>3. /\ Cardinality(OfTenant(Leased(state), x)) <= MaxInFlightPerTenant
        /\ Cardinality(OfPool(Leased(state), p)) <= MaxInFlightByPool[p]
    BY <1>0 DEF QuotasHold
  <2>4. /\ Cardinality(L) \in Nat
        /\ Cardinality(OfTenant(Leased(state), x)) \in Nat
        /\ Cardinality(OfPool(Leased(state), p)) \in Nat
    BY <1>1, <2>1, FS_CardinalityType
  <2>5. MaxInFlightPerTenant \in Nat /\ MaxInFlightByPool[p] \in Nat
    BY <1>0
  <2> HIDE DEF x, p, L
  <2> QED
    BY ONLY <2>2, <2>3, <2>4, <2>5
<1>3. Backlog(x, p)' = (Q \union L) \union {t}
  BY DEF Backlog, Queued, OfPool, OfTenant, Leased, Enqueue, TypeOK
<1>4. ASSUME NEW y, NEW q, y # x \/ q # p PROVE Backlog(y, q)' = Backlog(y, q)
  BY <1>4 DEF Backlog, Enqueue, TypeOK
<1> HIDE DEF x, p, Q, L
<1>5. /\ Cardinality(Backlog(x, p)') <= MaxQueued + MaxInFlightPerTenant
      /\ Cardinality(Backlog(x, p)') <= MaxQueued + MaxInFlightByPool[p]
  <2>1. /\ IsFiniteSet(Q \union L)
        /\ Cardinality(Q \union L) = Cardinality(Q) + Cardinality(L) - Cardinality(Q \intersect L)
    BY <1>1, FS_Union
  <2>2. /\ Cardinality(Q) \in Nat /\ Cardinality(L) \in Nat
        /\ Cardinality(Q \intersect L) \in Nat /\ Cardinality(Q \union L) \in Nat
    BY <1>1, <2>1, FS_CardinalityType, FS_Subset
  <2>3. Cardinality(Backlog(x, p)') \in {Cardinality(Q \union L), Cardinality(Q \union L) + 1}
    BY <1>3, <2>1, FS_AddElement
  <2>4. MaxQueued \in Nat /\ MaxInFlightPerTenant \in Nat /\ MaxInFlightByPool[p] \in Nat
    BY <1>0
  <2> QED
    BY ONLY <1>1, <1>2, <2>1, <2>2, <2>3, <2>4
<1>6. ASSUME NEW y \in Tenants, NEW q \in Pools
      PROVE  /\ Cardinality(Backlog(y, q)') <= MaxQueued + MaxInFlightPerTenant
             /\ Cardinality(Backlog(y, q)') <= MaxQueued + MaxInFlightByPool[q]
  BY <1>4, <1>5 DEF BacklogBounded
<1> QED
  BY <1>6 DEF BacklogBounded

\* A full queue that failed and expired tasks return to is overfilled by no more than
\* the quotas of its tenant and its pool.
THEOREM BacklogBoundedHolds == Spec => []BacklogBounded
<1>1. Init => BacklogBounded
  <2> SUFFICES ASSUME Init PROVE BacklogBounded
    OBVIOUS
  <2>1. \A tenant, pool : Backlog(tenant, pool) = {}
    BY DEF Init, Backlog
  <2>2. ASSUME NEW m \in Nat \ {0}, NEW n \in Nat \ {0} PROVE Cardinality({}) <= m + n
    BY FS_EmptySet
  <2>3. \A pool \in Pools : MaxInFlightByPool[pool] \in Nat \ {0}
    OBVIOUS
  <2> QED
    BY <2>1, <2>2, <2>3 DEF BacklogBounded
<1>2. IInv /\ QuotasHold /\ BacklogBounded /\ [Next]_vars => BacklogBounded'
  <2> SUFFICES ASSUME TypeOK, QuotasHold, BacklogBounded, [Next]_vars PROVE BacklogBounded'
    BY DEF IInv
  <2>1. CASE \E t \in Tasks : Enqueue(t)
    BY <2>1, EnqueueWithinBounds
  <2>2. CASE ~\E t \in Tasks : Enqueue(t)
    <3>1. ASSUME NEW y \in Tenants, NEW q \in Pools
          PROVE  /\ Cardinality(Backlog(y, q)') <= MaxQueued + MaxInFlightPerTenant
                 /\ Cardinality(Backlog(y, q)') <= MaxQueued + MaxInFlightByPool[q]
      <4>1. Backlog(y, q)' \subseteq Backlog(y, q) /\ IsFiniteSet(Backlog(y, q))
        BY <2>2, OnlyEnqueueAdds, FS_Subset, IsFiniteSet(Tasks) DEF Backlog
      <4>2. /\ Cardinality(Backlog(y, q)') <= Cardinality(Backlog(y, q))
            /\ Cardinality(Backlog(y, q)') \in Nat /\ Cardinality(Backlog(y, q)) \in Nat
        BY <4>1, FS_Subset, FS_CardinalityType
      <4>3. MaxQueued \in Nat /\ MaxInFlightPerTenant \in Nat /\ MaxInFlightByPool[q] \in Nat
        OBVIOUS
      <4> QED
        BY <4>2, <4>3 DEF BacklogBounded
    <3> QED
      BY <3>1 DEF BacklogBounded
  <2> QED
    BY <2>1, <2>2
<1> QED
  BY <1>1, <1>2, InductiveInvariant, QuotasHoldHolds, PTL DEF Spec

-----------------------------------------------------------------------------
(* Finality.                                                               *)

\* An acknowledged or parked task stays so with its attempts and failures, and
\* no lease that expired is acknowledged, however late its worker reports.
THEOREM SettledIsFinalHolds == Spec => SettledIsFinal
<1> DEFINE Final(t) ==
        /\ state[t] \in {"acked", "parked"} =>
               state'[t] = state[t] /\ failures'[t] = failures[t] /\ attempt'[t] = attempt[t]
        /\ t \in Expired => state'[t] # "acked"
<1>1. IInv /\ Next => \A t \in Tasks : Final(t)
  <2> SUFFICES ASSUME TypeOK, TaskAttemptsBounded, Next, NEW t \in Tasks PROVE Final(t)
    BY DEF IInv
  <2>1. ASSUME NEW u \in Tasks, Enqueue(u) PROVE Final(t)
    BY <2>1 DEF Enqueue, Expired, TypeOK
  <2>2. /\ state[t] \in {"acked", "parked"} =>
               ReapedState[t] = state[t] /\ ReapedFailures[t] = failures[t]
        /\ t \in Expired => ReapedState[t] \in {"parked", "queued"}
    BY DEF ReapedState, ReapedFailures, Expired, Retried
  <2>3. ASSUME Reap PROVE Final(t)
    BY <2>2, <2>3 DEF Reap
  <2>4. ASSUME NEW w \in Workers, NEW tenant \in Tenants, NEW pool \in Pools,
               Claim(w, tenant, pool)
        PROVE  Final(t)
    <3>1. PICK u \in Tasks :
              /\ ReapedState[u] = "queued"
              /\ \/ state' = [ReapedState EXCEPT ![u] = "parked"] /\ attempt' = attempt
                 \/ /\ state' = [ReapedState EXCEPT ![u] = "leased"]
                    /\ attempt' = [attempt EXCEPT ![u] = @ + 1]
      BY <2>4 DEF Claim, First
    <3>2. failures' = ReapedFailures
      BY <2>4 DEF Claim
    <3>3. ReapedState \in [Tasks -> States]
      BY ReapType
    <3> QED
      BY <2>2, <3>1, <3>2, <3>3 DEF TypeOK
  <2>5. ASSUME NEW w \in Workers, Ack(w) PROVE Final(t)
    BY <2>5 DEF Ack, Current, Expired, TypeOK, Lease
  <2>6. ASSUME NEW w \in Workers, Fail(w) \/ Park(w) PROVE Final(t)
    BY <2>6 DEF Fail, Park, EndAttempt, Retried, Current, Expired, TypeOK, Lease
  <2>7. CASE UNCHANGED <<state, failures, attempt>>
    BY <2>7 DEF Expired
  <2>8. ASSUME NEW w \in Workers, Heartbeat(w) \/ GiveUp(w) PROVE Final(t)
    BY <2>7, <2>8 DEF Heartbeat, GiveUp
  <2>9. CASE Tick
    BY <2>7, <2>9 DEF Tick
  <2> QED
    BY <2>1, <2>3, <2>4, <2>5, <2>6, <2>8, <2>9 DEF Next, ClaimNothing, LetGo
<1> QED
  BY <1>1, InductiveInvariant, PTL DEF Spec, SettledIsFinal
=============================================================================
