--------------------------- MODULE WorkflowEngine ---------------------------
(***************************************************************************)
(* One workflow of the DurableWorkflowEngine: the engine state stored with *)
(* the workflow, its callers, and the calls of resumeAfterRestart() that   *)
(* run activities in the worker process.                                   *)
(*                                                                         *)
(* A transaction of the state store is one step.  resumeAfterRestart()     *)
(* makes several: it reads the state, registers an AbortController, stores *)
(* the start of the attempt, runs the handler and stores what came of it;  *)
(* everybody else may act in between.  A call that presents a handle of    *)
(* another definition version is refused and changes nothing, so that only *)
(* handles that grow old during a call are represented.  The events that   *)
(* each transaction appends are CommandDispatch's subject.                 *)
(***************************************************************************)
EXTENDS Integers, Sequences, FiniteSets

CONSTANTS
    Calls,          \* calls of resumeAfterRestart that may overlap
    Activities,     \* activity IDs
    Approvals,      \* approval IDs
    RetryLimit,     \* maxAttempts of the activities
    LastVersion,    \* registered upgrades lead from each version to the next
    Nothing,
    MaxAttemptBound,    \* bound: no attempt beyond this one
    MaxCancels,         \* bound: calls of cancel() that have yet to abort
    MaxCrashes          \* bound: crashes of the worker process

\* The record of an activity, and what activeActivities holds of an attempt.
Record == [attempt : Nat, outcome : {"retrying", "failed", "succeeded"}]
Activity == [id : Activities, status : {"scheduled", "running", "succeeded", "failed"},
             attempt : Nat, attempts : Seq(Record)]
Registration == [attempt : Nat, call : Calls]

ASSUME WorkflowAssumption ==
    /\ RetryLimit \in Nat \ {0}
    /\ LastVersion \in Nat \ {0}
    /\ MaxAttemptBound \in Nat
    /\ MaxCancels \in Nat
    /\ MaxCrashes \in Nat
    /\ Nothing \notin Activities \union Approvals \union Calls
    /\ Nothing \notin Activity \union Registration

VARIABLES
    status, version, approval, activity,    \* the persisted engine state
    active,     \* activeActivities: the registered attempt and its call
    pc,         \* per call: how far it is
    handle,     \* per call: the definition version of its handle
    seen,       \* per call: the activity record it read
    aborted,    \* per call: its AbortController
    cancelling, \* calls of cancel() that have committed and not yet aborted
    crashes

engine == <<status, version, approval, activity>>
process == <<active, pc, handle, seen, aborted, cancelling>>
workflowVars == <<engine, process, crashes>>

WorkflowInit ==
    /\ status = "absent" /\ version = 0 /\ approval = Nothing /\ activity = Nothing
    /\ active = Nothing /\ cancelling = 0 /\ crashes = 0
    /\ pc = [r \in Calls |-> "idle"]
    /\ handle = [r \in Calls |-> 0]
    /\ seen = [r \in Calls |-> Nothing]
    /\ aborted = [r \in Calls |-> FALSE]

-----------------------------------------------------------------------------
(* The engine state and its callers.                                       *)

\* MUTANT: a cancelled workflow takes changes.
Open_Cancelled == status \notin {"absent", "failed"}

\* 'completed' is a terminal status too, which nothing sets.
Open == status \notin {"absent", "failed", "cancelled"}

StartWorkflow ==
    /\ status = "absent"
    /\ status' = "running"
    /\ version' = 1
    /\ UNCHANGED <<approval, activity, process, crashes>>

UpgradeDefinition ==
    /\ Open
    /\ version < LastVersion
    /\ version' = version + 1
    /\ UNCHANGED <<status, approval, activity, process, crashes>>

\* An activity that is the current one already is returned as it is; any other takes
\* its place, and the status speaks of what was begun last.
ScheduleActivity(a) ==
    /\ Open
    /\ activity # Nothing => activity.id # a
    /\ status' = "waiting_for_activity"
    /\ activity' = [id |-> a, status |-> "scheduled", attempt |-> 0, attempts |-> << >>]
    /\ UNCHANGED <<version, approval, process, crashes>>

WaitForApproval(a) ==
    /\ Open
    /\ status' = "waiting_for_approval"
    /\ approval' = a
    /\ UNCHANGED <<version, activity, process, crashes>>

\* What the answer to an approval makes of the workflow.
Answered(outcome) ==
    CASE outcome = "approved" -> [status |-> "running", approval |-> Nothing]
      [] outcome = "revoked" -> [status |-> "cancelled", approval |-> approval]
      [] outcome \in {"rejected", "expired"} -> [status |-> "failed", approval |-> approval]

SignalApproval(outcome) ==
    /\ Open
    /\ approval # Nothing
    /\ status' = Answered(outcome).status
    /\ approval' = Answered(outcome).approval
    /\ UNCHANGED <<version, activity, process, crashes>>

\* MUTANT: a result is taken for an activity that is settled.
Settled_Failed == activity.status = "failed"

Settled == activity.status \in {"succeeded", "failed"}

\* signal() takes an activity's outcome: of the current activity, which is not
\* settled, and of its current attempt.
Expects(a, attempt) ==
    /\ Open
    /\ activity # Nothing /\ activity.id = a
    /\ activity.attempt = attempt
    /\ ~Settled

\* MUTANT: a result leaves the workflow waiting.
Succeed_KeepsStatus ==
    /\ activity' = [activity EXCEPT
                       !.status = "succeeded",
                       !.attempts = Append(@, [attempt |-> activity.attempt, outcome |-> "succeeded"])]
    /\ UNCHANGED <<status, version, approval>>

Succeed ==
    /\ status' = "running"
    /\ activity' = [activity EXCEPT
                       !.status = "succeeded",
                       !.attempts = Append(@, [attempt |-> activity.attempt, outcome |-> "succeeded"])]
    /\ UNCHANGED <<version, approval>>

\* Somebody else reports the current activity, with its attempt or without one.
SignalActivity ==
    /\ activity # Nothing
    /\ Expects(activity.id, activity.attempt)
    /\ \/ Succeed
       \/ /\ status' = "failed"
          /\ activity' = [activity EXCEPT !.status = "failed"]
          /\ UNCHANGED <<version, approval>>
    /\ UNCHANGED <<process, crashes>>

\* The transaction of cancel(), and the abort that follows it, also when the
\* workflow was cancelled before.
Cancel ==
    /\ status # "absent"
    /\ cancelling < MaxCancels
    /\ status' = "cancelled"
    /\ cancelling' = cancelling + 1
    /\ UNCHANGED <<version, approval, activity, active, pc, handle, seen, aborted, crashes>>

\* MUTANT: the controller is looked up only while the workflow waits for its activity.
Controls_Waiting(r) == active # Nothing /\ active.call = r /\ status = "waiting_for_activity"

\* The registered controller is that of this call.
Controls(r) == active # Nothing /\ active.call = r

Abort ==
    /\ cancelling > 0
    /\ cancelling' = cancelling - 1
    /\ aborted' = [r \in Calls |-> aborted[r] \/ Controls(r)]
    /\ UNCHANGED <<engine, active, pc, handle, seen, crashes>>

-----------------------------------------------------------------------------
(* resumeAfterRestart.                                                     *)

Goto(r, next) == pc' = [pc EXCEPT ![r] = next]

Attempt(r) == seen[r].attempt + 1

\* MUTANT: an attempt that was cut short is not resumed.
Resumable_Scheduled == status = "waiting_for_activity" /\ activity.status = "scheduled"

\* The status speaks of an activity only when there is one.
Resumable == status = "waiting_for_activity" /\ ~Settled

Query(r) ==
    /\ pc[r] = "idle"
    /\ Resumable
    /\ activity.attempt < MaxAttemptBound
    /\ handle' = [handle EXCEPT ![r] = version]
    /\ seen' = [seen EXCEPT ![r] = activity]
    /\ Goto(r, "read")
    /\ UNCHANGED <<engine, active, aborted, cancelling, crashes>>

\* A new AbortController takes the place of any other.
Register(r) ==
    /\ pc[r] = "read"
    /\ active' = [attempt |-> Attempt(r), call |-> r]
    /\ aborted' = [aborted EXCEPT ![r] = FALSE]
    /\ Goto(r, "registered")
    /\ UNCHANGED <<engine, handle, seen, cancelling, crashes>>

\* The handle is still of the workflow's version (mutate).
Valid(r) == handle[r] = version

\* The start is stored whatever became of the workflow since the query.  When
\* it is refused, the call ends and leaves its controller registered.
StartAttempt(r) ==
    /\ pc[r] = "registered"
    /\ IF Valid(r)
       THEN /\ activity' = [seen[r] EXCEPT !.status = "running", !.attempt = Attempt(r)]
            /\ Goto(r, "running")
       ELSE /\ UNCHANGED activity
            /\ Goto(r, "idle")
    /\ UNCHANGED <<status, version, approval, active, handle, seen, aborted, cancelling, crashes>>

\* The handler returns a result, or throws an error that may be retryable.
HandlerEnds(r) ==
    /\ pc[r] = "running"
    /\ \E end \in {"returned", "threw_retryable", "threw"} : Goto(r, end)
    /\ UNCHANGED <<engine, active, handle, seen, aborted, cancelling, crashes>>

\* The end of a call: a controller of the same attempt is deleted.
EndCall(r) ==
    /\ Goto(r, "idle")
    /\ active' = IF active # Nothing /\ active.attempt = Attempt(r) THEN Nothing ELSE active
    /\ UNCHANGED <<handle, seen, aborted, cancelling>>

\* The result is signalled: taken, ignored, or refused, which is an error like
\* one of the handler (with a code that is not retryable).
StoreResult(r) ==
    LET refused == ~Valid(r) \/ (Open /\ (activity = Nothing \/ activity.id # seen[r].id))
    IN  /\ pc[r] = "returned"
        /\ IF ~refused /\ Expects(seen[r].id, Attempt(r)) THEN Succeed ELSE UNCHANGED engine
        /\ IF refused
           THEN Goto(r, "threw") /\ UNCHANGED <<active, handle, seen, aborted, cancelling>>
           ELSE EndCall(r)
        /\ UNCHANGED crashes

\* MUTANT: one attempt too many is retried.
Retries_OneMore(r) == pc[r] = "threw_retryable" /\ Attempt(r) <= RetryLimit

Retries(r) == pc[r] = "threw_retryable" /\ Attempt(r) < RetryLimit

\* MUTANT: a failure is stored over a result of the same attempt.
Failable_AnyStatus(r) ==
    Valid(r) /\ Open /\ activity # Nothing /\ activity.attempt = Attempt(r)

\* The workflow is still at the attempt that failed.
Failable(r) ==
    Valid(r) /\ Open /\ activity # Nothing /\ activity.attempt = Attempt(r) /\ activity.status = "running"

\* The failure is stored, unless the workflow went on to something else; the
\* record is built from the one the call read.
StoreFailure(r) ==
    /\ pc[r] \in {"threw", "threw_retryable"}
    /\ IF Failable(r)
       THEN /\ status' = IF Retries(r) THEN "waiting_for_activity" ELSE "failed"
            /\ activity' = [seen[r] EXCEPT
                  !.status = IF Retries(r) THEN "scheduled" ELSE "failed",
                  !.attempt = Attempt(r),
                  !.attempts = Append(@, [attempt |-> Attempt(r),
                                          outcome |-> IF Retries(r) THEN "retrying" ELSE "failed"])]
            /\ UNCHANGED <<version, approval>>
       ELSE UNCHANGED engine
    /\ EndCall(r)
    /\ UNCHANGED crashes

\* The process dies, and another one takes its place.
Crash ==
    /\ crashes < MaxCrashes
    /\ \E r \in Calls : pc[r] # "idle"
    /\ crashes' = crashes + 1
    /\ active' = Nothing /\ cancelling' = 0
    /\ pc' = [r \in Calls |-> "idle"]
    /\ UNCHANGED <<engine, handle, seen, aborted>>

Callers ==
    \/ StartWorkflow
    \/ UpgradeDefinition
    \/ \E a \in Activities : ScheduleActivity(a)
    \/ \E a \in Approvals : WaitForApproval(a)
    \/ \E outcome \in {"approved", "rejected", "expired", "revoked"} : SignalApproval(outcome)
    \/ SignalActivity
    \/ Cancel
    \/ Abort

Resume(r) ==
    Query(r) \/ Register(r) \/ StartAttempt(r) \/ HandlerEnds(r) \/ StoreResult(r) \/ StoreFailure(r)

WorkflowNext == Callers \/ Crash \/ \E r \in Calls : Resume(r)

WorkflowSpec == WorkflowInit /\ [][WorkflowNext]_workflowVars

\* The worker calls resumeAfterRestart() again and again, handlers end, and the
\* transactions of a call are executed.
FairWorkflowSpec == WorkflowSpec /\ \A r \in Calls : WF_workflowVars(Resume(r))

-----------------------------------------------------------------------------
(* Properties.                                                             *)

Points == {"idle", "read", "registered", "running", "returned", "threw", "threw_retryable"}

\* Every variable has its type.
WorkflowTypeOK ==
    /\ status \in {"absent", "running", "waiting_for_approval", "waiting_for_activity",
                   "failed", "cancelled"}
    /\ version \in 0 .. LastVersion
    /\ approval \in Approvals \union {Nothing}
    /\ activity \in Activity \union {Nothing}
    /\ active \in Registration \union {Nothing}
    /\ pc \in [Calls -> Points]
    /\ handle \in [Calls -> 0 .. LastVersion]
    /\ seen \in [Calls -> Activity \union {Nothing}]
    /\ aborted \in [Calls -> BOOLEAN]
    /\ cancelling \in Nat
    /\ crashes \in Nat

\* The attempts of an activity are recorded in order and none beyond the current
\* one; a success is recorded exactly when the activity succeeded, once, last and
\* with the current attempt, however many calls report.
HistoryConsistent ==
    activity # Nothing =>
        LET h == activity.attempts
            successes == {i \in 1 .. Len(h) : h[i].outcome = "succeeded"}
        IN  /\ \A i \in 1 .. Len(h) :
                   /\ h[i].attempt <= activity.attempt
                   /\ i > 1 => h[i - 1].attempt <= h[i].attempt
            /\ successes = IF activity.status = "succeeded" THEN {Len(h)} ELSE {}
            /\ activity.status = "succeeded" => h[Len(h)].attempt = activity.attempt

\* A cancelled workflow stays cancelled and a failed one can only be cancelled;
\* results that come late do not settle its activity or end its approval wait.
TerminalIsFinal ==
    [][(status \in {"failed", "cancelled"}) =>
           /\ status' \in {status, "cancelled"}
           /\ UNCHANGED <<approval, version>>
           /\ activity' = activity \/ activity.status' = "running"]_workflowVars

\* An activity that succeeded stays so until another one takes its place: late
\* failures and later resumptions leave it alone.  Only a call that had read it
\* before it succeeded, and has not yet stored its start, runs it again: nothing
\* is read again between the query and the start.
CompletedIsNotReplayed ==
    [][activity # Nothing /\ activity' # Nothing /\ activity' # activity =>
           (activity.status = "succeeded" /\ activity'.id = activity.id =>
               \E r \in Calls :
                   /\ pc[r] = "registered" /\ seen[r].id = activity.id
                   /\ seen[r].status \notin {"succeeded", "failed"}
                   /\ activity'.attempt = Attempt(r))]_workflowVars

\* Whatever overwrites the status, a workflow is never left waiting for what cannot
\* come any more: an activity it waits for is not settled, so that a resumption or
\* a report ends the wait, and an approval it waits for is still asked for.
WaitsCanEnd ==
    /\ status = "waiting_for_activity" => activity # Nothing /\ ~Settled
    /\ status = "waiting_for_approval" => approval # Nothing

\* A cancellation reaches every handler: those that run when cancel() aborts get
\* the signal.
CancellationReachesHandlers ==
    [][cancelling' < cancelling /\ crashes' = crashes =>
           \A r \in Calls : pc[r] = "running" => aborted'[r]]_workflowVars

\* maxAttempts bounds the attempts, except for those cut short by a crash of the
\* worker or invalidated by an upgrade.
AttemptsBounded ==
    activity # Nothing => activity.attempt <= RetryLimit + crashes + (version - 1)

\* A workflow that waits for an activity does not wait for it forever, although
\* workers crash.
EveryActivityEnds ==
    \A a \in Activities :
        LET waits == status = "waiting_for_activity" /\ activity.id = a IN waits ~> ~waits
=============================================================================
