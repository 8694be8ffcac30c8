---------------------------- MODULE UniversalRun ----------------------------
(***************************************************************************)
(* The UniversalRunCoordinator: execute(), retry() and cancel() of runs    *)
(* whose record is a stream of events.                                     *)
(*                                                                         *)
(* A transaction of the state store is one step together with the code     *)
(* that runs when its promise resolves; the calls of one process interleave *)
(* in between.  appendRunEvents() appends a batch in one transaction, with *)
(* the versions it has just read, so that nothing is lost but what a call  *)
(* decided on may be old.  The stream is kept as what projectDetail() and  *)
(* recordedResult() make of it: the state of the run, its attempts and its *)
(* last recorded result.  An operation that is aborted may still end in    *)
(* any way, or late: the signal is advice.                                 *)
(***************************************************************************)
EXTENDS Integers, Sequences, FiniteSets, FiniteSetsExt

CONSTANTS
    Runs, Keys,     \* run IDs and idempotency keys
    Calls,          \* calls of the coordinator that may overlap
    None,
    MaxAttempts,    \* bound: attempts, per run
    MaxFaults       \* bound: crashes and rejected transactions

ASSUME RunAssumption ==
    /\ MaxAttempts \in [Runs -> Nat \ {0}]
    /\ MaxFaults \in Nat
    /\ IsFiniteSet(Runs) /\ IsFiniteSet(Calls)
    /\ None \notin Runs \union Keys
    /\ Runs \intersect Keys = {}

VARIABLES
    state,      \* per run; "absent" before run.created
    attempts,   \* per run: its attempts, the latest last
    recorded,   \* per run: the state of its last recorded result
    keyOf,      \* per run: the idempotency keys of its requests
    delegated,  \* runs whose last progress event says that they were delegated
    controllers, cancelRequested, replayers,   \* runs; lost with the process
    pc,         \* per call: how far it is
    key,        \* per call: the key of its request
    run,        \* per call: the run it works on
    attempt,    \* per call: the place of its attempt, before that its number
    outcome,    \* per call: the state that it will append
    answer,     \* the last success or failure that a call answered, and of which run
    faults,
    raced       \* keys and runs of which two calls overlapped, and runs created twice

store == <<state, attempts, recorded, keyOf, delegated>>
process == <<controllers, cancelRequested, replayers>>
call == <<pc, key, run, attempt, outcome, answer>>
vars == <<store, process, call, faults, raced>>

\* What an operation may end in.  One that answers 202 or names another run,
\* and no state, is delegated: its run is "queued", as when it was accepted.
\* "waiting" stands for the states that an operation names and that are not
\* final, as of one that waits for an approval.
Outcomes == {"succeeded", "failed", "waiting", "queued"}
Final == {"succeeded", "failed"}
Terminal == Final \union {"cancelled"}
States == {"absent", "queued", "waiting"} \union Terminal

NoAnswer == [run |-> None, state |-> "absent"]

Init ==
    /\ state = [r \in Runs |-> "absent"]
    /\ attempts = [r \in Runs |-> << >>]
    /\ recorded = [r \in Runs |-> "absent"]
    /\ keyOf = [r \in Runs |-> {}]
    /\ delegated = {}
    /\ controllers = {} /\ cancelRequested = {} /\ replayers = {}
    /\ pc = [c \in Calls |-> "idle"]
    /\ key = [c \in Calls |-> None]
    /\ run = [c \in Calls |-> None]
    /\ attempt = [c \in Calls |-> 0]
    /\ outcome = [c \in Calls |-> "absent"]
    /\ answer = NoAnswer
    /\ faults = 0 /\ raced = {}

-----------------------------------------------------------------------------
(* The event stream.                                                       *)

\* MUTANT: only a finished request is found again.
KeyedRuns_Recorded(k) == {r \in Runs : k \in keyOf[r] /\ recorded[r] # "absent"}

\* The runs requested under an idempotency key.
KeyedRuns(k) == {r \in Runs : k \in keyOf[r]}

\* A status and the state of one attempt are appended in one batch.
AppendState(r, i, s) ==
    /\ state' = [state EXCEPT ![r] = s]
    /\ attempts' = [attempts EXCEPT ![r][i].state = s]

\* A new attempt is appended to the run, which is queued (again).
NewAttempt(r, n) ==
    /\ state' = [state EXCEPT ![r] = "queued"]
    /\ delegated' = delegated \ {r}
    /\ attempts' = [attempts EXCEPT ![r] = Append(@, [number |-> n, state |-> "queued"])]

Go(c, place) == pc' = [pc EXCEPT ![c] = place]

\* The call ends, with an answer about its run or with an error.
Ends(c, a) ==
    /\ Go(c, "idle")
    /\ key' = [key EXCEPT ![c] = None]
    /\ run' = [run EXCEPT ![c] = None]
    /\ attempt' = [attempt EXCEPT ![c] = 0]
    /\ outcome' = [outcome EXCEPT ![c] = "absent"]
    /\ answer' = a

Answers(c, s) == Ends(c, IF s \in Final THEN [run |-> run[c], state |-> s] ELSE answer)
Throws(c) == Ends(c, answer)

\* The finally clause of execute() and retry(); the replayer stays registered.
Cleanup(r) ==
    /\ controllers' = controllers \ {r}
    /\ cancelRequested' = cancelRequested \ {r}
    /\ UNCHANGED replayers

-----------------------------------------------------------------------------
(* execute().                                                              *)

\* The bounds on runs and attempts, counting those that are to be appended.
RunsLeft ==
    Cardinality({c \in Calls : pc[c] = "creating"}) < Cardinality({r \in Runs : state[r] = "absent"})
AttemptsLeft(r) ==
    Len(attempts[r]) + Cardinality({c \in Calls : pc[c] = "retrying" /\ run[c] = r}) < MaxAttempts[r]

\* findIdempotentRun(): a request whose key is known is answered from the run.
\* A request without a key is one whose key is not used again.
Execute(c, k) ==
    /\ pc[c] = "idle"
    /\ IF KeyedRuns(k) # {}
       THEN /\ \E r \in KeyedRuns(k) : run' = [run EXCEPT ![c] = r]
            /\ Go(c, "replaying")
            /\ UNCHANGED <<key, raced>>
       ELSE /\ RunsLeft
            /\ Go(c, "creating")
            /\ key' = [key EXCEPT ![c] = k]
            /\ raced' = IF \E e \in Calls : pc[e] = "creating" /\ key[e] = k
                        THEN raced \union {k} ELSE raced
            /\ UNCHANGED run
    /\ UNCHANGED <<store, process, attempt, outcome, answer, faults>>

\* The recorded result is answered, or else the run is read.
Replay(c) ==
    /\ pc[c] = "replaying"
    /\ IF recorded[run[c]] # "absent"
       THEN Answers(c, recorded[run[c]])
       ELSE /\ Go(c, "reading")
            /\ UNCHANGED <<key, run, attempt, outcome, answer>>
    /\ UNCHANGED <<store, process, faults, raced>>

ReplayState(c) ==
    /\ pc[c] = "reading"
    /\ Answers(c, state[run[c]])
    /\ UNCHANGED <<store, process, faults, raced>>

\* newSortableId(): an ID that no run has.  A caller may give such an ID, too.
NewRun == CHOOSE r \in Runs : state[r] = "absent"

\* The caller may have given the ID, and then it may be that of a run which
\* exists: nothing looks it up.
RunIds == {NewRun} \union {r \in Runs : state[r] # "absent" /\ AttemptsLeft(r)}

\* The run is created, with its request, an attempt and a status.  A run that
\* exists is created once more: its attempts and results stay in the stream.
Create(c) ==
    /\ pc[c] = "creating"
    /\ \E r \in RunIds :
           /\ NewAttempt(r, 1)
           /\ keyOf' = [keyOf EXCEPT ![r] = @ \union {key[c]}]
           /\ run' = [run EXCEPT ![c] = r]
           /\ attempt' = [attempt EXCEPT ![c] = Len(attempts[r]) + 1]
           /\ raced' = IF state[r] = "absent" THEN raced ELSE raced \union {r}
    /\ Go(c, "created")
    /\ UNCHANGED <<recorded, process, key, outcome, answer, faults>>

\* Controller and replayer are registered and the operation called.  Unlike
\* retry(), execute() does not take back a request to cancel the run.
Start(c) ==
    /\ pc[c] = "created"
    /\ Go(c, "running")
    /\ controllers' = controllers \union {run[c]}
    /\ replayers' = replayers \union {run[c]}
    /\ UNCHANGED <<store, cancelRequested, key, run, attempt, outcome, answer, faults, raced>>

\* The operation returns.  After a cancellation its result is dropped.
OperationReturns(c, s) ==
    /\ pc[c] = "running"
    /\ IF run[c] \in cancelRequested
       THEN Answers(c, "cancelled") /\ Cleanup(run[c])
       ELSE /\ Go(c, "finishing")
            /\ outcome' = [outcome EXCEPT ![c] = s]
            /\ UNCHANGED <<process, key, run, attempt, answer>>
    /\ UNCHANGED <<store, faults, raced>>

\* The catch clause: after a cancellation the error is dropped.
Catch(c) ==
    /\ IF run[c] \in cancelRequested
       THEN Answers(c, "cancelled") /\ Cleanup(run[c])
       ELSE /\ Go(c, "failing")
            /\ UNCHANGED <<process, key, run, attempt, outcome, answer>>
    /\ UNCHANGED <<store, raced>>

OperationThrows(c) == pc[c] = "running" /\ Catch(c) /\ UNCHANGED faults

\* The run is read once more: a cancellation wins over the result.
ReadCurrent(c) ==
    /\ pc[c] = "finishing"
    /\ Go(c, "ending")
    /\ IF run[c] \in cancelRequested \/ state[run[c]] = "cancelled"
       THEN outcome' = [outcome EXCEPT ![c] = "cancelled"]
       ELSE UNCHANGED outcome
    /\ UNCHANGED <<store, process, key, run, attempt, answer, faults, raced>>

\* The progress event of a result: finalized, or delegated.
Progress(r, s) == delegated' = IF s \in Terminal THEN delegated \ {r} ELSE delegated \union {r}

\* MUTANT: the state of the run is changed, its attempt left as it is.
AppendResult_RunOnly(c) ==
    /\ pc[c] = "ending"
    /\ state' = [state EXCEPT ![run[c]] = outcome[c]]
    /\ recorded' = [recorded EXCEPT ![run[c]] = outcome[c]]
    /\ Progress(run[c], outcome[c])
    /\ Answers(c, outcome[c])
    /\ Cleanup(run[c])
    /\ UNCHANGED <<attempts, keyOf, faults, raced>>

\* The state, the attempt's state and the result are appended and answered.
AppendResult(c) ==
    /\ pc[c] = "ending"
    /\ AppendState(run[c], attempt[c], outcome[c])
    /\ recorded' = [recorded EXCEPT ![run[c]] = outcome[c]]
    /\ Progress(run[c], outcome[c])
    /\ Answers(c, outcome[c])
    /\ Cleanup(run[c])
    /\ UNCHANGED <<keyOf, faults, raced>>

\* The failure is appended and the error thrown.  execute() records it as the
\* result of the run, retry(), which has no key, does not.
AppendFailure(c) ==
    /\ pc[c] = "failing"
    /\ AppendState(run[c], attempt[c], "failed")
    /\ recorded' = IF key[c] # None THEN [recorded EXCEPT ![run[c]] = "failed"] ELSE recorded
    /\ Throws(c)
    /\ Cleanup(run[c])
    /\ UNCHANGED <<keyOf, delegated, faults, raced>>

-----------------------------------------------------------------------------
(* retry() and cancel().                                                   *)

\* The highest attempt number of the run.
LastNumber(r) == Max({attempts[r][i].number : i \in DOMAIN attempts[r]})

\* Only a terminal run is retried, by the operation that the caller gives or
\* the one that this process has registered; else RETRY_EXHAUSTED is thrown.
Retry(c, r, operationGiven) ==
    /\ pc[c] = "idle"
    /\ state[r] \in Terminal
    /\ operationGiven \/ r \in replayers
    /\ AttemptsLeft(r)
    /\ Go(c, "retrying")
    /\ run' = [run EXCEPT ![c] = r]
    /\ attempt' = [attempt EXCEPT ![c] = LastNumber(r) + 1]
    /\ raced' = IF \E e \in Calls : run[e] = r /\ pc[e] \notin {"idle", "replaying", "reading"}
                THEN raced \union {r} ELSE raced
    /\ UNCHANGED <<store, process, key, outcome, answer, faults>>

AppendRetry(c) ==
    /\ pc[c] = "retrying"
    /\ NewAttempt(run[c], attempt[c])
    /\ attempt' = [attempt EXCEPT ![c] = Len(attempts[run[c]]) + 1]
    /\ Go(c, "retried")
    /\ UNCHANGED <<recorded, keyOf, process, key, run, outcome, answer, faults, raced>>

StartRetry(c) ==
    /\ pc[c] = "retried"
    /\ Go(c, "running")
    /\ controllers' = controllers \union {run[c]}
    /\ cancelRequested' = cancelRequested \ {run[c]}
    /\ replayers' = replayers \union {run[c]}
    /\ UNCHANGED <<store, key, run, attempt, outcome, answer, faults, raced>>

\* A run that is not terminal is read; the operation that runs in this
\* process, if any, is asked to stop.  A terminal run is answered as it is.
Cancel(c, r) ==
    /\ pc[c] = "idle"
    /\ state[r] \in {"queued", "waiting"}
    /\ Go(c, "cancelling")
    /\ run' = [run EXCEPT ![c] = r]
    /\ attempt' = [attempt EXCEPT ![c] = Len(attempts[r])]
    /\ cancelRequested' = IF r \in controllers THEN cancelRequested \union {r} ELSE cancelRequested
    /\ UNCHANGED <<store, controllers, replayers, key, outcome, answer, faults, raced>>

\* MUTANT: the call whose operation is stopped is left to append it.
AppendCancel_LeftToCall(c) ==
    /\ pc[c] = "cancelling"
    /\ IF run[c] \in cancelRequested THEN UNCHANGED <<state, attempts>>
       ELSE AppendState(run[c], attempt[c], "cancelled")
    /\ Answers(c, "cancelled")
    /\ UNCHANGED <<recorded, keyOf, delegated, process, faults, raced>>

AppendCancel(c) ==
    /\ pc[c] = "cancelling"
    /\ AppendState(run[c], attempt[c], "cancelled")
    /\ Answers(c, "cancelled")
    /\ UNCHANGED <<recorded, keyOf, delegated, process, faults, raced>>

-----------------------------------------------------------------------------
(* Faults.                                                                 *)

Fault == faults < MaxFaults /\ faults' = faults + 1

\* MUTANT: the result that could not be stored is answered all the same.
ResultRejected_Answered(c) ==
    /\ pc[c] \in {"finishing", "ending"}
    /\ Fault
    /\ Answers(c, outcome[c])
    /\ Cleanup(run[c])
    /\ UNCHANGED <<store, raced>>

\* The read or the transaction of the result is rejected: a failure, too.
ResultRejected(c) == pc[c] \in {"finishing", "ending"} /\ Fault /\ Catch(c)

\* A rejected failure record is swallowed, the error thrown all the same.
FailureRejected(c) ==
    /\ pc[c] = "failing"
    /\ Fault
    /\ Throws(c)
    /\ Cleanup(run[c])
    /\ UNCHANGED <<store, raced>>

\* Any other rejected transaction is thrown to the caller.
Rejected(c) ==
    /\ pc[c] \in {"replaying", "reading", "creating", "retrying", "cancelling"}
    /\ Fault
    /\ Throws(c)
    /\ UNCHANGED <<store, process, raced>>

\* The process ends; a new one finds the runs as they are.
Crash ==
    /\ Fault
    /\ controllers' = {} /\ cancelRequested' = {} /\ replayers' = {}
    /\ pc' = [c \in Calls |-> "idle"]
    /\ key' = [c \in Calls |-> None]
    /\ run' = [c \in Calls |-> None]
    /\ attempt' = [c \in Calls |-> 0]
    /\ outcome' = [c \in Calls |-> "absent"]
    /\ UNCHANGED answer
    /\ UNCHANGED <<store, raced>>

-----------------------------------------------------------------------------
\* What a call does of itself once it has begun.
CallStep(c) ==
    \/ Replay(c) \/ ReplayState(c)
    \/ Create(c)
    \/ Start(c)
    \/ \E s \in Outcomes : OperationReturns(c, s)
    \/ OperationThrows(c)
    \/ ReadCurrent(c)
    \/ AppendResult(c) \/ AppendFailure(c)
    \/ AppendRetry(c) \/ StartRetry(c)
    \/ AppendCancel(c)

Begin(c) ==
    \/ \E k \in Keys : Execute(c, k)
    \/ \E r \in Runs : (\E b \in BOOLEAN : Retry(c, r, b)) \/ Cancel(c, r)

Next ==
    \/ \E c \in Calls : Begin(c) \/ CallStep(c)
    \/ \E c \in Calls : ResultRejected(c) \/ FailureRejected(c) \/ Rejected(c)
    \/ Crash

Spec == Init /\ [][Next]_vars

\* Operations end and transactions are carried out in their order.
FairSpec == Spec /\ \A c \in Calls : WF_vars(CallStep(c))

-----------------------------------------------------------------------------
(* Properties.                                                             *)

Places == {"idle", "replaying", "reading", "creating", "created", "running", "finishing",
           "ending", "failing", "retrying", "retried", "cancelling"}
Attempted == {"created", "running", "finishing", "ending", "failing", "retried", "cancelling"}

\* Every variable has its type; a call that works on an attempt has one.
TypeOK ==
    /\ state \in [Runs -> States]
    /\ attempts \in [Runs -> Seq([number : Nat \ {0}, state : States])]
    /\ recorded \in [Runs -> States]
    /\ keyOf \in [Runs -> SUBSET Keys]
    /\ delegated \subseteq Runs
    /\ controllers \subseteq Runs /\ cancelRequested \subseteq Runs /\ replayers \subseteq Runs
    /\ pc \in [Calls -> Places]
    /\ key \in [Calls -> Keys \union {None}]
    /\ run \in [Calls -> Runs \union {None}]
    /\ attempt \in [Calls -> Nat]
    /\ outcome \in [Calls -> States]
    /\ answer \in {NoAnswer} \union [run : Runs, state : Final]
    /\ faults \in 0 .. MaxFaults
    /\ raced \subseteq Runs \union Keys
    /\ \A r \in Runs : state[r] = "absent" <=> attempts[r] = << >>
    /\ \A c \in Calls :
           /\ run[c] = None <=> pc[c] \in {"idle", "creating"}
           /\ run[c] # None => state[run[c]] # "absent"
           /\ pc[c] \in Attempted => attempt[c] \in 1 .. Len(attempts[run[c]])
           /\ pc[c] \in {"finishing", "ending"} => outcome[c] \in Outcomes \union {"cancelled"}
           /\ pc[c] = "retrying" => attempt[c] # 0

\* However a request is repeated, before or after a crash, its idempotency
\* key has one run, unless two requests looked the key up before either had
\* appended its run.
OneRunPerKey ==
    \A k \in Keys \ raced : \A r, s \in KeyedRuns(k) : r = s

\* The state of a run is that of its latest attempt, and the attempts are
\* numbered from 1, whatever cancel(), a late result, a crash or a rejected
\* append does; only a retry() accepted while another call still works on the
\* run, or a caller that gives the ID of a run which exists, may break this.
RunFollowsLatestAttempt ==
    \A r \in Runs \ raced :
        state[r] # "absent" =>
            /\ state[r] = attempts[r][Len(attempts[r])].state
            /\ \A i \in DOMAIN attempts[r] : attempts[r][i].number = i

\* A caller that was told a run's success or failure, by the execution or by a
\* replay, was told what is stored, until the run is cancelled or retried.
AnswersAreStored ==
    answer.run # None =>
        \/ state[answer.run] \in {answer.state, "cancelled"}
        \/ Len(attempts[answer.run]) > 1

\* A run that was created more than once.
CreatedTwice(r) == \E i \in DOMAIN attempts[r] : i > 1 /\ attempts[r][i].number = 1

\* A run that was accepted, by execute() or retry(), does not stay queued,
\* however executions, retries and cancellations overlap, unless its operation
\* was delegated, the process ends, the store rejects what was to be appended,
\* or a caller has given its ID for another run.
AcceptedRunsSettle ==
    \A r \in Runs :
        state[r] = "queued" ~> \/ state[r] # "queued" \/ r \in delegated
                               \/ faults > 0 \/ CreatedTwice(r)
=============================================================================
