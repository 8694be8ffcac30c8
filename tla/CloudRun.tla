------------------------------ MODULE CloudRun ------------------------------
(***************************************************************************)
(* Managed cloud runs as the hosted runtime composes them: the             *)
(* CloudRunContinuityService and the CloudBillingCoordinator over the   *)
(* stores on the transactional StateStore, paid from a prepaid balance.    *)
(*                                                                         *)
(* estimate(), approve() and execute() keep nothing in memory between two  *)
(* calls.  Within a call every read and every write is a transaction of    *)
(* its own, other calls go on between them, and any of them may fail: a    *)
(* process that ends is all its calls failing.  Receipts keep the first    *)
(* record of a key; billing records are appended, and the last one counts. *)
(* A request is the run it is for; sessions, prompts and the events that   *)
(* report progress are data, except that emitting an event can fail.       *)
(***************************************************************************)
EXTENDS Integers, Totals

CONSTANTS
    Runs,
    Keys,               \* idempotency keys of estimate requests
    Estimates,          \* estimate IDs, a fresh one for every estimate saved
    Calls,              \* calls that may overlap
    Total,              \* what an estimate comes to, and what is reserved for it
    MaxCost,            \* the most that a request allows
    Costs,              \* what an execution may turn out to cost
    None,
    Deposits,           \* amounts the balance is credited with
    MaxCredit           \* bound on all deposits together

ASSUME CloudAssumption ==
    /\ Total \in Nat /\ MaxCost \in Nat /\ Total <= MaxCost
    /\ Costs \subseteq Nat /\ Deposits \subseteq Nat /\ MaxCredit \in Nat
    /\ None \notin Runs \union Estimates \union Nat

VARIABLES
    runOf,      \* per estimate: the run it is for
    keyed,      \* per key: the estimate saved under it
    expired,    \* estimates, and with them their approvals, that ran out
    approved,   \* estimates with an approval
    billing,    \* per estimate: the state and amount of its last billing record
    usage,      \* per estimate: the amount of its usage record
    hold,       \* per estimate: its prepaid reservation
    available, reserved, credited,      \* the prepaid account
    result,     \* per run: the estimate and amount of its stored result
    call        \* per call: where it is, its run, key, estimate and cost

requests == <<runOf, keyed, expired, approved>>
account == <<available, reserved, credited>>
vars == <<requests, billing, usage, hold, account, result, call>>

Idle == [at |-> "idle", run |-> None, key |-> None, estimate |-> None, cost |-> 0]
NotBilled == [state |-> "none", actual |-> 0]
NoHold == [state |-> "none", amount |-> 0]

Init ==
    /\ runOf = [e \in Estimates |-> None]
    /\ keyed = [k \in Keys |-> None]
    /\ expired = {} /\ approved = {}
    /\ billing = [e \in Estimates |-> NotBilled]
    /\ usage = [e \in Estimates |-> None]
    /\ hold = [e \in Estimates |-> NoHold]
    /\ available = 0 /\ reserved = 0 /\ credited = 0
    /\ result = [r \in Runs |-> None]
    /\ call = [c \in Calls |-> Idle]

At(c, l) == call[c].at = l
Goto(c, l) == call' = [call EXCEPT ![c].at = l]
End(c) == call' = [call EXCEPT ![c] = Idle]

-----------------------------------------------------------------------------
(* estimate()                                                              *)

\* A run with a result, and a key with an estimate, are answered from them.
Estimate(c, r, k) ==
    /\ At(c, "idle")
    /\ result[r] = None /\ keyed[k] = None
    /\ call' = [call EXCEPT ![c].at = "estimating", ![c].run = r, ![c].key = k]
    /\ UNCHANGED <<requests, billing, usage, hold, account, result>>

\* The second estimate under a key is stored, but not under the key.
SaveEstimate(c, e) ==
    /\ At(c, "estimating") /\ runOf[e] = None
    /\ runOf' = [runOf EXCEPT ![e] = call[c].run]
    /\ keyed' = [keyed EXCEPT ![call[c].key] = IF @ = None THEN e ELSE @]
    /\ End(c)
    /\ UNCHANGED <<expired, approved, billing, usage, hold, account, result>>

Expire(e) ==
    /\ runOf[e] # None /\ e \notin expired
    /\ expired' = expired \union {e}
    /\ UNCHANGED <<runOf, keyed, approved, billing, usage, hold, account, result, call>>

-----------------------------------------------------------------------------
(* approve() and CloudBillingCoordinator.authorize()                       *)

Approve(c, e) ==
    /\ At(c, "idle") /\ runOf[e] # None /\ e \notin expired \union approved
    /\ call' = [call EXCEPT ![c].at = "authorizing", ![c].estimate = e]
    /\ UNCHANGED <<requests, billing, usage, hold, account, result>>

\* A billing record of an earlier approve() will do.
Authorize(c) ==
    /\ At(c, "authorizing")
    /\ Goto(c, IF billing[call[c].estimate] = NotBilled THEN "reserving" ELSE "approving")
    /\ UNCHANGED <<requests, billing, usage, hold, account, result>>

\* reserve(): one reservation per estimate, whoever asks for it.
Reserve(c) ==
    LET e == call[c].estimate
    IN  /\ At(c, "reserving")
        /\ \/ hold[e] # NoHold /\ UNCHANGED <<hold, account>>
           \/ /\ hold[e] = NoHold /\ available >= Total
              /\ hold' = [hold EXCEPT ![e] = [state |-> "open", amount |-> Total]]
              /\ available' = available - Total /\ reserved' = reserved + Total
              /\ UNCHANGED credited
        /\ Goto(c, "billing")
        /\ UNCHANGED <<requests, billing, usage, result>>

SaveAuthorized(c) ==
    /\ At(c, "billing")
    /\ billing' = [billing EXCEPT ![call[c].estimate] = [state |-> "authorized", actual |-> 0]]
    /\ Goto(c, "approving")
    /\ UNCHANGED <<requests, usage, hold, account, result>>

SaveApproval(c) ==
    /\ At(c, "approving")
    /\ approved' = approved \union {call[c].estimate}
    /\ End(c)
    /\ UNCHANGED <<runOf, keyed, expired, billing, usage, hold, account, result>>

-----------------------------------------------------------------------------
(* execute() and CloudBillingCoordinator.reconcile()                       *)

\* A run with a result is answered with it.
Execute(c, e) ==
    /\ At(c, "idle") /\ runOf[e] # None /\ result[runOf[e]] = None
    /\ call' = [call EXCEPT ![c].at = "starting", ![c].estimate = e]
    /\ UNCHANGED <<requests, billing, usage, hold, account, result>>

Start(c) ==
    /\ At(c, "starting")
    /\ call[c].estimate \in approved \ expired
    /\ Goto(c, "running")
    /\ UNCHANGED <<requests, billing, usage, hold, account, result>>

\* Inference, compute and the artifact; only now is the cost known.
Work(c, n) ==
    /\ At(c, "running") /\ n <= MaxCost
    /\ call' = [call EXCEPT ![c].at = "metering", ![c].cost = n]
    /\ UNCHANGED <<requests, billing, usage, hold, account, result>>

\* MUTANT: whatever was recorded for the estimate is taken for this usage.
Recorded_Any(c) == usage[call[c].estimate] # None

\* A usage record of another execution must have the same amount.
Recorded(c) == usage[call[c].estimate] = call[c].cost

\* MUTANT: a usage that is recorded is taken as charged.
ReadUsage_Charged(c) ==
    /\ At(c, "metering") /\ billing[call[c].estimate] # NotBilled
    /\ \/ usage[call[c].estimate] = None /\ Goto(c, "recording")
       \/ Recorded(c) /\ Goto(c, "billed")
    /\ UNCHANGED <<requests, billing, usage, hold, account, result>>

ReadUsage(c) ==
    /\ At(c, "metering") /\ billing[call[c].estimate] # NotBilled
    /\ \/ usage[call[c].estimate] = None /\ Goto(c, "recording")
       \/ Recorded(c) /\ Goto(c, "charging")
    /\ UNCHANGED <<requests, billing, usage, hold, account, result>>

\* record(): a usage that was recorded meanwhile has another ID, and is refused.
RecordUsage(c) ==
    /\ At(c, "recording") /\ usage[call[c].estimate] = None
    /\ usage' = [usage EXCEPT ![call[c].estimate] = call[c].cost]
    /\ Goto(c, "charging")
    /\ UNCHANGED <<requests, billing, hold, account, result>>

\* MUTANT: the cost of an execution leaves the reserved amount.
Charge_Cost(c) ==
    LET e == call[c].estimate
        n == call[c].cost
    IN  /\ At(c, "charging") /\ hold[e].state = "open" /\ n - Total <= available
        /\ hold' = [hold EXCEPT ![e] = [state |-> "charged", amount |-> n]]
        /\ available' = available + Total - n /\ reserved' = reserved - n
        /\ Goto(c, "billed")
        /\ UNCHANGED <<requests, billing, usage, credited, result>>

\* The prepaid reconcile(): the reservation is charged once; what the cost
\* leaves of it goes back, what it exceeds it by must be available.
Charge(c) ==
    LET e == call[c].estimate
        n == call[c].cost
    IN  /\ At(c, "charging")
        /\ \/ /\ hold[e] = [state |-> "charged", amount |-> n]
              /\ UNCHANGED <<hold, account>>
           \/ /\ hold[e].state = "open" /\ n - Total <= available
              /\ hold' = [hold EXCEPT ![e] = [state |-> "charged", amount |-> n]]
              /\ available' = available + Total - n /\ reserved' = reserved - Total
              /\ UNCHANGED credited
        /\ Goto(c, "billed")
        /\ UNCHANGED <<requests, billing, usage, result>>

SaveReconciled(c) ==
    /\ At(c, "billed")
    /\ billing' = [billing EXCEPT ![call[c].estimate] =
                      [state |-> "reconciled", actual |-> call[c].cost]]
    /\ Goto(c, "completing")
    /\ UNCHANGED <<requests, usage, hold, account, result>>

\* The first result of a run is its result.
SaveResult(c) ==
    LET e == call[c].estimate
    IN  /\ At(c, "completing")
        /\ result' = [result EXCEPT ![runOf[e]] =
                         IF @ = None THEN [estimate |-> e, amount |-> call[c].cost] ELSE @]
        /\ End(c)
        /\ UNCHANGED <<requests, billing, usage, hold, account>>

-----------------------------------------------------------------------------
\* A call fails: it is refused, a dependency fails, an event is not taken, or
\* its process ends.
Fail(c) ==
    /\ ~At(c, "idle") /\ End(c)
    /\ UNCHANGED <<requests, billing, usage, hold, account, result>>

Credit(n) ==
    /\ credited + n <= MaxCredit
    /\ credited' = credited + n /\ available' = available + n
    /\ UNCHANGED <<requests, billing, usage, hold, reserved, result, call>>

Step(c) ==
    \/ \E e \in Estimates : SaveEstimate(c, e)
    \/ Authorize(c) \/ Reserve(c) \/ SaveAuthorized(c) \/ SaveApproval(c)
    \/ Start(c) \/ \E n \in Costs : Work(c, n)
    \/ ReadUsage(c) \/ RecordUsage(c) \/ Charge(c) \/ SaveReconciled(c) \/ SaveResult(c)

Next ==
    \/ \E c \in Calls : \/ \E r \in Runs, k \in Keys : Estimate(c, r, k)
                        \/ \E e \in Estimates : Approve(c, e) \/ Execute(c, e)
                        \/ Step(c)
                        \/ Fail(c)
    \/ \E e \in Estimates : Expire(e)
    \/ \E n \in Deposits : Credit(n)

Spec == Init /\ [][Next]_vars

-----------------------------------------------------------------------------
(* Properties                                                              *)

Labels == {"idle", "estimating", "authorizing", "reserving", "billing", "approving",
           "starting", "running", "metering", "recording", "charging", "billed", "completing"}

CallRecord == [at : Labels, run : Runs \union {None}, key : Keys \union {None},
               estimate : Estimates \union {None}, cost : Nat]

\* Every variable has the shape that its comment says.
TypeOK ==
    /\ runOf \in [Estimates -> Runs \union {None}]
    /\ keyed \in [Keys -> Estimates \union {None}]
    /\ expired \subseteq Estimates /\ approved \subseteq Estimates
    /\ billing \in [Estimates -> [state : {"none", "authorized", "reconciled"}, actual : Nat]]
    /\ usage \in [Estimates -> Nat \union {None}]
    /\ hold \in [Estimates -> [state : {"none", "open", "charged"}, amount : Nat]]
    /\ available \in Nat /\ reserved \in Int /\ credited \in Nat
    /\ result \in [Runs -> [estimate : Estimates, amount : Nat] \union {None}]
    /\ call \in [Calls -> CallRecord]

\* An approval is stored only when money was reserved for its estimate and a
\* billing record says so, however approvals of one estimate overlap.
ApprovedIsReserved ==
    \A e \in approved : hold[e] # NoHold /\ billing[e] # NotBilled

\* What a reservation was charged with is the usage recorded for its estimate,
\* and within the cost that was approved: overlapping and repeated executions,
\* and failures between the two stores, do not charge anything else.
ChargeIsUsage ==
    \A e \in Estimates :
        hold[e].state = "charged" => hold[e].amount = usage[e] /\ usage[e] <= MaxCost

\* A stored result names an estimate of its run that was charged its amount.
ResultsArePaid ==
    \A r \in Runs : result[r] # None =>
        LET e == result[r].estimate
        IN  runOf[e] = r /\ hold[e] = [state |-> "charged", amount |-> result[r].amount]

HeldAs(state) == [e \in Estimates |-> IF hold[e].state = state THEN hold[e].amount ELSE 0]

\* The account is made of what was credited: the open reservations are what is
\* reserved, and what is not reserved is available unless it was charged.
PrepaidBalanced ==
    /\ IsTotal(reserved, HeldAs("open"))
    /\ IsTotal(credited - available - reserved, HeldAs("charged"))
=============================================================================
