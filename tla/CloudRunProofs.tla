--------------------------- MODULE CloudRunProofs ---------------------------
(***************************************************************************)
(* Proofs about CloudRun, for all sets of runs, estimates and calls and    *)
(* all amounts.  The stores only grow (Growth): what a call has seen in    *)
(* them when it reached its place is still there when it goes on, however  *)
(* many other calls worked in between.  CallInv says what each place has   *)
(* seen, StoreInv what the stores say of each other.  The prepaid account  *)
(* adds up because an open reservation is of the estimate's amount.        *)
(***************************************************************************)
EXTENDS CloudRun, FiniteSetTheorems, TLAPS

Charged(n) == [state |-> "charged", amount |-> n]

\* What the call at a place knows of its request and of the stores.
CallInv(c) ==
    LET at == call[c].at
        e == call[c].estimate
        n == call[c].cost
    IN  /\ at = "estimating" => call[c].run \in Runs /\ call[c].key \in Keys
        /\ at \notin {"idle", "estimating"} => e \in Estimates /\ runOf[e] \in Runs
        /\ at \in {"billing", "approving"} => hold[e] # NoHold
        /\ at = "approving" => billing[e] # NotBilled
        /\ at \in {"metering", "recording", "charging", "billed", "completing"} => n <= MaxCost
        /\ at \in {"charging", "billed", "completing"} => usage[e] = n
        /\ at \in {"billed", "completing"} => hold[e] = Charged(n)

\* Billing follows reservations, charges follow usage.
StoreInv ==
    /\ \A e \in Estimates :
           /\ billing[e] # NotBilled => hold[e] # NoHold
           /\ usage[e] # None => usage[e] <= MaxCost
    /\ ApprovedIsReserved
    /\ ChargeIsUsage
    /\ ResultsArePaid

IInv == TypeOK /\ StoreInv /\ \A c \in Calls : CallInv(c)

\* Runs and usage of estimates, charges, reservations and billing records stay.
Growth ==
    \A e \in Estimates :
        /\ runOf[e] # None => runOf'[e] = runOf[e]
        /\ usage[e] # None => usage'[e] = usage[e]
        /\ hold[e] # NoHold => hold'[e] # NoHold
        /\ hold[e].state = "charged" => hold'[e] = hold[e]
        /\ billing[e] # NotBilled => billing'[e] # NotBilled

-----------------------------------------------------------------------------

LEMMA InitInv == Init => IInv
BY CloudAssumption DEF Init, IInv, TypeOK, StoreInv, CallInv, ApprovedIsReserved, ChargeIsUsage,
   ResultsArePaid, Idle, NotBilled, NoHold, Labels, CallRecord

\* What going to another place, and ending, do to the calls.
LEMMA GotoMoves ==
  ASSUME call \in [Calls -> CallRecord], NEW c \in Calls, NEW l \in Labels, Goto(c, l)
  PROVE  /\ call' \in [Calls -> CallRecord]
         /\ call'[c] = [call[c] EXCEPT !.at = l]
         /\ \A d \in Calls \ {c} : call'[d] = call[d]
<1>1. call[c] \in CallRecord
  OBVIOUS
<1>2. [call[c] EXCEPT !.at = l] \in CallRecord
  BY <1>1 DEF CallRecord
<1> QED BY <1>2 DEF Goto

LEMMA EndMoves ==
  ASSUME call \in [Calls -> CallRecord], NEW c \in Calls, End(c)
  PROVE  /\ call' \in [Calls -> CallRecord]
         /\ call'[c] = Idle
         /\ \A d \in Calls \ {c} : call'[d] = call[d]
<1>1. Idle \in CallRecord
  BY DEF Idle, CallRecord, Labels
<1> QED BY <1>1 DEF End

LEMMA CallSteps ==
  ASSUME TypeOK, NEW c \in Calls, CallInv(c), Step(c) \/ Fail(c)
  PROVE  TypeOK'
<1> USE CloudAssumption
<1>0. call \in [Calls -> CallRecord] /\ call[c] \in CallRecord
  BY DEF TypeOK
<1>1. ASSUME NEW e \in Estimates, SaveEstimate(c, e) PROVE TypeOK'
  <2>1. call[c].run \in Runs /\ call[c].key \in Keys
    BY <1>1 DEF CallInv, SaveEstimate, At
  <2>2. call' \in [Calls -> CallRecord]
    BY <1>0, <1>1, EndMoves DEF SaveEstimate
  <2>3. runOf' \in [Estimates -> Runs \union {None}]
    BY <1>1, <2>1 DEF TypeOK, SaveEstimate
  <2>4. keyed' \in [Keys -> Estimates \union {None}]
    BY <1>1 DEF TypeOK, SaveEstimate
  <2> QED BY <1>1, <2>2, <2>3, <2>4 DEF TypeOK, SaveEstimate, account
<1>2. CASE Authorize(c)
  <2>1. PICK l \in Labels : Goto(c, l)
    BY <1>2 DEF Authorize, Labels
  <2> QED BY <1>0, <1>2, <2>1, GotoMoves DEF TypeOK, Authorize, requests, account
<1>3. CASE Reserve(c)
  <2>1. Goto(c, "billing") /\ "billing" \in Labels /\ call[c].estimate \in Estimates
    BY <1>3 DEF Reserve, Labels, CallInv, At
  <2>2. call' \in [Calls -> CallRecord]
    BY <1>0, <2>1, GotoMoves
  <2>3. CASE UNCHANGED <<hold, account>>
    BY <1>3, <2>2, <2>3 DEF TypeOK, Reserve, requests, account
  <2>4. CASE ~UNCHANGED <<hold, account>>
    <3>1. /\ hold' = [hold EXCEPT ![call[c].estimate] = [state |-> "open", amount |-> Total]]
          /\ available >= Total
          /\ available' = available - Total /\ reserved' = reserved + Total /\ credited' = credited
      BY <1>3, <2>4 DEF Reserve
    <3>2. [state |-> "open", amount |-> Total]
              \in [state : {"none", "open", "charged"}, amount : Nat]
      OBVIOUS
    <3>3. hold' \in [Estimates -> [state : {"none", "open", "charged"}, amount : Nat]]
      BY <3>1, <3>2 DEF TypeOK
    <3>4. available' \in Nat /\ reserved' \in Int /\ credited' \in Nat
      BY <3>1 DEF TypeOK
    <3> QED BY <1>3, <2>2, <3>3, <3>4 DEF TypeOK, Reserve, requests
  <2> QED BY <2>3, <2>4
<1>4. CASE SaveAuthorized(c)
  <2>1. Goto(c, "approving") /\ "approving" \in Labels
    BY <1>4 DEF SaveAuthorized, Labels
  <2> QED BY <1>0, <1>4, <2>1, GotoMoves DEF TypeOK, SaveAuthorized, requests, account
<1>5. CASE SaveApproval(c)
  BY <1>0, <1>5, EndMoves DEF TypeOK, CallInv, SaveApproval, At, account
<1>6. CASE Start(c)
  <2>1. Goto(c, "running") /\ "running" \in Labels
    BY <1>6 DEF Start, Labels
  <2> QED BY <1>0, <1>6, <2>1, GotoMoves DEF TypeOK, Start, requests, account
<1>7. ASSUME NEW n \in Costs, Work(c, n) PROVE TypeOK'
  <2>1. [call[c] EXCEPT !.at = "metering", !.cost = n] \in CallRecord
    BY <1>0 DEF CallRecord, Labels
  <2>2. call' \in [Calls -> CallRecord]
    BY <1>0, <1>7, <2>1 DEF Work
  <2> QED BY <1>7, <2>2 DEF TypeOK, Work, requests, account
<1>8. CASE ReadUsage(c)
  <2>1. PICK l \in Labels : Goto(c, l)
    BY <1>8 DEF ReadUsage, Labels
  <2> QED BY <1>0, <1>8, <2>1, GotoMoves DEF TypeOK, ReadUsage, requests, account
<1>9. CASE RecordUsage(c)
  <2>1. Goto(c, "charging") /\ "charging" \in Labels /\ call[c].cost \in Nat
    BY <1>0, <1>9 DEF RecordUsage, Labels, CallRecord
  <2> QED BY <1>0, <1>9, <2>1, GotoMoves DEF TypeOK, RecordUsage, requests, account
<1>10. CASE Charge(c)
  <2>1. /\ Goto(c, "billed") /\ "billed" \in Labels
        /\ call[c].estimate \in Estimates /\ call[c].cost \in Nat
    BY <1>0, <1>10 DEF Charge, Labels, CallInv, CallRecord, At
  <2>2. call' \in [Calls -> CallRecord]
    BY <1>0, <2>1, GotoMoves
  <2>3. CASE UNCHANGED <<hold, account>>
    BY <1>10, <2>2, <2>3 DEF TypeOK, Charge, requests, account
  <2>4. CASE ~UNCHANGED <<hold, account>>
    <3>1. /\ hold' = [hold EXCEPT ![call[c].estimate] = Charged(call[c].cost)]
          /\ call[c].cost - Total <= available
          /\ available' = available + Total - call[c].cost
          /\ reserved' = reserved - Total /\ credited' = credited
      BY <1>10, <2>4 DEF Charge, Charged
    <3>2. Charged(call[c].cost) \in [state : {"none", "open", "charged"}, amount : Nat]
      BY <2>1 DEF Charged
    <3>3. hold' \in [Estimates -> [state : {"none", "open", "charged"}, amount : Nat]]
      BY <3>1, <3>2 DEF TypeOK
    <3>4. available' \in Nat /\ reserved' \in Int /\ credited' \in Nat
      BY <2>1, <3>1 DEF TypeOK
    <3> QED BY <1>10, <2>2, <3>3, <3>4 DEF TypeOK, Charge, requests
  <2> QED BY <2>3, <2>4
<1>11. CASE SaveReconciled(c)
  <2>1. Goto(c, "completing") /\ "completing" \in Labels /\ call[c].cost \in Nat
    BY <1>0, <1>11 DEF SaveReconciled, Labels, CallRecord
  <2> QED BY <1>0, <1>11, <2>1, GotoMoves DEF TypeOK, SaveReconciled, requests, account
<1>12. CASE SaveResult(c)
  <2>1. call[c].estimate \in Estimates /\ call[c].cost \in Nat
    BY <1>0, <1>12 DEF SaveResult, CallInv, CallRecord, At
  <2> QED BY <1>0, <1>12, <2>1, EndMoves DEF TypeOK, SaveResult, requests, account
<1>13. CASE Fail(c)
  BY <1>0, <1>13, EndMoves DEF TypeOK, Fail, requests, account
<1> QED BY <1>1, <1>2, <1>3, <1>4, <1>5, <1>6, <1>7, <1>8, <1>9, <1>10, <1>11, <1>12, <1>13
        DEF Step

LEMMA TypeStep == IInv /\ [Next]_vars => TypeOK'
<1> SUFFICES ASSUME IInv, [Next]_vars PROVE TypeOK'
  OBVIOUS
<1> USE CloudAssumption
<1>0. TypeOK /\ (\A c \in Calls : CallInv(c)) /\ call \in [Calls -> CallRecord]
  BY DEF IInv, TypeOK
<1>1. ASSUME NEW c \in Calls, NEW r \in Runs, NEW k \in Keys, Estimate(c, r, k) PROVE TypeOK'
  <2>1. [call[c] EXCEPT !.at = "estimating", !.run = r, !.key = k] \in CallRecord
    BY <1>0 DEF CallRecord, Labels
  <2>2. call' \in [Calls -> CallRecord]
    BY <1>0, <1>1, <2>1 DEF Estimate
  <2> QED BY <1>0, <1>1, <2>2 DEF TypeOK, Estimate, requests, account
<1>2. ASSUME NEW c \in Calls, NEW e \in Estimates, Approve(c, e) PROVE TypeOK'
  <2>1. [call[c] EXCEPT !.at = "authorizing", !.estimate = e] \in CallRecord
    BY <1>0 DEF CallRecord, Labels
  <2>2. call' \in [Calls -> CallRecord]
    BY <1>0, <1>2, <2>1 DEF Approve
  <2> QED BY <1>0, <1>2, <2>2 DEF TypeOK, Approve, requests, account
<1>3. ASSUME NEW c \in Calls, NEW e \in Estimates, Execute(c, e) PROVE TypeOK'
  <2>1. [call[c] EXCEPT !.at = "starting", !.estimate = e] \in CallRecord
    BY <1>0 DEF CallRecord, Labels
  <2>2. call' \in [Calls -> CallRecord]
    BY <1>0, <1>3, <2>1 DEF Execute
  <2> QED BY <1>0, <1>3, <2>2 DEF TypeOK, Execute, requests, account
<1>4. ASSUME NEW c \in Calls, Step(c) \/ Fail(c) PROVE TypeOK'
  BY <1>0, <1>4, CallSteps
<1>5. ASSUME NEW e \in Estimates, Expire(e) PROVE TypeOK'
  BY <1>0, <1>5 DEF TypeOK, Expire, account
<1>6. ASSUME NEW n \in Deposits, Credit(n) PROVE TypeOK'
  BY <1>0, <1>6 DEF TypeOK, Credit, requests
<1>7. CASE UNCHANGED vars
  BY <1>0, <1>7 DEF TypeOK, vars, requests, account
<1> QED BY <1>1, <1>2, <1>3, <1>4, <1>5, <1>6, <1>7 DEF Next

-----------------------------------------------------------------------------
(* The stores grow, and so what a call knows stays true.                   *)

LEMMA GrowthStep == IInv /\ [Next]_vars => Growth
<1> SUFFICES ASSUME IInv, [Next]_vars PROVE Growth
  OBVIOUS
<1> USE CloudAssumption DEF Growth
<1>0. TypeOK /\ (\A c \in Calls : CallInv(c))
  BY DEF IInv
<1>1. ASSUME UNCHANGED <<runOf, usage, hold, billing>> PROVE Growth
  BY <1>1
<1>2. ASSUME NEW c \in Calls, NEW e \in Estimates, SaveEstimate(c, e) PROVE Growth
  BY <1>0, <1>2 DEF SaveEstimate, TypeOK
<1>3. ASSUME NEW c \in Calls, Reserve(c) PROVE Growth
  BY <1>0, <1>3 DEF Reserve, TypeOK, NoHold, requests
<1>4. ASSUME NEW c \in Calls, SaveAuthorized(c) PROVE Growth
  BY <1>0, <1>4 DEF SaveAuthorized, TypeOK, NotBilled, requests
<1>5. ASSUME NEW c \in Calls, RecordUsage(c) PROVE Growth
  BY <1>0, <1>5 DEF RecordUsage, TypeOK, requests
<1>6. ASSUME NEW c \in Calls, Charge(c) PROVE Growth
  BY <1>0, <1>6 DEF Charge, TypeOK, NoHold, requests
<1>7. ASSUME NEW c \in Calls, SaveReconciled(c) PROVE Growth
  BY <1>0, <1>7 DEF SaveReconciled, TypeOK, NotBilled, requests
<1>8. ASSUME NEW c \in Calls,
             \/ Authorize(c) \/ SaveApproval(c) \/ Start(c) \/ (\E n \in Costs : Work(c, n))
             \/ ReadUsage(c) \/ SaveResult(c) \/ Fail(c)
      PROVE  Growth
  BY <1>1, <1>8 DEF Authorize, SaveApproval, Start, Work, ReadUsage, SaveResult, Fail, requests
<1>9. ASSUME NEW c \in Calls,
             \/ \E r \in Runs, k \in Keys : Estimate(c, r, k)
             \/ \E e \in Estimates : Approve(c, e) \/ Execute(c, e)
      PROVE  Growth
  BY <1>1, <1>9 DEF Estimate, Approve, Execute, requests
<1>10. CASE (\E e \in Estimates : Expire(e)) \/ (\E n \in Deposits : Credit(n)) \/ UNCHANGED vars
  BY <1>1, <1>10 DEF Expire, Credit, vars, requests
<1> QED BY <1>2, <1>3, <1>4, <1>5, <1>6, <1>7, <1>8, <1>9, <1>10 DEF Next, Step

LEMMA CallInvKept ==
  ASSUME TypeOK, Growth, NEW d \in Calls, CallInv(d), call'[d] = call[d]
  PROVE  CallInv(d)'
<1>1. call[d] \in CallRecord
  BY DEF TypeOK
<1>2. call[d].cost \in Nat
  BY <1>1 DEF CallRecord
<1>3. call[d].cost # None
  BY <1>2, CloudAssumption
<1>4. \A n \in Nat : Charged(n) # NoHold /\ Charged(n).state = "charged"
  BY DEF Charged, NoHold
<1> QED BY <1>2, <1>3, <1>4, CloudAssumption DEF Growth, CallInv

\* The call that works, at its next place.
LEMMA CallMoves ==
  ASSUME TypeOK, StoreInv, Growth, NEW c \in Calls, CallInv(c), Step(c) \/ Fail(c)
  PROVE  CallInv(c)' /\ \A d \in Calls \ {c} : call'[d] = call[d]
<1> DEFINE Moved == CallInv(c)' /\ \A d \in Calls \ {c} : call'[d] = call[d]
<1> USE CloudAssumption
<1>0. call \in [Calls -> CallRecord] /\ call[c] \in CallRecord
  BY DEF TypeOK
<1>a. ASSUME End(c) PROVE Moved
  BY <1>0, <1>a, EndMoves DEF CallInv, Idle
<1>b. ASSUME NEW l \in Labels, Goto(c, l)
      PROVE  /\ call'[c].at = l
             /\ call'[c].estimate = call[c].estimate /\ call'[c].cost = call[c].cost
             /\ \A d \in Calls \ {c} : call'[d] = call[d]
  <2>1. /\ call'[c] = [call[c] EXCEPT !.at = l]
        /\ \A d \in Calls \ {c} : call'[d] = call[d]
    BY <1>0, <1>b, GotoMoves
  <2> QED BY <1>0, <2>1 DEF CallRecord
<1>c. ASSUME call[c].at \notin {"idle", "estimating"}
      PROVE  call[c].estimate \in Estimates /\ runOf'[call[c].estimate] \in Runs
  BY <1>c DEF CallInv, Growth
<1>d. call[c].cost \in Nat
  BY <1>0 DEF CallRecord
<1>1. ASSUME NEW e \in Estimates, SaveEstimate(c, e) PROVE Moved
  BY <1>a, <1>1 DEF SaveEstimate
<1>2. CASE Authorize(c)
  <2>1. CASE billing[call[c].estimate] = NotBilled
    BY <1>b, <1>c, <1>2, <2>1 DEF Authorize, At, CallInv, Labels
  <2>2. CASE billing[call[c].estimate] # NotBilled
    <3>1. call[c].estimate \in Estimates
      BY <1>c, <1>2 DEF Authorize, At
    <3>2. hold[call[c].estimate] # NoHold
      BY <2>2, <3>1 DEF StoreInv
    <3>3. /\ billing'[call[c].estimate] # NotBilled
          /\ hold'[call[c].estimate] # NoHold
      BY <2>2, <3>1, <3>2 DEF Growth
    <3> QED BY <1>b, <1>c, <1>2, <2>2, <3>3 DEF Authorize, At, CallInv, Labels
  <2> QED BY <2>1, <2>2
<1>3. CASE Reserve(c)
  <2>1. hold'[call[c].estimate] # NoHold
    BY <1>c, <1>3 DEF Reserve, At, NoHold, TypeOK
  <2> QED BY <1>b, <1>c, <1>3, <2>1 DEF Reserve, At, CallInv, Labels
<1>4. CASE SaveAuthorized(c)
  <2>1. billing'[call[c].estimate] # NotBilled /\ hold'[call[c].estimate] # NoHold
    BY <1>c, <1>4 DEF SaveAuthorized, At, NotBilled, TypeOK, CallInv
  <2> QED BY <1>b, <1>c, <1>4, <2>1 DEF SaveAuthorized, At, CallInv, Labels
<1>5. CASE SaveApproval(c)
  BY <1>a, <1>5 DEF SaveApproval
<1>6. CASE Start(c)
  BY <1>b, <1>c, <1>6 DEF Start, At, CallInv, Labels
<1>7. ASSUME NEW n \in Costs, Work(c, n) PROVE Moved
  <2>1. call' = [call EXCEPT ![c] = [call[c] EXCEPT !.at = "metering", !.cost = n]]
    BY <1>0, <1>7 DEF Work
  <2>2. /\ call'[c].at = "metering" /\ call'[c].cost = n
        /\ call'[c].estimate = call[c].estimate
        /\ \A d \in Calls \ {c} : call'[d] = call[d]
    BY <1>0, <2>1 DEF CallRecord
  <2> QED BY <1>c, <1>7, <2>2 DEF Work, At, CallInv
<1>8. CASE ReadUsage(c)
  <2>1. call[c].estimate \in Estimates /\ call[c].cost <= MaxCost
    BY <1>c, <1>8 DEF ReadUsage, At, CallInv
  <2>2. CASE Goto(c, "recording")
    BY <1>b, <1>c, <1>8, <2>1, <2>2 DEF ReadUsage, At, CallInv, Labels
  <2>3. CASE Recorded(c) /\ Goto(c, "charging")
    BY <1>b, <1>c, <1>8, <2>1, <2>3 DEF ReadUsage, Recorded, At, CallInv, Labels
  <2> QED BY <1>8, <2>2, <2>3 DEF ReadUsage
<1>9. CASE RecordUsage(c)
  <2>1. call[c].estimate \in Estimates /\ call[c].cost <= MaxCost
    BY <1>c, <1>9 DEF RecordUsage, At, CallInv
  <2>2. usage'[call[c].estimate] = call[c].cost
    BY <1>9, <2>1 DEF RecordUsage, TypeOK
  <2> QED BY <1>b, <1>c, <1>9, <2>1, <2>2 DEF RecordUsage, At, CallInv, Labels
<1>10. CASE Charge(c)
  <2>1. /\ call[c].estimate \in Estimates /\ call[c].cost <= MaxCost
        /\ usage'[call[c].estimate] = call[c].cost
    BY <1>c, <1>10 DEF Charge, At, CallInv
  <2>2. hold'[call[c].estimate] = Charged(call[c].cost)
    BY <1>10, <2>1 DEF Charge, Charged, TypeOK
  <2> QED BY <1>b, <1>c, <1>10, <2>1, <2>2 DEF Charge, At, CallInv, Labels
<1>11. CASE SaveReconciled(c)
  <2>1. /\ call[c].estimate \in Estimates /\ call[c].cost <= MaxCost
        /\ usage'[call[c].estimate] = call[c].cost
        /\ hold'[call[c].estimate] = Charged(call[c].cost)
    BY <1>c, <1>11 DEF SaveReconciled, At, CallInv
  <2> QED BY <1>b, <1>c, <1>11, <2>1 DEF SaveReconciled, At, CallInv, Labels
<1>12. CASE SaveResult(c)
  BY <1>a, <1>12 DEF SaveResult
<1>13. CASE Fail(c)
  BY <1>a, <1>13 DEF Fail
<1> QED BY <1>1, <1>2, <1>3, <1>4, <1>5, <1>6, <1>7, <1>8, <1>9, <1>10, <1>11, <1>12, <1>13
        DEF Step

-----------------------------------------------------------------------------
(* What is new in the stores is consistent with what was there.            *)

Changes ==
    /\ \A e \in Estimates :
           /\ billing'[e] # billing[e] => hold[e] # NoHold
           /\ usage'[e] # usage[e] => usage'[e] <= MaxCost
           /\ hold'[e].state = "charged" /\ hold'[e] # hold[e] =>
                  hold'[e].amount \in Nat /\ usage[e] = hold'[e].amount /\ usage[e] <= MaxCost
           /\ e \in approved' \ approved => hold[e] # NoHold /\ billing[e] # NotBilled
    /\ \A r \in Runs : result'[r] # result[r] =>
           /\ result'[r].estimate \in Estimates /\ runOf[result'[r].estimate] = r
           /\ hold[result'[r].estimate] = Charged(result'[r].amount)

LEMMA ChangesStep == IInv /\ [Next]_vars => Changes
<1> SUFFICES ASSUME IInv, [Next]_vars PROVE Changes
  OBVIOUS
<1> USE CloudAssumption DEF Changes
<1>0. TypeOK /\ (\A c \in Calls : CallInv(c)) /\ \A c \in Calls : call[c].cost \in Nat
  BY DEF IInv, TypeOK, CallRecord
<1>1. ASSUME UNCHANGED <<approved, billing, usage, hold, result>> PROVE Changes
  BY <1>1
<1>2. ASSUME NEW c \in Calls, Reserve(c) PROVE Changes
  BY <1>0, <1>2 DEF Reserve, TypeOK, requests
<1>3. ASSUME NEW c \in Calls, SaveAuthorized(c) PROVE Changes
  BY <1>0, <1>3 DEF SaveAuthorized, TypeOK, requests, CallInv, At
<1>4. ASSUME NEW c \in Calls, SaveApproval(c) PROVE Changes
  <2>1. /\ hold[call[c].estimate] # NoHold /\ billing[call[c].estimate] # NotBilled
        /\ call[c].estimate \in Estimates
    BY <1>0, <1>4 DEF SaveApproval, CallInv, At
  <2> QED BY <1>4, <2>1 DEF SaveApproval
<1>5. ASSUME NEW c \in Calls, RecordUsage(c) PROVE Changes
  BY <1>0, <1>5 DEF RecordUsage, TypeOK, requests, CallInv, At
<1>6. ASSUME NEW c \in Calls, Charge(c) PROVE Changes
  <2>1. /\ usage[call[c].estimate] = call[c].cost /\ call[c].cost <= MaxCost
        /\ call[c].estimate \in Estimates
    BY <1>0, <1>6 DEF Charge, CallInv, At
  <2> QED BY <1>0, <1>6, <2>1 DEF Charge, TypeOK, requests
<1>7. ASSUME NEW c \in Calls, SaveReconciled(c) PROVE Changes
  <2>1. hold[call[c].estimate] = Charged(call[c].cost) /\ call[c].estimate \in Estimates
    BY <1>0, <1>7 DEF SaveReconciled, CallInv, At
  <2>2. hold[call[c].estimate] # NoHold
    BY <2>1 DEF Charged, NoHold
  <2> QED BY <1>0, <1>7, <2>1, <2>2 DEF SaveReconciled, TypeOK, requests
<1>8. ASSUME NEW c \in Calls, SaveResult(c) PROVE Changes
  <2>1. hold[call[c].estimate] = Charged(call[c].cost) /\ call[c].estimate \in Estimates
    BY <1>0, <1>8 DEF SaveResult, CallInv, At
  <2>2. \A r \in Runs : result'[r] # result[r] =>
            r = runOf[call[c].estimate] /\
                result'[r] = [estimate |-> call[c].estimate, amount |-> call[c].cost]
    <3>1. result' = [result EXCEPT ![runOf[call[c].estimate]] =
              IF @ = None THEN [estimate |-> call[c].estimate, amount |-> call[c].cost] ELSE @]
      BY <1>8 DEF SaveResult
    <3>2. DOMAIN result = Runs
      BY <1>0 DEF TypeOK
    <3>3. ASSUME NEW r \in Runs, r # runOf[call[c].estimate] PROVE result'[r] = result[r]
      BY ONLY <3>1, <3>2, <3>3
    <3>4. ASSUME NEW r \in Runs, r = runOf[call[c].estimate], result'[r] # result[r]
          PROVE  result'[r] = [estimate |-> call[c].estimate, amount |-> call[c].cost]
      <4>1. result'[r] = IF result[r] = None
                         THEN [estimate |-> call[c].estimate, amount |-> call[c].cost]
                         ELSE result[r]
        BY ONLY <3>1, <3>2, <3>4
      <4> QED BY ONLY <4>1, <3>4
    <3> QED BY ONLY <3>3, <3>4
  <2>3. ASSUME NEW r \in Runs, result'[r] # result[r]
        PROVE  /\ result'[r].estimate \in Estimates /\ runOf[result'[r].estimate] = r
               /\ hold[result'[r].estimate] = Charged(result'[r].amount)
    BY ONLY <2>1, <2>2, <2>3
  <2>4. UNCHANGED <<approved, billing, usage, hold>>
    BY <1>8 DEF SaveResult, requests
  <2> QED BY <2>3, <2>4
<1>9. ASSUME NEW c \in Calls,
             \/ \E e \in Estimates : SaveEstimate(c, e)
             \/ Authorize(c) \/ Start(c) \/ (\E n \in Costs : Work(c, n))
             \/ ReadUsage(c) \/ Fail(c)
      PROVE  Changes
  BY <1>1, <1>9 DEF SaveEstimate, Authorize, Start, Work, ReadUsage, Fail, requests
<1>10. ASSUME NEW c \in Calls,
             \/ \E r \in Runs, k \in Keys : Estimate(c, r, k)
             \/ \E e \in Estimates : Approve(c, e) \/ Execute(c, e)
      PROVE  Changes
  BY <1>1, <1>10 DEF Estimate, Approve, Execute, requests
<1>11. CASE (\E e \in Estimates : Expire(e)) \/ (\E n \in Deposits : Credit(n)) \/ UNCHANGED vars
  BY <1>1, <1>11 DEF Expire, Credit, vars, requests
<1> QED BY <1>2, <1>3, <1>4, <1>5, <1>6, <1>7, <1>8, <1>9, <1>10, <1>11 DEF Next, Step

LEMMA StoreStep ==
  ASSUME TypeOK, TypeOK', StoreInv, Growth, Changes
  PROVE  StoreInv'
<1> USE CloudAssumption
<1>1. \A e \in Estimates : billing'[e] # NotBilled => hold'[e] # NoHold
  BY DEF StoreInv, Growth, Changes
<1>2. \A e \in Estimates : usage'[e] # None => usage'[e] <= MaxCost
  BY DEF StoreInv, Changes
<1>3. ApprovedIsReserved'
  BY DEF StoreInv, ApprovedIsReserved, Growth, Changes, TypeOK
<1>4. ChargeIsUsage'
  <2> SUFFICES ASSUME NEW e \in Estimates, hold'[e].state = "charged"
               PROVE  hold'[e].amount = usage'[e] /\ usage'[e] <= MaxCost
    BY DEF ChargeIsUsage
  <2>1. CASE hold'[e] = hold[e]
    <3>1. hold[e].amount = usage[e] /\ usage[e] <= MaxCost /\ hold[e].amount \in Nat
      BY <2>1 DEF StoreInv, ChargeIsUsage, TypeOK
    <3> QED BY <2>1, <3>1 DEF Growth
  <2>2. CASE hold'[e] # hold[e]
    BY <2>2 DEF Changes, Growth
  <2> QED BY <2>1, <2>2
<1>5. ResultsArePaid'
  <2> SUFFICES ASSUME NEW r \in Runs, result'[r] # None
               PROVE  /\ runOf'[result'[r].estimate] = r
                      /\ hold'[result'[r].estimate] = Charged(result'[r].amount)
    BY DEF ResultsArePaid, Charged
  <2>1. /\ result'[r].estimate \in Estimates /\ runOf[result'[r].estimate] = r
        /\ hold[result'[r].estimate] = Charged(result'[r].amount)
    <3>1. CASE result'[r] = result[r]
      BY <3>1 DEF StoreInv, ResultsArePaid, Charged, TypeOK
    <3>2. CASE result'[r] # result[r]
      BY <3>2 DEF Changes
    <3> QED BY <3>1, <3>2
  <2>2. hold[result'[r].estimate].state = "charged"
    BY <2>1 DEF Charged
  <2> QED BY <2>1, <2>2 DEF Growth
<1> QED BY <1>1, <1>2, <1>3, <1>4, <1>5 DEF StoreInv

LEMMA Inductive == IInv /\ [Next]_vars => IInv'
<1> SUFFICES ASSUME IInv, [Next]_vars PROVE IInv'
  OBVIOUS
<1>1. TypeOK /\ StoreInv /\ TypeOK' /\ Growth /\ Changes
  BY TypeStep, GrowthStep, ChangesStep DEF IInv
<1>2. StoreInv'
  BY <1>1, StoreStep
<1>3. ASSUME NEW d \in Calls PROVE CallInv(d)'
  <2>0. CallInv(d)
    BY DEF IInv
  <2>1. CASE call'[d] = call[d]
    BY <1>1, <2>0, <2>1, CallInvKept
  <2>2. ASSUME NEW c \in Calls, Step(c) \/ Fail(c) PROVE CallInv(d)'
    <3>1. CallInv(c)
      BY DEF IInv
    <3>2. CallInv(c)' /\ \A x \in Calls \ {c} : call'[x] = call[x]
      BY <1>1, <2>2, <3>1, CallMoves
    <3> QED BY <2>1, <3>2
  <2>3. ASSUME NEW c \in Calls, NEW r \in Runs, NEW k \in Keys, Estimate(c, r, k)
        PROVE  CallInv(d)'
    <3>1. CASE d = c
      <4>1. call'[d].at = "estimating" /\ call'[d].run = r /\ call'[d].key = k
        BY <1>1, <2>3, <3>1 DEF Estimate, TypeOK, CallRecord
      <4> QED BY <4>1 DEF CallInv
    <3>2. CASE d # c
      BY <1>1, <2>1, <2>3, <3>2 DEF Estimate, TypeOK
    <3> QED BY <3>1, <3>2
  <2>4. ASSUME NEW c \in Calls, NEW e \in Estimates, Approve(c, e) \/ Execute(c, e)
        PROVE  CallInv(d)'
    <3>1. CASE d = c
      <4>1. call'[d].at \in {"authorizing", "starting"} /\ call'[d].estimate = e
        BY <1>1, <2>4, <3>1 DEF Approve, Execute, TypeOK, CallRecord
      <4>2. runOf'[e] \in Runs
        BY <1>1, <2>4 DEF Approve, Execute, TypeOK, requests
      <4> QED BY <4>1, <4>2 DEF CallInv
    <3>2. CASE d # c
      BY <1>1, <2>1, <2>4, <3>2 DEF Approve, Execute, TypeOK
    <3> QED BY <3>1, <3>2
  <2>5. CASE (\E e \in Estimates : Expire(e)) \/ (\E n \in Deposits : Credit(n)) \/ UNCHANGED vars
    BY <2>1, <2>5 DEF Expire, Credit, vars
  <2> QED BY <2>2, <2>3, <2>4, <2>5 DEF Next
<1> QED BY <1>1, <1>2, <1>3 DEF IInv

-----------------------------------------------------------------------------
(* The prepaid account.                                                    *)

\* No amounts add up to zero.
LEMMA ZeroTotal == ASSUME NEW S PROVE IsTotal(0, [x \in S |-> 0])
<1>1. Units([x \in S |-> 0]) = {}
  BY DEF Units
<1> QED
  BY <1>1, FS_EmptySet DEF IsTotal

\* A total is a number.
LEMMA TotalType == ASSUME NEW n, NEW f, IsTotal(n, f) PROVE n \in Nat
  BY FS_CardinalityType DEF IsTotal

\* When one amount changes, the total changes by as much.
LEMMA TotalChanges ==
    ASSUME NEW S, NEW f \in [S -> Nat], NEW n, IsTotal(n, f), NEW x \in S, NEW k \in Nat
    PROVE  IsTotal(n - f[x] + k, [f EXCEPT ![x] = k])
<1> DEFINE g == [f EXCEPT ![x] = k]
           own(m) == {x} \X (1 .. m)
           rest == Units(f) \ own(f[x])
<1>1. ASSUME NEW m \in Nat PROVE IsFiniteSet(own(m)) /\ Cardinality(own(m)) = m
  <2>1. IsFiniteSet({x}) /\ Cardinality({x}) = 1
    BY FS_Singleton
  <2>2. IsFiniteSet(1 .. m) /\ Cardinality(1 .. m) = m
    BY FS_Interval
  <2> QED
    BY <2>1, <2>2, FS_Product
<1>2. own(f[x]) \subseteq Units(f)
  BY DEF Units
<1>3. IsFiniteSet(Units(f)) /\ n = Cardinality(Units(f)) /\ f[x] \in Nat
  BY DEF IsTotal
<1>4. IsFiniteSet(rest) /\ Cardinality(rest) = n - f[x]
  <2>1. Units(f) \cap own(f[x]) = own(f[x])
    BY <1>2
  <2>2. Cardinality(own(f[x])) = f[x]
    BY <1>1, <1>3
  <2> HIDE DEF own
  <2>3. IsFiniteSet(rest) /\ Cardinality(rest) = Cardinality(Units(f)) - Cardinality(Units(f) \cap own(f[x]))
    BY <1>3, FS_Difference
  <2> QED
    BY <2>1, <2>2, <2>3, <1>3
<1>5. rest \cap own(k) = {} /\ Units(g) = rest \union own(k)
  <2>1. ASSUME NEW u PROVE u \in Units(f) <=> \E y \in S : \E i \in 1 .. f[y] : u = <<y, i>>
    BY DEF Units
  <2>2. ASSUME NEW u PROVE u \in Units(g) <=> \E y \in S : \E i \in 1 .. g[y] : u = <<y, i>>
    BY DEF Units
  <2>3. ASSUME NEW u, NEW m PROVE u \in own(m) <=> \E i \in 1 .. m : u = <<x, i>>
    OBVIOUS
  <2>4. g[x] = k /\ \A y \in S \ {x} : g[y] = f[y]
    OBVIOUS
  <2>5. ASSUME NEW u PROVE u \in rest <=> \E y \in S \ {x} : \E i \in 1 .. f[y] : u = <<y, i>>
    <3> HIDE DEF own
    <3> QED BY <2>1, <2>3
  <2> HIDE DEF rest, own, g
  <2>6. rest \cap own(k) = {}
    BY <2>3, <2>5
  <2>7. ASSUME NEW u PROVE u \in Units(g) <=> u \in rest \/ u \in own(k)
    BY <2>2, <2>3, <2>4, <2>5
  <2> QED
    BY <2>6, <2>7
<1>6. IsFiniteSet(own(k)) /\ Cardinality(own(k)) = k
  BY <1>1
<1>7. Cardinality({}) = 0
  BY FS_EmptySet
<1> HIDE DEF rest, own, g
<1>8. IsFiniteSet(Units(g)) /\ Cardinality(Units(g)) = Cardinality(rest) + Cardinality(own(k)) - Cardinality(rest \cap own(k))
  BY <1>4, <1>5, <1>6, FS_Union
<1>9. n \in Nat
  BY TotalType
<1>10. Cardinality(Units(g)) = n - f[x] + k
  BY <1>3, <1>4, <1>5, <1>6, <1>7, <1>8, <1>9
<1> QED
  BY <1>8, <1>10 DEF IsTotal, g

\* An open reservation is of the amount of the estimate.
OpenIsTotal == \A e \in Estimates : hold[e].state = "open" => hold[e].amount = Total

\* A reservation that is made or charged changes the two totals of its state.
LEMMA HoldChanges ==
  ASSUME TypeOK, NEW e \in Estimates,
         NEW new \in [state : {"none", "open", "charged"}, amount : Nat],
         hold' = [hold EXCEPT ![e] = new],
         NEW state, NEW n, IsTotal(n, HeldAs(state))
  PROVE  IsTotal(n - (IF hold[e].state = state THEN hold[e].amount ELSE 0)
                   + (IF new.state = state THEN new.amount ELSE 0), HeldAs(state)')
<1> DEFINE f == HeldAs(state)
           k == IF new.state = state THEN new.amount ELSE 0
<1>1. f \in [Estimates -> Nat] /\ k \in Nat
  BY DEF HeldAs, TypeOK
<1>2. f[e] = IF hold[e].state = state THEN hold[e].amount ELSE 0
  BY DEF HeldAs
<1>3. HeldAs(state)' = [f EXCEPT ![e] = k]
  BY DEF HeldAs, TypeOK
<1> HIDE DEF f, k
<1>4. IsTotal(n - f[e] + k, [f EXCEPT ![e] = k])
  BY <1>1, TotalChanges DEF f
<1> QED BY <1>2, <1>3, <1>4 DEF k

LEMMA AccountInit == Init => OpenIsTotal /\ PrepaidBalanced
<1> SUFFICES ASSUME Init PROVE OpenIsTotal /\ PrepaidBalanced
  OBVIOUS
<1>1. \A e \in Estimates : hold[e] = NoHold
  BY DEF Init
<1>2. OpenIsTotal
  BY <1>1 DEF OpenIsTotal, NoHold
<1>3. /\ HeldAs("open") = [e \in Estimates |-> 0]
      /\ HeldAs("charged") = [e \in Estimates |-> 0]
  BY <1>1 DEF HeldAs, NoHold
<1>4. reserved = 0 /\ credited - available - reserved = 0
  BY DEF Init
<1> QED BY <1>2, <1>3, <1>4, ZeroTotal DEF PrepaidBalanced

LEMMA AccountStep == IInv /\ OpenIsTotal /\ PrepaidBalanced /\ [Next]_vars
                         => OpenIsTotal' /\ PrepaidBalanced'
<1> SUFFICES ASSUME IInv, OpenIsTotal, PrepaidBalanced, [Next]_vars
             PROVE  OpenIsTotal' /\ PrepaidBalanced'
  OBVIOUS
<1> DEFINE spent == credited - available - reserved
<1> USE CloudAssumption
<1>0. /\ TypeOK /\ available \in Nat /\ reserved \in Int /\ credited \in Nat /\ spent \in Int
      /\ \A c \in Calls : CallInv(c) /\ call[c].cost \in Nat
  BY DEF IInv, TypeOK, CallRecord
<1>1. ASSUME UNCHANGED <<hold, reserved>>, credited' - available' = credited - available
      PROVE  OpenIsTotal' /\ PrepaidBalanced'
  <2>1. credited' - available' - reserved' = spent
    BY <1>1
  <2> QED BY <1>1, <2>1 DEF OpenIsTotal, PrepaidBalanced, HeldAs
<1>2. ASSUME NEW c \in Calls, Reserve(c) PROVE OpenIsTotal' /\ PrepaidBalanced'
  <2> DEFINE e == call[c].estimate
             new == [state |-> "open", amount |-> Total]
  <2>1. CASE UNCHANGED <<hold, account>>
    BY <1>1, <2>1 DEF account
  <2>2. CASE ~UNCHANGED <<hold, account>>
    <3>1. /\ hold[e] = NoHold /\ hold' = [hold EXCEPT ![e] = new]
          /\ available' = available - Total /\ reserved' = reserved + Total /\ credited' = credited
      BY <1>2, <2>2 DEF Reserve
    <3>2. e \in Estimates
      BY <1>0, <1>2 DEF Reserve, CallInv, At
    <3>3. /\ new \in [state : {"none", "open", "charged"}, amount : Nat]
          /\ new.state = "open" /\ new.amount = Total /\ hold[e].state = "none"
      BY <3>1 DEF NoHold
    <3> HIDE DEF new, e
    <3>4. OpenIsTotal'
      BY <1>0, <3>1, <3>2, <3>3 DEF OpenIsTotal, TypeOK
    <3>5. /\ IsTotal(reserved - 0 + Total, HeldAs("open")')
          /\ IsTotal(spent - 0 + 0, HeldAs("charged")')
      BY <1>0, <3>1, <3>2, <3>3, HoldChanges DEF PrepaidBalanced
    <3>6. /\ reserved' = reserved - 0 + Total
          /\ credited' - available' - reserved' = spent - 0 + 0
      BY <1>0, <3>1
    <3> QED BY <3>4, <3>5, <3>6 DEF PrepaidBalanced
  <2> QED BY <2>1, <2>2
<1>3. ASSUME NEW c \in Calls, Charge(c) PROVE OpenIsTotal' /\ PrepaidBalanced'
  <2> DEFINE e == call[c].estimate
             n == call[c].cost
             new == [state |-> "charged", amount |-> n]
  <2>1. CASE UNCHANGED <<hold, account>>
    BY <1>1, <2>1 DEF account
  <2>2. CASE ~UNCHANGED <<hold, account>>
    <3>1. /\ hold[e].state = "open" /\ hold' = [hold EXCEPT ![e] = new]
          /\ available' = available + Total - n /\ reserved' = reserved - Total /\ credited' = credited
      BY <1>3, <2>2 DEF Charge
    <3>2. e \in Estimates /\ n \in Nat
      BY <1>0, <1>3 DEF Charge, CallInv, At
    <3>3. /\ new \in [state : {"none", "open", "charged"}, amount : Nat]
          /\ new.state = "charged" /\ new.amount = n
      BY <3>2
    <3>4. hold[e].amount = Total
      BY <3>1, <3>2 DEF OpenIsTotal
    <3> HIDE DEF new, e, n
    <3>5. OpenIsTotal'
      BY <1>0, <3>1, <3>2, <3>3 DEF OpenIsTotal, TypeOK
    <3>6. /\ IsTotal(reserved - Total + 0, HeldAs("open")')
          /\ IsTotal(spent - 0 + n, HeldAs("charged")')
      BY <1>0, <3>1, <3>2, <3>3, <3>4, HoldChanges DEF PrepaidBalanced
    <3>7. /\ reserved' = reserved - Total + 0
          /\ credited' - available' - reserved' = spent - 0 + n
      BY <1>0, <3>1, <3>2
    <3> QED BY <3>5, <3>6, <3>7 DEF PrepaidBalanced
  <2> QED BY <2>1, <2>2
<1>4. ASSUME NEW n \in Deposits, Credit(n) PROVE OpenIsTotal' /\ PrepaidBalanced'
  <2>1. credited' - available' = credited - available
    BY <1>0, <1>4 DEF Credit
  <2> QED BY <1>1, <1>4, <2>1 DEF Credit
<1>5. ASSUME NEW c \in Calls,
             \/ \E e \in Estimates : SaveEstimate(c, e)
             \/ Authorize(c) \/ SaveAuthorized(c) \/ SaveApproval(c)
             \/ Start(c) \/ (\E n \in Costs : Work(c, n))
             \/ ReadUsage(c) \/ RecordUsage(c) \/ SaveReconciled(c) \/ SaveResult(c) \/ Fail(c)
      PROVE  OpenIsTotal' /\ PrepaidBalanced'
  <2>1. UNCHANGED <<hold, account>>
    BY <1>5 DEF SaveEstimate, Authorize, SaveAuthorized, SaveApproval, Start, Work, ReadUsage,
                RecordUsage, SaveReconciled, SaveResult, Fail
  <2> QED BY <1>1, <2>1 DEF account
<1>6. ASSUME NEW c \in Calls,
             \/ \E r \in Runs, k \in Keys : Estimate(c, r, k)
             \/ \E e \in Estimates : Approve(c, e) \/ Execute(c, e)
      PROVE  OpenIsTotal' /\ PrepaidBalanced'
  BY <1>1, <1>6 DEF Estimate, Approve, Execute, account
<1>7. CASE (\E e \in Estimates : Expire(e)) \/ UNCHANGED vars
  BY <1>1, <1>7 DEF Expire, vars, account
<1> QED BY <1>2, <1>3, <1>4, <1>5, <1>6, <1>7 DEF Next, Step

-----------------------------------------------------------------------------

LEMMA Invariance == Spec => []IInv
BY InitInv, Inductive, PTL DEF Spec

\* The variables have their types in every state: the account never owes.
THEOREM TypeCorrect == Spec => []TypeOK
BY Invariance, PTL DEF IInv

\* approve() stores no approval whose estimate has no reservation and no
\* billing record.
THEOREM ApprovedIsReservedHolds == Spec => []ApprovedIsReserved
BY Invariance, PTL DEF IInv, StoreInv

\* reconcile() charges what was recorded as usage, within the approved cost.
THEOREM ChargeIsUsageHolds == Spec => []ChargeIsUsage
BY Invariance, PTL DEF IInv, StoreInv

\* execute() stores results of charged estimates of their run only.
THEOREM ResultsArePaidHolds == Spec => []ResultsArePaid
BY Invariance, PTL DEF IInv, StoreInv

\* What was charged and recorded as usage is never changed.
THEOREM ChargesAreFinal == Spec => [][Growth]_vars
BY Invariance, GrowthStep, PTL DEF Spec

\* The prepaid account adds up: its reserved amount is what open reservations hold,
\* and what was credited is available, reserved or charged.
THEOREM PrepaidBalancedHolds == Spec => []PrepaidBalanced
BY AccountInit, AccountStep, Invariance, PTL DEF Spec
=============================================================================
