------------------------- MODULE UniversalRunProofs -------------------------
(***************************************************************************)
(* Proofs about UniversalRun, for all finite sets of runs and calls, all   *)
(* bounds on attempts and any number of faults.                            *)
(*                                                                         *)
(* The coordinator decides on what it read before, so its invariants say   *)
(* what cannot have changed since: KeyInv for a key between its lookup and *)
(* run.created, FollowInv for the attempt of a run that is not raced, and  *)
(* FirstInv for the one execution that a run has before it is retried.     *)
(***************************************************************************)
EXTENDS UniversalRun, FiniteSetTheorems, TLAPS

AttemptRecord == [number : Nat \ {0}, state : States]
AnswerRecord == {NoAnswer} \union [run : Runs, state : Final]

\* The part of TypeOK that is about one call.
CallType(c) ==
    /\ run[c] = None <=> pc[c] \in {"idle", "creating"}
    /\ run[c] # None => state[run[c]] # "absent"
    /\ pc[c] \in Attempted => attempt[c] \in 1 .. Len(attempts[run[c]])
    /\ pc[c] \in {"finishing", "ending"} => outcome[c] \in Outcomes \union {"cancelled"}
    /\ pc[c] = "retrying" => attempt[c] # 0
    /\ pc[c] = "creating" => key[c] \in Keys

\* One of the attempts of a run has the highest number.
HasLast(r) ==
    attempts[r] # << >> =>
        \E i \in 1 .. Len(attempts[r]) : \A j \in 1 .. Len(attempts[r]) :
            attempts[r][j].number <= attempts[r][i].number

\* The part that is about the store, and the one about the types of the rest.
StoreType ==
    /\ state \in [Runs -> States]
    /\ attempts \in [Runs -> Seq(AttemptRecord)]
    /\ recorded \in [Runs -> States]
    /\ keyOf \in [Runs -> SUBSET Keys]
    /\ delegated \subseteq Runs
    /\ \A r \in Runs : state[r] = "absent" <=> attempts[r] = << >>
    /\ \A r \in Runs : keyOf[r] # {} => state[r] # "absent"
    /\ \A r \in Runs : HasLast(r)

LocalType ==
    /\ controllers \subseteq Runs /\ cancelRequested \subseteq Runs /\ replayers \subseteq Runs
    /\ pc \in [Calls -> Places]
    /\ key \in [Calls -> Keys \union {None}]
    /\ run \in [Calls -> Runs \union {None}]
    /\ attempt \in [Calls -> Nat]
    /\ outcome \in [Calls -> States]
    /\ answer \in AnswerRecord
    /\ faults \in 0 .. MaxFaults
    /\ raced \subseteq Runs \union Keys

LEMMA TypeParts == StoreType /\ LocalType /\ (\A c \in Calls : CallType(c)) => TypeOK
BY DEF TypeOK, StoreType, LocalType, CallType, AttemptRecord, AnswerRecord

\* There is a run ID left for every call that is to create a run.
Creating == {c \in Calls : pc[c] = "creating"}
Absent == {r \in Runs : state[r] = "absent"}
IdsLeft == Cardinality(Creating) <= Cardinality(Absent)

-----------------------------------------------------------------------------
(* What the helpers do.                                                    *)

Locals(c) == <<pc[c], key[c], run[c], attempt[c], outcome[c]>>

LEMMA GoIs ==
  ASSUME LocalType, NEW c \in Calls, NEW l \in Places, Go(c, l)
  PROVE  /\ pc' \in [Calls -> Places] /\ pc'[c] = l
         /\ \A d \in Calls \ {c} : pc'[d] = pc[d]
BY DEF LocalType, Go

LEMMA EndsIs ==
  ASSUME LocalType, NEW c \in Calls, NEW a \in AnswerRecord, Ends(c, a)
  PROVE  /\ pc' \in [Calls -> Places] /\ key' \in [Calls -> Keys \union {None}]
         /\ run' \in [Calls -> Runs \union {None}] /\ attempt' \in [Calls -> Nat]
         /\ outcome' \in [Calls -> States] /\ answer' = a
         /\ pc'[c] = "idle" /\ run'[c] = None
         /\ \A d \in Calls \ {c} : Locals(d)' = Locals(d)
<1>1. pc' \in [Calls -> Places] /\ pc'[c] = "idle" /\ \A d \in Calls \ {c} : pc'[d] = pc[d]
  BY GoIs DEF Ends, Places
<1>2. /\ key' \in [Calls -> Keys \union {None}] /\ run' \in [Calls -> Runs \union {None}]
      /\ run'[c] = None
      /\ \A d \in Calls \ {c} : key'[d] = key[d] /\ run'[d] = run[d]
  BY DEF LocalType, Ends
<1>3. /\ attempt' \in [Calls -> Nat] /\ outcome' \in [Calls -> States]
      /\ \A d \in Calls \ {c} : attempt'[d] = attempt[d] /\ outcome'[d] = outcome[d]
  BY DEF LocalType, Ends, States
<1> QED BY <1>1, <1>2, <1>3 DEF Ends, Locals

LEMMA AppendStateIs ==
  ASSUME StoreType, NEW r \in Runs, NEW i \in 1 .. Len(attempts[r]), NEW s \in States \ {"absent"},
         AppendState(r, i, s)
  PROVE  /\ state' \in [Runs -> States] /\ attempts' \in [Runs -> Seq(AttemptRecord)]
         /\ state'[r] = s /\ state[r] # "absent"
         /\ Len(attempts'[r]) = Len(attempts[r]) /\ attempts'[r] # << >>
         /\ attempts'[r][i].state = s
         /\ \A j \in 1 .. Len(attempts[r]) : attempts'[r][j].number = attempts[r][j].number
         /\ \A q \in Runs \ {r} : state'[q] = state[q] /\ attempts'[q] = attempts[q]
         /\ \A q \in Runs : HasLast(q)'
<1>1. attempts[r] \in Seq(AttemptRecord) /\ attempts[r][i] \in AttemptRecord
  BY DEF StoreType
<1> DEFINE b == [attempts[r][i] EXCEPT !.state = s]
           x == [attempts[r] EXCEPT ![i] = b]
<1>2. b \in AttemptRecord /\ b.state = s /\ b.number = attempts[r][i].number
  BY <1>1 DEF AttemptRecord
<1>3. attempts' = [attempts EXCEPT ![r] = x]
  BY DEF AppendState
<1> HIDE DEF b
<1>4. /\ x \in Seq(AttemptRecord) /\ Len(x) = Len(attempts[r]) /\ x[i] = b
      /\ \A j \in 1 .. Len(attempts[r]) : j # i => x[j] = attempts[r][j]
  BY <1>1, <1>2
<1>5. Len(x) # 0 /\ x # << >> /\ attempts[r] # << >>
  BY <1>1, <1>4
<1> HIDE DEF x
<1>6. /\ attempts' \in [Runs -> Seq(AttemptRecord)] /\ attempts'[r] = x
      /\ \A q \in Runs \ {r} : attempts'[q] = attempts[q]
  BY <1>3, <1>4 DEF StoreType
<1>7. /\ state' \in [Runs -> States] /\ state'[r] = s /\ state[r] # "absent"
      /\ \A q \in Runs \ {r} : state'[q] = state[q]
  BY <1>5 DEF StoreType, AppendState
<1>8. ASSUME NEW j \in 1 .. Len(attempts[r])
      PROVE  attempts'[r][j].number = attempts[r][j].number
  BY <1>2, <1>4, <1>6
<1>9. ASSUME NEW q \in Runs PROVE HasLast(q)'
  <2>1. HasLast(q)
    BY DEF StoreType
  <2>2. CASE q = r
    <3>1. Len(attempts'[r]) = Len(attempts[r])
      BY <1>4, <1>6
    <3>2. PICK k \in 1 .. Len(attempts[r]) : \A j \in 1 .. Len(attempts[r]) :
              attempts[r][j].number <= attempts[r][k].number
      BY <1>5, <2>1, <2>2 DEF HasLast
    <3>3. \A j \in 1 .. Len(attempts[r]) : attempts'[r][j].number <= attempts'[r][k].number
      BY <1>8, <3>2
    <3> QED BY <2>2, <3>1, <3>3 DEF HasLast
  <2>3. CASE q # r
    BY <1>6, <2>1, <2>3 DEF HasLast
  <2> QED BY <2>2, <2>3
<1> QED BY <1>2, <1>4, <1>5, <1>6, <1>7, <1>8, <1>9

LEMMA NewAttemptIs ==
  ASSUME StoreType, NEW r \in Runs, NEW n \in Nat \ {0}, NewAttempt(r, n)
  PROVE  /\ state' \in [Runs -> States] /\ attempts' \in [Runs -> Seq(AttemptRecord)]
         /\ state'[r] = "queued"
         /\ Len(attempts'[r]) = Len(attempts[r]) + 1 /\ attempts'[r] # << >>
         /\ attempts'[r][Len(attempts'[r])] = [number |-> n, state |-> "queued"]
         /\ \A j \in 1 .. Len(attempts[r]) : attempts'[r][j] = attempts[r][j]
         /\ \A q \in Runs \ {r} : state'[q] = state[q] /\ attempts'[q] = attempts[q]
         /\ \A q \in Runs : HasLast(q)'
         /\ delegated' \subseteq Runs
<1> DEFINE b == [number |-> n, state |-> "queued"]
           x == Append(attempts[r], b)
<1>1. b \in AttemptRecord /\ attempts[r] \in Seq(AttemptRecord)
  BY DEF StoreType, AttemptRecord, States
<1>2. attempts' = [attempts EXCEPT ![r] = x]
  BY DEF NewAttempt
<1> HIDE DEF b
<1>3. /\ x \in Seq(AttemptRecord) /\ Len(x) = Len(attempts[r]) + 1 /\ x[Len(x)] = b
      /\ \A j \in 1 .. Len(attempts[r]) : x[j] = attempts[r][j]
      /\ x # << >>
  BY <1>1
<1> HIDE DEF x
<1>4. /\ attempts' \in [Runs -> Seq(AttemptRecord)] /\ attempts'[r] = x
      /\ \A q \in Runs \ {r} : attempts'[q] = attempts[q]
  BY <1>2, <1>3 DEF StoreType
<1>5. /\ state' \in [Runs -> States] /\ state'[r] = "queued"
      /\ \A q \in Runs \ {r} : state'[q] = state[q]
  BY DEF StoreType, NewAttempt, States
<1>6. b.number = n /\ Len(attempts[r]) \in Nat
  BY <1>1 DEF b
<1>7. ASSUME NEW q \in Runs PROVE HasLast(q)'
  <2>1. HasLast(q)
    BY DEF StoreType
  <2> DEFINE m == Len(attempts[r])
  <2>2. CASE q = r /\ attempts[r] = << >>
    <3>1. Len(attempts'[r]) = 1
      BY <1>3, <1>4, <2>2
    <3>a. attempts'[r] = x /\ x[1] = b
      BY <1>3, <1>4, <3>1
    <3>2. attempts'[r][1].number = n /\ n <= n
      BY <1>6, <3>a
    <3>3. 1 \in 1 .. 1 /\ \A j \in 1 .. 1 : j = 1
      OBVIOUS
    <3> QED BY <2>2, <3>1, <3>2, <3>3 DEF HasLast
  <2>3. CASE q = r /\ attempts[r] # << >>
    <3>1. PICK i \in 1 .. m : \A j \in 1 .. m : attempts[r][j].number <= attempts[r][i].number
      BY <2>1, <2>3 DEF HasLast
    <3>2. \A j \in 1 .. m : attempts[r][j] \in AttemptRecord
      BY <1>1
    <3>3. \A j \in 1 .. m : attempts[r][j].number \in Nat
      BY <3>2 DEF AttemptRecord
    <3>4. /\ Len(attempts'[r]) = m + 1 /\ attempts'[r][m + 1].number = n
          /\ \A j \in 1 .. m : attempts'[r][j].number = attempts[r][j].number
      BY <1>3, <1>4, <1>6
    <3>5. PICK k \in 1 .. m + 1 : \A j \in 1 .. m + 1 :
              attempts'[r][j].number <= attempts'[r][k].number
      <4>1. m \in Nat /\ (\A j \in 1 .. m + 1 : j \in 1 .. m \/ j = m + 1)
        BY <1>6
      <4>2. CASE attempts[r][i].number <= n
        <5>1. ASSUME NEW j \in 1 .. m
              PROVE  attempts'[r][j].number <= attempts'[r][m + 1].number
          <6>1. /\ attempts[r][j].number \in Nat /\ attempts[r][i].number \in Nat
                /\ attempts[r][j].number <= attempts[r][i].number
            BY <3>1, <3>3
          <6>2. attempts[r][j].number <= n
            BY <4>2, <6>1
          <6> QED BY <3>4, <6>2
        <5>2. m + 1 \in 1 .. m + 1 /\ attempts'[r][m + 1].number <= attempts'[r][m + 1].number
          BY <3>4, <4>1
        <5> QED BY <4>1, <5>1, <5>2
      <4>3. CASE ~(attempts[r][i].number <= n)
        <5>1. attempts'[r][m + 1].number <= attempts'[r][i].number
          BY <3>1, <3>3, <3>4, <4>3
        <5>2. \A j \in 1 .. m : attempts'[r][j].number <= attempts'[r][i].number
          BY <3>1, <3>4
        <5>3. i \in 1 .. m + 1
          BY <4>1
        <5> QED BY <4>1, <5>1, <5>2, <5>3
      <4> QED BY <4>2, <4>3
    <3> QED BY <2>3, <3>4, <3>5 DEF HasLast
  <2>4. CASE q # r
    BY <1>4, <2>1, <2>4 DEF HasLast
  <2> QED BY <2>2, <2>3, <2>4
<1>8. delegated' \subseteq Runs
  BY DEF StoreType, NewAttempt
<1> QED BY <1>3, <1>4, <1>5, <1>6, <1>7, <1>8 DEF b

\* The number of the latest attempt is one of those of the run, and the highest.
LEMMA LastNumberIs ==
  ASSUME StoreType, NEW r \in Runs, state[r] # "absent"
  PROVE  /\ LastNumber(r) \in Nat \ {0}
         /\ \A j \in DOMAIN attempts[r] : attempts[r][j].number <= LastNumber(r)
         /\ \E j \in DOMAIN attempts[r] : attempts[r][j].number = LastNumber(r)
<1>1. attempts[r] \in Seq(AttemptRecord) /\ attempts[r] # << >> /\ HasLast(r)
  BY DEF StoreType
<1>2. DOMAIN attempts[r] = 1 .. Len(attempts[r])
  BY <1>1
<1> DEFINE S == {attempts[r][i].number : i \in DOMAIN attempts[r]}
<1>3. \A i \in DOMAIN attempts[r] : attempts[r][i] \in AttemptRecord
  BY <1>1, <1>2
<1>4. S \subseteq Nat \ {0}
  BY <1>3 DEF AttemptRecord
<1>5. \E x \in S : \A y \in S : x >= y
  <2>1. PICK i \in DOMAIN attempts[r] : \A j \in DOMAIN attempts[r] :
            attempts[r][j].number <= attempts[r][i].number
    BY <1>1, <1>2 DEF HasLast
  <2>2. \A y \in S : attempts[r][i].number >= y
    BY <1>4, <2>1
  <2> QED BY <2>2
<1>6. Max(S) \in S /\ \A y \in S : Max(S) >= y
  BY <1>5 DEF Max
<1>7. LastNumber(r) = Max(S)
  BY DEF LastNumber
<1>8. Max(S) \in Nat \ {0} /\ \A y \in S : y <= Max(S)
  BY <1>4, <1>6
<1> HIDE DEF S
<1>9. \A j \in DOMAIN attempts[r] : attempts[r][j].number \in S
  BY DEF S
<1>10. \E j \in DOMAIN attempts[r] : attempts[r][j].number = Max(S)
  BY <1>6 DEF S
<1> QED BY <1>7, <1>8, <1>9, <1>10

-----------------------------------------------------------------------------
(* The kinds of steps.                                                     *)

Executing == {"created", "running", "finishing", "ending", "failing", "retried"}

OthersSame(c) == \A d \in Calls \ {c} : Locals(d)' = Locals(d)

\* The call ends; an answer is what the call has read.
QuietEnd(c) ==
    /\ UNCHANGED <<store, raced>> /\ OthersSame(c)
    /\ pc'[c] = "idle" /\ run'[c] = None
    /\ \/ answer' = answer
       \/ /\ run[c] # None /\ answer'.run = run[c]
          /\ \/ pc[c] = "replaying" /\ answer'.state = recorded[run[c]]
             \/ pc[c] = "reading" /\ answer'.state = state[run[c]]

\* The call goes on with its operation, or from the result to the run.
QuietMove(c) ==
    /\ UNCHANGED <<store, raced, answer>> /\ OthersSame(c)
    /\ run'[c] = run[c] /\ attempt'[c] = attempt[c] /\ key'[c] = key[c]
    /\ \/ pc[c] \in Executing /\ pc'[c] \in Executing \ {"retried"}
       \/ pc[c] = "replaying" /\ pc'[c] = "reading"

\* The state of the attempt is appended, by the execution or by cancel().
WriteEnd(c, s) ==
    /\ AppendState(run[c], attempt[c], s) /\ s \in States \ {"absent"}
    /\ OthersSame(c) /\ UNCHANGED <<keyOf, raced>>
    /\ pc'[c] = "idle" /\ run'[c] = None
    /\ \/ /\ pc[c] \in {"ending", "failing"}
          /\ \/ recorded' = [recorded EXCEPT ![run[c]] = s]
             \/ key[c] = None /\ UNCHANGED recorded
          /\ answer' = answer \/ answer' = [run |-> run[c], state |-> s]
       \/ /\ pc[c] = "cancelling" /\ s = "cancelled"
          /\ UNCHANGED <<recorded, answer>>

\* A call begins.
Opens(c) ==
    /\ pc[c] = "idle" /\ UNCHANGED <<store, answer>> /\ OthersSame(c)
    /\ \/ \E k \in Keys : Execute(c, k)
       \/ \E r \in Runs : (\E b \in BOOLEAN : Retry(c, r, b)) \/ Cancel(c, r)

\* A call appends an attempt.
Appends(c) ==
    /\ UNCHANGED answer /\ OthersSame(c)
    /\ Create(c) \/ AppendRetry(c)

CallKind(c) ==
    QuietEnd(c) \/ QuietMove(c) \/ (\E s \in States : WriteEnd(c, s)) \/ Opens(c) \/ Appends(c)

CallAction(c) == Begin(c) \/ CallStep(c) \/ ResultRejected(c) \/ FailureRejected(c) \/ Rejected(c)

AnInv(c) == StoreType /\ LocalType /\ CallType(c) /\ c \in Calls

LEMMA EndKind ==
  ASSUME NEW c, AnInv(c), NEW a \in AnswerRecord, Ends(c, a)
  PROVE  /\ controllers' \subseteq controllers /\ cancelRequested' \subseteq cancelRequested
            /\ replayers' = replayers /\ faults' \in 0 .. MaxFaults /\ raced' = raced => LocalType'
         /\ CallType(c)'
         /\ OthersSame(c) /\ pc'[c] = "idle" /\ run'[c] = None /\ answer' = a
<1>1. /\ pc' \in [Calls -> Places] /\ key' \in [Calls -> Keys \union {None}]
      /\ run' \in [Calls -> Runs \union {None}] /\ attempt' \in [Calls -> Nat]
      /\ outcome' \in [Calls -> States] /\ answer' = a
      /\ pc'[c] = "idle" /\ run'[c] = None
      /\ \A d \in Calls \ {c} : Locals(d)' = Locals(d)
  BY EndsIs DEF AnInv
<1>2. CallType(c)'
  BY <1>1 DEF CallType, Attempted
<1> QED BY <1>1, <1>2 DEF AnInv, LocalType, OthersSame

\* An answer is kept when it tells of a success or a failure.
LEMMA AnswersIs ==
  ASSUME NEW c, AnInv(c), run[c] \in Runs, NEW s \in States, Answers(c, s)
  PROVE  \E a \in AnswerRecord : /\ Ends(c, a)
                                 /\ a = answer \/ (s \in Final /\ a = [run |-> run[c], state |-> s])
<1>1. answer \in AnswerRecord
  BY DEF AnInv, LocalType
<1>2. CASE s \in Final
  <2>1. [run |-> run[c], state |-> s] \in AnswerRecord
    BY <1>2 DEF AnswerRecord
  <2> QED BY <1>2, <2>1 DEF Answers
<1>3. CASE s \notin Final
  BY <1>1, <1>3 DEF Answers
<1> QED BY <1>2, <1>3

LEMMA RunOfCall ==
  ASSUME NEW c, AnInv(c), pc[c] \notin {"idle", "creating"}
  PROVE  /\ run[c] \in Runs /\ state[run[c]] \in States \ {"absent"}
         /\ pc[c] \in Attempted => attempt[c] \in 1 .. Len(attempts[run[c]])
BY RunAssumption DEF AnInv, LocalType, StoreType, CallType, AnswerRecord

\* Ends of calls.
LEMMA EndingSteps ==
  ASSUME NEW c, AnInv(c),
         \/ Replay(c) \/ ReplayState(c)
         \/ (\E s \in Outcomes : OperationReturns(c, s)) \/ OperationThrows(c)
         \/ ResultRejected(c) \/ FailureRejected(c) \/ Rejected(c)
  PROVE  /\ QuietEnd(c) \/ QuietMove(c)
         /\ LocalType' /\ CallType(c)' /\ OthersSame(c) /\ UNCHANGED store
<1> USE DEF AnInv
<1>0. faults \in 0 .. MaxFaults /\ (Fault => faults' \in 0 .. MaxFaults) /\ answer \in AnswerRecord
  BY RunAssumption DEF LocalType, Fault
<1>a. ASSUME NEW l \in Places, Go(c, l)
      PROVE  /\ pc' \in [Calls -> Places] /\ pc'[c] = l
             /\ \A d \in Calls \ {c} : pc'[d] = pc[d]
  BY <1>a, GoIs
<1>b. "cancelled" \in States /\ Outcomes \subseteq States
  BY DEF States, Terminal, Final, Outcomes
<1>1. CASE Replay(c)
  <2>1. CASE recorded[run[c]] # "absent"
    <3>1. recorded[run[c]] \in States /\ run[c] \in Runs
      BY <1>1, RunOfCall DEF Replay, StoreType
    <3>2. UNCHANGED <<store, process, faults, raced>> /\ pc[c] = "replaying" /\ run[c] # None
      BY <1>1, <3>1, RunAssumption DEF Replay
    <3>3. PICK a \in AnswerRecord :
              Ends(c, a) /\ (a = answer \/ a = [run |-> run[c], state |-> recorded[run[c]]])
      BY <1>1, <2>1, <3>1, AnswersIs DEF Replay
    <3> QED BY <1>0, <3>2, <3>3, EndKind DEF QuietEnd, process
  <2>2. CASE recorded[run[c]] = "absent"
    <3>1. pc' \in [Calls -> Places] /\ pc'[c] = "reading"
          /\ \A d \in Calls \ {c} : pc'[d] = pc[d]
      BY <1>1, <2>2, <1>a DEF Replay, Places
    <3>2. UNCHANGED <<store, process, key, run, attempt, outcome, answer, faults, raced>>
          /\ pc[c] = "replaying"
      BY <1>1, <2>2 DEF Replay
    <3>3. LocalType' /\ OthersSame(c)
      BY <3>1, <3>2 DEF LocalType, OthersSame, Locals, process
    <3>4. CallType(c)'
      BY <3>1, <3>2 DEF CallType, Attempted, store
    <3> QED BY <3>1, <3>2, <3>3, <3>4 DEF QuietMove
  <2> QED BY <2>1, <2>2
<1>2. CASE ReplayState(c)
  <2>1. run[c] \in Runs /\ state[run[c]] \in States
    BY <1>2, RunOfCall DEF ReplayState
  <2>2. UNCHANGED <<store, process, faults, raced>> /\ pc[c] = "reading" /\ run[c] # None
    BY <1>2, <2>1, RunAssumption DEF ReplayState
  <2>3. PICK a \in AnswerRecord :
            Ends(c, a) /\ (a = answer \/ a = [run |-> run[c], state |-> state[run[c]]])
    BY <1>2, <2>1, AnswersIs DEF ReplayState
  <2> QED BY <1>0, <2>2, <2>3, EndKind DEF QuietEnd, process
<1>3. ASSUME NEW s \in Outcomes, OperationReturns(c, s)
      PROVE  /\ QuietEnd(c) \/ QuietMove(c)
             /\ LocalType' /\ CallType(c)' /\ OthersSame(c) /\ UNCHANGED store
  <2>1. CASE run[c] \in cancelRequested
    <3>1. Ends(c, answer) /\ Cleanup(run[c]) /\ UNCHANGED <<store, faults, raced>>
      BY <1>3, <2>1 DEF OperationReturns, Answers, Final
    <3> QED BY <1>0, <3>1, EndKind DEF QuietEnd, Cleanup
  <2>2. CASE run[c] \notin cancelRequested
    <3>1. /\ pc' \in [Calls -> Places] /\ pc'[c] = "finishing"
          /\ \A d \in Calls \ {c} : pc'[d] = pc[d]
      BY <1>3, <2>2, <1>a DEF OperationReturns, Places
    <3>2. /\ UNCHANGED <<store, process, key, run, attempt, answer, faults, raced>>
          /\ pc[c] = "running" /\ outcome' = [outcome EXCEPT ![c] = s]
      BY <1>3, <2>2 DEF OperationReturns
    <3>3. /\ outcome' \in [Calls -> States] /\ outcome'[c] = s
          /\ \A d \in Calls \ {c} : outcome'[d] = outcome[d]
      BY <1>b, <3>2 DEF LocalType
    <3>4. LocalType' /\ OthersSame(c)
      BY <3>1, <3>2, <3>3 DEF LocalType, OthersSame, Locals, process
    <3>5. CallType(c)'
      BY <3>1, <3>2, <3>3 DEF CallType, Attempted, store
    <3> QED BY <3>1, <3>2, <3>4, <3>5 DEF QuietMove, Executing
  <2> QED BY <2>1, <2>2
<1>4. ASSUME Catch(c), pc[c] \in {"running", "finishing", "ending"}, faults' \in 0 .. MaxFaults
      PROVE  /\ QuietEnd(c) \/ QuietMove(c)
             /\ LocalType' /\ CallType(c)' /\ OthersSame(c) /\ UNCHANGED store
  <2>1. CASE run[c] \in cancelRequested
    <3>1. Ends(c, answer) /\ Cleanup(run[c]) /\ UNCHANGED <<store, raced>>
      BY <1>4, <2>1 DEF Catch, Answers, Final
    <3> QED BY <1>0, <1>4, <3>1, EndKind DEF QuietEnd, Cleanup
  <2>2. CASE run[c] \notin cancelRequested
    <3>1. /\ pc' \in [Calls -> Places] /\ pc'[c] = "failing"
          /\ \A d \in Calls \ {c} : pc'[d] = pc[d]
      BY <1>4, <2>2, <1>a DEF Catch, Places
    <3>2. UNCHANGED <<store, process, key, run, attempt, outcome, answer, raced>>
      BY <1>4, <2>2 DEF Catch
    <3>3. LocalType' /\ OthersSame(c)
      BY <1>4, <3>1, <3>2 DEF LocalType, OthersSame, Locals, process
    <3>4. CallType(c)'
      BY <1>4, <3>1, <3>2 DEF CallType, Attempted, store
    <3> QED BY <1>4, <3>1, <3>2, <3>3, <3>4 DEF QuietMove, Executing
  <2> QED BY <2>1, <2>2
<1>5. CASE OperationThrows(c)
  BY <1>0, <1>4, <1>5 DEF OperationThrows
<1>6. CASE ResultRejected(c)
  BY <1>0, <1>4, <1>6 DEF ResultRejected
<1>7. CASE FailureRejected(c)
  BY <1>0, <1>7, EndKind DEF FailureRejected, Throws, QuietEnd, Cleanup
<1>8. CASE Rejected(c)
  BY <1>0, <1>8, EndKind DEF Rejected, Throws, QuietEnd, process
<1> QED BY <1>1, <1>2, <1>3, <1>5, <1>6, <1>7, <1>8

\* Steps within a call.
LEMMA MovingSteps ==
  ASSUME NEW c, AnInv(c), Start(c) \/ StartRetry(c) \/ ReadCurrent(c)
  PROVE  /\ QuietMove(c)
         /\ LocalType' /\ CallType(c)' /\ OthersSame(c) /\ UNCHANGED store
<1> USE DEF AnInv
<1>1. PICK l \in {"running", "ending"} : Go(c, l) /\ (l = "ending" <=> ReadCurrent(c))
  BY DEF Start, StartRetry, ReadCurrent
<1>2. /\ pc' \in [Calls -> Places] /\ pc'[c] = l
      /\ \A d \in Calls \ {c} : pc'[d] = pc[d]
  BY <1>1, GoIs DEF Places
<1>3. pc[c] \in Executing /\ run[c] \in Runs
  BY RunOfCall DEF Start, StartRetry, ReadCurrent, Executing
<1>4. CASE Start(c) \/ StartRetry(c)
  <2>1. UNCHANGED <<store, key, run, attempt, outcome, answer, faults, raced>>
        /\ l = "running" /\ pc[c] \in Attempted
    BY <1>4, <1>1 DEF Start, StartRetry, ReadCurrent, Attempted
  <2>2. controllers' \subseteq Runs /\ cancelRequested' \subseteq Runs /\ replayers' \subseteq Runs
    BY <1>3, <1>4 DEF Start, StartRetry, LocalType
  <2>3. LocalType' /\ OthersSame(c)
    BY <1>2, <2>1, <2>2 DEF LocalType, OthersSame, Locals
  <2>4. CallType(c)'
    BY <1>2, <1>3, <2>1 DEF CallType, Executing, Attempted, store
  <2> QED BY <1>2, <1>3, <2>1, <2>3, <2>4 DEF QuietMove, Executing
<1>5. CASE ReadCurrent(c)
  <2>1. /\ UNCHANGED <<store, process, key, run, attempt, answer, faults, raced>>
        /\ l = "ending" /\ pc[c] = "finishing"
        /\ outcome' = outcome \/ outcome' = [outcome EXCEPT ![c] = "cancelled"]
    BY <1>5, <1>1 DEF ReadCurrent
  <2>2. /\ outcome' \in [Calls -> States] /\ outcome'[c] \in {outcome[c], "cancelled"}
        /\ \A d \in Calls \ {c} : outcome'[d] = outcome[d]
    BY <2>1 DEF LocalType, States, Terminal, Final
  <2>3. LocalType' /\ OthersSame(c)
    BY <1>2, <2>1, <2>2 DEF LocalType, OthersSame, Locals, process
  <2>4. CallType(c)'
    BY <1>2, <1>3, <2>1, <2>2 DEF CallType, Attempted, store
  <2> QED BY <1>2, <1>3, <2>1, <2>3, <2>4 DEF QuietMove, Executing
<1> QED BY <1>4, <1>5

\* Beginnings of calls.
LEMMA OpeningSteps ==
  ASSUME NEW c, AnInv(c), Begin(c)
  PROVE  Opens(c) /\ LocalType' /\ CallType(c)' /\ OthersSame(c) /\ UNCHANGED store
<1> USE DEF AnInv
<1>a. ASSUME NEW l \in Places, Go(c, l)
      PROVE  /\ pc' \in [Calls -> Places] /\ pc'[c] = l
             /\ \A d \in Calls \ {c} : pc'[d] = pc[d]
  BY <1>a, GoIs
<1>1. ASSUME NEW k \in Keys, Execute(c, k)
      PROVE  Opens(c) /\ LocalType' /\ CallType(c)' /\ OthersSame(c) /\ UNCHANGED store
  <2>0. pc[c] = "idle" /\ run[c] = None
        /\ UNCHANGED <<store, process, attempt, outcome, answer, faults>>
    BY <1>1 DEF Execute, CallType
  <2>1. CASE KeyedRuns(k) # {}
    <3>1. PICK r \in KeyedRuns(k) : run' = [run EXCEPT ![c] = r]
      BY <1>1, <2>1 DEF Execute
    <3>2. r \in Runs /\ state[r] # "absent" /\ r # None
      BY <3>1, RunAssumption DEF KeyedRuns, StoreType
    <3>3. /\ pc' \in [Calls -> Places] /\ pc'[c] = "replaying"
          /\ \A d \in Calls \ {c} : pc'[d] = pc[d]
          /\ UNCHANGED <<key, raced>>
      BY <1>1, <2>1, <1>a DEF Execute, Places
    <3>4. /\ run' \in [Calls -> Runs \union {None}] /\ run'[c] = r
          /\ \A d \in Calls \ {c} : run'[d] = run[d]
      BY <3>1, <3>2 DEF LocalType
    <3>5. LocalType' /\ OthersSame(c)
      BY <2>0, <3>3, <3>4 DEF LocalType, OthersSame, Locals, process
    <3>6. CallType(c)'
      BY <2>0, <3>2, <3>3, <3>4 DEF CallType, Attempted, store
    <3> QED BY <1>1, <2>0, <3>5, <3>6 DEF Opens
  <2>2. CASE KeyedRuns(k) = {}
    <3>3. /\ pc' \in [Calls -> Places] /\ pc'[c] = "creating"
          /\ \A d \in Calls \ {c} : pc'[d] = pc[d]
          /\ UNCHANGED run
      BY <1>1, <2>2, <1>a DEF Execute, Places
    <3>4. /\ key' \in [Calls -> Keys \union {None}] /\ key'[c] = k
          /\ \A d \in Calls \ {c} : key'[d] = key[d]
          /\ raced' \subseteq Runs \union Keys
      BY <1>1, <2>2 DEF LocalType, Execute
    <3>5. LocalType' /\ OthersSame(c)
      BY <2>0, <3>3, <3>4 DEF LocalType, OthersSame, Locals, process
    <3>6. CallType(c)'
      BY <2>0, <3>3, <3>4 DEF CallType, Attempted, store
    <3> QED BY <1>1, <2>0, <3>5, <3>6 DEF Opens
  <2> QED BY <2>1, <2>2
<1>2. ASSUME NEW r \in Runs, (\E b \in BOOLEAN : Retry(c, r, b)) \/ Cancel(c, r)
      PROVE  Opens(c) /\ LocalType' /\ CallType(c)' /\ OthersSame(c) /\ UNCHANGED store
  <2>0. /\ pc[c] = "idle" /\ state[r] # "absent" /\ r # None
        /\ UNCHANGED <<store, controllers, replayers, key, outcome, answer, faults>>
        /\ run' = [run EXCEPT ![c] = r]
    BY <1>2, RunAssumption DEF Retry, Cancel, Terminal, Final, process
  <2>1. attempts[r] \in Seq(AttemptRecord) /\ attempts[r] # << >>
    BY <2>0 DEF StoreType
  <2>2. Len(attempts[r]) \in Nat \ {0} /\ LastNumber(r) \in Nat
    BY <2>0, <2>1, LastNumberIs
  <2>3. PICK l \in {"retrying", "cancelling"}, n \in Nat \ {0} :
            /\ Go(c, l) /\ attempt' = [attempt EXCEPT ![c] = n]
            /\ l = "cancelling" => n \in 1 .. Len(attempts[r])
    <3>1. CASE \E b \in BOOLEAN : Retry(c, r, b)
      <4>1. Go(c, "retrying") /\ attempt' = [attempt EXCEPT ![c] = LastNumber(r) + 1]
        BY <3>1 DEF Retry
      <4>2. LastNumber(r) + 1 \in Nat \ {0}
        BY <2>2
      <4> QED BY <4>1, <4>2
    <3>2. CASE Cancel(c, r)
      <4>1. Go(c, "cancelling") /\ attempt' = [attempt EXCEPT ![c] = Len(attempts[r])]
        BY <3>2 DEF Cancel
      <4>2. Len(attempts[r]) \in 1 .. Len(attempts[r])
        BY <2>2
      <4> QED BY <2>2, <4>1, <4>2
    <3> QED BY <1>2, <3>1, <3>2
  <2>4. /\ pc' \in [Calls -> Places] /\ pc'[c] = l
        /\ \A d \in Calls \ {c} : pc'[d] = pc[d]
    BY <2>3, GoIs DEF Places
  <2>5. /\ run' \in [Calls -> Runs \union {None}] /\ run'[c] = r
        /\ attempt' \in [Calls -> Nat] /\ attempt'[c] = n
        /\ \A d \in Calls \ {c} : run'[d] = run[d] /\ attempt'[d] = attempt[d]
    BY <2>0, <2>3 DEF LocalType
  <2>6. /\ cancelRequested' \subseteq Runs /\ raced' \subseteq Runs \union Keys
    BY <1>2 DEF Retry, Cancel, LocalType, process
  <2>7. LocalType' /\ OthersSame(c)
    BY <2>0, <2>4, <2>5, <2>6 DEF LocalType, OthersSame, Locals
  <2>8. CallType(c)'
    BY <2>0, <2>3, <2>4, <2>5 DEF CallType, Attempted, store
  <2> QED BY <1>2, <2>0, <2>7, <2>8 DEF Opens
<1> QED BY <1>1, <1>2 DEF Begin

\* Steps that append to the stream.  Runs and their attempts only grow.
Grows ==
    \A r \in Runs : /\ state[r] # "absent" => state'[r] # "absent"
                    /\ Len(attempts'[r]) >= Len(attempts[r])

LEMMA WritingSteps ==
  ASSUME NEW c, AnInv(c), AppendResult(c) \/ AppendFailure(c) \/ AppendCancel(c)
  PROVE  /\ \E s \in States : WriteEnd(c, s)
         /\ StoreType' /\ LocalType' /\ CallType(c)' /\ OthersSame(c) /\ Grows
<1> USE DEF AnInv
<1>1. PICK s \in States \ {"absent"} :
          /\ AppendState(run[c], attempt[c], s)
          /\ \/ AppendResult(c) /\ s = outcome[c]
             \/ AppendFailure(c) /\ s = "failed"
             \/ AppendCancel(c) /\ s = "cancelled"
  <2>1. CASE AppendResult(c)
    <3>1. outcome[c] \in States \ {"absent"}
      BY <2>1 DEF AppendResult, CallType, LocalType, Outcomes, States, Terminal, Final
    <3> QED BY <2>1, <3>1 DEF AppendResult
  <2>2. CASE AppendFailure(c)
    BY <2>2 DEF AppendFailure, States, Terminal, Final
  <2>3. CASE AppendCancel(c)
    BY <2>3 DEF AppendCancel, States, Terminal
  <2> QED BY <2>1, <2>2, <2>3
<1>2. /\ run[c] \in Runs /\ attempt[c] \in 1 .. Len(attempts[run[c]])
  BY RunOfCall DEF AppendResult, AppendFailure, AppendCancel, Attempted
<1>3. PICK a \in AnswerRecord :
          /\ Ends(c, a)
          /\ a = answer \/ a = [run |-> run[c], state |-> s]
          /\ AppendCancel(c) => a = answer
  <2>1. CASE AppendFailure(c)
    BY <2>1 DEF AppendFailure, Throws, LocalType, AppendCancel
  <2>2. CASE AppendResult(c) /\ s = outcome[c]
    BY <1>2, <2>2, AnswersIs DEF AppendResult, AppendCancel
  <2>3. CASE AppendCancel(c) /\ s = "cancelled"
    BY <1>2, <2>3 DEF AppendCancel, Answers, Final, LocalType
  <2> QED BY <1>1, <2>1, <2>2, <2>3
<1>4. /\ controllers' \subseteq controllers /\ cancelRequested' \subseteq cancelRequested
      /\ replayers' = replayers /\ UNCHANGED <<keyOf, faults, raced>>
  BY DEF AppendResult, AppendFailure, AppendCancel, Cleanup, process
<1>5. /\ LocalType' /\ CallType(c)' /\ OthersSame(c)
      /\ pc'[c] = "idle" /\ run'[c] = None /\ answer' = a
  BY <1>3, <1>4, EndKind DEF LocalType
<1>6. /\ state' \in [Runs -> States] /\ attempts' \in [Runs -> Seq(AttemptRecord)]
      /\ state'[run[c]] = s /\ state[run[c]] # "absent"
      /\ Len(attempts'[run[c]]) = Len(attempts[run[c]]) /\ attempts'[run[c]] # << >>
      /\ \A q \in Runs \ {run[c]} : state'[q] = state[q] /\ attempts'[q] = attempts[q]
      /\ \A q \in Runs : HasLast(q)'
  BY <1>1, <1>2, AppendStateIs
<1>7. recorded' = [recorded EXCEPT ![run[c]] = s] \/ UNCHANGED recorded
  BY <1>1 DEF AppendResult, AppendFailure, AppendCancel
<1>8. recorded' \in [Runs -> States]
  BY <1>1, <1>7 DEF StoreType
<1>9. StoreType'
  <2>1. delegated' \subseteq Runs
    BY <1>2 DEF AppendResult, AppendFailure, AppendCancel, Progress, StoreType
  <2> QED BY <1>1, <1>4, <1>6, <1>8, <2>1 DEF StoreType
<1>10. Grows
  <2> SUFFICES ASSUME NEW r \in Runs
               PROVE  /\ state[r] # "absent" => state'[r] # "absent"
                      /\ Len(attempts'[r]) >= Len(attempts[r])
    BY DEF Grows
  <2>1. attempts[r] \in Seq(AttemptRecord)
    BY DEF StoreType
  <2>2. Len(attempts[r]) \in Nat
    BY <2>1
  <2> QED BY <1>6, <2>2
<1>11. WriteEnd(c, s)
  <2>1. \/ /\ pc[c] \in {"ending", "failing"}
           /\ \/ recorded' = [recorded EXCEPT ![run[c]] = s]
              \/ key[c] = None /\ UNCHANGED recorded
        \/ pc[c] = "cancelling" /\ s = "cancelled" /\ UNCHANGED recorded /\ AppendCancel(c)
    BY <1>1 DEF AppendResult, AppendFailure, AppendCancel
  <2> QED BY <1>1, <1>3, <1>4, <1>5, <2>1 DEF WriteEnd
<1> QED BY <1>5, <1>9, <1>10, <1>11

LEMMA AppendingSteps ==
  ASSUME NEW c, AnInv(c), Create(c) \/ AppendRetry(c), pc[c] = "creating" => Absent # {}
  PROVE  /\ Appends(c)
         /\ StoreType' /\ LocalType' /\ CallType(c)' /\ OthersSame(c) /\ Grows
<1> USE DEF AnInv
<1>0. \A q \in Runs : Len(attempts[q]) \in Nat
  <2>1. \A q \in Runs : attempts[q] \in Seq(AttemptRecord)
    BY DEF StoreType
  <2> QED BY <2>1
<1>1. PICK r \in Runs, n \in Nat \ {0} :
          /\ NewAttempt(r, n) /\ r # None
          /\ Go(c, "created") \/ Go(c, "retried")
          /\ attempt' = [attempt EXCEPT ![c] = Len(attempts[r]) + 1]
          /\ run' = [run EXCEPT ![c] = r]
          /\ raced' = raced \/ raced' = raced \union {r}
          /\ Create(c) => keyOf' = [keyOf EXCEPT ![r] = @ \union {key[c]}]
          /\ AppendRetry(c) => keyOf' = keyOf
  <2>1. CASE Create(c)
    <3>1. pc[c] = "creating" /\ NewRun \in Runs
      BY <2>1 DEF Create, NewRun, Absent
    <3>2. PICK r \in Runs :
              /\ NewAttempt(r, 1)
              /\ keyOf' = [keyOf EXCEPT ![r] = @ \union {key[c]}]
              /\ run' = [run EXCEPT ![c] = r]
              /\ attempt' = [attempt EXCEPT ![c] = Len(attempts[r]) + 1]
              /\ raced' = raced \/ raced' = raced \union {r}
      BY <2>1, <3>1 DEF Create, RunIds
    <3>3. r # None /\ ~AppendRetry(c)
      BY <3>1, RunAssumption DEF AppendRetry
    <3>4. Go(c, "created")
      BY <2>1 DEF Create
    <3>5. 1 \in Nat \ {0}
      OBVIOUS
    <3> WITNESS r \in Runs, 1 \in Nat \ {0}
    <3> QED BY <3>2, <3>3, <3>4
  <2>2. CASE AppendRetry(c)
    <3>1. run[c] \in Runs /\ run[c] # None /\ ~Create(c)
      BY <2>2, RunOfCall, RunAssumption DEF AppendRetry, Create
    <3>2. attempt[c] \in Nat \ {0}
      BY <2>2 DEF AppendRetry, CallType, LocalType
    <3>3. run' = [run EXCEPT ![c] = run[c]]
      BY <2>2 DEF AppendRetry, LocalType
    <3> QED BY <2>2, <3>1, <3>2, <3>3 DEF AppendRetry
  <2> QED BY <2>1, <2>2
<1>2. /\ state' \in [Runs -> States] /\ attempts' \in [Runs -> Seq(AttemptRecord)]
      /\ state'[r] = "queued"
      /\ Len(attempts'[r]) = Len(attempts[r]) + 1 /\ attempts'[r] # << >>
      /\ \A q \in Runs \ {r} : state'[q] = state[q] /\ attempts'[q] = attempts[q]
      /\ \A q \in Runs : HasLast(q)'
      /\ delegated' \subseteq Runs
  BY <1>1, NewAttemptIs
<1>3. PICK l \in {"created", "retried"} : Go(c, l)
  BY <1>1
<1>5. /\ pc' \in [Calls -> Places] /\ pc'[c] = l
      /\ \A d \in Calls \ {c} : pc'[d] = pc[d]
  BY <1>3, GoIs DEF Places
<1>6. /\ run' \in [Calls -> Runs \union {None}] /\ run'[c] = r
      /\ attempt' \in [Calls -> Nat] /\ attempt'[c] = Len(attempts'[r])
      /\ \A d \in Calls \ {c} : run'[d] = run[d] /\ attempt'[d] = attempt[d]
  <2>1. Len(attempts[r]) + 1 \in Nat
    BY <1>0
  <2> QED BY <1>1, <1>2, <2>1 DEF LocalType
<1>7. /\ UNCHANGED <<recorded, process, key, outcome, answer, faults>>
      /\ keyOf' \in [Runs -> SUBSET Keys] /\ raced' \subseteq Runs \union Keys
      /\ \A q \in Runs \ {r} : keyOf'[q] = keyOf[q]
  <2>1. UNCHANGED <<recorded, process, key, outcome, answer, faults>>
    BY DEF Create, AppendRetry
  <2>2. raced' \subseteq Runs \union Keys
    BY <1>1 DEF LocalType
  <2>3. CASE Create(c)
    <3>1. key[c] \in Keys /\ keyOf \in [Runs -> SUBSET Keys]
      BY <2>3 DEF Create, CallType, StoreType
    <3>2. keyOf[r] \union {key[c]} \in SUBSET Keys
      BY <3>1
    <3>3. keyOf' = [keyOf EXCEPT ![r] = keyOf[r] \union {key[c]}]
      BY <1>1, <2>3
    <3> QED BY <2>1, <2>2, <3>1, <3>2, <3>3
  <2>4. CASE AppendRetry(c)
    BY <1>1, <2>1, <2>2, <2>4 DEF StoreType
  <2> QED BY <2>3, <2>4
<1>8. LocalType' /\ OthersSame(c)
  BY <1>5, <1>6, <1>7 DEF LocalType, OthersSame, Locals, process
<1>9. StoreType'
  <2>1. \A q \in Runs : keyOf'[q] # {} => state'[q] # "absent"
    BY <1>2, <1>7 DEF StoreType
  <2> QED BY <1>2, <1>7, <2>1 DEF StoreType
<1>10. CallType(c)'
  <2>1. Len(attempts'[r]) \in 1 .. Len(attempts'[r])
    BY <1>0, <1>2
  <2> QED BY <1>1, <1>2, <1>3, <1>5, <1>6, <2>1 DEF CallType, Attempted
<1>11. Grows
  BY <1>0, <1>2 DEF Grows
<1> QED BY <1>7, <1>8, <1>9, <1>10, <1>11 DEF Appends

\* The facts above, of any step of a call.
LEMMA CallKinds ==
  ASSUME NEW c, AnInv(c), CallAction(c), pc[c] = "creating" => Absent # {}
  PROVE  /\ CallKind(c)
         /\ StoreType' /\ LocalType' /\ CallType(c)' /\ OthersSame(c) /\ Grows
<1>1. ASSUME UNCHANGED store PROVE StoreType' /\ Grows
  <2>1. StoreType'
    BY <1>1 DEF AnInv, StoreType, HasLast, store
  <2>2. \A r \in Runs : attempts[r] \in Seq(AttemptRecord)
    BY DEF AnInv, StoreType
  <2>3. \A r \in Runs : Len(attempts[r]) >= Len(attempts[r])
    BY <2>2
  <2> QED BY <1>1, <2>1, <2>3 DEF Grows, store
<1>2. CASE \/ Replay(c) \/ ReplayState(c)
           \/ (\E s \in Outcomes : OperationReturns(c, s)) \/ OperationThrows(c)
           \/ ResultRejected(c) \/ FailureRejected(c) \/ Rejected(c)
  BY <1>1, <1>2, EndingSteps DEF CallKind
<1>3. CASE Start(c) \/ StartRetry(c) \/ ReadCurrent(c)
  BY <1>1, <1>3, MovingSteps DEF CallKind
<1>4. CASE Begin(c)
  BY <1>1, <1>4, OpeningSteps DEF CallKind
<1>5. CASE AppendResult(c) \/ AppendFailure(c) \/ AppendCancel(c)
  BY <1>5, WritingSteps DEF CallKind
<1>6. CASE Create(c) \/ AppendRetry(c)
  BY <1>6, AppendingSteps DEF CallKind
<1> QED BY <1>2, <1>3, <1>4, <1>5, <1>6 DEF CallAction, CallStep

LEMMA SameLocals ==
  ASSUME NEW c, OthersSame(c), NEW d \in Calls \ {c}
  PROVE  pc'[d] = pc[d] /\ key'[d] = key[d] /\ run'[d] = run[d] /\ attempt'[d] = attempt[d]
         /\ outcome'[d] = outcome[d]
BY DEF OthersSame, Locals

-----------------------------------------------------------------------------
(* Types.                                                                  *)

TypeInv == StoreType /\ LocalType /\ (\A c \in Calls : CallType(c)) /\ IdsLeft

LEMMA Finite == IsFiniteSet(Creating) /\ IsFiniteSet(Absent)
                /\ Cardinality(Creating) \in Nat /\ Cardinality(Absent) \in Nat
<1>1. Creating \in SUBSET Calls /\ Absent \in SUBSET Runs
  BY DEF Creating, Absent
<1> QED BY <1>1, RunAssumption, FS_Subset, FS_CardinalityType

LEMMA AnIdIsLeft ==
  ASSUME IdsLeft, NEW c \in Calls, pc[c] = "creating"
  PROVE  Absent # {}
<1>1. c \in Creating
  BY DEF Creating
<1>2. Cardinality(Creating) # 0
  BY <1>1, Finite, FS_EmptySet
<1> QED BY <1>2, Finite, FS_EmptySet DEF IdsLeft

\* Sets that do not grow, and do not shrink.
LEMMA IdsKept ==
  ASSUME IdsLeft, Creating' \subseteq Creating, Absent' = Absent
  PROVE  IdsLeft'
<1>1. Creating' \in SUBSET Creating
  OBVIOUS
<1>2. IsFiniteSet(Creating') /\ Cardinality(Creating') <= Cardinality(Creating)
  BY <1>1, Finite, FS_Subset
<1>3. Cardinality(Creating') \in Nat
  BY <1>2, FS_CardinalityType
<1>4. Cardinality(Creating') <= Cardinality(Absent)
  BY <1>2, <1>3, Finite DEF IdsLeft
<1> QED BY <1>4 DEF IdsLeft, Creating, Absent

\* A run is created, or created once more.
CreatedAt(c, r) ==
    /\ pc[c] = "creating" /\ key[c] \in Keys
    /\ pc'[c] = "created" /\ run'[c] = r /\ attempt'[c] = Len(attempts[r]) + 1
    /\ key'[c] = key[c]
    /\ state'[r] = "queued" /\ keyOf'[r] = keyOf[r] \union {key[c]}
    /\ Len(attempts[r]) \in Nat /\ (state[r] = "absent" <=> Len(attempts[r]) = 0)
    /\ Len(attempts'[r]) = Len(attempts[r]) + 1
    /\ attempts'[r][Len(attempts'[r])] = [number |-> 1, state |-> "queued"]
    /\ \A q \in Runs \ {r} :
           state'[q] = state[q] /\ attempts'[q] = attempts[q] /\ keyOf'[q] = keyOf[q]
    /\ raced' = IF state[r] = "absent" THEN raced ELSE raced \union {r}
    /\ UNCHANGED <<recorded, answer>>

LEMMA CreateIs ==
  ASSUME TypeInv, NEW c \in Calls, Create(c)
  PROVE  \E r \in Runs : CreatedAt(c, r)
<1>1. StoreType /\ LocalType /\ CallType(c)
  BY DEF TypeInv
<1>2. pc[c] = "creating" /\ NewRun \in Runs /\ key[c] \in Keys
  BY <1>1, AnIdIsLeft DEF TypeInv, Create, NewRun, Absent, CallType
<1>3. PICK r \in Runs :
          /\ NewAttempt(r, 1)
          /\ keyOf' = [keyOf EXCEPT ![r] = @ \union {key[c]}]
          /\ run' = [run EXCEPT ![c] = r]
          /\ attempt' = [attempt EXCEPT ![c] = Len(attempts[r]) + 1]
          /\ raced' = IF state[r] = "absent" THEN raced ELSE raced \union {r}
  BY <1>2 DEF Create, RunIds
<1>4. /\ state'[r] = "queued"
      /\ Len(attempts'[r]) = Len(attempts[r]) + 1
      /\ attempts'[r][Len(attempts'[r])] = [number |-> 1, state |-> "queued"]
      /\ \A q \in Runs \ {r} : state'[q] = state[q] /\ attempts'[q] = attempts[q]
  BY <1>1, <1>3, NewAttemptIs
<1>5. Len(attempts[r]) \in Nat /\ (state[r] = "absent" <=> Len(attempts[r]) = 0)
  <2>1. attempts[r] \in Seq(AttemptRecord) /\ (state[r] = "absent" <=> attempts[r] = << >>)
    BY <1>1 DEF StoreType
  <2> QED BY <2>1
<1>6. /\ pc'[c] = "created" /\ run'[c] = r /\ attempt'[c] = Len(attempts[r]) + 1
      /\ key'[c] = key[c] /\ UNCHANGED <<recorded, answer>>
  BY <1>1, <1>3 DEF Create, Go, LocalType
<1>7. /\ keyOf'[r] = keyOf[r] \union {key[c]}
      /\ \A q \in Runs \ {r} : keyOf'[q] = keyOf[q]
  BY <1>1, <1>3 DEF StoreType
<1> QED BY <1>2, <1>3, <1>4, <1>5, <1>6, <1>7 DEF CreatedAt

LEMMA IdsStep ==
  ASSUME TypeInv, NEW c \in Calls, CallAction(c), CallKind(c), OthersSame(c)
  PROVE  IdsLeft'
<1>0. StoreType /\ LocalType /\ CallType(c) /\ IdsLeft
  BY DEF TypeInv
<1>a. \A d \in Calls \ {c} : pc'[d] = pc[d]
  BY SameLocals
<1>b. ASSUME pc'[c] # "creating", UNCHANGED state PROVE IdsLeft'
  <2>1. Creating' \subseteq Creating
    BY <1>a, <1>b DEF Creating
  <2>2. Absent' = Absent
    BY <1>b DEF Absent
  <2> QED BY <1>0, <2>1, <2>2, IdsKept
<1>1. CASE QuietEnd(c) \/ QuietMove(c)
  BY <1>b, <1>1 DEF QuietEnd, QuietMove, store, Executing
<1>2. ASSUME NEW s \in States, WriteEnd(c, s) PROVE IdsLeft'
  <2>1. pc'[c] # "creating"
    BY <1>2 DEF WriteEnd
  <2>2. Creating' \subseteq Creating
    BY <1>a, <2>1 DEF Creating
  <2>3. run[c] \in Runs /\ attempt[c] \in 1 .. Len(attempts[run[c]])
    BY <1>0, <1>2, RunOfCall DEF WriteEnd, AnInv, Attempted
  <2>4. /\ state'[run[c]] = s /\ state[run[c]] # "absent" /\ s # "absent"
        /\ \A q \in Runs \ {run[c]} : state'[q] = state[q]
    BY <1>0, <1>2, <2>3, AppendStateIs DEF WriteEnd
  <2>5. Absent' = Absent
    BY <2>4 DEF Absent
  <2> QED BY <1>0, <2>2, <2>5, IdsKept
<1>3. CASE Opens(c)
  <2>1. CASE \E r \in Runs : (\E b \in BOOLEAN : Retry(c, r, b)) \/ Cancel(c, r)
    <3>1. pc'[c] # "creating" /\ UNCHANGED state
      BY <1>0, <2>1 DEF Retry, Cancel, Go, LocalType, store
    <3> QED BY <1>b, <3>1
  <2>2. ASSUME NEW k \in Keys, Execute(c, k) PROVE IdsLeft'
    <3>1. CASE KeyedRuns(k) # {}
      <4>1. pc'[c] # "creating" /\ UNCHANGED state
        BY <1>0, <2>2, <3>1 DEF Execute, Go, LocalType, store
      <4> QED BY <1>b, <4>1
    <3>2. CASE KeyedRuns(k) = {}
      <4>1. /\ Cardinality(Creating) < Cardinality(Absent)
            /\ pc'[c] = "creating" /\ pc[c] # "creating" /\ UNCHANGED state
        BY <1>0, <2>2, <3>2 DEF Execute, RunsLeft, Go, LocalType, store, Creating, Absent
      <4>2. Creating' = Creating \union {c} /\ Absent' = Absent /\ c \notin Creating
        BY <1>a, <4>1 DEF Creating, Absent
      <4>3. Cardinality(Creating \union {c}) = Cardinality(Creating) + 1
        BY <4>2, Finite, FS_AddElement
      <4>4. Cardinality(Creating') <= Cardinality(Absent')
        BY <4>1, <4>2, <4>3, Finite
      <4> QED BY <4>4 DEF IdsLeft, Creating, Absent
    <3> QED BY <3>1, <3>2
  <2> QED BY <1>3, <2>1, <2>2 DEF Opens
<1>4. CASE Appends(c) /\ Create(c)
  <2>1. PICK r \in Runs : CreatedAt(c, r)
    BY <1>4, CreateIs
  <2>2. pc[c] = "creating" /\ pc'[c] = "created"
    BY <2>1 DEF CreatedAt
  <2>3. Creating' = Creating \ {c} /\ c \in Creating
    BY <1>a, <2>2 DEF Creating
  <2>4. state'[r] = "queued" /\ \A q \in Runs \ {r} : state'[q] = state[q]
    BY <2>1 DEF CreatedAt
  <2>5. CASE state[r] = "absent"
    <3>1. Absent' = Absent \ {r} /\ r \in Absent
      BY <2>4, <2>5 DEF Absent
    <3>2. /\ Cardinality(Creating \ {c}) = Cardinality(Creating) - 1
          /\ Cardinality(Absent \ {r}) = Cardinality(Absent) - 1
      BY <2>3, <3>1, Finite, FS_RemoveElement
    <3>3. Cardinality(Creating') <= Cardinality(Absent')
      BY <1>0, <2>3, <3>1, <3>2, Finite DEF IdsLeft
    <3> QED BY <3>3 DEF IdsLeft, Creating, Absent
  <2>6. CASE state[r] # "absent"
    <3>1. Absent' = Absent
      BY <2>4, <2>6 DEF Absent
    <3> QED BY <1>0, <2>3, <3>1, IdsKept
  <2> QED BY <2>5, <2>6
<1>5. CASE Appends(c) /\ AppendRetry(c)
  <2>1. pc'[c] = "retried" /\ run[c] \in Runs /\ state[run[c]] # "absent"
    BY <1>0, <1>5, RunOfCall DEF AppendRetry, Go, LocalType, AnInv
  <2>2. Creating' \subseteq Creating
    BY <1>a, <2>1 DEF Creating
  <2>3. Absent' = Absent
    BY <1>0, <1>5, <2>1 DEF AppendRetry, NewAttempt, StoreType, Absent
  <2> QED BY <1>0, <2>2, <2>3, IdsKept
<1> QED BY <1>1, <1>2, <1>3, <1>4, <1>5 DEF CallKind, Appends

LEMMA TypeStep ==
  ASSUME TypeInv, NEW c \in Calls, CallAction(c)
  PROVE  TypeInv' /\ CallKind(c) /\ OthersSame(c) /\ Grows
<1>1. /\ CallKind(c)
      /\ StoreType' /\ LocalType' /\ CallType(c)' /\ OthersSame(c) /\ Grows
  BY CallKinds, AnIdIsLeft DEF TypeInv, AnInv
<1>2. ASSUME NEW d \in Calls \ {c} PROVE CallType(d)'
  <2>1. CallType(d) /\ run[d] \in Runs \union {None}
    BY DEF TypeInv, LocalType
  <2>2. pc'[d] = pc[d] /\ run'[d] = run[d] /\ attempt'[d] = attempt[d] /\ outcome'[d] = outcome[d]
        /\ key'[d] = key[d]
    BY <1>1, SameLocals
  <2>3. pc[d] \in Attempted => attempt[d] \in 1 .. Len(attempts'[run[d]])
    <3> SUFFICES ASSUME pc[d] \in Attempted
                 PROVE  attempt[d] \in 1 .. Len(attempts'[run[d]])
      OBVIOUS
    <3>1. run[d] \in Runs /\ attempt[d] \in 1 .. Len(attempts[run[d]])
      BY <2>1 DEF CallType, Attempted
    <3>2. attempts[run[d]] \in Seq(AttemptRecord) /\ attempts'[run[d]] \in Seq(AttemptRecord)
      BY <1>1, <3>1 DEF TypeInv, StoreType
    <3>3. Len(attempts[run[d]]) \in Nat /\ Len(attempts'[run[d]]) \in Nat
      BY <3>2
    <3>4. Len(attempts'[run[d]]) >= Len(attempts[run[d]])
      BY <1>1, <3>1 DEF Grows
    <3> QED BY <3>1, <3>3, <3>4
  <2>4. run[d] # None => state'[run[d]] # "absent"
    BY <1>1, <2>1 DEF CallType, Grows
  <2> QED BY <2>1, <2>2, <2>3, <2>4 DEF CallType
<1>3. IdsLeft'
  BY <1>1, IdsStep
<1> QED BY <1>1, <1>2, <1>3 DEF TypeInv

\* What a step that appends does to the run of its call.
LEMMA WriteIs ==
  ASSUME TypeInv, NEW c \in Calls, NEW s \in States, WriteEnd(c, s)
  PROVE  /\ run[c] \in Runs /\ attempt[c] \in 1 .. Len(attempts[run[c]])
         /\ state'[run[c]] = s /\ state[run[c]] # "absent" /\ s # "absent"
         /\ Len(attempts'[run[c]]) = Len(attempts[run[c]])
         /\ attempts'[run[c]][attempt[c]].state = s
         /\ \A j \in 1 .. Len(attempts[run[c]]) :
                attempts'[run[c]][j].number = attempts[run[c]][j].number
         /\ \A q \in Runs \ {run[c]} : state'[q] = state[q] /\ attempts'[q] = attempts[q]
<1>1. StoreType /\ LocalType /\ CallType(c)
  BY DEF TypeInv
<1>2. run[c] \in Runs /\ attempt[c] \in 1 .. Len(attempts[run[c]])
  BY <1>1, RunOfCall DEF WriteEnd, AnInv, Attempted
<1> QED BY <1>1, <1>2, AppendStateIs DEF WriteEnd

LEMMA AppendRetryIs ==
  ASSUME TypeInv, NEW c \in Calls, AppendRetry(c)
  PROVE  /\ pc[c] = "retrying" /\ run[c] \in Runs /\ state[run[c]] # "absent"
         /\ Len(attempts[run[c]]) \in Nat \ {0}
         /\ pc'[c] = "retried" /\ run'[c] = run[c]
         /\ attempt'[c] = Len(attempts[run[c]]) + 1
         /\ state'[run[c]] = "queued"
         /\ Len(attempts'[run[c]]) = Len(attempts[run[c]]) + 1
         /\ attempts'[run[c]][Len(attempts'[run[c]])] = [number |-> attempt[c], state |-> "queued"]
         /\ \A j \in 1 .. Len(attempts[run[c]]) : attempts'[run[c]][j] = attempts[run[c]][j]
         /\ \A q \in Runs \ {run[c]} : state'[q] = state[q] /\ attempts'[q] = attempts[q]
         /\ UNCHANGED <<recorded, keyOf, raced>>
<1>1. StoreType /\ LocalType /\ CallType(c)
  BY DEF TypeInv
<1>2. pc[c] = "retrying" /\ run[c] \in Runs /\ state[run[c]] # "absent" /\ attempt[c] \in Nat \ {0}
  BY <1>1, RunOfCall DEF AppendRetry, AnInv, CallType, LocalType
<1>3. attempts[run[c]] \in Seq(AttemptRecord) /\ attempts[run[c]] # << >>
  BY <1>1, <1>2 DEF StoreType
<1>4. Len(attempts[run[c]]) \in Nat \ {0}
  BY <1>3
<1>5. /\ state'[run[c]] = "queued"
      /\ Len(attempts'[run[c]]) = Len(attempts[run[c]]) + 1
      /\ attempts'[run[c]][Len(attempts'[run[c]])] = [number |-> attempt[c], state |-> "queued"]
      /\ \A j \in 1 .. Len(attempts[run[c]]) : attempts'[run[c]][j] = attempts[run[c]][j]
      /\ \A q \in Runs \ {run[c]} : state'[q] = state[q] /\ attempts'[q] = attempts[q]
  BY <1>1, <1>2, NewAttemptIs DEF AppendRetry
<1>6. pc'[c] = "retried" /\ run'[c] = run[c] /\ attempt'[c] = Len(attempts[run[c]]) + 1
      /\ UNCHANGED <<recorded, keyOf, raced>>
  BY <1>1 DEF AppendRetry, Go, LocalType
<1> QED BY <1>2, <1>4, <1>5, <1>6

-----------------------------------------------------------------------------
(* Keys.                                                                   *)

KeyInv ==
    /\ \A c \in Calls : pc[c] = "creating" =>
           /\ key[c] \in Keys
           /\ KeyedRuns(key[c]) # {} => key[c] \in raced
           /\ \A e \in Calls \ {c} : pc[e] = "creating" /\ key[e] = key[c] => key[c] \in raced
    /\ OneRunPerKey

\* Runs keep their keys, and a call that creates no run leaves them alone.
LEMMA KeyStep ==
  ASSUME TypeInv, KeyInv, NEW c \in Calls, CallAction(c), CallKind(c), OthersSame(c)
  PROVE  KeyInv'
<1>0. StoreType /\ LocalType /\ CallType(c)
  BY DEF TypeInv
<1>a. ASSUME NEW d \in Calls \ {c} PROVE pc'[d] = pc[d] /\ key'[d] = key[d]
  BY SameLocals
<1>b. ASSUME pc'[c] # "creating", \A k \in Keys : KeyedRuns(k)' = KeyedRuns(k),
             raced \subseteq raced'
      PROVE  KeyInv'
  <2>1. OneRunPerKey'
    BY <1>b DEF KeyInv, OneRunPerKey
  <2>2. ASSUME NEW d \in Calls, pc'[d] = "creating"
        PROVE  /\ key'[d] \in Keys
               /\ {r \in Runs : key'[d] \in keyOf'[r]} # {} => key'[d] \in raced'
               /\ \A e \in Calls \ {d} : pc'[e] = "creating" /\ key'[e] = key'[d]
                                             => key'[d] \in raced'
    <3>1. d # c
      BY <1>b, <2>2
    <3>2. pc[d] = "creating" /\ key'[d] = key[d] /\ key[d] \in Keys
      BY <1>a, <2>2, <3>1 DEF KeyInv
    <3>3. {r \in Runs : key[d] \in keyOf'[r]} = KeyedRuns(key[d])
      BY <1>b, <3>2 DEF KeyedRuns
    <3>4. \A e \in Calls \ {d} : pc'[e] = "creating" /\ key'[e] = key'[d]
                                     => pc[e] = "creating" /\ key[e] = key[d]
      BY <1>a, <1>b, <3>2
    <3> QED BY <1>b, <3>2, <3>3, <3>4 DEF KeyInv
  <2> QED BY <2>1, <2>2 DEF KeyInv, KeyedRuns
<1>c. ASSUME UNCHANGED keyOf
      PROVE  \A k \in Keys : KeyedRuns(k)' = KeyedRuns(k)
  BY <1>c DEF KeyedRuns
<1>1. CASE QuietEnd(c) \/ QuietMove(c)
  <2>1. pc'[c] # "creating" /\ UNCHANGED <<keyOf, raced>>
    BY <1>1 DEF QuietEnd, QuietMove, store, Executing
  <2> QED BY <1>b, <1>c, <2>1
<1>2. ASSUME NEW s \in States, WriteEnd(c, s) PROVE KeyInv'
  <2>1. pc'[c] # "creating" /\ UNCHANGED <<keyOf, raced>>
    BY <1>2 DEF WriteEnd
  <2> QED BY <1>b, <1>c, <2>1
<1>3. CASE Opens(c)
  <2>1. CASE \E r \in Runs : (\E b \in BOOLEAN : Retry(c, r, b)) \/ Cancel(c, r)
    <3>1. pc'[c] # "creating" /\ UNCHANGED <<state, keyOf>> /\ raced \subseteq raced'
      BY <1>0, <2>1 DEF Retry, Cancel, Go, LocalType, store
    <3> QED BY <1>b, <1>c, <3>1
  <2>2. ASSUME NEW k \in Keys, Execute(c, k) PROVE KeyInv'
    <3>0. UNCHANGED <<state, keyOf>> /\ \A j \in Keys : KeyedRuns(j)' = KeyedRuns(j)
      BY <2>2, <1>c DEF Execute, store
    <3>1. CASE KeyedRuns(k) # {}
      <4>1. pc'[c] # "creating" /\ UNCHANGED raced
        BY <1>0, <2>2, <3>1 DEF Execute, Go, LocalType
      <4> QED BY <1>b, <3>0, <4>1
    <3>2. CASE KeyedRuns(k) = {}
      <4>1. /\ pc'[c] = "creating" /\ key'[c] = k /\ pc[c] = "idle" /\ raced \subseteq raced'
            /\ (\E e \in Calls : pc[e] = "creating" /\ key[e] = k) => k \in raced'
        BY <1>0, <2>2, <3>2 DEF Execute, Go, LocalType
      <4>2. OneRunPerKey'
        BY <3>0, <4>1 DEF KeyInv, OneRunPerKey
      <4>3. ASSUME NEW d \in Calls, pc'[d] = "creating"
            PROVE  /\ key'[d] \in Keys
                   /\ {r \in Runs : key'[d] \in keyOf'[r]} # {} => key'[d] \in raced'
                   /\ \A e \in Calls \ {d} : pc'[e] = "creating" /\ key'[e] = key'[d]
                                                 => key'[d] \in raced'
        <5>1. CASE d = c
          <6>1. \A e \in Calls \ {d} : pc'[e] = pc[e] /\ key'[e] = key[e]
            BY <1>a, <5>1
          <6> QED BY <3>0, <3>2, <4>1, <5>1, <6>1 DEF KeyedRuns
        <5>2. CASE d # c
          <6>1. pc[d] = "creating" /\ key'[d] = key[d]
            BY <1>a, <4>3, <5>2
          <6>2. \A e \in Calls \ {d} : pc'[e] = "creating" /\ key'[e] = key'[d] =>
                    e = c \/ (pc[e] = "creating" /\ key[e] = key[d])
            BY <1>a, <6>1
          <6>3. key'[c] = key'[d] => key'[d] \in raced'
            BY <4>1, <6>1
          <6> QED BY <3>0, <4>1, <6>1, <6>2, <6>3 DEF KeyInv, KeyedRuns
        <5> QED BY <5>1, <5>2
      <4> QED BY <4>2, <4>3 DEF KeyInv, KeyedRuns
    <3> QED BY <3>1, <3>2
  <2> QED BY <1>3, <2>1, <2>2 DEF Opens
<1>4. CASE Appends(c) /\ Create(c)
  <2>0. PICK n \in Runs : CreatedAt(c, n)
    BY <1>4, CreateIs
  <2>1. /\ pc[c] = "creating" /\ pc'[c] = "created" /\ key'[c] = key[c]
        /\ keyOf'[n] = keyOf[n] \union {key[c]}
        /\ \A q \in Runs \ {n} : keyOf'[q] = keyOf[q]
        /\ raced \subseteq raced' /\ raced' \intersect Keys = raced \intersect Keys
    BY <2>0, RunAssumption DEF CreatedAt
  <2>2. \A r \in Runs, k \in Keys \ {key[c]} : k \in keyOf'[r] <=> k \in keyOf[r]
    BY <2>1
  <2>3. key[c] \notin raced => KeyedRuns(key[c]) = {}
    BY <2>1 DEF KeyInv
  <2>4. OneRunPerKey'
    <3> SUFFICES ASSUME NEW k \in Keys \ raced', NEW r \in Runs, NEW q \in Runs,
                        k \in keyOf'[r], k \in keyOf'[q]
                 PROVE  r = q
      BY DEF OneRunPerKey, KeyedRuns
    <3>0. k \notin raced
      BY <2>1
    <3>1. CASE k = key[c]
      <4>1. \A x \in Runs : k \notin keyOf[x]
        BY <2>3, <3>0, <3>1 DEF KeyedRuns
      <4> QED BY <2>1, <4>1
    <3>2. CASE k # key[c]
      BY <2>2, <3>0, <3>2 DEF KeyInv, OneRunPerKey, KeyedRuns
    <3> QED BY <3>1, <3>2
  <2>5. ASSUME NEW d \in Calls, pc'[d] = "creating"
        PROVE  /\ key'[d] \in Keys
               /\ {r \in Runs : key'[d] \in keyOf'[r]} # {} => key'[d] \in raced'
               /\ \A e \in Calls \ {d} : pc'[e] = "creating" /\ key'[e] = key'[d]
                                             => key'[d] \in raced'
    <3>1. d # c
      BY <2>1, <2>5
    <3>2. pc[d] = "creating" /\ key'[d] = key[d]
      BY <1>a, <2>5, <3>1
    <3>3. \A e \in Calls \ {d} : pc'[e] = "creating" /\ key'[e] = key'[d] =>
              pc[e] = "creating" /\ key[e] = key[d]
      BY <1>a, <2>1, <3>2
    <3>4. key[d] = key[c] => key[d] \in raced
      BY <2>1, <3>1, <3>2 DEF KeyInv
    <3>5. ASSUME key[d] # key[c], NEW r \in Runs, key[d] \in keyOf'[r]
          PROVE  key[d] \in raced
      <4>1. r \in KeyedRuns(key[d])
        BY <2>2, <3>2, <3>5 DEF KeyedRuns, KeyInv
      <4> QED BY <3>2, <4>1 DEF KeyInv
    <3> QED BY <2>1, <3>2, <3>3, <3>4, <3>5 DEF KeyInv
  <2> QED BY <2>4, <2>5 DEF KeyInv, KeyedRuns
<1>5. CASE Appends(c) /\ AppendRetry(c)
  <2>1. pc'[c] # "creating" /\ UNCHANGED <<keyOf, raced>>
    BY <1>5, AppendRetryIs
  <2> QED BY <1>b, <1>c, <2>1
<1> QED BY <1>1, <1>2, <1>3, <1>4, <1>5 DEF CallKind, Appends

-----------------------------------------------------------------------------
(* The latest attempt.                                                     *)

Reading == {"replaying", "reading"}

\* A call that works on a run which is not raced works on its latest attempt;
\* one that is about to retry it is the only one that works on it.
FollowCall(c) ==
    run[c] # None /\ run[c] \notin raced =>
        /\ pc[c] \in Attempted => attempt[c] = Len(attempts[run[c]])
        /\ pc[c] = "retrying" =>
               /\ state[run[c]] \in Terminal
               /\ attempt[c] = Len(attempts[run[c]]) + 1
               /\ \A e \in Calls \ {c} : run[e] = run[c] => pc[e] \in Reading

FollowInv == RunFollowsLatestAttempt /\ \A c \in Calls : FollowCall(c)

LEMMA Lengths ==
  ASSUME StoreType, NEW r \in Runs
  PROVE  /\ Len(attempts[r]) \in Nat /\ DOMAIN attempts[r] = 1 .. Len(attempts[r])
         /\ state[r] # "absent" => Len(attempts[r]) # 0
<1>1. attempts[r] \in Seq(AttemptRecord) /\ (state[r] # "absent" => attempts[r] # << >>)
  BY DEF StoreType
<1> QED BY <1>1

\* Runs, and calls that work on them, whose part of the store is as it was.
LEMMA FollowRunKept ==
  ASSUME RunFollowsLatestAttempt, raced \subseteq raced', NEW r \in Runs \ raced',
         state'[r] = state[r], attempts'[r] = attempts[r], state'[r] # "absent"
  PROVE  /\ state'[r] = attempts'[r][Len(attempts'[r])].state
         /\ \A i \in DOMAIN attempts'[r] : attempts'[r][i].number = i
BY DEF RunFollowsLatestAttempt

LEMMA FollowUnchanged ==
  ASSUME FollowInv, NEW c \in Calls, OthersSame(c), UNCHANGED store, raced \subseteq raced',
         FollowCall(c)',
         \A d \in Calls \ {c} : pc[d] = "retrying" /\ run[d] # None /\ run[d] \notin raced' =>
             (run'[c] = run[d] => pc'[c] \in Reading)
  PROVE  FollowInv'
<1>1. RunFollowsLatestAttempt'
  BY DEF FollowInv, RunFollowsLatestAttempt, store
<1>2. ASSUME NEW d \in Calls \ {c} PROVE FollowCall(d)'
  <2>1. FollowCall(d) /\ pc'[d] = pc[d] /\ run'[d] = run[d] /\ attempt'[d] = attempt[d]
    BY SameLocals DEF FollowInv
  <2>2. \A e \in Calls \ {c} : pc'[e] = pc[e] /\ run'[e] = run[e]
    BY SameLocals
  <2> QED BY <2>1, <2>2 DEF FollowCall, store
<1> QED BY <1>1, <1>2 DEF FollowInv

LEMMA FollowStep ==
  ASSUME TypeInv, FollowInv, NEW c \in Calls, CallAction(c), CallKind(c), OthersSame(c), Grows,
         LocalType'
  PROVE  FollowInv'
<1>0. StoreType /\ LocalType /\ CallType(c) /\ FollowCall(c)
  BY DEF TypeInv, FollowInv
<1>a. \A d \in Calls \ {c} : pc'[d] = pc[d] /\ run'[d] = run[d] /\ attempt'[d] = attempt[d]
  BY SameLocals
<1>1. CASE QuietEnd(c)
  <2>1. UNCHANGED <<store, raced>> /\ run'[c] = None
    BY <1>1 DEF QuietEnd
  <2>2. FollowCall(c)'
    BY <2>1 DEF FollowCall
  <2> QED BY <2>1, <2>2, FollowUnchanged
<1>2. CASE QuietMove(c)
  <2>1. /\ UNCHANGED <<store, raced>> /\ run'[c] = run[c] /\ attempt'[c] = attempt[c]
        /\ \/ pc[c] \in Attempted /\ pc'[c] \in Attempted /\ pc[c] \notin Reading
           \/ pc'[c] \in Reading
    BY <1>2 DEF QuietMove, Attempted, Executing, Reading
  <2>2. FollowCall(c)'
    BY <1>0, <2>1 DEF FollowCall, Attempted, Reading, store
  <2>3. \A d \in Calls \ {c} : pc[d] = "retrying" /\ run[d] # None /\ run[d] \notin raced' =>
             (run'[c] = run[d] => pc'[c] \in Reading)
    BY <2>1 DEF FollowInv, FollowCall
  <2> QED BY <2>1, <2>2, <2>3, FollowUnchanged
<1>3. ASSUME NEW k \in Keys, Execute(c, k), UNCHANGED store PROVE FollowInv'
  <2>1. pc'[c] \in {"replaying", "creating"} /\ raced \subseteq raced'
        /\ (pc'[c] = "creating" => run'[c] = None)
    BY <1>0, <1>3 DEF Execute, Go, LocalType, CallType
  <2>2. FollowCall(c)'
    BY <2>1 DEF FollowCall, Attempted
  <2>3. \A d \in Calls \ {c} : pc[d] = "retrying" /\ run[d] # None /\ run[d] \notin raced' =>
             (run'[c] = run[d] => pc'[c] \in Reading)
    BY <2>1 DEF Reading
  <2> QED BY <1>3, <2>1, <2>2, <2>3, FollowUnchanged
<1>4. ASSUME NEW r \in Runs, NEW b \in BOOLEAN, Retry(c, r, b), UNCHANGED store PROVE FollowInv'
  <2>1. /\ pc[c] = "idle" /\ pc'[c] = "retrying" /\ run'[c] = r
        /\ state[r] \in Terminal /\ raced \subseteq raced'
        /\ attempt'[c] = LastNumber(r) + 1
    BY <1>0, <1>4 DEF Retry, Go, LocalType
  <2>2. ASSUME r \notin raced', NEW e \in Calls, run[e] = r
        PROVE  pc[e] \in {"idle", "replaying", "reading"}
    BY <1>4, <2>2 DEF Retry
  <2>3. r \notin raced' => LastNumber(r) = Len(attempts[r])
    <3> SUFFICES ASSUME r \notin raced' PROVE LastNumber(r) = Len(attempts[r])
      OBVIOUS
    <3>1. /\ Len(attempts[r]) \in Nat /\ Len(attempts[r]) \in DOMAIN attempts[r]
          /\ DOMAIN attempts[r] = 1 .. Len(attempts[r]) /\ state[r] # "absent"
      BY <1>0, <2>1, Lengths DEF Terminal, Final
    <3>2. \A i \in DOMAIN attempts[r] : attempts[r][i].number = i
      BY <2>1, <3>1 DEF FollowInv, RunFollowsLatestAttempt
    <3>3. /\ LastNumber(r) \in Nat \ {0} /\ Len(attempts[r]) <= LastNumber(r)
          /\ \E j \in DOMAIN attempts[r] : j = LastNumber(r)
      BY <1>0, <3>1, <3>2, LastNumberIs
    <3> QED BY <3>1, <3>3
  <2>4. r # None /\ \A d \in Calls : run[d] = r => pc[d] # "idle"
    BY RunAssumption DEF TypeInv, CallType
  <2>5. FollowCall(c)'
    <3>1. r \notin raced' => \A e \in Calls \ {c} : run'[e] = r => pc'[e] \in Reading
      BY <1>a, <2>2, <2>4 DEF Reading
    <3>2. state'[r] \in Terminal /\ Len(attempts'[r]) = Len(attempts[r])
      BY <1>4, <2>1 DEF store
    <3> QED BY <2>1, <2>3, <3>1, <3>2 DEF FollowCall, Attempted
  <2>6. \A d \in Calls \ {c} : pc[d] = "retrying" /\ run[d] # None /\ run[d] \notin raced' =>
             (run'[c] = run[d] => pc'[c] \in Reading)
    BY <2>1, <2>2
  <2> QED BY <1>4, <2>1, <2>5, <2>6, FollowUnchanged
<1>5. ASSUME NEW r \in Runs, Cancel(c, r), UNCHANGED store PROVE FollowInv'
  <2>1. /\ pc'[c] = "cancelling" /\ run'[c] = r /\ attempt'[c] = Len(attempts[r])
        /\ state[r] \notin Terminal /\ raced' = raced
    BY <1>0, <1>5 DEF Cancel, Go, LocalType, Terminal, Final
  <2>2. FollowCall(c)'
    BY <1>5, <2>1 DEF FollowCall, store
  <2>3. \A d \in Calls \ {c} : pc[d] = "retrying" /\ run[d] # None /\ run[d] \notin raced' =>
             (run'[c] = run[d] => pc'[c] \in Reading)
    BY <2>1 DEF FollowInv, FollowCall
  <2> QED BY <1>5, <2>1, <2>2, <2>3, FollowUnchanged
<1>6. ASSUME NEW s \in States, WriteEnd(c, s) PROVE FollowInv'
  <2>1. /\ run[c] \in Runs /\ attempt[c] \in 1 .. Len(attempts[run[c]])
        /\ state'[run[c]] = s
        /\ Len(attempts'[run[c]]) = Len(attempts[run[c]])
        /\ attempts'[run[c]][attempt[c]].state = s
        /\ \A j \in 1 .. Len(attempts[run[c]]) :
               attempts'[run[c]][j].number = attempts[run[c]][j].number
        /\ \A q \in Runs \ {run[c]} : state'[q] = state[q] /\ attempts'[q] = attempts[q]
        /\ state[run[c]] # "absent"
    BY <1>6, WriteIs
  <2>2. /\ raced' = raced /\ run'[c] = None /\ pc'[c] = "idle"
        /\ pc[c] \in Attempted /\ pc[c] \notin Reading
    BY <1>6 DEF WriteEnd, Attempted, Reading
  <2>3. run[c] # None
    BY <2>1, RunAssumption
  <2>4. StoreType'
    BY <1>6, CallKinds, AnIdIsLeft, <1>0 DEF AnInv, TypeInv
  <2>5. RunFollowsLatestAttempt'
    <3> SUFFICES ASSUME NEW r \in Runs \ raced', state'[r] # "absent"
                 PROVE  /\ state'[r] = attempts'[r][Len(attempts'[r])].state
                        /\ \A i \in DOMAIN attempts'[r] : attempts'[r][i].number = i
      BY DEF RunFollowsLatestAttempt
    <3>1. CASE r = run[c]
      <4>1. attempt[c] = Len(attempts[r])
        BY <1>0, <2>2, <2>3, <3>1 DEF FollowCall
      <4>2. DOMAIN attempts'[r] = 1 .. Len(attempts[r]) /\ DOMAIN attempts[r] = 1 .. Len(attempts[r])
        <5>1. DOMAIN attempts'[r] = 1 .. Len(attempts'[r])
          <6>1. attempts'[r] \in Seq(AttemptRecord)
            BY <2>4 DEF StoreType
          <6> QED BY <6>1
        <5> QED BY <1>0, <2>1, <3>1, <5>1, Lengths
      <4> QED BY <2>1, <2>2, <3>1, <4>1, <4>2 DEF FollowInv, RunFollowsLatestAttempt
    <3>2. CASE r # run[c]
      BY <2>1, <2>2, <3>2, FollowRunKept DEF FollowInv
    <3> QED BY <3>1, <3>2
  <2>6. ASSUME NEW d \in Calls PROVE FollowCall(d)'
    <3>1. CASE d = c
      BY <2>2, <3>1 DEF FollowCall
    <3>2. CASE d # c
      <4>1. FollowCall(d) /\ CallType(d) /\ run[d] \in Runs \union {None}
        BY DEF FollowInv, TypeInv, LocalType
      <4>2. \A r \in Runs : Len(attempts'[r]) = Len(attempts[r])
        BY <2>1
      <4>3. ASSUME run[d] # None, run[d] \notin raced, pc[d] = "retrying"
            PROVE  state'[run[d]] \in Terminal /\
                   \A e \in Calls \ {d} : run'[e] = run[d] => pc'[e] \in Reading
        <5>1. run[d] # run[c]
          BY <2>2, <3>2, <4>1, <4>3 DEF FollowCall
        <5> QED BY <1>a, <2>1, <2>2, <4>1, <4>3, <5>1 DEF FollowCall
      <4> QED BY <1>a, <2>2, <3>2, <4>1, <4>2, <4>3 DEF FollowCall
    <3> QED BY <3>1, <3>2
  <2> QED BY <2>5, <2>6 DEF FollowInv
<1>7. CASE Appends(c)
  <2>1. PICK r \in Runs, n \in Nat :
            /\ run'[c] = r /\ pc'[c] \in {"created", "retried"}
            /\ attempt'[c] = Len(attempts[r]) + 1 /\ n = Len(attempts[r])
            /\ state'[r] = "queued"
            /\ Len(attempts'[r]) = n + 1
            /\ attempts'[r][n + 1].state = "queued"
            /\ raced \subseteq raced' /\ \A q \in Runs \ {r} : q \in raced' => q \in raced
            /\ \A q \in Runs \ {r} : state'[q] = state[q] /\ attempts'[q] = attempts[q]
            /\ r \notin raced' =>
                   /\ attempts'[r][n + 1].number = n + 1
                   /\ \A j \in 1 .. n : attempts'[r][j].number = j
                   /\ \A d \in Calls \ {c} : run[d] = r => pc[d] \in Reading
    <3>1. CASE Create(c)
      <4>1. PICK r \in Runs : CreatedAt(c, r)
        BY <3>1, CreateIs
      <4>2. /\ Len(attempts[r]) \in Nat /\ run'[c] = r /\ pc'[c] = "created"
            /\ attempt'[c] = Len(attempts[r]) + 1 /\ state'[r] = "queued"
            /\ Len(attempts'[r]) = Len(attempts[r]) + 1
            /\ attempts'[r][Len(attempts[r]) + 1].state = "queued"
            /\ attempts'[r][Len(attempts[r]) + 1].number = 1
            /\ raced \subseteq raced' /\ \A q \in Runs \ {r} : q \in raced' => q \in raced
            /\ \A q \in Runs \ {r} : state'[q] = state[q] /\ attempts'[q] = attempts[q]
        BY <4>1 DEF CreatedAt
      <4>3. ASSUME r \notin raced'
            PROVE  Len(attempts[r]) = 0 /\ \A d \in Calls \ {c} : run[d] # r
        <5>1. state[r] = "absent" /\ Len(attempts[r]) = 0
          BY <4>1, <4>3 DEF CreatedAt
        <5> QED BY <5>1, RunAssumption DEF TypeInv, CallType
      <4>4. r \notin raced' =>
                /\ attempts'[r][Len(attempts[r]) + 1].number = Len(attempts[r]) + 1
                /\ \A j \in 1 .. Len(attempts[r]) : attempts'[r][j].number = j
                /\ \A d \in Calls \ {c} : run[d] = r => pc[d] \in Reading
        BY <4>2, <4>3
      <4> WITNESS r \in Runs, Len(attempts[r]) \in Nat
      <4> QED BY <4>2, <4>4
    <3>2. CASE AppendRetry(c)
      <4> DEFINE r == run[c]
                 n == Len(attempts[run[c]])
      <4>0. /\ r \in Runs /\ n \in Nat /\ run'[c] = r /\ pc'[c] = "retried" /\ pc[c] = "retrying"
            /\ attempt'[c] = n + 1 /\ state[r] # "absent"
            /\ state'[r] = "queued" /\ Len(attempts'[r]) = n + 1
            /\ attempts'[r][Len(attempts'[r])] = [number |-> attempt[c], state |-> "queued"]
            /\ \A j \in 1 .. n : attempts'[r][j] = attempts[r][j]
            /\ \A q \in Runs \ {r} : state'[q] = state[q] /\ attempts'[q] = attempts[q]
            /\ raced' = raced
        BY <3>2, AppendRetryIs
      <4>1. r # None
        BY <4>0, RunAssumption
      <4>2. r \notin raced =>
                /\ attempt[c] = n + 1
                /\ \A d \in Calls \ {c} : run[d] = r => pc[d] \in Reading
        BY <1>0, <4>0, <4>1 DEF FollowCall
      <4>3. DOMAIN attempts[r] = 1 .. n
        BY <1>0, <4>0, Lengths
      <4>4. r \notin raced => \A j \in 1 .. n : attempts[r][j].number = j
        BY <4>0, <4>3 DEF FollowInv, RunFollowsLatestAttempt
      <4>5. attempts'[r][n + 1].state = "queued" /\ attempts'[r][n + 1].number = attempt[c]
        BY <4>0
      <4>6. n = Len(attempts[r])
        OBVIOUS
      <4> HIDE DEF r, n
      <4>7. r \notin raced' => \A j \in 1 .. n : attempts'[r][j].number = j
        BY <4>0, <4>4
      <4> USE <4>0
      <4> WITNESS r \in Runs, n \in Nat
      <4> QED BY <4>0, <4>2, <4>5, <4>6, <4>7
    <3> QED BY <1>7, <3>1, <3>2 DEF Appends
  <2>3. StoreType'
    BY <1>7, CallKinds, AnIdIsLeft, <1>0 DEF AnInv, TypeInv
  <2>4. RunFollowsLatestAttempt'
    <3> SUFFICES ASSUME NEW q \in Runs \ raced', state'[q] # "absent"
                 PROVE  /\ state'[q] = attempts'[q][Len(attempts'[q])].state
                        /\ \A i \in DOMAIN attempts'[q] : attempts'[q][i].number = i
      BY DEF RunFollowsLatestAttempt
    <3>1. CASE q = r
      <4>1. DOMAIN attempts'[r] = 1 .. (n + 1)
        <5>1. attempts'[r] \in Seq(AttemptRecord)
          BY <2>3 DEF StoreType
        <5> QED BY <2>1, <5>1
      <4>3. \A i \in 1 .. (n + 1) : i = n + 1 \/ i \in 1 .. n
        OBVIOUS
      <4> QED BY <2>1, <3>1, <4>1, <4>3
    <3>2. CASE q # r
      BY <2>1, <3>2, FollowRunKept DEF FollowInv
    <3> QED BY <3>1, <3>2
  <2>5. ASSUME NEW d \in Calls PROVE FollowCall(d)'
    <3>1. CASE d = c
      BY <2>1, <3>1 DEF FollowCall
    <3>2. CASE d # c
      <4>1. FollowCall(d) /\ run[d] \in Runs \union {None}
        BY DEF FollowInv, LocalType, TypeInv
      <4>2. CASE run[d] = r
        <5>1. r \notin raced' => pc[d] \in Reading
          BY <2>1, <3>2, <4>2
        <5> QED BY <1>a, <3>2, <4>2, <5>1 DEF FollowCall, Reading, Attempted
      <4>3. CASE run[d] # r
        <5>1. \A e \in Calls \ {d} : run'[e] = run[d] => run[e] = run[d] /\ pc'[e] = pc[e]
          BY <1>a, <2>1, <4>3
        <5>2. d # c /\ run[d] # r /\ FollowCall(d)
          BY <3>2, <4>1, <4>3
        <5>3. /\ run'[d] = run[d] /\ pc'[d] = pc[d] /\ attempt'[d] = attempt[d]
              /\ run[d] # None => /\ state'[run[d]] = state[run[d]]
                                   /\ attempts'[run[d]] = attempts[run[d]]
          BY <1>a, <2>1, <3>2, <4>1, <4>3
        <5>4. run[d] # None /\ run[d] \notin raced' => run[d] \notin raced
          BY <2>1
        <5> QED BY <5>1, <5>2, <5>3, <5>4 DEF FollowCall
      <4> QED BY <4>2, <4>3
    <3> QED BY <3>1, <3>2
  <2> QED BY <2>4, <2>5 DEF FollowInv
<1>8. CASE Opens(c)
  BY <1>3, <1>4, <1>5, <1>8 DEF Opens
<1> QED BY <1>1, <1>2, <1>6, <1>7, <1>8 DEF CallKind

-----------------------------------------------------------------------------
(* The first execution.                                                    *)

First(r) == Len(attempts[r]) <= 1
Works(c, r) == pc[c] \in Executing /\ run[c] = r

\* Until a run has another attempt, one call executes it at most, and none once its
\* result was stored or told.
FirstRun(r) ==
    First(r) =>
        /\ \A c \in Calls : Works(c, r) => pc[c] # "retried" /\ key[c] # None
        /\ \A c, e \in Calls : Works(c, r) /\ Works(e, r) => c = e
        /\ recorded[r] \in Final => state[r] \in {recorded[r], "cancelled"}
        /\ answer.run = r /\ answer.state \in Final => state[r] \in {answer.state, "cancelled"}
        /\ (state[r] \in Final \/ recorded[r] \in Final \/ (answer.run = r /\ answer.state \in Final))
               => \A c \in Calls : ~Works(c, r)

FirstInv == \A r \in Runs : FirstRun(r)

LEMMA FirstStep ==
  ASSUME TypeInv, FirstInv, NEW c \in Calls, CallAction(c), CallKind(c), OthersSame(c)
  PROVE  FirstInv'
<1> SUFFICES ASSUME NEW r \in Runs, First(r)' PROVE FirstRun(r)'
  BY DEF FirstInv, FirstRun
<1>0. StoreType /\ LocalType /\ CallType(c) /\ FirstRun(r)
  BY DEF TypeInv, FirstInv
<1>a. \A d \in Calls \ {c} : Works(d, r)' <=> Works(d, r)
  BY SameLocals DEF Works
<1>b. \A d \in Calls \ {c} : pc'[d] = pc[d] /\ key'[d] = key[d]
  BY SameLocals
<1>c. Len(attempts[r]) \in Nat
  BY <1>0, Lengths
<1>1. CASE QuietEnd(c)
  <2>1. ~Works(c, r)' /\ First(r) /\ UNCHANGED <<state, recorded>>
    BY <1>1 DEF QuietEnd, Works, Executing, First, store
  <2>2. CASE answer' = answer
    BY <1>0, <1>a, <1>b, <2>1, <2>2 DEF FirstRun
  <2>3. CASE /\ answer'.run = run[c]
             /\ \/ answer'.state = recorded[run[c]] \/ answer'.state = state[run[c]]
    BY <1>0, <1>a, <1>b, <2>1, <2>3 DEF FirstRun, Final
  <2> QED BY <1>1, <2>2, <2>3 DEF QuietEnd
<1>2. CASE QuietMove(c)
  <2>1. First(r) /\ UNCHANGED <<state, recorded, answer>> /\ pc'[c] # "retried"
        /\ (Works(c, r)' => Works(c, r) /\ key'[c] = key[c])
    BY <1>2 DEF QuietMove, Works, Executing, First, store
  <2> QED BY <1>0, <1>a, <1>b, <2>1 DEF FirstRun
<1>3. ASSUME NEW s \in States, WriteEnd(c, s) PROVE FirstRun(r)'
  <2>1. /\ run[c] \in Runs /\ attempt[c] \in 1 .. Len(attempts[run[c]])
        /\ state'[run[c]] = s /\ state[run[c]] # "absent"
        /\ Len(attempts'[run[c]]) = Len(attempts[run[c]])
        /\ \A q \in Runs \ {run[c]} : state'[q] = state[q] /\ attempts'[q] = attempts[q]
    BY <1>3, WriteIs
  <2>2. First(r) /\ ~Works(c, r)'
    BY <1>3, <2>1 DEF First, WriteEnd, Works, Executing
  <2>3. CASE r # run[c]
    <3>1. state'[r] = state[r] /\ recorded'[r] = recorded[r]
          /\ (answer'.run = r => answer' = answer)
      BY <1>0, <1>3, <2>1, <2>3 DEF WriteEnd, StoreType
    <3> QED BY <1>0, <1>a, <1>b, <2>2, <3>1 DEF FirstRun
  <2>4. CASE r = run[c] /\ pc[c] = "cancelling"
    <3>1. /\ state'[r] = "cancelled" /\ recorded'[r] = recorded[r]
          /\ answer' = answer
      BY <1>3, <2>1, <2>4 DEF WriteEnd
    <3> QED BY <1>0, <1>a, <1>b, <2>2, <3>1 DEF FirstRun, Final
  <2>5. CASE r = run[c] /\ pc[c] \in {"ending", "failing"}
    <3>1. Works(c, r) /\ key[c] # None
      BY <1>0, <2>2, <2>5 DEF Works, Executing, FirstRun
    <3>2. /\ recorded'[r] = s /\ state'[r] = s
          /\ answer' = answer \/ answer' = [run |-> r, state |-> s]
      BY <1>0, <1>3, <2>1, <2>5, <3>1 DEF WriteEnd, StoreType
    <3>3. \A d \in Calls : ~Works(d, r)'
      BY <1>0, <1>a, <2>2, <3>1 DEF FirstRun
    <3>4. answer = answer' => ~(answer.run = r /\ answer.state \in Final)
      BY <1>0, <2>2, <3>1 DEF FirstRun
    <3> QED BY <3>2, <3>3, <3>4 DEF FirstRun
  <2> QED BY <1>3, <2>3, <2>4, <2>5 DEF WriteEnd
<1>4. CASE Opens(c)
  <2>1. UNCHANGED <<store, answer>> /\ pc'[c] \in {"replaying", "creating", "retrying", "cancelling"}
    BY <1>0, <1>4 DEF Opens, Execute, Retry, Cancel, Go, LocalType
  <2>2. First(r) /\ ~Works(c, r)' /\ UNCHANGED <<state, recorded, answer>>
    BY <2>1 DEF First, Works, Executing, store
  <2> QED BY <1>0, <1>a, <1>b, <2>2 DEF FirstRun
<1>5. CASE Appends(c) /\ Create(c)
  <2>0. PICK n \in Runs : CreatedAt(c, n)
    BY <1>5, CreateIs
  <2>1. /\ run'[c] = n /\ pc'[c] = "created" /\ state'[n] = "queued"
        /\ key'[c] # None /\ Len(attempts[n]) \in Nat
        /\ Len(attempts'[n]) = Len(attempts[n]) + 1
        /\ state[n] = "absent" <=> Len(attempts[n]) = 0
        /\ \A q \in Runs \ {n} : state'[q] = state[q] /\ attempts'[q] = attempts[q]
        /\ UNCHANGED <<answer, recorded>>
    BY <2>0, RunAssumption DEF CreatedAt
  <2>2. CASE r = n
    <3>0. state[n] = "absent"
      BY <2>1, <2>2 DEF First
    <3>1. First(r) /\ \A d \in Calls : ~Works(d, r)
      BY <1>0, <2>1, <2>2, <3>0, RunAssumption DEF First, Works, TypeInv, CallType
    <3>2. recorded[r] \notin Final /\ ~(answer.run = r /\ answer.state \in Final)
      BY <1>0, <2>2, <3>0, <3>1 DEF FirstRun, Final
    <3>3. \A d \in Calls : Works(d, r)' => d = c
      BY <1>a, <3>1
    <3>4. pc'[c] # "retried" /\ state'[r] \notin Final
      BY <2>1, <2>2 DEF Final
    <3> QED BY <2>1, <3>2, <3>3, <3>4 DEF FirstRun
  <2>3. CASE r # n
    <3>1. First(r) /\ ~Works(c, r)' /\ state'[r] = state[r]
      BY <2>1, <2>3 DEF First, Works
    <3> QED BY <1>0, <1>a, <1>b, <2>1, <3>1 DEF FirstRun
  <2> QED BY <2>2, <2>3
<1>6. CASE Appends(c) /\ AppendRetry(c)
  <2>1. /\ run[c] \in Runs /\ Len(attempts[run[c]]) \in Nat \ {0} /\ run'[c] = run[c]
        /\ Len(attempts'[run[c]]) = Len(attempts[run[c]]) + 1
        /\ \A q \in Runs \ {run[c]} : state'[q] = state[q] /\ attempts'[q] = attempts[q]
        /\ UNCHANGED <<answer, recorded>>
    BY <1>6, AppendRetryIs DEF AppendRetry
  <2>2. r # run[c]
    BY <2>1 DEF First
  <2>3. First(r) /\ ~Works(c, r)' /\ state'[r] = state[r]
    BY <2>1, <2>2 DEF First, Works
  <2> QED BY <1>0, <1>a, <1>b, <2>1, <2>3 DEF FirstRun
<1> QED BY <1>1, <1>2, <1>3, <1>4, <1>5, <1>6 DEF CallKind, Appends

-----------------------------------------------------------------------------

IInv == TypeInv /\ KeyInv /\ FollowInv /\ FirstInv

LEMMA InitInv == Init => IInv
<1> SUFFICES ASSUME Init PROVE IInv
  OBVIOUS
<1> USE RunAssumption
<1>1. StoreType
  BY DEF Init, StoreType, States, AttemptRecord, HasLast
<1>2. LocalType
  BY DEF Init, LocalType, Places, States, AnswerRecord, NoAnswer
<1>3. \A c \in Calls : CallType(c)
  BY DEF Init, CallType, Attempted
<1>4. IdsLeft
  <2>1. Creating = {}
    BY DEF Init, Creating
  <2> QED BY <2>1, Finite, FS_EmptySet DEF IdsLeft
<1>5. KeyInv
  BY DEF Init, KeyInv, OneRunPerKey, KeyedRuns
<1>6. FollowInv
  BY DEF Init, FollowInv, RunFollowsLatestAttempt, FollowCall
<1>7. FirstInv
  BY DEF Init, FirstInv, FirstRun, Works, Executing, Final, NoAnswer
<1> QED BY <1>1, <1>2, <1>3, <1>4, <1>5, <1>6, <1>7 DEF IInv, TypeInv

\* After a crash no call is left; the store is as it was.
LEMMA CrashStep ==
  ASSUME IInv, Crash
  PROVE  IInv'
<1> USE RunAssumption
<1>1. StoreType /\ LocalType /\ IdsLeft /\ KeyInv /\ FollowInv /\ FirstInv
  BY DEF IInv, TypeInv
<1>2. /\ UNCHANGED <<state, attempts, recorded, keyOf, delegated, raced, answer>>
      /\ \A c \in Calls : pc'[c] = "idle" /\ run'[c] = None
  BY DEF Crash, store
<1>3. StoreType'
  BY <1>1, <1>2 DEF StoreType, HasLast
<1>4. LocalType'
  BY <1>1 DEF LocalType, Crash, Fault, Places, States
<1>5. \A c \in Calls : CallType(c)'
  BY <1>2 DEF CallType, Attempted
<1>6. IdsLeft'
  <2>1. Creating' = {} /\ Absent' = Absent
    BY <1>2 DEF Creating, Absent
  <2> QED BY <1>1, <2>1, IdsKept
<1>7. KeyInv'
  BY <1>1, <1>2 DEF KeyInv, OneRunPerKey, KeyedRuns
<1>8. FollowInv'
  BY <1>1, <1>2 DEF FollowInv, RunFollowsLatestAttempt, FollowCall
<1>9. FirstInv'
  BY <1>1, <1>2 DEF FirstInv, FirstRun, Works, Executing, First
<1> QED BY <1>3, <1>4, <1>5, <1>6, <1>7, <1>8, <1>9 DEF IInv, TypeInv

LEMMA StutterStep ==
  ASSUME IInv, UNCHANGED vars
  PROVE  IInv'
<1>1. /\ UNCHANGED <<state, attempts, recorded, keyOf, delegated, pc, key>>
      /\ UNCHANGED <<controllers, cancelRequested, replayers>>
      /\ UNCHANGED <<run, attempt, outcome, answer, faults, raced>>
  BY DEF vars, store, process, call
<1>2. TypeInv'
  BY <1>1 DEF IInv, TypeInv, StoreType, HasLast, LocalType, CallType, IdsLeft, Creating, Absent
<1>3. KeyInv'
  BY <1>1 DEF IInv, KeyInv, OneRunPerKey, KeyedRuns
<1>4. FollowInv'
  BY <1>1 DEF IInv, FollowInv, RunFollowsLatestAttempt, FollowCall
<1>5. FirstInv'
  BY <1>1 DEF IInv, FirstInv, FirstRun, Works, First
<1> QED BY <1>2, <1>3, <1>4, <1>5 DEF IInv

LEMMA Inductive == IInv /\ [Next]_vars => IInv'
<1> SUFFICES ASSUME IInv, [Next]_vars PROVE IInv'
  OBVIOUS
<1>1. ASSUME NEW c \in Calls, CallAction(c) PROVE IInv'
  <2>1. TypeInv /\ TypeInv' /\ CallKind(c) /\ OthersSame(c) /\ Grows /\ LocalType'
    BY <1>1, TypeStep DEF IInv, TypeInv
  <2> QED BY <1>1, <2>1, KeyStep, FollowStep, FirstStep DEF IInv
<1>2. CASE Crash
  BY <1>2, CrashStep
<1>3. CASE UNCHANGED vars
  BY <1>3, StutterStep
<1> QED BY <1>1, <1>2, <1>3 DEF Next, CallAction

LEMMA Invariance == Spec => []IInv
BY InitInv, Inductive, PTL DEF Spec

-----------------------------------------------------------------------------

\* The variables have their types in every state; a call that works on an
\* attempt has one, and newSortableId() finds an ID.
THEOREM TypeCorrect == Spec => []TypeOK
<1>1. IInv => TypeOK
  BY TypeParts DEF IInv, TypeInv
<1> QED BY <1>1, Invariance, PTL

\* execute(): a key whose requests did not overlap between findIdempotentRun()
\* and run.created has one run, whatever crashes or is rejected.
THEOREM OneRunPerKeyHolds == Spec => []OneRunPerKey
<1>1. IInv => OneRunPerKey
  BY DEF IInv, KeyInv
<1> QED BY <1>1, Invariance, PTL

\* appendRunEvents(): run and attempt change together, and on the latest
\* attempt, unless a retry() was accepted while another call was at work.
THEOREM RunFollowsLatestAttemptHolds == Spec => []RunFollowsLatestAttempt
<1>1. IInv => RunFollowsLatestAttempt
  BY DEF IInv, FollowInv
<1> QED BY <1>1, Invariance, PTL

\* execute(): who was told a success or a failure was told what is stored.
THEOREM AnswersAreStoredHolds == Spec => []AnswersAreStored
<1>1. IInv => AnswersAreStored
  <2> SUFFICES ASSUME IInv, answer.run # None, ~(Len(attempts[answer.run]) > 1)
               PROVE  state[answer.run] \in {answer.state, "cancelled"}
    BY DEF AnswersAreStored
  <2>1. answer.run \in Runs /\ StoreType /\ answer.state \in Final
    BY DEF IInv, TypeInv, LocalType, AnswerRecord, NoAnswer
  <2>2. Len(attempts[answer.run]) <= 1
    BY <2>1, Lengths
  <2> QED BY <2>1, <2>2 DEF IInv, FirstInv, FirstRun, First, Final
<1> QED BY <1>1, Invariance, PTL
=============================================================================
