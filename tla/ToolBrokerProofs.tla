-------------------------- MODULE ToolBrokerProofs --------------------------
(***************************************************************************)
(* Proofs about ToolBroker, for all sets of grants, approvals, calls and   *)
(* reservations, all prices and limits.                                    *)
(*                                                                         *)
(* A step of the broker is one of the kinds that Kind names; StepKinds     *)
(* shows it, and the invariants are proved kind by kind.  HoldInv says     *)
(* what a reservation looks like while its call has it; GrantInv that a    *)
(* grant in use stays.                                                     *)
(***************************************************************************)
EXTENDS ToolBroker, TLAPS

\* The part of the ledger's state that the broker relies on.
RecordType == record \in [Reservations -> Ledger!Record \union {None}]

HasRun == {"running", "reconciling", "releasing"}

\* A call that holds a reservation has its own, of its price and untouched; one
\* that is to pay has no other place to be without one than before its tool runs.
HoldInv ==
    /\ \A c \in Calls :
           /\ holds[c] # None =>
                  /\ pc[c] \in HasRun
                  /\ record[holds[c]] # None
                  /\ record[holds[c]].remaining = CostOf(c)
                  /\ record[holds[c]].original = CostOf(c)
                  /\ record[holds[c]].consumed = 0
           /\ pc[c] = "reserving" => CostOf(c) > 0
           /\ pc[c] \in HasRun /\ CostOf(c) > 0 => holds[c] # None
           /\ pc[c] \in {"reconciling", "releasing"} => holds[c] # None
    /\ \A c, e \in Calls : c # e /\ holds[c] # None => holds[c] # holds[e]

\* A grant in use was issued, no later than now, and one that was not was not used.
GrantInv ==
    /\ \A c \in Calls : using[c].grant # None => grant[using[c].grant] # None
    /\ \A g \in Grants : grant[g] # None => grant[g].epoch <= epoch
    /\ \A g \in Grants : grant[g] = None => completed[g] = 0

-----------------------------------------------------------------------------
(* The kinds of steps.                                                     *)

PolicyStep ==
    /\ epoch' \in Nat /\ epoch' >= epoch
    /\ approval' \in [Approvals -> ApprovalRecord \union {None}]
    /\ UNCHANGED <<broker, ledger>>

\* A call is over and what it held is left behind.
Abandons(c) ==
    /\ pc[c] \in {"reserving", "running"}
    /\ holds[c] # None => ~Authorized(using[c].grant)
    /\ Ends(c)
    /\ UNCHANGED <<policy, grant, ghosts, ledger>>

\* A call goes on to settle what it holds.
Settles(c) ==
    /\ pc[c] = "running" /\ holds[c] # None
    /\ \E l \in {"reconciling", "releasing"} : pc' = [pc EXCEPT ![c] = l]
    /\ UNCHANGED <<policy, grant, using, holds, ghosts, ledger>>

CompletesFree(c) ==
    /\ pc[c] = "running" /\ holds[c] = None
    /\ Complete(c)
    /\ UNCHANGED <<policy, overlapped, ledger>>

Kind ==
    \/ UNCHANGED vars
    \/ PolicyStep
    \/ \E g \in Grants : IssueGrant(g) \/ GrantExpires(g) \/ \E c \in Calls : Execute(c, g)
    \/ \E c \in Calls : \/ Reserve(c) \/ Abandons(c) \/ Settles(c)
                        \/ CompletesFree(c) \/ Reconcile(c) \/ Release(c)

LEMMA PolicyKind ==
  ASSUME TypeOK,
         \/ RevokeAuthority
         \/ \E a \in Approvals :
                \/ Request(a) \/ Revoke(a) \/ ApprovalExpires(a)
                \/ \E s \in {"approved", "rejected"} : Decide(a, s)
  PROVE  PolicyStep
<1>1. CASE RevokeAuthority
  BY <1>1 DEF RevokeAuthority, PolicyStep, TypeOK
<1>2. ASSUME NEW a \in Approvals, Request(a) PROVE PolicyStep
  <2>1. [state |-> "pending", epoch |-> epoch, expired |-> FALSE] \in ApprovalRecord
    BY DEF TypeOK, ApprovalRecord
  <2> QED BY <1>2, <2>1 DEF Request, PolicyStep, TypeOK
<1>3. ASSUME NEW a \in Approvals, NEW s \in {"approved", "rejected", "revoked"},
             approval[a] # None, approval' = [approval EXCEPT ![a].state = s],
             UNCHANGED <<epoch, broker, ledger>>
      PROVE  PolicyStep
  <2>1. [approval[a] EXCEPT !.state = s] \in ApprovalRecord
    BY <1>3 DEF TypeOK, ApprovalRecord
  <2> QED BY <1>3, <2>1 DEF PolicyStep, TypeOK
<1>4. ASSUME NEW a \in Approvals, ApprovalExpires(a) PROVE PolicyStep
  <2>1. [approval[a] EXCEPT !.expired = TRUE] \in ApprovalRecord
    <3>1. approval[a] # None
      BY <1>4 DEF ApprovalExpires
    <3>2. approval[a] \in ApprovalRecord
      BY <3>1 DEF TypeOK
    <3> QED BY <3>2 DEF ApprovalRecord
  <2> QED BY <1>4, <2>1 DEF ApprovalExpires, PolicyStep, TypeOK
<1> QED BY <1>1, <1>2, <1>3, <1>4 DEF Revoke, Decide, Decidable

LEMMA FailsKind ==
  ASSUME NEW c \in Calls, pc[c] = "running", Fails(c), UNCHANGED <<policy, grant, ghosts, ledger>>
  PROVE  Settles(c) \/ Abandons(c)
<1>1. CASE holds[c] # None /\ Authorized(using[c].grant)
  BY <1>1 DEF Fails, Settles
<1>2. CASE ~(holds[c] # None /\ Authorized(using[c].grant))
  BY <1>2 DEF Fails, Abandons
<1> QED BY <1>1, <1>2

LEMMA ReturnsKind ==
  ASSUME NEW c \in Calls, ToolReturns(c)
  PROVE  Settles(c) \/ Abandons(c) \/ CompletesFree(c)
<1>1. CASE holds[c] = None
  BY <1>1 DEF ToolReturns, CompletesFree
<1>2. CASE holds[c] # None /\ Authorized(using[c].grant)
  BY <1>2 DEF ToolReturns, Settles, ghosts
<1>3. CASE holds[c] # None /\ ~Authorized(using[c].grant)
  BY <1>3, FailsKind DEF ToolReturns, ghosts
<1> QED BY <1>1, <1>2, <1>3

LEMMA StepKinds == TypeOK /\ HoldInv /\ [Next]_vars => Kind
<1> SUFFICES ASSUME TypeOK, HoldInv, Next PROVE Kind
  BY DEF Kind
<1>1. ASSUME NEW c \in Calls, ReserveRefused(c) PROVE Abandons(c)
  BY <1>1 DEF ReserveRefused, Abandons, HoldInv, HasRun
<1>2. ASSUME NEW c \in Calls, ToolFails(c) PROVE Settles(c) \/ Abandons(c)
  BY <1>2, FailsKind DEF ToolFails
<1>3. ASSUME NEW c \in Calls,
             \/ Reserve(c) \/ ReserveRefused(c)
             \/ ToolReturns(c) \/ ToolFails(c)
             \/ Reconcile(c) \/ Release(c)
      PROVE  Kind
  BY <1>1, <1>2, <1>3, ReturnsKind DEF Kind
<1>4. ASSUME NEW g \in Grants,
             IssueGrant(g) \/ GrantExpires(g) \/ \E c \in Calls : Execute(c, g)
      PROVE  Kind
  BY <1>4 DEF Kind
<1> QED BY <1>3, <1>4, PolicyKind DEF Next, Kind

-----------------------------------------------------------------------------
(* Types.                                                                  *)

\* The guard of the ledger's steps, and what they make of their reservation.
LEMMA EndsIs ==
  ASSUME TypeOK, NEW c \in Calls, Ends(c)
  PROVE  /\ pc' \in [Calls -> {"idle", "reserving", "running", "reconciling", "releasing"}]
         /\ using' \in [Calls -> [grant : Grants \union {None}, uses : Nat]]
         /\ holds' \in [Calls -> Reservations \union {None}]
         /\ pc'[c] = "idle" /\ using'[c].grant = None /\ holds'[c] = None
         /\ \A d \in Calls \ {c} :
                pc'[d] = pc[d] /\ using'[d] = using[d] /\ holds'[d] = holds[d]
BY DEF TypeOK, Ends, NoUse

LEMMA CompleteIs ==
  ASSUME TypeOK, GrantInv, NEW c \in Calls, pc[c] # "idle", Complete(c)
  PROVE  /\ Ends(c)
         /\ using[c].grant \in Grants /\ grant[using[c].grant] # None
         /\ grant' \in [Grants -> GrantRecord \union {None}]
         /\ completed' \in [Grants -> Nat]
         /\ grant'[using[c].grant] = [grant[using[c].grant] EXCEPT !.uses = using[c].uses + 1]
         /\ grant'[using[c].grant] \in GrantRecord
         /\ completed'[using[c].grant] = completed[using[c].grant] + 1
         /\ \A h \in Grants \ {using[c].grant} :
                grant'[h] = grant[h] /\ completed'[h] = completed[h]
<1> DEFINE g == using[c].grant
           new == [grant[g] EXCEPT !.uses = using[c].uses + 1]
<1>1. g \in Grants /\ using[c].uses \in Nat
  BY DEF TypeOK
<1>2. grant[g] \in GrantRecord /\ grant[g] # None
  BY <1>1, NoneIsNoRecord DEF TypeOK, GrantInv
<1>3. new \in GrantRecord
  BY <1>1, <1>2 DEF GrantRecord
<1>4. grant' = [grant EXCEPT ![g] = new]
  BY DEF Complete, UseRecorded
<1>5. completed' = [completed EXCEPT ![g] = @ + 1]
  BY DEF Complete
<1> HIDE DEF g, new
<1>6. /\ grant' \in [Grants -> GrantRecord \union {None}] /\ grant'[g] = new
      /\ \A h \in Grants \ {g} : grant'[h] = grant[h]
  BY <1>1, <1>3, <1>4 DEF TypeOK
<1>7. /\ completed' \in [Grants -> Nat] /\ completed'[g] = completed[g] + 1
      /\ \A h \in Grants \ {g} : completed'[h] = completed[h]
  BY <1>1, <1>5 DEF TypeOK
<1> QED BY <1>1, <1>2, <1>3, <1>6, <1>7 DEF g, new, Complete

LEMMA ExecuteIs ==
  ASSUME TypeOK, NEW c \in Calls, NEW g \in Grants, Execute(c, g)
  PROVE  /\ grant[g] \in GrantRecord /\ grant[g] # None
         /\ pc[c] = "idle"
         /\ pc' \in [Calls -> {"idle", "reserving", "running", "reconciling", "releasing"}]
         /\ using' \in [Calls -> [grant : Grants \union {None}, uses : Nat]]
         /\ pc'[c] = IF Cost[g] > 0 THEN "reserving" ELSE "running"
         /\ using'[c] = [grant |-> g, uses |-> grant[g].uses]
         /\ \A d \in Calls \ {c} : pc'[d] = pc[d] /\ using'[d] = using[d]
<1>1. grant[g] \in GrantRecord /\ grant[g] # None
  BY NoneIsNoRecord DEF TypeOK, Execute, Usable
<1>2. [grant |-> g, uses |-> grant[g].uses] \in [grant : Grants \union {None}, uses : Nat]
  BY <1>1 DEF GrantRecord
<1>3. using' = [using EXCEPT ![c] = [grant |-> g, uses |-> grant[g].uses]]
  BY DEF Execute
<1>4. pc' = [pc EXCEPT ![c] = IF Cost[g] > 0 THEN "reserving" ELSE "running"]
  BY DEF Execute, Metered
<1> QED BY <1>1, <1>2, <1>3, <1>4 DEF TypeOK, Execute

\* What the ledger's steps do to the reservation they are about.
RecordStep(r, rec) ==
    /\ rec \in Ledger!Record
    /\ record' = [record EXCEPT ![r] = rec]

LEMMA ReserveIs ==
  ASSUME TypeOK, HoldInv, NEW c \in Calls, Reserve(c)
  PROVE  \E r \in Reservations :
             /\ record[r] = None
             /\ RecordStep(r, [budget |-> Budget, category |-> Category,
                    original |-> CostOf(c), remaining |-> CostOf(c), consumed |-> 0,
                    state |-> "reserved"])
             /\ holds' = [holds EXCEPT ![c] = r]
<1>1. PICK r \in Reservations : /\ Ledger!Reserve(r, Budget, Category, CostOf(c))
                                /\ holds' = [holds EXCEPT ![c] = r]
  BY DEF Reserve
<1>2. CostOf(c) \in Nat
  BY BrokerAssumption DEF Reserve, TypeOK, CostOf
<1> DEFINE rec == [budget |-> Budget, category |-> Category, original |-> CostOf(c),
                   remaining |-> CostOf(c), consumed |-> 0, state |-> "reserved"]
<1>3. rec \in Ledger!Record
  BY <1>2 DEF Ledger!Record, Ledger!States
<1>4. record[r] = None /\ record' = [record EXCEPT ![r] = rec]
  BY <1>1 DEF Ledger!Reserve
<1> QED BY <1>1, <1>3, <1>4 DEF RecordStep

\* The record of the reservation that c holds.
Held(c) == record[holds[c]]

LEMMA HeldType ==
  ASSUME TypeOK, RecordType, HoldInv, NEW c \in Calls, holds[c] # None
  PROVE  /\ holds[c] \in Reservations /\ using[c].grant \in Grants
         /\ CostOf(c) \in Nat
         /\ Held(c) \in Ledger!Record
         /\ Held(c).remaining = CostOf(c) /\ Held(c).consumed = 0
<1>1. pc[c] \in HasRun /\ Held(c) # None
      /\ Held(c).remaining = CostOf(c) /\ Held(c).consumed = 0
  BY DEF HoldInv, Held
<1>2. holds[c] \in Reservations /\ using[c].grant \in Grants
  BY <1>1 DEF TypeOK, HasRun
<1>3. Held(c) \in Ledger!Record
  BY <1>1, <1>2 DEF RecordType, Held
<1> QED BY <1>1, <1>2, <1>3, BrokerAssumption DEF CostOf

LEMMA ReconcileIs ==
  ASSUME TypeOK, RecordType, HoldInv, NEW c \in Calls, Reconcile(c)
  PROVE  /\ holds[c] # None
         /\ RecordStep(holds[c], [Held(c) EXCEPT !.remaining = 0, !.consumed = CostOf(c),
                                                 !.state = "reconciled"])
<1>1. holds[c] # None
  BY DEF Reconcile, HoldInv
<1>2. [Held(c) EXCEPT !.remaining = 0, !.consumed = CostOf(c), !.state = "reconciled"]
          \in Ledger!Record
  BY <1>1, HeldType DEF Ledger!Record, Ledger!States
<1> QED BY <1>1, <1>2 DEF Reconcile, Ledger!Reconcile, RecordStep, Held

LEMMA ReleaseIs ==
  ASSUME TypeOK, RecordType, HoldInv, NEW c \in Calls, Release(c)
  PROVE  /\ holds[c] # None
         /\ RecordStep(holds[c], [Held(c) EXCEPT !.remaining = 0, !.state = "released"])
<1>1. holds[c] # None
  BY DEF Release, HoldInv
<1>2. /\ Held(c) \in Ledger!Record
      /\ [Held(c) EXCEPT !.remaining = 0, !.state = "released"] \in Ledger!Record
  BY <1>1, HeldType DEF Ledger!Record, Ledger!States
<1>3. record' = [record EXCEPT ![holds[c]] =
                     [Held(c) EXCEPT !.remaining = @ - Held(c).remaining, !.state = "released"]]
  BY DEF Release, Ledger!Release, Held
<1>4. Held(c).remaining - Held(c).remaining = 0
  BY <1>2 DEF Ledger!Record
<1>5. [Held(c) EXCEPT !.remaining = @ - Held(c).remaining, !.state = "released"]
          = [Held(c) EXCEPT !.remaining = 0, !.state = "released"]
  BY <1>2, <1>4
<1> QED BY <1>1, <1>2, <1>3, <1>5 DEF RecordStep

-----------------------------------------------------------------------------
(* The invariants, kind by kind.                                           *)

Inv == TypeOK /\ RecordType /\ HoldInv /\ GrantInv

LEMMA InvInit == Init => Inv
BY BrokerAssumption DEF Init, Ledger!Init, Inv, TypeOK, RecordType, HoldInv, HasRun, GrantInv, NoUse

LEMMA PolicyKeeps == Inv /\ PolicyStep => Inv'
BY DEF Inv, PolicyStep, broker, ghosts, ledger, TypeOK, RecordType, HoldInv, CostOf, HasRun, GrantInv,
   GrantRecord

\* IssueGrant and GrantExpires.
GrantStep(g) ==
    /\ \E rec \in GrantRecord :
           /\ grant' = [grant EXCEPT ![g] = rec]
           /\ rec.epoch <= epoch
           /\ IF grant[g] = None THEN rec.uses = 0 ELSE rec.uses = grant[g].uses
    /\ UNCHANGED <<policy, pc, using, holds, ghosts, ledger>>

LEMMA GrantSteps ==
  ASSUME Inv, NEW g \in Grants, IssueGrant(g) \/ GrantExpires(g)
  PROVE  GrantStep(g)
<1>1. CASE IssueGrant(g)
  <2>1. [epoch |-> epoch, uses |-> 0, expired |-> FALSE] \in GrantRecord
    BY DEF Inv, TypeOK, GrantRecord
  <2>2. grant[g] = None /\ epoch <= epoch
    BY <1>1 DEF IssueGrant, Inv, TypeOK
  <2> QED BY <1>1, <2>1, <2>2 DEF IssueGrant, GrantStep
<1>2. CASE GrantExpires(g)
  <2>1. grant[g] # None
    BY <1>2 DEF GrantExpires
  <2>2. grant[g] \in GrantRecord /\ grant[g].epoch <= epoch
    BY <2>1 DEF Inv, TypeOK, GrantInv
  <2> DEFINE new == [grant[g] EXCEPT !.expired = TRUE]
  <2>3. new \in GrantRecord /\ new.epoch = grant[g].epoch /\ new.uses = grant[g].uses
    BY <2>2 DEF GrantRecord
  <2>4. grant' = [grant EXCEPT ![g] = new]
    BY <1>2 DEF GrantExpires
  <2> HIDE DEF new
  <2> QED BY <1>2, <2>1, <2>2, <2>3, <2>4 DEF GrantExpires, GrantStep
<1> QED BY <1>1, <1>2

LEMMA GrantKeeps ==
  ASSUME Inv, NEW g \in Grants, GrantStep(g)
  PROVE  Inv'
<1>1. PICK rec \in GrantRecord : /\ grant' = [grant EXCEPT ![g] = rec]
                                 /\ rec.epoch <= epoch
  BY DEF GrantStep
<1>2. UNCHANGED <<epoch, approval, pc, using, holds, completed, overlapped, record>>
  BY DEF GrantStep, policy, ghosts, ledger
<1>3. /\ grant' \in [Grants -> GrantRecord \union {None}]
      /\ grant'[g] = rec /\ rec # None
      /\ \A h \in Grants \ {g} : grant'[h] = grant[h]
  BY <1>1, NoneIsNoRecord DEF Inv, TypeOK
<1>4. TypeOK'
  BY <1>2, <1>3 DEF Inv, TypeOK
<1>5. RecordType' /\ HoldInv'
  BY <1>2 DEF Inv, RecordType, HoldInv, CostOf, HasRun
<1>6. GrantInv'
  BY <1>1, <1>2, <1>3 DEF Inv, GrantInv, TypeOK
<1> QED BY <1>4, <1>5, <1>6 DEF Inv

LEMMA ExecuteKeeps ==
  ASSUME Inv, NEW c \in Calls, NEW g \in Grants, Execute(c, g)
  PROVE  Inv'
<1>1. UNCHANGED <<epoch, approval, grant, holds, completed, record>>
  BY DEF Execute, policy, ledger
<1>2. overlapped' \subseteq Grants
  BY DEF Execute, Inv, TypeOK
<1>3. /\ pc[c] = "idle" /\ grant[g] # None
      /\ pc' \in [Calls -> {"idle", "reserving", "running", "reconciling", "releasing"}]
      /\ using' \in [Calls -> [grant : Grants \union {None}, uses : Nat]]
      /\ pc'[c] = IF Cost[g] > 0 THEN "reserving" ELSE "running"
      /\ using'[c].grant = g
      /\ \A d \in Calls \ {c} : pc'[d] = pc[d] /\ using'[d] = using[d]
  <2>1. TypeOK
    BY DEF Inv
  <2>2. using'[c] = [grant |-> g, uses |-> grant[g].uses]
    BY <2>1, ExecuteIs
  <2>3. using'[c].grant = g
    BY <2>2
  <2> QED BY <2>1, <2>3, ExecuteIs
<1>4. holds[c] = None
  BY <1>3 DEF Inv, HoldInv, HasRun
<1>5. g # None
  BY BrokerAssumption
<1>6. TypeOK'
  BY <1>1, <1>2, <1>3, <1>5 DEF Inv, TypeOK
<1>7. HoldInv'
  <2>1. \A d \in Calls \ {c} : CostOf(d)' = CostOf(d)
    BY <1>3 DEF CostOf
  <2>2. CostOf(c)' = Cost[g]
    BY <1>3 DEF CostOf
  <2> QED BY <1>1, <1>3, <1>4, <2>1, <2>2 DEF Inv, HoldInv, HasRun
<1>8. GrantInv'
  BY <1>1, <1>3 DEF Inv, GrantInv
<1> QED BY <1>1, <1>6, <1>7, <1>8 DEF Inv, RecordType

LEMMA ReserveKeeps ==
  ASSUME Inv, NEW c \in Calls, Reserve(c)
  PROVE  Inv'
<1> DEFINE rec == [budget |-> Budget, category |-> Category, original |-> CostOf(c),
                   remaining |-> CostOf(c), consumed |-> 0, state |-> "reserved"]
<1>1. PICK r \in Reservations :
          record[r] = None /\ RecordStep(r, rec) /\ holds' = [holds EXCEPT ![c] = r]
  BY ReserveIs DEF Inv
<1>2. UNCHANGED <<epoch, approval, grant, using, completed, overlapped>>
  BY DEF Reserve, policy, ghosts
<1>3. pc[c] = "reserving" /\ pc' = [pc EXCEPT ![c] = "running"]
  BY DEF Reserve
<1>4. /\ rec.remaining = CostOf(c) /\ rec.original = CostOf(c) /\ rec.consumed = 0
      /\ rec \in Ledger!Record /\ rec # None /\ r # None
  BY <1>1, NoneIsNoRecord, BrokerAssumption DEF RecordStep
<1> HIDE DEF rec
<1>5. /\ record' \in [Reservations -> Ledger!Record \union {None}]
      /\ record'[r] = rec
      /\ \A q \in Reservations \ {r} : record'[q] = record[q]
  BY <1>1, <1>4 DEF RecordStep, Inv, RecordType
<1>6. /\ TypeOK'
      /\ pc'[c] = "running" /\ holds'[c] = r
      /\ \A d \in Calls \ {c} : pc'[d] = pc[d] /\ holds'[d] = holds[d]
  BY <1>1, <1>2, <1>3 DEF Inv, TypeOK
<1>7. HoldInv'
  <2>1. \A d \in Calls : CostOf(d)' = CostOf(d)
    BY <1>2 DEF CostOf
  <2>2. \A d \in Calls \ {c} : holds[d] # None =>
            holds[d] \in Reservations \ {r} /\ record'[holds[d]] = record[holds[d]]
    BY <1>1, <1>5 DEF Inv, HoldInv, TypeOK
  <2> QED BY <1>4, <1>5, <1>6, <2>1, <2>2 DEF Inv, HoldInv, HasRun
<1>8. GrantInv'
  BY <1>2 DEF Inv, GrantInv
<1> QED BY <1>5, <1>6, <1>7, <1>8 DEF Inv, RecordType

\* A call that ends, and the record of what it held, if any, changes.
LEMMA EndingKeeps ==
  ASSUME Inv, NEW c \in Calls, Ends(c),
         UNCHANGED <<epoch, approval, overlapped>>,
         grant' \in [Grants -> GrantRecord \union {None}], completed' \in [Grants -> Nat],
         \A g \in Grants : /\ grant'[g] = None <=> grant[g] = None
                           /\ grant[g] # None => grant'[g].epoch = grant[g].epoch
                           /\ grant[g] = None => completed'[g] = completed[g],
         \/ record' = record
         \/ holds[c] # None /\ \E rec \in Ledger!Record : RecordStep(holds[c], rec)
  PROVE  Inv'
<1>1. /\ pc' \in [Calls -> {"idle", "reserving", "running", "reconciling", "releasing"}]
      /\ using' \in [Calls -> [grant : Grants \union {None}, uses : Nat]]
      /\ holds' \in [Calls -> Reservations \union {None}]
      /\ pc'[c] = "idle" /\ using'[c].grant = None /\ holds'[c] = None
      /\ \A d \in Calls \ {c} :
             pc'[d] = pc[d] /\ using'[d] = using[d] /\ holds'[d] = holds[d]
  BY EndsIs DEF Inv
<1>2. TypeOK'
  BY <1>1 DEF Inv, TypeOK
<1>3. /\ record' \in [Reservations -> Ledger!Record \union {None}]
      /\ \A r \in Reservations : r # holds[c] => record'[r] = record[r]
  BY DEF RecordStep, Inv, RecordType
<1>4. HoldInv'
  <2>1. \A d \in Calls \ {c} : CostOf(d)' = CostOf(d)
    BY <1>1 DEF CostOf
  <2>2. \A d \in Calls \ {c} : holds[d] # None => record'[holds[d]] = record[holds[d]]
    BY <1>3 DEF Inv, HoldInv, TypeOK
  <2> QED BY <1>1, <2>1, <2>2 DEF Inv, HoldInv, HasRun
<1>5. GrantInv'
  <2>1. \A d \in Calls : using'[d].grant # None => using'[d].grant \in Grants
    BY <1>1
  <2>2. \A d \in Calls : using'[d].grant # None => using'[d].grant = using[d].grant
    BY <1>1
  <2> QED BY <2>1, <2>2 DEF Inv, GrantInv
<1> QED BY <1>2, <1>3, <1>4, <1>5 DEF Inv, RecordType

LEMMA CompleteKeeps ==
  ASSUME Inv, NEW c \in Calls, pc[c] # "idle", Complete(c), UNCHANGED <<epoch, approval, overlapped>>,
         \/ record' = record
         \/ holds[c] # None /\ \E rec \in Ledger!Record : RecordStep(holds[c], rec)
  PROVE  Inv'
<1> DEFINE g == using[c].grant
<1>1. /\ Ends(c) /\ g \in Grants /\ grant[g] # None /\ grant'[g] # None
      /\ grant' \in [Grants -> GrantRecord \union {None}] /\ completed' \in [Grants -> Nat]
      /\ grant'[g].epoch = grant[g].epoch
      /\ \A h \in Grants \ {g} : grant'[h] = grant[h] /\ completed'[h] = completed[h]
  <2>1. TypeOK /\ GrantInv
    BY DEF Inv
  <2>2. /\ grant[g] \in GrantRecord
        /\ grant'[g] = [grant[g] EXCEPT !.uses = using[c].uses + 1]
    BY <2>1, CompleteIs DEF TypeOK
  <2>3. grant'[g].epoch = grant[g].epoch
    BY <2>2 DEF GrantRecord
  <2> QED BY <2>1, <2>3, CompleteIs, NoneIsNoRecord
<1> HIDE DEF g
<1>2. \A h \in Grants : /\ grant'[h] = None <=> grant[h] = None
                        /\ grant[h] # None => grant'[h].epoch = grant[h].epoch
                        /\ grant[h] = None => completed'[h] = completed[h]
  BY <1>1
<1> QED BY <1>1, <1>2, EndingKeeps

LEMMA SettlesKeeps ==
  ASSUME Inv, NEW c \in Calls, Settles(c)
  PROVE  Inv'
<1>1. UNCHANGED <<epoch, approval, grant, using, holds, completed, overlapped, record>>
  BY DEF Settles, policy, ghosts, ledger
<1>2. PICK l \in {"reconciling", "releasing"} : pc' = [pc EXCEPT ![c] = l]
  BY DEF Settles
<1>3. pc[c] = "running" /\ holds[c] # None
  BY DEF Settles
<1>4. /\ pc' \in [Calls -> {"idle", "reserving", "running", "reconciling", "releasing"}]
      /\ pc'[c] = l /\ \A d \in Calls \ {c} : pc'[d] = pc[d]
  BY <1>2 DEF Inv, TypeOK
<1>5. TypeOK'
  BY <1>1, <1>3, <1>4 DEF Inv, TypeOK
<1>6. HoldInv'
  BY <1>1, <1>3, <1>4 DEF Inv, HoldInv, CostOf, HasRun
<1> QED BY <1>1, <1>5, <1>6 DEF Inv, RecordType, GrantInv

LEMMA InvStep == Inv /\ [Next]_vars => Inv'
<1> SUFFICES ASSUME Inv, Kind PROVE Inv'
  BY StepKinds DEF Inv
<1>1. CASE UNCHANGED vars
  BY <1>1 DEF vars, policy, broker, ghosts, ledger, Inv, TypeOK, RecordType, HoldInv, CostOf, HasRun,
     GrantInv
<1>2. CASE PolicyStep
  BY <1>2, PolicyKeeps
<1>3. ASSUME NEW g \in Grants, IssueGrant(g) \/ GrantExpires(g) PROVE Inv'
  BY <1>3, GrantSteps, GrantKeeps
<1>4. ASSUME NEW g \in Grants, NEW c \in Calls, Execute(c, g) PROVE Inv'
  BY <1>4, ExecuteKeeps
<1>5. ASSUME NEW c \in Calls, Abandons(c) PROVE Inv'
  <2>1. /\ Ends(c) /\ UNCHANGED <<epoch, approval, overlapped, grant, completed, record>>
    BY <1>5 DEF Abandons, policy, ghosts, ledger
  <2>2. grant \in [Grants -> GrantRecord \union {None}] /\ completed \in [Grants -> Nat]
    BY DEF Inv, TypeOK
  <2> QED BY <2>1, <2>2, EndingKeeps
<1>6. ASSUME NEW c \in Calls, CompletesFree(c) PROVE Inv'
  BY <1>6, CompleteKeeps DEF CompletesFree, policy, ledger
<1>7. ASSUME NEW c \in Calls, Reconcile(c) PROVE Inv'
  <2>1. holds[c] # None /\ \E rec \in Ledger!Record : RecordStep(holds[c], rec)
    BY <1>7, ReconcileIs DEF Inv, RecordStep
  <2>2. pc[c] # "idle" /\ Complete(c) /\ UNCHANGED <<epoch, approval, overlapped>>
    BY <1>7 DEF Reconcile, policy
  <2> QED BY <2>1, <2>2, CompleteKeeps
<1>8. ASSUME NEW c \in Calls, Release(c) PROVE Inv'
  <2>1. holds[c] # None /\ \E rec \in Ledger!Record : RecordStep(holds[c], rec)
    BY <1>8, ReleaseIs DEF Inv, RecordStep
  <2>2. Ends(c) /\ UNCHANGED <<epoch, approval, grant, completed, overlapped>>
    BY <1>8 DEF Release, policy, ghosts
  <2>3. grant \in [Grants -> GrantRecord \union {None}] /\ completed \in [Grants -> Nat]
    BY DEF Inv, TypeOK
  <2> QED BY <2>1, <2>2, <2>3, EndingKeeps
<1>9. ASSUME NEW c \in Calls, Reserve(c) \/ Settles(c) PROVE Inv'
  BY <1>9, ReserveKeeps, SettlesKeeps
<1> QED BY <1>1, <1>2, <1>3, <1>4, <1>5, <1>6, <1>7, <1>8, <1>9 DEF Kind

\* Every variable of the broker has its type in every reachable state, and what
\* calls of execute() hold is as HoldInv says.
THEOREM TypeCorrect == Spec => []TypeOK
<1>1. Init => Inv
  BY InvInit
<1>2. Inv => TypeOK
  BY DEF Inv
<1> QED BY <1>1, <1>2, InvStep, PTL DEF Spec

-----------------------------------------------------------------------------
(* Reservations.                                                           *)

\* No tool runs on a reservation that another execution pays with, or on none.
THEOREM RunsArePaidHolds == Spec => []RunsArePaid
<1>1. Init => Inv
  BY InvInit
<1>2. Inv => RunsArePaid
  BY DEF Inv, HoldInv, HasRun, RunsArePaid
<1> QED BY <1>1, <1>2, InvStep, PTL DEF Spec

\* NothingStranded for one reservation.
Accounted(r) ==
    record[r] # None /\ record[r].remaining > 0 =>
        \/ \E c \in Calls : holds[c] = r
        \/ \E g \in Grants : /\ grant[g] # None /\ grant[g].epoch < epoch
                             /\ Cost[g] = record[r].original

\* A revoked grant stays one.
LEMMA RevokedStays ==
  ASSUME Inv, Kind, NEW g \in Grants, grant[g] # None, grant[g].epoch < epoch
  PROVE  (grant[g] # None /\ grant[g].epoch < epoch)'
<1>1. CASE UNCHANGED <<epoch, grant>>
  BY <1>1
<1>2. CASE PolicyStep
  BY <1>2 DEF PolicyStep, broker, Inv, TypeOK, GrantRecord
<1>3. ASSUME NEW h \in Grants, IssueGrant(h) \/ GrantExpires(h)
      PROVE  (grant[g] # None /\ grant[g].epoch < epoch)'
  <2>1. CASE h = g
    <3>1. GrantExpires(g)
      BY <1>3, <2>1 DEF IssueGrant
    <3>2. grant[g] \in GrantRecord
      BY DEF Inv, TypeOK
    <3>3. /\ [grant[g] EXCEPT !.expired = TRUE] \in GrantRecord
          /\ [grant[g] EXCEPT !.expired = TRUE].epoch = grant[g].epoch
      BY <3>2 DEF GrantRecord
    <3>4. grant'[g] = [grant[g] EXCEPT !.expired = TRUE] /\ epoch' = epoch
      BY <3>1 DEF GrantExpires, policy, Inv, TypeOK
    <3> QED BY <3>3, <3>4, NoneIsNoRecord
  <2>2. CASE h # g
    BY <1>3, <2>2 DEF IssueGrant, GrantExpires, policy, Inv, TypeOK
  <2> QED BY <2>1, <2>2
<1>4. ASSUME NEW c \in Calls, pc[c] # "idle", Complete(c), epoch' = epoch
      PROVE  (grant[g] # None /\ grant[g].epoch < epoch)'
  <2>1. TypeOK /\ GrantInv
    BY DEF Inv
  <2>2. CASE using[c].grant = g
    <3>1. grant[g] \in GrantRecord
      BY <2>1 DEF TypeOK
    <3>2. /\ grant'[g] = [grant[g] EXCEPT !.uses = using[c].uses + 1]
          /\ grant'[g] \in GrantRecord
      BY <1>4, <2>1, <2>2, CompleteIs
    <3>3. grant'[g].epoch = grant[g].epoch
      BY <3>1, <3>2 DEF GrantRecord
    <3> QED BY <1>4, <3>2, <3>3, NoneIsNoRecord
  <2>3. CASE using[c].grant # g
    BY <1>4, <2>1, <2>3, CompleteIs
  <2> QED BY <2>2, <2>3
<1>5. ASSUME NEW c \in Calls, CompletesFree(c) \/ Reconcile(c)
      PROVE  (grant[g] # None /\ grant[g].epoch < epoch)'
  BY <1>4, <1>5 DEF CompletesFree, Reconcile, policy
<1>6. ASSUME NEW c \in Calls,
             \/ \E h \in Grants : Execute(c, h)
             \/ Reserve(c) \/ Abandons(c) \/ Settles(c) \/ Release(c)
      PROVE  (grant[g] # None /\ grant[g].epoch < epoch)'
  BY <1>1, <1>6 DEF Execute, Reserve, Abandons, Settles, Release, policy
<1>7. CASE UNCHANGED vars
  BY <1>1, <1>7 DEF vars, policy, broker
<1> QED BY <1>2, <1>3, <1>5, <1>6, <1>7 DEF Kind

\* A step that leaves what is reserved and who holds it alone.
LEMMA AccountedStays ==
  ASSUME Inv, Kind, NEW r \in Reservations, Accounted(r), record'[r] = record[r],
         \A c \in Calls : holds[c] = r => holds'[c] = r
  PROVE  Accounted(r)'
BY RevokedStays DEF Accounted

\* A step that settles r.
LEMMA SettledIsAccounted ==
  ASSUME RecordType, NEW r \in Reservations, NEW rec \in Ledger!Record, rec.remaining = 0,
         RecordStep(r, rec)
  PROVE  Accounted(r)'
<1>1. record'[r] = rec
  BY DEF RecordType, RecordStep
<1> QED BY <1>1 DEF Accounted

LEMMA AccountedStep ==
  ASSUME Inv, Kind, NEW r \in Reservations, Accounted(r)
  PROVE  Accounted(r)'
<1>1. CASE UNCHANGED <<record, holds>>
  BY <1>1, AccountedStays
<1>2. CASE PolicyStep \/ UNCHANGED vars
  BY <1>1, <1>2 DEF PolicyStep, broker, ledger, vars
<1>3. ASSUME NEW g \in Grants, IssueGrant(g) \/ GrantExpires(g) \/ \E c \in Calls : Execute(c, g)
      PROVE  Accounted(r)'
  BY <1>1, <1>3 DEF IssueGrant, GrantExpires, Execute, ledger
<1>4. ASSUME NEW c \in Calls, Settles(c) PROVE Accounted(r)'
  BY <1>1, <1>4 DEF Settles, ledger
<1>5. ASSUME NEW c \in Calls, Reserve(c) PROVE Accounted(r)'
  <2>1. PICK q \in Reservations :
            /\ record[q] = None
            /\ RecordStep(q, [budget |-> Budget, category |-> Category,
                   original |-> CostOf(c), remaining |-> CostOf(c), consumed |-> 0,
                   state |-> "reserved"])
            /\ holds' = [holds EXCEPT ![c] = q]
    BY <1>5, ReserveIs DEF Inv
  <2>2. holds[c] = None
    BY <1>5 DEF Inv, HoldInv, HasRun, Reserve
  <2>3. CASE q = r
    BY <2>1, <2>3 DEF Accounted, Inv, TypeOK
  <2>4. CASE q # r
    <3>1. record'[r] = record[r]
      BY <2>1, <2>4 DEF RecordStep, Inv, RecordType
    <3>2. \A d \in Calls : holds[d] = r => holds'[d] = r
      BY <2>1, <2>2, BrokerAssumption DEF Inv, TypeOK
    <3> QED BY <3>1, <3>2, AccountedStays
  <2> QED BY <2>3, <2>4
<1>6. ASSUME NEW c \in Calls, Ends(c), record' = record,
             holds[c] # None => ~Authorized(using[c].grant), UNCHANGED <<epoch, grant>>
      PROVE  Accounted(r)'
  <2>1. holds'[c] = None /\ \A d \in Calls \ {c} : holds'[d] = holds[d]
    BY <1>6, EndsIs DEF Inv
  <2>2. CASE holds[c] # r
    BY <1>6, <2>1, <2>2, AccountedStays
  <2>3. CASE holds[c] = r
    <3> DEFINE g == using[c].grant
    <3>1. r # None
      BY BrokerAssumption
    <3>2. g \in Grants /\ record[r].original = Cost[g]
      BY <2>3, <3>1, HeldType DEF Inv, HoldInv, CostOf
    <3>3. grant[g] # None
      BY <3>2, BrokerAssumption DEF Inv, GrantInv
    <3>4. grant[g] \in GrantRecord
      BY <3>2, <3>3 DEF Inv, TypeOK
    <3>5. grant[g].epoch < epoch
      <4>1. grant[g].epoch # epoch
        BY <1>6, <2>3, <3>1 DEF Authorized
      <4>2. grant[g].epoch <= epoch
        BY <3>2, <3>3 DEF Inv, GrantInv
      <4>3. grant[g].epoch \in Nat /\ epoch \in Nat
        BY <3>4 DEF GrantRecord, Inv, TypeOK
      <4> QED BY <4>1, <4>2, <4>3
    <3> QED BY <1>6, <3>2, <3>3, <3>5 DEF Accounted
  <2> QED BY <2>2, <2>3
<1>7. ASSUME NEW c \in Calls, Abandons(c) \/ CompletesFree(c) PROVE Accounted(r)'
  <2>1. CASE Abandons(c)
    BY <1>6, <2>1 DEF Abandons, policy, ledger
  <2>2. CASE CompletesFree(c)
    <3>1. Ends(c) /\ record' = record /\ holds[c] = None
      BY <2>2 DEF CompletesFree, Complete, ledger
    <3>2. \A d \in Calls \ {c} : holds'[d] = holds[d]
      BY <3>1, EndsIs DEF Inv
    <3>3. r # None
      BY BrokerAssumption
    <3> QED BY <3>1, <3>2, <3>3, AccountedStays
  <2> QED BY <1>7, <2>1, <2>2
<1>8. ASSUME NEW c \in Calls, NEW rec \in Ledger!Record, Ends(c), holds[c] # None,
             rec.remaining = 0, RecordStep(holds[c], rec)
      PROVE  Accounted(r)'
  <2>1. \A d \in Calls \ {c} : holds'[d] = holds[d]
    BY <1>8, EndsIs DEF Inv
  <2>2. CASE holds[c] = r
    BY <1>8, <2>2, SettledIsAccounted DEF Inv
  <2>3. CASE holds[c] # r
    <3>1. record'[r] = record[r]
      BY <1>8, <2>3 DEF RecordStep, Inv, RecordType
    <3> QED BY <2>1, <2>3, <3>1, AccountedStays
  <2> QED BY <2>2, <2>3
<1>9. ASSUME NEW c \in Calls, Reconcile(c) \/ Release(c) PROVE Accounted(r)'
  <2>1. holds[c] # None /\ Ends(c)
    BY <1>9 DEF Reconcile, Release, Complete, Inv, HoldInv
  <2>2. Held(c) \in Ledger!Record
    BY <2>1, HeldType DEF Inv
  <2>3. CASE Reconcile(c)
    <3> DEFINE rec == [Held(c) EXCEPT !.remaining = 0, !.consumed = CostOf(c),
                                      !.state = "reconciled"]
    <3>1. rec.remaining = 0
      BY <2>2 DEF Ledger!Record
    <3>2. RecordStep(holds[c], rec)
      BY <2>3, ReconcileIs DEF Inv
    <3>3. rec \in Ledger!Record
      BY <3>2 DEF RecordStep
    <3> HIDE DEF rec
    <3> QED BY <1>8, <2>1, <3>1, <3>2, <3>3
  <2>4. CASE Release(c)
    <3> DEFINE rec == [Held(c) EXCEPT !.remaining = 0, !.state = "released"]
    <3>1. rec.remaining = 0
      BY <2>2 DEF Ledger!Record
    <3>2. RecordStep(holds[c], rec)
      BY <2>4, ReleaseIs DEF Inv
    <3>3. rec \in Ledger!Record
      BY <3>2 DEF RecordStep
    <3> HIDE DEF rec
    <3> QED BY <1>8, <2>1, <3>1, <3>2, <3>3
  <2> QED BY <1>9, <2>3, <2>4
<1> QED BY <1>2, <1>3, <1>4, <1>5, <1>7, <1>9 DEF Kind

\* Whatever fails, is refused, or overlaps: what is reserved is still held by an
\* execution, or the authority of a grant of that price was revoked.
THEOREM NothingStrandedHolds == Spec => []NothingStranded
<1>1. Init => Inv /\ NothingStranded
  BY InvInit DEF Init, Ledger!Init, NothingStranded
<1>2. Inv /\ NothingStranded /\ [Next]_vars => Inv' /\ NothingStranded'
  <2> SUFFICES ASSUME Inv, NothingStranded, [Next]_vars PROVE Inv' /\ NothingStranded'
    OBVIOUS
  <2>1. Kind
    BY StepKinds DEF Inv
  <2>2. \A r \in Reservations : Accounted(r)
    BY DEF NothingStranded, Accounted
  <2>3. \A r \in Reservations : Accounted(r)'
    BY <2>1, <2>2, AccountedStep
  <2> QED BY <2>3, InvStep DEF NothingStranded, Accounted
<1> QED BY <1>1, <1>2, PTL DEF Spec

-----------------------------------------------------------------------------
(* Approvals, and the ledger.                                              *)

\* No operation brings a rejected or revoked approval back.
THEOREM DenialsAreFinal == Spec => DeniedStaysDenied
<1> DEFINE Denied(a) == approval[a] # None /\ approval[a].state \in {"rejected", "revoked"}
           Kept == \A a \in Approvals : Denied(a) => approval'[a].state \in {"rejected", "revoked"}
<1>1. TypeOK /\ [Next]_vars => [Kept]_vars
  <2> SUFFICES ASSUME TypeOK, Next, NEW a \in Approvals, Denied(a)
               PROVE  approval'[a].state \in {"rejected", "revoked"}
    OBVIOUS
  <2>1. approval[a] \in ApprovalRecord /\ approval[a].state \in {"rejected", "revoked"}
    BY DEF TypeOK
  <2>2. CASE approval' = approval
    BY <2>1, <2>2
  <2>3. ASSUME NEW b \in Approvals, NEW s \in {"approved", "rejected", "revoked"},
               b = a => s = "revoked", approval' = [approval EXCEPT ![b].state = s]
        PROVE  approval'[a].state \in {"rejected", "revoked"}
    BY <2>1, <2>3 DEF TypeOK, ApprovalRecord
  <2>4. ASSUME NEW b \in Approvals, Request(b) PROVE approval'[a].state \in {"rejected", "revoked"}
    BY <2>1, <2>4 DEF Request, TypeOK
  <2>5. ASSUME NEW b \in Approvals, ApprovalExpires(b)
        PROVE  approval'[a].state \in {"rejected", "revoked"}
    <3>1. approval' = [approval EXCEPT ![b].expired = TRUE]
      BY <2>5 DEF ApprovalExpires
    <3> QED BY <2>1, <3>1 DEF TypeOK, ApprovalRecord
  <2>6. ASSUME NEW b \in Approvals, NEW s \in {"approved", "rejected"}, Decide(b, s)
        PROVE  approval'[a].state \in {"rejected", "revoked"}
    <3>1. b # a
      BY <2>1, <2>6 DEF Decide, Decidable
    <3> QED BY <2>3, <2>6, <3>1 DEF Decide
  <2>7. ASSUME NEW b \in Approvals, Revoke(b)
        PROVE  approval'[a].state \in {"rejected", "revoked"}
    BY <2>3, <2>7 DEF Revoke
  <2>8. ASSUME \/ RevokeAuthority
               \/ \E g \in Grants : IssueGrant(g) \/ GrantExpires(g) \/ \E c \in Calls : Execute(c, g)
               \/ \E c \in Calls : Reserve(c) \/ ReserveRefused(c) \/ ToolReturns(c)
                                   \/ ToolFails(c) \/ Reconcile(c) \/ Release(c)
        PROVE  approval' = approval
    BY <2>8 DEF RevokeAuthority, IssueGrant, GrantExpires, Execute, Reserve, ReserveRefused,
       ToolReturns, ToolFails, Reconcile, Release, policy
  <2> QED BY <2>2, <2>4, <2>5, <2>6, <2>7, <2>8 DEF Next
<1> QED BY <1>1, TypeCorrect, PTL DEF Spec, DeniedStaysDenied

\* The broker uses its budget as the BudgetLedger allows: each of its steps is one
\* of the ledger's or leaves the ledger alone.  What holds of every behaviour of
\* BudgetLedger, its limits for one, holds under the broker.
THEOREM UsesTheLedger == Spec => Ledger!Spec
<1>1. Init => Ledger!Init
  BY DEF Init
<1>2. Inv /\ [Next]_vars => [Ledger!Next]_(Ledger!vars)
  <2> SUFFICES ASSUME Inv, Kind PROVE [Ledger!Next]_(Ledger!vars)
    BY StepKinds DEF Inv
  <2>1. CASE UNCHANGED ledger
    BY <2>1 DEF ledger, Ledger!vars, Ledger!totals
  <2>2. ASSUME NEW c \in Calls, Reserve(c) PROVE Ledger!Next
    <3>1. PICK r \in Reservations : Ledger!Reserve(r, Budget, Category, CostOf(c))
      BY <2>2 DEF Reserve
    <3>2. CostOf(c) \in {Cost[g] : g \in Grants} \ {0}
      BY <2>2 DEF Reserve, Inv, HoldInv, TypeOK, CostOf
    <3> QED BY <3>1, <3>2 DEF Ledger!Next
  <2>3. ASSUME NEW c \in Calls, Reconcile(c) PROVE Ledger!Next
    <3>1. holds[c] # None
      BY <2>3 DEF Reconcile, Inv, HoldInv
    <3>2. holds[c] \in Reservations /\ CostOf(c) \in {Cost[g] : g \in Grants}
      BY <3>1, HeldType DEF Inv, CostOf
    <3> QED BY <2>3, <3>2 DEF Reconcile, Ledger!Next
  <2>4. ASSUME NEW c \in Calls, Release(c) PROVE Ledger!Next
    <3>1. holds[c] # None
      BY <2>4 DEF Release, Inv, HoldInv
    <3>2. /\ holds[c] \in Reservations
          /\ record[holds[c]].remaining \in ({Cost[g] : g \in Grants} \ {0}) \union {0}
      BY <3>1, HeldType DEF Inv, Held, CostOf
    <3> QED BY <2>4, <3>2 DEF Release, Ledger!Next
  <2>5. CASE UNCHANGED vars \/ PolicyStep
    BY <2>1, <2>5 DEF vars, PolicyStep
  <2>6. ASSUME NEW g \in Grants, IssueGrant(g) \/ GrantExpires(g) \/ \E c \in Calls : Execute(c, g)
        PROVE  UNCHANGED ledger
    BY <2>6 DEF IssueGrant, GrantExpires, Execute
  <2>7. ASSUME NEW c \in Calls, Abandons(c) \/ Settles(c) \/ CompletesFree(c)
        PROVE  UNCHANGED ledger
    BY <2>7 DEF Abandons, Settles, CompletesFree
  <2> QED BY <2>1, <2>2, <2>3, <2>4, <2>5, <2>6, <2>7 DEF Kind
<1>3. Init => Inv
  BY InvInit
<1> QED BY <1>1, <1>2, <1>3, InvStep, PTL DEF Spec, Ledger!Spec

Proved == INSTANCE BudgetLedgerProofs WITH
    Budgets <- {Budget}, Categories <- {Category},
    HardLimit <- [b \in {Budget} |-> Limit],
    CategoryLimit <- [bc \in {Budget} \X {Category} |-> Limit],
    Amounts <- {Cost[g] : g \in Grants} \ {0}, Actuals <- {Cost[g] : g \in Grants},
    UsageIds <- {}, replaced <- {}

\* The theorems about BudgetLedger are about the ledger of the broker.
LEMMA ProvedLedger == Spec => Proved!Spec
<1>1. Ledger!Init <=> Proved!Init
  BY DEF Ledger!Init, Proved!Init
<1>2. [Ledger!Next]_(Ledger!vars) <=> [Proved!Next]_(Proved!vars)
  BY DEF Ledger!Next, Ledger!vars, Ledger!totals, Ledger!Reserve, Ledger!Consume, Ledger!Reconcile,
     Ledger!Release, Ledger!Fits, Ledger!Move, Ledger!Covers, Ledger!Consumed, Ledger!Overrun,
     Proved!Next, Proved!vars, Proved!totals, Proved!Reserve, Proved!Consume, Proved!Reconcile,
     Proved!Release, Proved!Fits, Proved!Move, Proved!Covers, Proved!Consumed, Proved!Overrun
<1> QED BY <1>1, <1>2, UsesTheLedger, PTL DEF Ledger!Spec, Proved!Spec

\* What they assume holds of it.
LEMMA ProvedAssumptions == Proved!LedgerAssumption /\ Proved!NoneIsNoRecord
<1>1. Proved!LedgerAssumption
  BY BrokerAssumption DEF Proved!LedgerAssumption
<1>2. Proved!NoneIsNoRecord
  BY NoneIsNoRecord DEF Proved!NoneIsNoRecord, Proved!Record, Proved!Usage, Proved!States,
     Ledger!Record, Ledger!Usage, Ledger!States
<1> QED BY <1>1, <1>2

\* The limits of the budget hold, however executions overlap, fail and settle.
THEOREM LimitsHold == Spec => []Ledger!WithinLimits
<1>1. Proved!Spec => []Proved!WithinLimits
  BY ProvedAssumptions, Proved!WithinLimitsHolds
<1>2. Proved!WithinLimits <=> Ledger!WithinLimits
  BY DEF Ledger!WithinLimits, Proved!WithinLimits
<1> QED BY <1>1, <1>2, ProvedLedger, PTL

\* What the budget has reserved and consumed is what the executions hold and were
\* charged: its totals are the sums over their reservations.
THEOREM LedgerBalanced == Spec => []Ledger!Balanced
<1>1. Proved!Spec => []Proved!Balanced
  BY ProvedAssumptions, Proved!BalancedHolds
<1>2. Proved!Balanced <=> Ledger!Balanced
  <2>0. ASSUME NEW f PROVE Ledger!Units(f) = Proved!Units(f)
    BY DEF Ledger!Units, Proved!Units
  <2>1. ASSUME NEW n, NEW f PROVE Ledger!IsTotal(n, f) <=> Proved!IsTotal(n, f)
    BY <2>0 DEF Ledger!IsTotal, Ledger!IsFiniteSet, Ledger!Cardinality,
       Proved!IsTotal, Proved!IsFiniteSet, Proved!Cardinality
  <2>2. ASSUME NEW b, NEW Cs
        PROVE  /\ Ledger!RemainingIn(b, Cs) = Proved!RemainingIn(b, Cs)
               /\ Ledger!ConsumedIn(b, Cs) = Proved!ConsumedIn(b, Cs)
    BY DEF Ledger!RemainingIn, Ledger!ConsumedIn, Proved!RemainingIn, Proved!ConsumedIn
  <2> QED
    BY <2>1, <2>2 DEF Ledger!Balanced, Proved!Balanced
<1> QED BY <1>1, <1>2, ProvedLedger, PTL
=============================================================================
