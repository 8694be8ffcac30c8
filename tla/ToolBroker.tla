----------------------------- MODULE ToolBroker -----------------------------
(***************************************************************************)
(* The ToolBroker with what it asks: the revocation epoch of the agent's   *)
(* authority, approvals, and the BudgetLedger for metered tools.           *)
(*                                                                         *)
(* issueGrant() and the operations of approvals and authority run to their *)
(* end without an await.  execute() reads the grant and makes its checks   *)
(* in one step, and then awaits the reservation, the tool and the          *)
(* reconciliation, while everybody else goes on.  Each ledger call checks  *)
(* the authority when it is made and works when its turn comes.  Time is   *)
(* kept as which grants and approvals have expired; a call goes by the     *)
(* instant it began at, and no grant outlives its authority.  Scopes,      *)
(* policy rules and the approver's own authority are data: the requests    *)
(* here are those that pass them.                                          *)
(***************************************************************************)
EXTENDS Integers, FiniteSets

CONSTANTS
    Grants, Approvals,
    Calls,              \* calls of execute() that may overlap
    Reservations,       \* reservation IDs, a fresh one for every metered call
    MaxUses,            \* per grant
    Cost,               \* per grant: estimatedCost, 0 for an unmetered tool
    NeedsApproval,      \* the grants of tools that require approval
    Budget, Category, Limit,    \* the budget of metered calls
    None,
    MaxEpoch, MaxRuns           \* bounds: revocations, executions of a grant

ASSUME BrokerAssumption ==
    /\ MaxUses \in [Grants -> Nat \ {0}]
    /\ Cost \in [Grants -> Nat]
    /\ NeedsApproval \subseteq Grants
    /\ Limit \in Nat /\ MaxEpoch \in Nat /\ MaxRuns \in Nat
    /\ None \notin Grants \union Reservations

VARIABLES
    epoch,      \* the agent's revocation epoch
    approval,   \* per approval: its state, epoch and expiry
    grant,      \* per grant: its authority's epoch, usesConsumed and expiry
    pc,         \* per call: how far it is
    using,      \* per call: the grant and the usesConsumed it read
    holds,      \* per call: its reservation
    completed,  \* per grant: executions that were answered
    overlapped, \* grants of which two executions overlapped
    record, reserved, consumed, reservedBy, consumedBy, usage, anomalies

Ledger == INSTANCE BudgetLedger WITH
    Budgets <- {Budget}, Categories <- {Category},
    HardLimit <- [b \in {Budget} |-> Limit],
    CategoryLimit <- [bc \in {Budget} \X {Category} |-> Limit],
    Amounts <- {Cost[g] : g \in Grants} \ {0}, Actuals <- {Cost[g] : g \in Grants},
    UsageIds <- {}, replaced <- {}

ledger == <<record, reserved, consumed, reservedBy, consumedBy, usage, anomalies>>
policy == <<epoch, approval>>
ghosts == <<completed, overlapped>>
broker == <<grant, pc, using, holds, ghosts>>
vars == <<policy, broker, ledger>>

NoUse == [grant |-> None, uses |-> 0]

Init ==
    /\ epoch = 0
    /\ approval = [a \in Approvals |-> None]
    /\ grant = [g \in Grants |-> None]
    /\ pc = [c \in Calls |-> "idle"]
    /\ using = [c \in Calls |-> NoUse]
    /\ holds = [c \in Calls |-> None]
    /\ completed = [g \in Grants |-> 0]
    /\ overlapped = {}
    /\ Ledger!Init

-----------------------------------------------------------------------------
(* Authority and approvals.                                                *)

\* AuthorityService.revoke(): every envelope issued so far is void.
RevokeAuthority ==
    /\ epoch < MaxEpoch
    /\ epoch' = epoch + 1
    /\ UNCHANGED <<approval, broker, ledger>>

\* verify(): the envelope of a grant was issued in the current epoch.
Authorized(g) == grant[g].epoch = epoch

Request(a) ==
    /\ approval[a] = None
    /\ approval' = [approval EXCEPT ![a] = [state |-> "pending", epoch |-> epoch, expired |-> FALSE]]
    /\ UNCHANGED <<epoch, broker, ledger>>

\* MUTANT: an approval is decided again until it is used.
Decidable_Again(a) == approval[a] # None

Decidable(a) == approval[a] # None /\ approval[a].state = "pending"

\* An expired approval is decided all the same; it is good for nothing.
Decide(a, s) ==
    /\ Decidable(a)
    /\ approval' = [approval EXCEPT ![a].state = s]
    /\ UNCHANGED <<epoch, broker, ledger>>

\* revoke() does not look at the state.
Revoke(a) ==
    /\ approval[a] # None
    /\ approval' = [approval EXCEPT ![a].state = "revoked"]
    /\ UNCHANGED <<epoch, broker, ledger>>

ApprovalExpires(a) ==
    /\ approval[a] # None /\ ~approval[a].expired
    /\ approval' = [approval EXCEPT ![a].expired = TRUE]
    /\ UNCHANGED <<epoch, broker, ledger>>

\* assertValid(), of an envelope of this epoch.
Approved(a, e) ==
    /\ approval[a] # None /\ approval[a].state = "approved" /\ ~approval[a].expired
    /\ approval[a].epoch = e /\ e = epoch

-----------------------------------------------------------------------------
(* Grants and their use.                                                   *)

\* An approval is presented where one is required.
Allowed(requiresApproval, e) == requiresApproval => \E a \in Approvals : Approved(a, e)

\* input.requiresApproval: whoever has a grant issued may ask for an approval, or
\* waive it, whatever the tool's definition says.
IssueGrant(g) ==
    /\ grant[g] = None
    /\ \E requiresApproval \in BOOLEAN : Allowed(requiresApproval, epoch)
    /\ grant' = [grant EXCEPT ![g] = [epoch |-> epoch, uses |-> 0, expired |-> FALSE]]
    /\ UNCHANGED <<policy, pc, using, holds, ghosts, ledger>>

GrantExpires(g) ==
    /\ grant[g] # None /\ ~grant[g].expired
    /\ grant' = [grant EXCEPT ![g].expired = TRUE]
    /\ UNCHANGED <<policy, pc, using, holds, ghosts, ledger>>

\* The checks of execute(), which goes by the tool's definition.
Usable(g) ==
    /\ grant[g] # None /\ ~grant[g].expired
    /\ grant[g].uses < MaxUses[g]
    /\ Authorized(g) /\ Allowed(g \in NeedsApproval, grant[g].epoch)

\* Bounds: executions of a grant, and reservation IDs that are left.
InBounds(g) ==
    /\ completed[g] + Cardinality({c \in Calls : using[c].grant = g}) < MaxRuns
    /\ Cost[g] > 0 => Cardinality({c \in Calls : pc[c] = "reserving"})
                          < Cardinality({r \in Reservations : record[r] = None})

\* MUTANT: only the first use of a grant is paid.
Metered_First(g) == Cost[g] > 0 /\ grant[g].uses = 0

Metered(g) == Cost[g] > 0

Execute(c, g) ==
    /\ pc[c] = "idle"
    /\ Usable(g) /\ InBounds(g)
    /\ pc' = [pc EXCEPT ![c] = IF Metered(g) THEN "reserving" ELSE "running"]
    /\ using' = [using EXCEPT ![c] = [grant |-> g, uses |-> grant[g].uses]]
    /\ overlapped' = IF \E e \in Calls : using[e].grant = g
                     THEN overlapped \union {g} ELSE overlapped
    /\ UNCHANGED <<policy, grant, holds, completed, ledger>>

\* The call is over, with an answer or an error.
Ends(c) ==
    /\ pc' = [pc EXCEPT ![c] = "idle"]
    /\ using' = [using EXCEPT ![c] = NoUse]
    /\ holds' = [holds EXCEPT ![c] = None]

CostOf(c) == Cost[using[c].grant]

Reserve(c) ==
    /\ pc[c] = "reserving"
    /\ \E r \in Reservations :
           /\ Ledger!Reserve(r, Budget, Category, CostOf(c))
           /\ holds' = [holds EXCEPT ![c] = r]
    /\ pc' = [pc EXCEPT ![c] = "running"]
    /\ UNCHANGED <<policy, grant, using, ghosts>>

ReserveRefused(c) ==
    /\ pc[c] = "reserving"
    /\ ~Ledger!Fits(Budget, Category, CostOf(c))
    /\ Ends(c)
    /\ UNCHANGED <<policy, grant, ghosts, ledger>>

\* MUTANT: an unsuccessful use is forgotten, its reservation with it.
Fails_Forgets(c) == Ends(c)

\* The catch clause: what was reserved is released, if the authority still
\* holds; otherwise release() throws, too.
Fails(c) ==
    IF holds[c] # None /\ Authorized(using[c].grant)
    THEN pc' = [pc EXCEPT ![c] = "releasing"] /\ UNCHANGED <<using, holds>>
    ELSE Ends(c)

\* MUTANT: the uses are stored as they were read.
UseRecorded_Unchanged(c) == grant

\* The record that was read when the call began is stored with one use more.
UseRecorded(c) == [grant EXCEPT ![using[c].grant].uses = using[c].uses + 1]

\* The use is recorded and answered.
Complete(c) ==
    /\ grant' = UseRecorded(c)
    /\ completed' = [completed EXCEPT ![using[c].grant] = @ + 1]
    /\ Ends(c)

\* The tool has run: a metered use is reconciled before it is recorded.
ToolReturns(c) ==
    /\ pc[c] = "running"
    /\ IF holds[c] = None THEN Complete(c)
       ELSE /\ IF Authorized(using[c].grant)
               THEN pc' = [pc EXCEPT ![c] = "reconciling"] /\ UNCHANGED <<using, holds>>
               ELSE Fails(c)
            /\ UNCHANGED <<grant, completed>>
    /\ UNCHANGED <<policy, overlapped, ledger>>

ToolFails(c) ==
    /\ pc[c] = "running"
    /\ Fails(c)
    /\ UNCHANGED <<policy, grant, ghosts, ledger>>

Reconcile(c) ==
    /\ pc[c] = "reconciling"
    /\ Ledger!Reconcile(holds[c], CostOf(c))
    /\ Complete(c)
    /\ UNCHANGED <<policy, overlapped>>

Release(c) ==
    /\ pc[c] = "releasing"
    /\ Ledger!Release(holds[c], record[holds[c]].remaining)
    /\ Ends(c)
    /\ UNCHANGED <<policy, grant, ghosts>>

Next ==
    \/ RevokeAuthority
    \/ \E a \in Approvals :
           \/ Request(a) \/ Revoke(a) \/ ApprovalExpires(a)
           \/ \E s \in {"approved", "rejected"} : Decide(a, s)
    \/ \E g \in Grants : IssueGrant(g) \/ GrantExpires(g) \/ \E c \in Calls : Execute(c, g)
    \/ \E c \in Calls :
           \/ Reserve(c) \/ ReserveRefused(c)
           \/ ToolReturns(c) \/ ToolFails(c)
           \/ Reconcile(c) \/ Release(c)

Spec == Init /\ [][Next]_vars

-----------------------------------------------------------------------------
(* Properties.                                                             *)

ApprovalRecord == [state : {"pending", "approved", "rejected", "revoked"},
                   epoch : Nat, expired : BOOLEAN]
GrantRecord == [epoch : Nat, uses : Nat, expired : BOOLEAN]

ASSUME NoneIsNoRecord == None \notin GrantRecord \union Ledger!Record \union Ledger!Usage

\* Every variable has its type; a call holds a reservation of the price of its
\* tool from the moment it was reserved, and of its own.
TypeOK ==
    /\ epoch \in Nat
    /\ approval \in [Approvals -> ApprovalRecord \union {None}]
    /\ grant \in [Grants -> GrantRecord \union {None}]
    /\ pc \in [Calls -> {"idle", "reserving", "running", "reconciling", "releasing"}]
    /\ using \in [Calls -> [grant : Grants \union {None}, uses : Nat]]
    /\ holds \in [Calls -> Reservations \union {None}]
    /\ completed \in [Grants -> Nat]
    /\ overlapped \subseteq Grants
    /\ \A c \in Calls : using[c].grant = None <=> pc[c] = "idle"

\* What is reserved belongs to an execution that is still on its way: a failed or
\* refused one leaves nothing behind, unless the authority of a grant of that
\* price was revoked while it ran.
NothingStranded ==
    \A r \in Reservations :
        record[r] # None /\ record[r].remaining > 0 =>
            \/ \E c \in Calls : holds[c] = r
            \/ \E g \in Grants : /\ grant[g] # None /\ grant[g].epoch < epoch
                                 /\ Cost[g] = record[r].original

\* Each reservation has one execution at most, and its price while the tool
\* runs: no tool is run on what another one pays.
RunsArePaid ==
    /\ \A c \in Calls :
           pc[c] \in {"running", "reconciling", "releasing"} /\ CostOf(c) > 0 =>
               /\ holds[c] # None
               /\ record[holds[c]].remaining = CostOf(c)
    /\ \A c, e \in Calls : c # e /\ holds[c] # None => holds[c] # holds[e]

\* While the executions of a grant come one after the other, every completed one
\* is counted and there are no more of them than the grant allows.
UsesCounted ==
    \A g \in Grants : grant[g] # None /\ g \notin overlapped =>
        /\ grant[g].uses = completed[g]
        /\ completed[g] <= MaxUses[g]

\* What was rejected or revoked is never approved again.
DeniedStaysDenied ==
    [][\A a \in Approvals :
           approval[a] # None /\ approval[a].state \in {"rejected", "revoked"}
               => approval'[a].state \in {"rejected", "revoked"}]_vars
=============================================================================
