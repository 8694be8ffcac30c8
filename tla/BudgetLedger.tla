---------------------------- MODULE BudgetLedger ----------------------------
(***************************************************************************)
(* The BudgetLedger: reservations against budgets with hard limits, in     *)
(* total and per category, their consumption, reconciliation and release.  *)
(*                                                                         *)
(* The calls on a budget are serialised, and the work of a call runs to    *)
(* its end without an await, so a call is one step; a refused call changes *)
(* nothing.  The reservations of all budgets of a tenant share one map,    *)
(* keyed by the reservation ID, and so do the usage records.  Amounts are  *)
(* in minor units.  Soft-limit alerts, which only report, are left out.    *)
(***************************************************************************)
EXTENDS Integers, Totals

CONSTANTS
    Budgets, Categories, Reservations, UsageIds,
    HardLimit,      \* per budget
    CategoryLimit,  \* per budget and category
    Amounts,        \* amounts that are reserved, consumed, released
    Actuals,        \* amounts that are reconciled, zero included
    None

ASSUME LedgerAssumption ==
    /\ HardLimit \in [Budgets -> Nat]
    /\ CategoryLimit \in [Budgets \X Categories -> Nat]
    /\ Amounts \subseteq Nat \ {0}
    /\ Actuals \subseteq Nat

States == {"reserved", "partially_consumed", "reconciled", "released"}
Record == [budget : Budgets, category : Categories, original : Nat, remaining : Nat,
           consumed : Nat, state : States]
Usage == [reservation : Reservations, amount : Nat]

ASSUME NoneIsNoRecord == None \notin Record \union Usage

VARIABLES
    record,         \* per reservation ID
    reserved, consumed,         \* per budget: reservedMinor, consumedMinor
    reservedBy, consumedBy,     \* per budget and category
    usage,          \* per usage ID
    replaced,       \* reservations that lost a usage record to a later one (ghost)
    anomalies       \* reservations an anomaly alert was raised for

totals == <<reserved, consumed, reservedBy, consumedBy>>
vars == <<record, totals, usage, replaced, anomalies>>

Init ==
    /\ record = [r \in Reservations |-> None]
    /\ reserved = [b \in Budgets |-> 0]
    /\ consumed = [b \in Budgets |-> 0]
    /\ reservedBy = [bc \in Budgets \X Categories |-> 0]
    /\ consumedBy = [bc \in Budgets \X Categories |-> 0]
    /\ usage = [u \in UsageIds |-> None]
    /\ replaced = {}
    /\ anomalies = {}

-----------------------------------------------------------------------------

\* MUTANT: what was consumed already does not count.
Fits_ReservedOnly(b, c, n) ==
    /\ reserved[b] + n <= HardLimit[b]
    /\ reservedBy[<<b, c>>] + n <= CategoryLimit[<<b, c>>]

\* n more can be committed to category c of budget b.
Fits(b, c, n) ==
    /\ consumed[b] + reserved[b] + n <= HardLimit[b]
    /\ consumedBy[<<b, c>>] + reservedBy[<<b, c>>] + n <= CategoryLimit[<<b, c>>]

\* Adds r to what is reserved and n to what is consumed, in total and in c.
Move(b, c, r, n) ==
    /\ reserved' = [reserved EXCEPT ![b] = @ + r]
    /\ reservedBy' = [reservedBy EXCEPT ![<<b, c>>] = @ + r]
    /\ consumed' = [consumed EXCEPT ![b] = @ + n]
    /\ consumedBy' = [consumedBy EXCEPT ![<<b, c>>] = @ + n]

\* A reservation ID that is known already is not reserved again, in any budget.
Reserve(r, b, c, n) ==
    /\ record[r] = None
    /\ Fits(b, c, n)
    /\ record' = [record EXCEPT ![r] =
           [budget |-> b, category |-> c, original |-> n, remaining |-> n, consumed |-> 0,
            state |-> "reserved"]]
    /\ Move(b, c, n, 0)
    /\ UNCHANGED <<usage, replaced, anomalies>>

\* Enough remains of a reservation to consume or release n.
Covers(rec, n) == n <= rec.remaining

\* MUTANT: consumption is taken from what remains and recorded nowhere.
Consumed_RemainingOnly(rec, n) ==
    [rec EXCEPT !.remaining = @ - n, !.state = "partially_consumed"]

\* MUTANT: consumption is not taken from what remains.
Consumed_KeepsRemaining(rec, n) ==
    [rec EXCEPT !.consumed = @ + n, !.state = "partially_consumed"]

Consumed(rec, n) ==
    [rec EXCEPT !.remaining = @ - n, !.consumed = @ + n, !.state = "partially_consumed"]

\* A usage record replaces any other with its ID, of the same reservation or not:
\* what is reported twice is consumed twice, and recorded once.
Consume(r, u, n) ==
    LET rec == record[r] IN
    /\ rec # None
    /\ Covers(rec, n)
    /\ record' = [record EXCEPT ![r] = Consumed(rec, n)]
    /\ Move(rec.budget, rec.category, -n, n)
    /\ usage' = [usage EXCEPT ![u] = [reservation |-> r, amount |-> n]]
    /\ replaced' = replaced \union
           {q \in Reservations : usage[u] # None /\ usage[u].reservation = q}
    /\ UNCHANGED anomalies

Overrun(rec, actual) == actual > rec.original

\* What the actual amount takes beyond what remains is reserved first.  All that
\* remains is then consumed or released, whatever state the reservation is in.
Reconcile(r, actual) ==
    LET rec == record[r]
        outstanding == actual - rec.consumed
        additional == outstanding - rec.remaining
    IN
    /\ rec # None
    /\ outstanding >= 0
    /\ additional > 0 => Fits(rec.budget, rec.category, additional)
    /\ record' = [record EXCEPT ![r] =
           [rec EXCEPT !.remaining = 0, !.consumed = actual, !.state = "reconciled"]]
    /\ Move(rec.budget, rec.category, -rec.remaining, outstanding)
    /\ anomalies' = IF Overrun(rec, actual) THEN anomalies \union {r} ELSE anomalies
    /\ UNCHANGED <<usage, replaced>>

\* An amount, or by default all that remains, which may be nothing.
Release(r, n) ==
    LET rec == record[r] IN
    /\ rec # None
    /\ n \in Amounts \union {rec.remaining}
    /\ Covers(rec, n)
    /\ record' = [record EXCEPT ![r] =
           [rec EXCEPT !.remaining = @ - n,
                       !.state = IF rec.remaining = n THEN "released" ELSE @]]
    /\ Move(rec.budget, rec.category, -n, 0)
    /\ UNCHANGED <<usage, replaced, anomalies>>

Next ==
    \E r \in Reservations :
        \/ \E b \in Budgets, c \in Categories, n \in Amounts : Reserve(r, b, c, n)
        \/ \E u \in UsageIds, n \in Amounts : Consume(r, u, n)
        \/ \E actual \in Actuals : Reconcile(r, actual)
        \/ \E n \in Amounts \union {0} : Release(r, n)

Spec == Init /\ [][Next]_vars

-----------------------------------------------------------------------------
(* Properties.                                                             *)

\* Every variable has its type.
TypeOK ==
    /\ record \in [Reservations -> Record \union {None}]
    /\ reserved \in [Budgets -> Int]
    /\ consumed \in [Budgets -> Nat]
    /\ reservedBy \in [Budgets \X Categories -> Int]
    /\ consumedBy \in [Budgets \X Categories -> Nat]
    /\ usage \in [UsageIds -> Usage \union {None}]
    /\ replaced \subseteq Reservations
    /\ anomalies \subseteq Reservations

\* What is reserved and consumed never exceeds the hard limits, of the budget and
\* of each category, whatever sequence of reservations, overruns and releases.
WithinLimits ==
    /\ \A b \in Budgets : consumed[b] + reserved[b] <= HardLimit[b]
    /\ \A bc \in Budgets \X Categories : consumedBy[bc] + reservedBy[bc] <= CategoryLimit[bc]

\* A reservation that was never reconciled stays within its original amount, and
\* one that overran it was reported as an anomaly.
OverrunsAreReported ==
    \A r \in Reservations :
        record[r] # None =>
            \/ record[r].consumed + record[r].remaining <= record[r].original
            \/ record[r].remaining = 0 /\ r \in anomalies

RemainingIn(b, Cs) ==
    [r \in Reservations |-> IF record[r] # None /\ record[r].budget = b /\ record[r].category \in Cs
                            THEN record[r].remaining ELSE 0]
ConsumedIn(b, Cs) ==
    [r \in Reservations |-> IF record[r] # None /\ record[r].budget = b /\ record[r].category \in Cs
                            THEN record[r].consumed ELSE 0]
UsedBy(r) ==
    [u \in UsageIds |-> IF usage[u] # None /\ usage[u].reservation = r THEN usage[u].amount ELSE 0]

\* The totals of a budget and those of its categories are the sums over its
\* reservations.
Balanced ==
    \A b \in Budgets :
        /\ IsTotal(reserved[b], RemainingIn(b, Categories))
        /\ IsTotal(consumed[b], ConsumedIn(b, Categories))
        /\ \A c \in Categories : /\ IsTotal(reservedBy[<<b, c>>], RemainingIn(b, {c}))
                                 /\ IsTotal(consumedBy[<<b, c>>], ConsumedIn(b, {c}))

\* The usage records of a reservation never add up to more than it consumed, whatever
\* is reported again, reconciled or released.  They add up to less only when it was
\* settled, by an amount of its own, or lost a record to a later report with the
\* same usage ID.
UsageAccounted ==
    \A r \in Reservations :
        record[r] # None =>
            \E n \in 0 .. record[r].consumed :
                /\ IsTotal(n, UsedBy(r))
                /\ \/ n = record[r].consumed
                   \/ r \in replaced
                   \/ record[r].state \in {"reconciled", "released"}
=============================================================================
