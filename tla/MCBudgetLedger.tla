--------------------------- MODULE MCBudgetLedger ---------------------------
(* Instances of BudgetLedger for TLC: two budgets that share two categories. *)
EXTENDS BudgetLedger, TLC
LOCAL INSTANCE FiniteSetsExt

CONSTANTS b1, b2, c1, c2

MCHardLimit == b1 :> 4 @@ b2 :> 2
MCCategoryLimit == <<b1, c1>> :> 3 @@ <<b1, c2>> :> 2 @@ <<b2, c1>> :> 2 @@ <<b2, c2>> :> 1

Symmetry == Permutations(Reservations) \union Permutations(UsageIds)

\* Counting the units of amounts gives their sum.
ASSUME CountingAddsUp ==
    \A f \in [1 .. 3 -> 0 .. 3], n \in 0 .. 9 :
        IsTotal(n, f) <=> n = MapThenSumSet(LAMBDA x : f[x], DOMAIN f)
=============================================================================
