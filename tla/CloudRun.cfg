SPECIFICATION Spec
CONSTANTS
    None = None
    Runs = {r1, r2}
    Keys = {k1, k2}
    Estimates = {e1, e2}
    Calls = {c1, c2}
    Total = 2
    MaxCost = 3
    Costs = {1, 3, 4}
    Deposits = {2, 3}
    MaxCredit = 5
SYMMETRY Symmetry
CHECK_DEADLOCK FALSE
INVARIANTS
    ChargeIsUsage
    ResultsArePaid
    PrepaidBalanced
