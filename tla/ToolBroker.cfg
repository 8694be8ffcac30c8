SPECIFICATION Spec
CONSTANTS
    g1 = g1
    g2 = g2
    None = None
    Grants = {g1, g2}
    Approvals = {a1}
    Calls = {c1, c2}
    Reservations = {r1, r2, r3}
    MaxUses <- MCMaxUses
    Cost <- MCCost
    NeedsApproval <- MCNeedsApproval
    Budget = Budget
    Category = Category
    Limit = 4
    MaxEpoch = 1
    MaxRuns = 3
SYMMETRY Symmetry
CHECK_DEADLOCK FALSE
INVARIANTS
    NothingStranded
    RunsArePaid
    UsesCounted
PROPERTIES
    DeniedStaysDenied
