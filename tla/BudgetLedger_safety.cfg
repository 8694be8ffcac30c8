SPECIFICATION Spec
CONSTANTS
    b1 = b1
    b2 = b2
    c1 = c1
    c2 = c2
    None = None
    Budgets = {b1, b2}
    Categories = {c1, c2}
    Reservations = {r1, r2, r3}
    UsageIds = {u1, u2}
    HardLimit <- MCHardLimit
    CategoryLimit <- MCCategoryLimit
    Amounts = {1, 2}
    Actuals = {0, 1, 2, 3}
SYMMETRY Symmetry
INVARIANTS
    WithinLimits
    Balanced
    UsageAccounted
