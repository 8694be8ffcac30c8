SPECIFICATION FairCommandSpec
CONSTANTS
    c1 = c1
    c2 = c2
    k1 = k1
    k2 = k2
    b1 = b1
    b2 = b2
    r1 = r1
    r2 = r2
    a1 = a1
    a2 = a2
    Nothing = Nothing
    Dispatches = {c1, c2}
    Keys = {k1, k2}
    Bodies = {b1, b2}
    Results = {r1, r2}
    Aggregates = {a1, a2}
    Emits <- MCEmits
    MaxFailures = 1
INVARIANTS
    AllOrNothing
    NoStaleDecision
PROPERTIES
    ImplementsAtomicCommands
    EveryDispatchEnds
