SPECIFICATION Spec
CONSTANTS
    k1 = k1
    k2 = k2
    k3 = k3
    a1 = a1
    a2 = a2
    b1 = b1
    b2 = b2
    None = None
    Calls = {c1, c2}
    Keys = {k1, k2, k3}
    Bodies = {b1, b2}
    Aggregates = {a1, a2}
    Requests <- MCRequests
    Emits <- MCEmits
    MaxFaults = 0
INVARIANTS
    OneExecution
