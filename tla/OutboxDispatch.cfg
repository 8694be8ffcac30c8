SPECIFICATION FairSpec
CONSTANTS
    d1 = d1
    d2 = d2
    c1 = c1
    c2 = c2
    c3 = c3
    None = None
    Rows = {1}
    Dispatchers <- MCDispatchers
    Calls <- MCCalls
    DispatcherOf <- MCDispatcherOf
    ClaimDuration = 2
    MaxBatch = 1
    MaxClock = 3
    MaxFaults = 1
    LastFault = 1
INVARIANTS
    LeaseExclusion
    ExclusivePublication
    ExactlyOnceWithoutFaults
PROPERTIES
    PublishedIfDispatched
