SPECIFICATION FairWorkflowSpec
CONSTANTS
    Nothing = Nothing
    Calls = {r1}
    Activities = {a1, a2}
    Approvals = {p1}
    RetryLimit = 2
    LastVersion = 2
    MaxAttemptBound = 7
    MaxCancels = 2
    MaxCrashes = 2
INVARIANTS
    AttemptsBounded
PROPERTIES
    CancellationReachesHandlers
    EveryActivityEnds
CHECK_DEADLOCK FALSE
