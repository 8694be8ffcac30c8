SPECIFICATION WorkflowSpec
CONSTANTS
    Nothing = Nothing
    Calls = {r1, r2}
    Activities = {a1, a2}
    Approvals = {p1}
    RetryLimit = 2
    LastVersion = 2
    MaxAttemptBound = 3
    MaxCancels = 1
    MaxCrashes = 1
SYMMETRY Symmetry
INVARIANTS
    HistoryConsistent
    WaitsCanEnd
PROPERTIES
    TerminalIsFinal
    CompletedIsNotReplayed
CHECK_DEADLOCK FALSE
