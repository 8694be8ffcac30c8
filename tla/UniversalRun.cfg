SPECIFICATION FairSpec
CONSTANTS
    Runs = {r1, r2}
    Keys = {k1}
    Calls = {c1, c2}
    None = None
    r1 = r1
    r2 = r2
    MaxAttempts <- MCMaxAttempts
    MaxFaults = 1
INVARIANTS
    OneRunPerKey
    RunFollowsLatestAttempt
    AnswersAreStored
PROPERTIES
    AcceptedRunsSettle
