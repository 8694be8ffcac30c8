SPECIFICATION FairSpec
CONSTANTS
    Engines = {e1}
    Callers = {c1, c2}
    EngineOf <- OneEngine
    MaxEvents = 3
    Mine <- MCMine
    Replay <- MCReplay
    MaxFaults = 2
    None = None
INVARIANTS ViewsAreWhole
PROPERTIES SnapshotsAreCurrent EveryCallEnds
