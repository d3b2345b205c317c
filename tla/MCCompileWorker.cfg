SPECIFICATION WorkerSpec
CONSTANTS
    k1 = k1
    k2 = k2
    k3 = k3
    k4 = k4
    Keys <- MCKeys
    NoKey = NoKey
    WQ_CAP = 2
    STATE_CAP = 3
    MaxEnq = 5
INVARIANTS
    InFlightMatchesMap
    NoDuplicateWork
    NoSnapshotLeak
    MapHasRoom
PROPERTIES
    ImplementsFifo
    StopReturns
    QueuedIsCompiled
CHECK_DEADLOCK FALSE
