SPECIFICATION FairPipelineSpec
CONSTANTS
    p1 = p1
    p2 = p2
    Keys <- MCKeys
    FileOf <- MCFileOf
    NoKey = NoKey
    WQ_CAP = 1
    STATE_CAP = 2
    MaxEnq = 2
    TRIED_CAP = 1
    CAND_CAP = 2
    BLOB_CAP = 3
INVARIANTS
    NoForgottenShard
    RegisteredOnce
    MemoMeansRegistered
PROPERTIES
    PublishedIsPickedUp
