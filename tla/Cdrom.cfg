SPECIFICATION FairSpec
CONSTANTS
    PresentDelay = 2
    SecondDelays = {3}
    InitialDelay = 2
    SectorDelay = 5
    Words = 2
    Teardown = 1
    Commands = {"Seek", "Stop", "Read"}
    MaxChunk = 5
INVARIANTS
    NoResponseLost
    OneInterruptPerResponse
    TransferIsContiguous
PROPERTIES
    TransferEnds
    Settles
CHECK_DEADLOCK FALSE
