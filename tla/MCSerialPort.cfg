SPECIFICATION FairSpec
CONSTANTS
    Cards = {0}
    Pads = {0}
    Sectors = 1
    SectorBytes = 2
    Baud = 2
    Ack = 1
    Chunks = {2, 3}
    Jobs <- MCJobs
    HostModes = {"analog", "digital"}
    MaxStray = 1
    GuestAcks = TRUE
    ByteXor <- MCXor
INVARIANTS
    
    ReadDelivers
    ConfirmedSurvives

    
    
CHECK_DEADLOCK FALSE
