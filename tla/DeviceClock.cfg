SPECIFICATION FairSpec
CONSTANTS
    VBLANK = 7
    HARD_CAP = 5
    ACK = 3
    Periods = {2, 6}
    Charges = {1, 3}
    Quanta = {2}
    MaxHold = 8
INVARIANTS
    AccessSeesExactDevices
    InterruptsOnTime
PROPERTIES
    ServiceTerminates
