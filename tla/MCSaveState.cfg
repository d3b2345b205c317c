SPECIFICATION FairSpec
CONSTANTS
    Order <- MCOrder
    Slots = {s1, s2}
    Keys = {s1, s2, s13}
    Builds = {b1, b2}
    None = None
    MaxMoment = 1
INVARIANTS
    
    OneBuildOnly
    
PROPERTIES
    OneLoadPerRequest
    SaveIsServed
