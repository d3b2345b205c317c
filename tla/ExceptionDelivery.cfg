SPECIFICATION FairSpec
CONSTANTS
    Threads = {t1, t2}
    Main = t1
    Kernel = Kernel
    Host = Host
    Shared = {1}
    MaxStep = 2
    Quirks = {}
INVARIANTS
    
    ContextIntact
    
PROPERTIES
    DeferredIsHonoured
CHECK_DEADLOCK FALSE
