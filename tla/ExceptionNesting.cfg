SPECIFICATION Spec
CONSTANTS
    Threads = {t1}
    Main = t1
    Kernel = Kernel
    Host = Host
    Shared = {1}
    MaxStep = 1
    Quirks = {}
INVARIANT
    LandsInLiveFrame
CHECK_DEADLOCK FALSE
