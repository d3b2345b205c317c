SPECIFICATION Spec
CONSTANTS
    f = f
    g = g
    A = A
    B = B
    p = p
    Addrs = {f}
    Images = {A, B}
    Pages = {p}
    PageOf <- OnePage
    KernelAddrs = {}
    NativeExec = TRUE
    Features = {"sljit", "live", "cps", "yield", "load"}
    Cache <- OneVariant
    Blobs <- NoFns
    BUDGET = 2
    CAND_CAP = 3
    ACTIVE_CAP = 3
    MaxGen = 2
    MaxDepth = 2
INVARIANTS
    NoShadowEscape

    
