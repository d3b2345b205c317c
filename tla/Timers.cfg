SPECIFICATION Spec
CONSTANTS
    M = 4
    Divs = {1, 3}
    Cycles = {1, 2, 7}
INVARIANTS
    BulkIsCounting
    PredictionIsExact
