SPECIFICATION FairSpec
CONSTANTS
    Watchers = {w1}
    Capacity = 2
    Buffer = 2
    MaxTxn = 2
    MaxRev = 3
    MaxRestarts = 1
    MaxInstalls = 1
    MaxDrops = 1
CHECK_DEADLOCK FALSE
INVARIANTS
    TypeOK
    Sealed
    GapFree
PROPERTIES
    CatchesUp
