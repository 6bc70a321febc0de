SPECIFICATION Spec
CONSTANTS
    Nil = Nil
    Capacity = 2
    Obj = obj
    Writers = {w1, w2, w3}
    Asks <- RaceAsks
    Leader = n1
    Followers = {}
    WriteAttempts = 3
    WaitExpires = FALSE
    MaxFaults = 1
    Start0 <- FoundOrNone
SYMMETRY WriterSymmetry
INVARIANTS
    AckedTookEffectUnlessVanished
    RequestsSoundUnlessScopedDry
PROPERTIES
    NothingUndone
