SPECIFICATION FairSpec
CONSTANTS
    Nil = Nil
    Capacity = 2
    Obj = obj
    Writers = {w1, w2}
    Asks <- FollowerAsks
    Leader = n1
    Followers = {n2}
    WriteAttempts = 2
    WaitExpires = TRUE
    MaxFaults = 0
    Start0 <- Found
PROPERTIES
    NothingUndone
    EveryRequestAnswered
