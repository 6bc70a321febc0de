SPECIFICATION FairSpec
CONSTANTS
    Pods = {p1, p2}
    Evictors = {e1, e2}
    Options <- AllOptions
    Attempts = 3
    Start <- MCStart
    Mins = {2}
    MaxOutside = 1
CHECK_DEADLOCK FALSE
INVARIANTS
    TypeOK
    TakenPodsStayNamed
PROPERTIES
    EvictionsSettle
