CONSTANTS
    BufferCap = 2
    MaxChanges = 3
    MaxNoise = 2
    HasFallback = TRUE
SPECIFICATION Spec
CHECK_DEADLOCK FALSE
INVARIANTS
    QuietMeansCurrent
PROPERTIES
    StreamRegained
    ImplementsLevelTrigger
