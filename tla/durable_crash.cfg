SPECIFICATION Spec
CONSTANTS
    MaxIndex = 3
    MaxBatch = 2
    MaxVote = 1
    MaxCrashes = 2
    Entries <- MCEntries
    Found <- AllFound
CHECK_DEADLOCK FALSE
INVARIANTS
    AppliedExactlyOnce
    NothingShownIsLost
    PromisesSurvive
