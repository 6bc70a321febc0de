CONSTANTS
    Contents <- MCContents
    Good <- MCGood
    JournalCap = 1
    MaxBoots = 2
    MaxEdits = 1
    MaxPending = 1
    Faulty = {"hold", "run", "journal"}
    MaxLoad = 2
SPECIFICATION Spec
INVARIANTS
    SlotFollowsLifecycle
    StoreReleasedAtRestUnlessLeaked
    ControlFilesTellUnlessUnwritten
    FailedBootSawTheFile
PROPERTIES
    NothingStranded
    NeverMovedUnderARuntime
