SPECIFICATION FairSpec
CONSTANTS
  Setups <- SmallSetups
  MaxEvents = 2
CHECK_DEADLOCK FALSE
INVARIANTS
    StatusHonest
    RecordsAgree
PROPERTIES
    TerminalStays
    RunsAccounted
    AppsAfterInits
    Converges
