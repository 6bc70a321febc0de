SPECIFICATION Spec
CONSTANTS
  Setups <- SmallSetups
  MaxEvents = 2
CHECK_DEADLOCK FALSE
PROPERTIES
  TerminatingStartsNothing
