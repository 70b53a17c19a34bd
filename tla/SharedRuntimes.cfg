SPECIFICATION FairSpec
CONSTANTS
  Openers = {o1, o2}
  MaxCells = 2
  MaxOpens = 3
  MaxStops = 1
INVARIANTS
  CountIsExact
  SessionsAreOnCurrent
PROPERTIES
  IdleRuntimeEnds
CHECK_DEADLOCK FALSE
