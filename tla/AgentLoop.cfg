SPECIFICATION FairRunSpec
CONSTANTS
  CallIds = {1, 2}
  MaxTurns = 3
  MaxRepairs = 1
INVARIANTS
  ToolPairsIntact
  StopPreventsRequests
PROPERTY
  RunEnds
