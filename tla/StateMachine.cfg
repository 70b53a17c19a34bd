SPECIFICATION MachineSpec
CONSTANTS
  Clients = {c1, c2, c3}
  MaxOps = 6
  MaxCasRetries = 3
INVARIANTS
  VersionNotAhead
PROPERTIES
  ImplementsGraph
CHECK_DEADLOCK FALSE
