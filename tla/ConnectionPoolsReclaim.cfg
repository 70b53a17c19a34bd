SPECIFICATION FairSpec
CONSTANTS
  Keys = {base, session}
  NativeKeys = {}
  Base = {base}
  Tasks = {t1, t2}
  MaxPools = 1
  MaxRuntimes = 1
  MaxOps = 3
  MaxFaults = 1
INVARIANTS
  ReclaimedPoolIsUnused
  DrainHasWorkingHolder
PROPERTIES
  DrainEnds
CHECK_DEADLOCK FALSE
