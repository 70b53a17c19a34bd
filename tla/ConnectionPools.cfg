SPECIFICATION FairSpec
CONSTANTS
  Keys = {base, session, native}
  NativeKeys = {native}
  Base = {base}
  Tasks = {t1, t2}
  MaxPools = 3
  MaxRuntimes = 2
  MaxOps = 2
  MaxFaults = 2
INVARIANTS
  PoolIsInOnePlace
  ReplacedRuntimeHasNoRoute
PROPERTIES
  PoolsLiveOnce
  RemovedPoolEnds
CHECK_DEADLOCK FALSE
