SPECIFICATION FairSpec
CONSTANTS
  ExecIds = {e1, e2}
  Conns = {k1}
  Pools = {p1, p2}
  Cancellers = {c1}
  MaxRegistrations = 2
  Nil = Nil
INVARIANTS
  OrphanIsCancelled
  BroadcastReachesSnapshot
  LeftoverInterruptWasReplaced
  PoolOfRunningQueryIsActive
PROPERTIES
  SnapshotIsCancelled
  ReplacedQueryIsCancelled
