SPECIFICATION Spec
CONSTANTS
  N = 3
  MaxRetries = 2
  MaxCrashes = 2
INVARIANTS
  CommittedMeansAll
  DecisionBeforeCommit
  CommitNeedsAllVotes
  RecoveryLeavesNoDoubt
  UncrashedRollbackIsClean
CHECK_DEADLOCK FALSE
