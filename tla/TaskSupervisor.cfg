SPECIFICATION FairSpec
CONSTANTS
  OnceKeys = {close}
  ReplaceKeys = {keepalive}
  Callers = {c1, c2, c3}
  MaxTasks = 4
  Free = Free
INVARIANTS
  NoUntrackedTask
  OneShotIsUnique
PROPERTIES
  ShutdownEndsTasks
  StopAndWaitReturns
CHECK_DEADLOCK FALSE
