SPECIFICATION FairSpec
CONSTANTS
  Callers = {a1, a2}
  MaxSessions = 2
  MaxStale = 1
  Nil = Nil
INVARIANTS
  OneOwner
  ExpirySparesStatements
PROPERTY
  NoSessionForgotten
