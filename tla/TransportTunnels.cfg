SPECIFICATION FairSpec
CONSTANTS
  Tasks = {t1, t2}
  MaxLayer = 1
  MaxTunnels = 2
  MaxAttempts = 1
INVARIANTS
  EveryTunnelIsKept
  OneHandshake

  
