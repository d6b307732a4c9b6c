SPECIFICATION FairSpec
CONSTANTS
  c1 = c1  c2 = c2  c3 = c3
  Stale = Stale
  Clients <- MCClients
  Timeouts <- MCTimeouts
PROPERTIES ExclusiveSpec LimitedWaitEnds FreeLockIsObtained
