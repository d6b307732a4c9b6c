SPECIFICATION MCSpec
CONSTANTS
  t1 = t1  t2 = t2  n1 = n1  n2 = n2  f1 = f1  f2 = f2
  None = None
  Threads <- MCThreads
  Names <- MCNames
  Files <- MCFiles
  MaxBuffers = 1
  c1 = c1  c2 = c2  c3 = c3
  Nobody = Nobody
  Stale = Stale
  Factory = Factory
  Clients <- MCClients
  MCParts <- OnlyLock
\* single_instance_lock_factory.h:50 against two Synchronizes for one container.
INVARIANT OneHolds
