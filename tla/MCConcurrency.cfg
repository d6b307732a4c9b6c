SPECIFICATION MCFairSpec
CONSTANTS
  Threads <- MCThreads
  t1 = t1  t2 = t2  t3 = t3
  NoThread = NoThread
  Thr <- MCThr
  MaxScopes <- MCMaxScopes
  MaxDepth = 2
  MaxTimeouts = 1
  MCParts <- AllParts
INVARIANTS StartedBodyIsAlive HoldsLockExact WaitGivesUpTheLock LockedScopesExclude
PROPERTIES RestartIsAlone NoNewIteration StopEnds WokenReturns
\* A second start() of a thread that was not joined terminates the process, and
\* after a lock() that timed out two threads may wait for each other.
CHECK_DEADLOCK FALSE
