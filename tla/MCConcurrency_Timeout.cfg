SPECIFICATION MCSpec
CONSTANTS
  Threads <- MCThreads
  t1 = t1  t2 = t2  t3 = t3
  NoThread = NoThread
  Thr <- MCThr
  MaxScopes <- MCNestedScopes
  MaxDepth = 2
  MaxTimeouts = 1
  MCParts <- OnlyTwo
\* synchronize.h:33 against books that a timed out scope has written.
INVARIANT HoldsLockSound
CHECK_DEADLOCK FALSE
