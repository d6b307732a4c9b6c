SPECIFICATION MCSpec
CONSTANTS
  a = a  b = b  c = c  p1 = p1  p2 = p2
  None = None
  Locks <- MCLocks
  Processes <- MCProcesses
  Process <- MCProcess
  Inodes <- MCInodes
  MCPairs <- OnlyTwoProcesses
\* lock.h:8 against the record lock that goes with the ofstream.
INVARIANT MutualExclusion
