SPECIFICATION MCReleasingSpec
CONSTANTS
  a = a  b = b  c = c  p1 = p1  p2 = p2
  None = None
  Locks <- MCLocks
  Processes <- MCProcesses
  Process <- MCProcess
  Inodes <- MCInodes
  MCPairs <- EitherPair
INVARIANT HeldLocksExact
PROPERTY CallsReturn
