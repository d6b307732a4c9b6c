SPECIFICATION MCSpec
CONSTANTS
  t1 = t1  t2 = t2  d1 = d1  d2 = d2  x = x  y = y
  Threads <- MCThreads
  Dirs <- MCDirs
  Names <- MCNames
  Setups <- MCSetups
  None = None
  Src = d1
  Dest = d2
  SyncTries = 2
  LengthTries = 1
  MaxFailures = 1
  Directories <- MCDirectories
  Path <- MCPath
  Factories <- MCFactories
  Kind <- MCKind
  LockDir <- MCLockDir
  NoPath = ""
INVARIANTS TypeOK CheckedDirIsThere CopyIsWhole ScopeExact
PROPERTIES FilesAreWrittenOnce CallsEnd
CHECK_DEADLOCK FALSE
