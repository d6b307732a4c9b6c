----------------------------- MODULE MCFSDirectory -----------------------------
EXTENDS FSDirectory, LockScope

CONSTANTS t1, t2, d1, d2, x, y
MCThreads == {t1, t2}
MCDirs == {d1, d2}
MCNames == {x, y}
\* Two threads race for a file; one thread copies a directory of two files, or
\* one of longer files; one thread makes and syncs a file on a machine that goes
\* down; or there is no thread, and the locks are looked at.
MCCrashSetup ==
  [threads |-> {t1}, dirs |-> {d1}, names |-> {x}, blocks |-> 1, crashes |-> TRUE]
MCSetups ==
  {[threads |-> {t1, t2}, dirs |-> {d1}, names |-> {x}, blocks |-> 1, crashes |-> FALSE],
   [threads |-> {t1}, dirs |-> {d1, d2}, names |-> {x, y}, blocks |-> 1, crashes |-> FALSE],
   [threads |-> {t1}, dirs |-> {d1, d2}, names |-> {x}, blocks |-> 2, crashes |-> FALSE],
   MCCrashSetup,
   [threads |-> {}, dirs |-> {}, names |-> {}, blocks |-> 0, crashes |-> FALSE]}
MCCrashSetups == {MCCrashSetup}

\* Three directories on two paths, one in memory; two new factories, two
\* that have their locks on the first path, and one of each other kind.
MCDirectories == {"a1", "a2", "b", "ram"}
MCPath == [d \in MCDirectories |-> CASE d = "b" -> "pathB" [] d = "ram" -> "" [] OTHER -> "pathA"]
MCFactories == {"new1", "new2", "atA1", "atA2", "single", "none"}
MCKind == [f \in MCFactories |-> IF f \in {"single", "none"} THEN f ELSE "fs"]
MCLockDir == [f \in MCFactories |-> IF f \in {"atA1", "atA2"} THEN "pathA" ELSE ""]

\* The two share no state: each is taken from the other's first state.
MCInit == Init /\ ScopeInit
MCNext ==
  \/ Next /\ UNCHANGED scope
  \/ setup.threads = {} /\ ScopeNext /\ UNCHANGED vars
MCSpec ==
  MCInit /\ [][MCNext]_<<vars, scope>> /\ \A t \in Threads : WF_vars(Continue(t))
=============================================================================
