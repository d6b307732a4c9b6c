------------------------------ MODULE SimpleFSLock ------------------------------
(***************************************************************************)
(* SimpleFSLock (src/store/simple_fs_lock_factory.cpp): the lock is the    *)
(* existence of a file, which obtain() tests for and then creates in two   *)
(* calls of the file system.  Around obtain() is the polling loop          *)
(* Lock::obtain(timeout) (src/store/lock.cpp).  A client is a process      *)
(* that obtains and releases, and may crash at any point.                  *)
(***************************************************************************)
EXTENDS Integers

CONSTANTS
  Clients, Stale,       \* see ExclusiveLock
  Timeouts              \* the timeouts clients wait for, in milliseconds

ASSUME StaleAssumption == Stale \notin Clients
ASSUME TimeoutsAssumption == Timeouts \subseteq Nat \cup {-1}

LOCK_OBTAIN_WAIT_FOREVER == -1
LOCK_POLL_INTERVAL == 1000

VARIABLES
  lockDir,              \* what m_lockDir is in the file system
  lockFile,             \* whether the lock file exists
  pc,                   \* where a client is in obtain() and release()
  timeout,              \* lockWaitTimeout
  sleepCount,           \* sleepCount
  overlapped            \* ghost: two clients were between test and creation

files == <<lockDir, lockFile>>
loop == <<timeout, sleepCount>>
vars == <<files, pc, loop, overlapped>>

Obtaining == {"dir", "mkdir", "test", "open", "failed", "sleep"}
Holding == {"held", "remove"}
Pc == {"idle", "release"} \cup Obtaining \cup Holding

holders == {c \in Clients : pc[c] \in Holding}

TypeOK ==
  /\ lockDir \in {"absent", "directory", "file"}
  /\ lockFile \in BOOLEAN
  /\ pc \in [Clients -> Pc]
  /\ timeout \in [Clients -> Timeouts \cup {0}]
  /\ sleepCount \in [Clients -> Nat]
  /\ overlapped \in BOOLEAN

Init ==
  /\ lockDir \in {"absent", "directory", "file"}
  /\ lockFile = FALSE
  /\ pc = [c \in Clients |-> "idle"]
  /\ timeout = [c \in Clients |-> 0]
  /\ sleepCount = [c \in Clients |-> 0]
  /\ overlapped = FALSE

Goes(c, from, to) == pc[c] = from /\ pc' = [pc EXCEPT ![c] = to]

-----------------------------------------------------------------------------
(* obtain() *)

Begin(c) ==
  /\ Goes(c, "idle", "dir")
  /\ timeout' \in {[timeout EXCEPT ![c] = t] : t \in Timeouts}
  /\ sleepCount' = [sleepCount EXCEPT ![c] = 0]
  /\ UNCHANGED <<files, overlapped>>

\* A regular file in the place of the directory is an exception.
TestDir(c) ==
  /\ \/ lockDir = "absent" /\ Goes(c, "dir", "mkdir")
     \/ lockDir = "directory" /\ Goes(c, "dir", "test")
     \/ lockDir = "file" /\ Goes(c, "dir", "idle")
  /\ UNCHANGED <<files, loop, overlapped>>

\* create_directory() answers false, and obtain() throws, also when another
\* client was faster.
MakeDir(c) ==
  /\ \/ lockDir = "absent" /\ Goes(c, "mkdir", "test") /\ lockDir' = "directory"
     \/ Goes(c, "mkdir", "idle") /\ UNCHANGED lockDir
  /\ UNCHANGED <<lockFile, loop, overlapped>>

\* Mutant: the test for the lock file is missing.
TestFile_Missing(c) ==
  /\ Goes(c, "test", "open")
  /\ overlapped' = (overlapped \/ \E d \in Clients \ {c} : {pc'[c], pc[d]} = {"open"})
  /\ UNCHANGED <<files, loop>>

TestFile(c) ==
  /\ Goes(c, "test", IF lockFile THEN "failed" ELSE "open")
  /\ overlapped' = (overlapped \/ \E d \in Clients \ {c} : {pc'[c], pc[d]} = {"open"})
  /\ UNCHANGED <<files, loop>>

\* The stream creates the file, or opens the one that is there by now.
Open(c) ==
  /\ Goes(c, "open", "held")
  /\ lockFile' = TRUE
  /\ UNCHANGED <<lockDir, loop, overlapped>>

OpenFails(c) ==
  /\ Goes(c, "open", "failed")
  /\ UNCHANGED <<files, loop, overlapped>>

\* Mutant: the sleeps are not counted.
Poll_NoCount(c) ==
  /\ Goes(c, "failed", "sleep")
  /\ UNCHANGED <<files, loop, overlapped>>

\* Lock::obtain(timeout): sleep and try again, or throw.
Poll(c) ==
  /\ \/ /\ timeout[c] = LOCK_OBTAIN_WAIT_FOREVER
        /\ Goes(c, "failed", "sleep")
        /\ UNCHANGED sleepCount
     \/ /\ timeout[c] # LOCK_OBTAIN_WAIT_FOREVER
        /\ LET max == timeout[c] \div LOCK_POLL_INTERVAL
           IN  Goes(c, "failed", IF sleepCount[c] >= max THEN "idle" ELSE "sleep")
        /\ sleepCount' = [sleepCount EXCEPT ![c] = @ + 1]
  /\ UNCHANGED <<files, timeout, overlapped>>

\* Mutant: the loop sleeps without another call of obtain().
WakeUp_NoRetry(c) ==
  /\ Goes(c, "sleep", "failed")
  /\ UNCHANGED <<files, loop, overlapped>>

WakeUp(c) ==
  /\ Goes(c, "sleep", "dir")
  /\ UNCHANGED <<files, loop, overlapped>>

-----------------------------------------------------------------------------
(* release(), clear_lock(), crash *)

TestRelease(c) ==
  /\ Goes(c, "held", IF lockFile THEN "remove" ELSE "idle")
  /\ UNCHANGED <<files, loop, overlapped>>

Remove(c) ==
  /\ Goes(c, "remove", "idle")
  /\ lockFile
  /\ lockFile' = FALSE
  /\ UNCHANGED <<lockDir, loop, overlapped>>

\* LockReleaseFailedException: the file is not there any more, or stays.
RemoveFails(c) ==
  /\ Goes(c, "remove", "held")
  /\ UNCHANGED <<files, loop, overlapped>>

\* SimpleFSLockFactory::clear_lock(), called as lock_factory.h demands: "when
\* you are certain this lock is no longer in use".
ClearLock ==
  /\ lockFile /\ holders = {}
  /\ \A c \in Clients : pc[c] # "open"
  /\ lockFile' = FALSE
  /\ UNCHANGED <<lockDir, pc, loop, overlapped>>

\* The process ends, the file stays; a new process takes its place.
Crash(c) ==
  /\ pc[c] # "idle"
  /\ pc' = [pc EXCEPT ![c] = "idle"]
  /\ UNCHANGED <<files, loop, overlapped>>

-----------------------------------------------------------------------------

Obtain(c) ==
  \/ TestDir(c) \/ MakeDir(c) \/ TestFile(c) \/ Open(c) \/ OpenFails(c)
  \/ Poll(c) \/ WakeUp(c)

Next ==
  \/ ClearLock
  \/ \E c \in Clients :
       \/ Begin(c) \/ Obtain(c) \/ Crash(c)
       \/ TestRelease(c) \/ Remove(c) \/ RemoveFails(c)

Spec == Init /\ [][Next]_vars

\* A client in obtain() runs, and opening the file does not fail for ever.
FairSpec == Spec /\ \A c \in Clients : WF_vars(Obtain(c)) /\ SF_vars(Open(c))

-----------------------------------------------------------------------------
(* Properties *)

\* lock.h, "@return true if exclusive access is obtained": through crashes, failed
\* removals and forced clearing, the lock is had by one client at a time, which
\* keeps it until it releases it, and a crash leaves it stale, obtained by nobody
\* until it is cleared.  The only way out of that is that two clients find no
\* file before either of them has made it: both then get the lock.
Owners == IF holders = {} /\ lockFile THEN {Stale} ELSE holders
Exclusive == INSTANCE ExclusiveLock WITH holders <- Owners
ExclusiveSpec == Exclusive!Init /\ [][~overlapped' => Exclusive!Next]_Owners

\* obtain(timeout) with a time limit ends.
LimitedWaitEnds ==
  \A c \in Clients :
    pc[c] \in Obtaining /\ timeout[c] # LOCK_OBTAIN_WAIT_FOREVER ~> pc[c] \notin Obtaining

\* No client polls for ever beside a lock that stays free.
FreeLockIsObtained == \A c \in Clients : []<>(pc[c] \notin Obtaining \/ lockFile)
=============================================================================
