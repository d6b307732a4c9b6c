-------------------------- MODULE SimpleFSLock_proofs --------------------------
(***************************************************************************)
(* For any clients and timeouts: until two clients have found no lock file *)
(* together, SimpleFSLock implements an exclusive lock.                    *)
(***************************************************************************)
EXTENDS SimpleFSLock, TLAPS

\* The test for the file is as good as its creation as long as one client at a
\* time is between the two.
OneAtATime ==
  \A c, d \in Clients : c # d /\ pc[c] \in Holding \cup {"open"} => pc[d] \notin Holding \cup {"open"}

FileIsHeld == \A c \in Clients : pc[c] \in Holding => lockFile

NoFileBeforeOpen == \A c \in Clients : pc[c] = "open" => ~lockFile

\* The inductive invariant.
LockInv ==
  /\ pc \in [Clients -> Pc]
  /\ ~overlapped => OneAtATime /\ FileIsHeld /\ NoFileBeforeOpen

-----------------------------------------------------------------------------
(* The invariant *)

\* What is needed of an assignment to pc[c].
LEMMA GoesFacts ==
  ASSUME LockInv, NEW c \in Clients, NEW from, NEW to \in Pc, Goes(c, from, to)
  PROVE  /\ pc' \in [Clients -> Pc]
         /\ pc[c] = from /\ pc'[c] = to
         /\ \A d \in Clients : d # c => pc'[d] = pc[d]
BY DEF LockInv, Goes

\* The initial state satisfies the invariant.
LEMMA InitLockInv == Init => LockInv
BY DEF Init, LockInv, OneAtATime, FileIsHeld, NoFileBeforeOpen, Pc, Obtaining, Holding

\* Each step keeps it.
LEMMA NextLockInv == LockInv /\ [Next]_vars => LockInv'
<1> SUFFICES ASSUME LockInv, [Next]_vars PROVE LockInv'
  OBVIOUS
<1> USE DEF Pc, Obtaining, Holding
<1>1. CASE ClearLock
  BY <1>1 DEF ClearLock, LockInv, OneAtATime, FileIsHeld, NoFileBeforeOpen, holders
<1>2. ASSUME NEW c \in Clients,
             Begin(c) \/ Obtain(c) \/ Crash(c) \/ TestRelease(c) \/ Remove(c) \/ RemoveFails(c)
      PROVE  LockInv'
  <2>1. CASE Begin(c)
    BY <2>1, GoesFacts DEF Begin, files, LockInv, OneAtATime, FileIsHeld, NoFileBeforeOpen
  <2>2. CASE TestDir(c)
    BY <2>2, GoesFacts DEF TestDir, files, LockInv, OneAtATime, FileIsHeld, NoFileBeforeOpen
  <2>3. CASE MakeDir(c)
    BY <2>3, GoesFacts DEF MakeDir, LockInv, OneAtATime, FileIsHeld, NoFileBeforeOpen
  <2>4. CASE TestFile(c)
    <3>1. CASE lockFile
      BY <2>4, <3>1, GoesFacts
         DEF TestFile, files, LockInv, OneAtATime, FileIsHeld, NoFileBeforeOpen
    <3>2. CASE ~lockFile
      <4>1. Goes(c, "test", "open") /\ lockFile' = lockFile
        BY <2>4, <3>2 DEF TestFile, files
      <4>2. /\ pc' \in [Clients -> Pc] /\ pc[c] = "test" /\ pc'[c] = "open"
            /\ \A d \in Clients : d # c => pc'[d] = pc[d]
        BY <4>1, GoesFacts
      <4>3. ~overlapped' => ~overlapped /\ \A d \in Clients \ {c} : pc[d] # "open"
        BY <2>4, <4>2 DEF TestFile
      <4> QED
        BY <3>2, <4>1, <4>2, <4>3 DEF LockInv, OneAtATime, FileIsHeld, NoFileBeforeOpen
    <3> QED
      BY <3>1, <3>2
  <2>5. CASE Open(c)
    BY <2>5, GoesFacts DEF Open, LockInv, OneAtATime, FileIsHeld, NoFileBeforeOpen
  <2>6. CASE OpenFails(c)
    BY <2>6, GoesFacts DEF OpenFails, files, LockInv, OneAtATime, FileIsHeld, NoFileBeforeOpen
  <2>7. CASE Poll(c)
    <3>1. /\ Goes(c, "failed", "sleep") \/ Goes(c, "failed", "idle")
          /\ lockFile' = lockFile /\ overlapped' = overlapped
      BY <2>7 DEF Poll, files
    <3> QED
      BY <3>1, GoesFacts DEF LockInv, OneAtATime, FileIsHeld, NoFileBeforeOpen
  <2>8. CASE WakeUp(c)
    BY <2>8, GoesFacts DEF WakeUp, files, LockInv, OneAtATime, FileIsHeld, NoFileBeforeOpen
  <2>9. CASE Crash(c)
    BY <2>9 DEF Crash, files, LockInv, OneAtATime, FileIsHeld, NoFileBeforeOpen
  <2>10. CASE TestRelease(c)
    BY <2>10, GoesFacts DEF TestRelease, files, LockInv, OneAtATime, FileIsHeld, NoFileBeforeOpen
  <2>11. CASE Remove(c)
    BY <2>11, GoesFacts DEF Remove, LockInv, OneAtATime, FileIsHeld, NoFileBeforeOpen
  <2>12. CASE RemoveFails(c)
    BY <2>12, GoesFacts DEF RemoveFails, files, LockInv, OneAtATime, FileIsHeld, NoFileBeforeOpen
  <2> QED
    BY <1>2, <2>1, <2>2, <2>3, <2>4, <2>5, <2>6, <2>7, <2>8, <2>9, <2>10, <2>11, <2>12 DEF Obtain
<1>3. CASE UNCHANGED vars
  BY <1>3 DEF vars, files, LockInv, OneAtATime, FileIsHeld, NoFileBeforeOpen
<1> QED
  BY <1>1, <1>2, <1>3 DEF Next

-----------------------------------------------------------------------------
(* The refinement *)

\* One client has the lock, or none.
LEMMA HoldersFacts ==
  ASSUME LockInv, ~overlapped, NEW c \in Clients, pc[c] \in Holding
  PROVE  holders = {c} /\ Owners = {c} /\ lockFile
<1>1. holders = {c} /\ lockFile
  BY DEF LockInv, OneAtATime, FileIsHeld, holders
<1> QED
  BY <1>1 DEF Owners

\* A step that leaves the file and the holders alone leaves the owners alone.
LEMMA SameOwners ==
  ASSUME LockInv, NEW c \in Clients, NEW from \in Pc, NEW to \in Pc, Goes(c, from, to),
         lockFile' = lockFile, from \in Holding <=> to \in Holding
  PROVE  Owners' = Owners
<1>1. \A d \in Clients : pc'[d] \in Holding <=> pc[d] \in Holding
  BY GoesFacts
<1>2. holders' = holders
  BY <1>1 DEF holders
<1> QED
  BY <1>2 DEF Owners

\* While no two clients have overlapped, each step is one of the exclusive lock.
LEMMA NextExclusive ==
  ASSUME LockInv, LockInv', Next, ~overlapped'
  PROVE  Exclusive!Next \/ UNCHANGED Owners
<1> USE DEF Pc, Obtaining, Holding
<1>1. CASE ClearLock
  <2>1. Owners = {Stale} /\ Owners' = {}
    BY <1>1 DEF ClearLock, Owners, holders
  <2> QED
    BY <2>1 DEF Exclusive!Next, Exclusive!Clear
<1>2. ASSUME NEW c \in Clients,
             Begin(c) \/ Obtain(c) \/ Crash(c) \/ TestRelease(c) \/ Remove(c) \/ RemoveFails(c)
      PROVE  Exclusive!Next \/ UNCHANGED Owners
  <2>1. CASE Begin(c)
    BY <2>1, SameOwners DEF Begin, files
  <2>2. CASE TestDir(c)
    BY <2>2, SameOwners DEF TestDir, files
  <2>3. CASE MakeDir(c)
    BY <2>3, SameOwners DEF MakeDir
  <2>4. CASE TestFile(c)
    BY <2>4, SameOwners DEF TestFile, files
  <2>5. CASE Open(c)
    <3>1. /\ pc[c] = "open" /\ pc'[c] = "held" /\ ~overlapped
          /\ \A d \in Clients : d # c => pc'[d] = pc[d]
      BY <2>5, GoesFacts DEF Open
    <3>2. Owners = {}
      BY <3>1 DEF LockInv, OneAtATime, NoFileBeforeOpen, Owners, holders
    <3>3. Owners' = {c}
      BY <3>1 DEF LockInv, OneAtATime, Owners, holders
    <3> QED
      BY <3>2, <3>3 DEF Exclusive!Next, Exclusive!Obtain
  <2>6. CASE OpenFails(c)
    BY <2>6, SameOwners DEF OpenFails, files
  <2>7. CASE Poll(c)
    <3>1. /\ Goes(c, "failed", "sleep") \/ Goes(c, "failed", "idle")
          /\ lockFile' = lockFile
      BY <2>7 DEF Poll, files
    <3> QED
      BY <3>1, SameOwners
  <2>8. CASE WakeUp(c)
    BY <2>8, SameOwners DEF WakeUp, files
  <2>9. CASE Crash(c)
    <3>1. Goes(c, pc[c], "idle") /\ ~overlapped /\ lockFile' = lockFile
      BY <2>9 DEF Crash, Goes, files
    <3>2. pc[c] \in Pc
      BY DEF LockInv
    <3>3. CASE pc[c] \notin Holding
      BY <3>1, <3>2, <3>3, SameOwners
    <3>4. CASE pc[c] \in Holding
      <4>1. holders = {c} /\ Owners = {c} /\ lockFile
        BY <3>1, <3>4, HoldersFacts
      <4>2. holders' = {}
        BY <3>1, <4>1 DEF holders, Goes, LockInv
      <4>3. Owners' = {Stale}
        BY <3>1, <4>1, <4>2 DEF Owners
      <4> QED
        BY <4>1, <4>3 DEF Exclusive!Next, Exclusive!Abandon
    <3> QED
      BY <3>3, <3>4
  <2>10. CASE TestRelease(c)
    <3>1. pc[c] = "held" /\ ~overlapped
      BY <2>10 DEF TestRelease, Goes
    <3>2. lockFile
      BY <3>1, HoldersFacts
    <3> QED
      BY <2>10, <3>2, SameOwners DEF TestRelease, files
  <2>11. CASE Remove(c)
    <3>1. Goes(c, "remove", "idle") /\ ~overlapped /\ ~lockFile'
      BY <2>11 DEF Remove
    <3>2. holders = {c} /\ Owners = {c}
      BY <3>1, HoldersFacts DEF Goes
    <3>3. holders' = {}
      BY <3>1, <3>2 DEF holders, Goes, LockInv
    <3>4. Owners' = {}
      BY <3>1, <3>3 DEF Owners
    <3> QED
      BY <3>2, <3>4 DEF Exclusive!Next, Exclusive!Release
  <2>12. CASE RemoveFails(c)
    BY <2>12, SameOwners DEF RemoveFails, files
  <2> QED
    BY <1>2, <2>1, <2>2, <2>3, <2>4, <2>5, <2>6, <2>7, <2>8, <2>9, <2>10, <2>11, <2>12 DEF Obtain
<1> QED
  BY <1>1, <1>2 DEF Next

\* ExclusiveSpec of SimpleFSLock: of any number of clients, through crashes,
\* failed removals and clear_lock(), one at a time has the lock, until two of
\* them overlap between the test for the lock file and its creation.
THEOREM ImplementsExclusiveLock == Spec => ExclusiveSpec
<1>1. Init => Exclusive!Init
  BY DEF Init, Exclusive!Init, Owners, holders, Holding
<1>2. LockInv /\ LockInv' /\ [Next]_vars => [~overlapped' => Exclusive!Next]_Owners
  <2>1. UNCHANGED vars => UNCHANGED Owners
    BY DEF vars, files, Owners, holders
  <2> QED
    BY <2>1, NextExclusive
<1> QED
  BY <1>1, <1>2, InitLockInv, NextLockInv, PTL DEF Spec, ExclusiveSpec
=============================================================================
