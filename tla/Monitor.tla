-------------------------------- MODULE Monitor --------------------------------
(***************************************************************************)
(* The monitor that every LuceneSync object carries: Synchronize and       *)
(* SyncLock (src/util/synchronize.cpp), a recursive timed mutex with the   *)
(* code's own books beside it, and LuceneSignal                            *)
(* (src/util/lucene_signal.cpp), a condition variable with a mutex of its  *)
(* own.  The clients enter and leave SyncLock scopes, call wait() inside   *)
(* of one and notify_all() anywhere.                                       *)
(*                                                                         *)
(* The books are plain integers.  A SyncLock whose lock() has timed out    *)
(* reads and writes them without the mutex, so that each load and each     *)
(* store is a step of its own: ++ and -- go through a register, and the    *)
(* test of unlock() loads the count once more than the -- after it.        *)
(***************************************************************************)
EXTENDS Integers

CONSTANTS
  Thr,                  \* the threads
  NoThread,             \* no thread: 0 in m_lockThread, a free mutex
  MaxScopes,            \* bound: SyncLock scopes of each thread, nested
  MaxDepth,             \* bound: levels of the mutex, which timeouts let grow
  MaxTimeouts           \* bound: lock() calls that time out

ASSUME NoThreadAssumption == NoThread \notin Thr
ASSUME BoundsAssumption ==
  MaxScopes \in [Thr -> Nat] /\ MaxDepth \in Nat /\ MaxTimeouts \in Nat

VARIABLES
  owner, depth,         \* m_mutexSynchronize: owner and recursion depth
  lockThread,           \* m_lockThread
  recursionCount,       \* m_recursionCount
  register,             \* what a thread has loaded of m_recursionCount
  waitOwner,            \* m_waitMutex: its owner
  pc,                   \* where a thread is in lock(), unlock(), wait()
  waits,                \* the thread is in wait()
  timed,                \* wait(): the timeout argument is not 0
  relockCount,          \* wait(): relockCount
  left,                 \* rounds left of the loop of unlock_all() or wait()
  locked,               \* ghost: the thread's SyncLock scopes that have locked
  lapsed,               \* ghost: those outside of them whose lock() timed out
  expired               \* ghost: how many lock() have timed out

mutex == <<owner, depth>>
books == <<lockThread, recursionCount, register>>
signal == <<waitOwner, waits, timed, relockCount, left>>
scopes == <<locked, lapsed>>
vars == <<mutex, books, signal, pc, scopes, expired>>

\* How many scopes a thread is in.
Scopes(t) == locked[t] + lapsed[t]

\* "client" is outside of the calls below.  lock() has the mutex and stores
\* m_lockThread, loads the count, stores it ("noting", "fetching", "adding").
\* unlock() loads the count that was not 0, stores it, tests the result,
\* releases the mutex ("loading", "storing", "testing", "releasing").
InLock == {"noting", "fetching", "adding"}
InUnlock == {"loading", "storing", "testing", "releasing"}

\* wait() loops in unlock_all() and "relock"; "enter" is before the condition
\* variable, "parked" on it, "woken" and "timedout" just off it.
InWait == {"enter", "parked", "woken", "timedout"}
Pc == {"client", "unlockall", "relock"} \cup InLock \cup InUnlock \cup InWait

TypeOK ==
  /\ owner \in Thr \cup {NoThread} /\ depth \in Nat
  /\ lockThread \in Thr \cup {NoThread} /\ recursionCount \in Int
  /\ register \in [Thr -> Int]
  /\ waitOwner \in Thr \cup {NoThread}
  /\ pc \in [Thr -> Pc]
  /\ waits \in [Thr -> BOOLEAN] /\ timed \in [Thr -> BOOLEAN]
  /\ relockCount \in [Thr -> Int] /\ left \in [Thr -> Int]
  /\ locked \in [Thr -> Nat] /\ lapsed \in [Thr -> Nat]
  /\ expired \in Nat

Init ==
  /\ owner = NoThread /\ depth = 0
  /\ lockThread = NoThread /\ recursionCount = 0
  /\ register = [t \in Thr |-> 0]
  /\ waitOwner = NoThread
  /\ pc = [t \in Thr |-> "client"]
  /\ waits = [t \in Thr |-> FALSE] /\ timed = [t \in Thr |-> FALSE]
  /\ relockCount = [t \in Thr |-> 0] /\ left = [t \in Thr |-> 0]
  /\ locked = [t \in Thr |-> 0] /\ lapsed = [t \in Thr |-> 0]
  /\ expired = 0

Goes(t, from, to) == pc[t] = from /\ pc' = [pc EXCEPT ![t] = to]

\* t takes or keeps m_mutexSynchronize, one level deeper.
Acquire(t) ==
  /\ owner \in {NoThread, t}
  /\ owner' = t
  /\ depth' = depth + 1

\* One level less; the mutex of another thread is left alone (the system's
\* mutex answers EPERM, which std::recursive_timed_mutex drops).
Release(t) ==
  IF owner = t
  THEN /\ depth' = depth - 1
       /\ owner' = IF depth = 1 THEN NoThread ELSE t
  ELSE UNCHANGED mutex

-----------------------------------------------------------------------------
(* Synchronize::lock() and the constructor of SyncLock *)

holds_lock(t) == lockThread = t /\ recursionCount > 0

\* The mutex first ...
Lock(t) ==
  /\ Goes(t, "client", "noting")
  /\ Scopes(t) < MaxScopes[t] /\ depth < MaxDepth
  /\ Acquire(t)
  /\ UNCHANGED <<books, signal, scopes, expired>>

\* ... or, with a timeout, false, which SyncLock does not look at.
LockTimesOut(t) ==
  /\ pc[t] = "client"
  /\ Scopes(t) < MaxScopes[t] /\ expired < MaxTimeouts
  /\ owner \notin {NoThread, t}
  /\ lapsed' = [lapsed EXCEPT ![t] = @ + 1]
  /\ expired' = expired + 1
  /\ UNCHANGED <<mutex, books, signal, pc, locked>>

\* ... then the books.
NoteThread(t) ==
  /\ Goes(t, "noting", "fetching")
  /\ lockThread' = t
  /\ UNCHANGED <<mutex, recursionCount, register, signal, scopes, expired>>

FetchCount(t) ==
  /\ Goes(t, "fetching", "adding") \/ Goes(t, "loading", "storing")
  /\ register' = [register EXCEPT ![t] = recursionCount]
  /\ UNCHANGED <<mutex, lockThread, recursionCount, signal, scopes, expired>>

\* lock() returns to SyncLock, or to the loop of wait().
AddOne(t) ==
  /\ recursionCount' = register[t] + 1
  /\ register' = [register EXCEPT ![t] = 0]
  /\ \/ /\ ~waits[t] /\ Goes(t, "adding", "client")
        /\ locked' = [locked EXCEPT ![t] = @ + 1]
        /\ UNCHANGED <<lapsed, left>>
     \/ /\ waits[t] /\ Goes(t, "adding", "relock")
        /\ left' = [left EXCEPT ![t] = @ - 1]
        /\ UNCHANGED scopes
  /\ UNCHANGED <<mutex, lockThread, waitOwner, waits, timed, relockCount, expired>>

-----------------------------------------------------------------------------
(* Synchronize::unlock(), for the destructor of SyncLock and unlock_all() *)

CallsUnlock(t) ==
  \/ pc[t] = "client" /\ Scopes(t) > 0
  \/ pc[t] = "unlockall" /\ left[t] > 0

\* A scope that has locked is inside of those that have not: who has the mutex
\* gets it again.
LeavesScope(t) ==
  IF locked[t] > 0
  THEN locked' = [locked EXCEPT ![t] = @ - 1] /\ UNCHANGED lapsed
  ELSE lapsed' = [lapsed EXCEPT ![t] = @ - 1] /\ UNCHANGED locked

UnlockReturns(t) ==
  \/ /\ ~waits[t]
     /\ pc' = [pc EXCEPT ![t] = "client"]
     /\ LeavesScope(t)
     /\ UNCHANGED left
  \/ /\ waits[t]
     /\ pc' = [pc EXCEPT ![t] = "unlockall"]
     /\ left' = [left EXCEPT ![t] = @ - 1]
     /\ UNCHANGED scopes

\* The books first: unlock() returns early when they say that nothing is locked.
UnlockNothing(t) ==
  /\ CallsUnlock(t)
  /\ recursionCount = 0
  /\ UnlockReturns(t)
  /\ UNCHANGED <<mutex, books, waitOwner, waits, timed, relockCount, expired>>

Unlock(t) ==
  /\ CallsUnlock(t)
  /\ recursionCount # 0
  /\ pc' = [pc EXCEPT ![t] = "loading"]
  /\ UNCHANGED <<mutex, books, signal, scopes, expired>>

SubtractOne(t) ==
  /\ Goes(t, "storing", "testing")
  /\ recursionCount' = register[t] - 1
  /\ register' = [register EXCEPT ![t] = @ - 1]
  /\ UNCHANGED <<mutex, lockThread, signal, scopes, expired>>

\* The result that is compared with 0 is the register's, or loaded once more.
TestResult(t) ==
  /\ Goes(t, "testing", "releasing")
  /\ \E result \in {register[t], recursionCount} :
       lockThread' = IF result = 0 THEN NoThread ELSE lockThread
  /\ register' = [register EXCEPT ![t] = 0]
  /\ UNCHANGED <<mutex, recursionCount, signal, scopes, expired>>

\* Then the mutex.
UnlockMutex(t) ==
  /\ pc[t] = "releasing"
  /\ Release(t)
  /\ UnlockReturns(t)
  /\ UNCHANGED <<books, waitOwner, waits, timed, relockCount, expired>>

-----------------------------------------------------------------------------
(* LuceneSignal *)

\* Mutant: unlock() in the place of unlock_all().
WaitUnlocks_One(t) ==
  /\ Goes(t, "client", "unlockall")
  /\ Scopes(t) > 0 /\ depth <= MaxDepth /\ recursionCount <= MaxDepth
  /\ relockCount' = [relockCount EXCEPT ![t] = 1]
  /\ left' = [left EXCEPT ![t] = 1]
  /\ waits' = [waits EXCEPT ![t] = TRUE]
  /\ timed' \in {[timed EXCEPT ![t] = b] : b \in BOOLEAN}
  /\ UNCHANGED <<mutex, books, waitOwner, scopes, expired>>

\* wait() reads in unlock_all() how many levels there are, calls unlock() as
\* often ...
WaitUnlocks(t) ==
  /\ Goes(t, "client", "unlockall")
  /\ Scopes(t) > 0 /\ depth <= MaxDepth /\ recursionCount <= MaxDepth
  /\ relockCount' = [relockCount EXCEPT ![t] = recursionCount]
  /\ left' = [left EXCEPT ![t] = recursionCount]
  /\ waits' = [waits EXCEPT ![t] = TRUE]
  /\ timed' \in {[timed EXCEPT ![t] = b] : b \in BOOLEAN}
  /\ UNCHANGED <<mutex, books, waitOwner, scopes, expired>>

UnlockedAll(t) ==
  /\ left[t] <= 0
  /\ Goes(t, "unlockall", "enter")
  /\ UNCHANGED <<mutex, books, signal, scopes, expired>>

\* ... takes m_waitMutex and gives it back in wait_for() ...
Park(t) ==
  /\ Goes(t, "enter", "parked")
  /\ waitOwner = NoThread
  /\ UNCHANGED <<mutex, books, signal, scopes, expired>>

\* ... which ends by its time limit, or spuriously, or by notify_all() ...
TimesOut(t) ==
  /\ Goes(t, "parked", "timedout")
  /\ UNCHANGED <<mutex, books, signal, scopes, expired>>

SpuriousWakeUp(t) ==
  /\ Goes(t, "parked", "woken")
  /\ UNCHANGED <<mutex, books, signal, scopes, expired>>

\* ... and has m_waitMutex again: the loop goes on, without end if the timeout
\* argument is 0 ...
WaitAgain(t) ==
  /\ Goes(t, "timedout", "parked")
  /\ ~timed[t] /\ waitOwner = NoThread
  /\ UNCHANGED <<mutex, books, signal, scopes, expired>>

\* ... or is left, with m_waitMutex held ...
LeaveLoop(t) ==
  /\ Goes(t, "woken", "relock") \/ (timed[t] /\ Goes(t, "timedout", "relock"))
  /\ waitOwner = NoThread
  /\ waitOwner' = t
  /\ left' = [left EXCEPT ![t] = relockCount[t]]
  /\ UNCHANGED <<mutex, books, waits, timed, relockCount, scopes, expired>>

\* ... while lock() is called as often as there were levels.
Relock(t) ==
  /\ left[t] > 0
  /\ Goes(t, "relock", "noting")
  /\ Acquire(t)
  /\ UNCHANGED <<books, signal, scopes, expired>>

\* Mutant: the lock is taken once, however deep it was.
WaitReturns_Once(t) ==
  /\ left[t] < relockCount[t]
  /\ Goes(t, "relock", "client")
  /\ waitOwner' = NoThread
  /\ waits' = [waits EXCEPT ![t] = FALSE]
  /\ left' = [left EXCEPT ![t] = 0]
  /\ UNCHANGED <<mutex, books, timed, relockCount, scopes, expired>>

\* Mutant: m_waitMutex is not released on the way out.
WaitReturns_KeepsWaitMutex(t) ==
  /\ left[t] <= 0
  /\ Goes(t, "relock", "client")
  /\ waits' = [waits EXCEPT ![t] = FALSE]
  /\ left' = [left EXCEPT ![t] = 0]
  /\ UNCHANGED <<mutex, books, waitOwner, timed, relockCount, scopes, expired>>

\* The end of wait() releases m_waitMutex.
WaitReturns(t) ==
  /\ left[t] <= 0
  /\ Goes(t, "relock", "client")
  /\ waitOwner' = NoThread
  /\ waits' = [waits EXCEPT ![t] = FALSE]
  /\ timed' = [timed EXCEPT ![t] = FALSE]
  /\ relockCount' = [relockCount EXCEPT ![t] = 0]
  /\ left' = [left EXCEPT ![t] = 0]
  /\ UNCHANGED <<mutex, books, scopes, expired>>

\* Neither lock is taken: only the threads parked at this moment are woken.
notify_all(t) ==
  /\ pc[t] = "client"
  /\ pc' = [u \in Thr |-> IF pc[u] = "parked" THEN "woken" ELSE pc[u]]
  /\ UNCHANGED <<mutex, books, signal, scopes, expired>>

-----------------------------------------------------------------------------

\* What goes on by itself once it has begun.
Proceed(t) ==
  \/ NoteThread(t) \/ FetchCount(t) \/ AddOne(t)
  \/ waits[t] /\ (Unlock(t) \/ UnlockNothing(t))
  \/ SubtractOne(t) \/ TestResult(t) \/ UnlockMutex(t)
  \/ UnlockedAll(t) \/ Park(t) \/ TimesOut(t) \/ WaitAgain(t) \/ LeaveLoop(t)
  \/ Relock(t) \/ WaitReturns(t)

Step(t) ==
  \/ Proceed(t) \/ SpuriousWakeUp(t)
  \/ Lock(t) \/ LockTimesOut(t)
  \/ ~waits[t] /\ (Unlock(t) \/ UnlockNothing(t))
  \/ WaitUnlocks(t) \/ notify_all(t)

Next == \E t \in Thr : Step(t)

Spec == Init /\ [][Next]_vars

\* A thread is scheduled, and gets a mutex that is free again and again.
Fairness ==
  \A t \in Thr :
    /\ WF_vars(Proceed(t))
    /\ SF_vars(WaitAgain(t) \/ LeaveLoop(t)) /\ SF_vars(Relock(t))

-----------------------------------------------------------------------------
(* Properties *)

\* As long as no lock() has timed out, as with all the SyncLocks of this code:
\* holds_lock(), which reads without the mutex what other threads write, is true
\* in exactly the threads that are in a scope, and the books show the depth of
\* its scopes, also after a wait() that gave all of them up.
HoldsLockExact ==
  expired = 0 => \A t \in Thr : pc[t] = "client" =>
    /\ holds_lock(t) <=> locked[t] > 0
    /\ locked[t] > 0 => owner = t /\ depth = locked[t] /\ recursionCount = locked[t]

\* While a thread is in wait(), it has no level of the lock, so that others can
\* get in and change what it waits for, and m_waitMutex is never waited for by
\* a thread that others wait for.
WaitGivesUpTheLock ==
  expired = 0 => \A t \in Thr : pc[t] \in InWait => owner # t /\ waitOwner # t

\* Scopes whose lock() has succeeded exclude each other, whatever timed out scopes
\* do to the books: a thread has as many levels of the mutex as it has such
\* scopes at least, also after a wait() that released as many as the books said.
LockedScopesExclude ==
  \A t \in Thr : pc[t] = "client" /\ locked[t] > 0 => owner = t /\ depth >= locked[t]

\* "Returns true if mutex is currently locked by current thread."
\* (synchronize.h:33), at least in that it is false in every other thread.
HoldsLockSound == \A t \in Thr : pc[t] = "client" /\ holds_lock(t) => owner = t

\* If the clients leave the lock free again and again, a thread that was woken
\* returns from wait(), although each holds m_waitMutex, which the others need
\* as well, while it gets the lock back.
WokenReturns ==
  []<>(owner = NoThread) => \A t \in Thr : pc[t] = "woken" ~> pc[t] = "client"
=============================================================================
