------------------------------ MODULE NativeFSLock ------------------------------
(***************************************************************************)
(* NativeFSLock (src/store/native_fs_lock_factory.cpp): inside a process,  *)
(* a set of held paths; between processes, a boost file_lock, which is a   *)
(* POSIX record lock of the process on the lock file.  Such a lock blocks  *)
(* other processes only, and the system drops it when the process closes   *)
(* any descriptor of the file.                                             *)
(*                                                                         *)
(* The lock objects are all for one path; each is used by one thread, so   *)
(* that the SyncLock on the object itself is always free.  Files are       *)
(* modelled by their inodes, because release() unlinks the path.           *)
(*                                                                         *)
(* The set and the Synchronize that guards it are created by the first     *)
(* call that finds none, which nothing guards: each call tests, creates,   *)
(* and then uses the one that is there by then.  The model numbers them by *)
(* the lock object in whose call they were created.                        *)
(***************************************************************************)
EXTENDS Naturals

CONSTANTS
  Locks,                \* the lock objects
  Processes,            \* the processes
  Process,              \* the process of each lock object
  Inodes,               \* the inodes a new file may get
  None                  \* no inode, no process, no lock object

ASSUME ProcessAssumption == Process \in [Locks -> Processes]
ASSUME NoneAssumption ==
  None \notin Inodes /\ None \notin Processes /\ None \notin Locks

VARIABLES
  path,                 \* the inode that the lock's path names, or None
  recordLock,           \* the process that has the record lock of each inode
  lockDir,              \* what m_lockDir names
  sync,                 \* LOCK_FOR_HELD_LOCKS of each process, or None
  set,                  \* HELD_LOCKS of each process, or None
  held,                 \* the sets that have the path
  guard,                \* obtain(): the Synchronize that a thread is in
  stream,               \* obtain(): the inode that the ofstream f has open
  m_lock,               \* m_lock: the inode that the file_lock has open
  pc,                   \* where a lock object is in obtain() and release()
  probe,                \* the obtain() is that of is_locked() or of a release()
                        \* without a lock, and its result is released at once
  raced,                \* ghost: the processes in which first calls overlapped
  unlockFailed          \* ghost: those in which unlock() has thrown

files == <<path, recordLock, lockDir>>
statics == <<sync, set, raced>>
books == <<statics, held, guard>>
object == <<stream, m_lock, probe>>
vars == <<files, books, object, pc, unlockFailed>>

\* Inside of the SyncLock on LOCK_FOR_HELD_LOCKS() of obtain().
Guarded == {"contains", "newset", "add"}

\* From the reservation of the path to its removal.
Reserved == {"open", "attach", "lock", "close", "fail", "held", "unlock", "unhold"}

Pc == {"idle", "guard", "newguard", "unlink"} \cup Guarded \cup Reserved

TypeOK ==
  /\ path \in Inodes \cup {None}
  /\ recordLock \in [Inodes -> Processes \cup {None}]
  /\ lockDir \in {"none", "file", "directory"}
  /\ sync \in [Processes -> Locks \cup {None}]
  /\ set \in [Processes -> Locks \cup {None}]
  /\ held \subseteq Locks
  /\ guard \in [Locks -> Locks \cup {None}]
  /\ stream \in [Locks -> Inodes \cup {None}]
  /\ m_lock \in [Locks -> Inodes \cup {None}]
  /\ pc \in [Locks -> Pc]
  /\ probe \in [Locks -> BOOLEAN]
  /\ raced \subseteq Processes /\ unlockFailed \subseteq Processes

\* The lock file may be there from an earlier use.
Init ==
  /\ path \in Inodes \cup {None}
  /\ recordLock = [i \in Inodes |-> None]
  /\ lockDir \in {"none", "file", "directory"}
  /\ path # None => lockDir = "directory"
  /\ sync = [p \in Processes |-> None]
  /\ set = [p \in Processes |-> None]
  /\ held = {}
  /\ guard = [l \in Locks |-> None]
  /\ stream = [l \in Locks |-> None]
  /\ m_lock = [l \in Locks |-> None]
  /\ pc = [l \in Locks |-> "idle"]
  /\ probe = [l \in Locks |-> FALSE]
  /\ raced = {} /\ unlockFailed = {}

Goes(l, from, to) == pc[l] = from /\ pc' = [pc EXCEPT ![l] = to]

\* An inode that no name and no descriptor refers to.
Unused(i) == i # path /\ \A l \in Locks : stream[l] # i /\ m_lock[l] # i

\* Closing any descriptor of an inode drops the record lock of the process.
Dropped(p, i) ==
  [j \in Inodes |-> IF j = i /\ recordLock[j] = p THEN None ELSE recordLock[j]]

-----------------------------------------------------------------------------
(* LOCK_FOR_HELD_LOCKS() and HELD_LOCKS() *)

\* Who finds none creates one ...
FindsNoGuard(l) ==
  /\ sync[Process[l]] = None
  /\ Goes(l, "guard", "newguard")
  /\ UNCHANGED <<files, books, object, unlockFailed>>

FindsNoSet(l) ==
  /\ set[Process[l]] = None
  /\ Goes(l, "contains", "newset")
  /\ UNCHANGED <<files, books, object, unlockFailed>>

\* ... which takes the place of one that another has created meanwhile.
MakeGuard(l) ==
  /\ Goes(l, "newguard", "guard")
  /\ sync' = [sync EXCEPT ![Process[l]] = l]
  /\ raced' = raced \cup {p \in {Process[l]} : sync[p] # None}
  /\ UNCHANGED <<files, set, held, guard, object, unlockFailed>>

MakeSet(l) ==
  /\ Goes(l, "newset", "contains")
  /\ set' = [set EXCEPT ![Process[l]] = l]
  /\ raced' = raced \cup {p \in {Process[l]} : set[p] # None}
  /\ UNCHANGED <<files, sync, held, guard, object, unlockFailed>>

\* The Synchronize of this moment is there and free.
GuardIsFree(l) ==
  /\ sync[Process[l]] # None
  /\ \A k \in Locks : guard[k] # sync[Process[l]]

-----------------------------------------------------------------------------
(* obtain() *)

\* Not while m_lock is set.  A lock directory that is not there is made.
Begin(l) ==
  /\ Goes(l, "idle", "guard")
  /\ m_lock[l] = None
  /\ lockDir # "file" /\ lockDir' = "directory"
  /\ probe' \in {[probe EXCEPT ![l] = b] : b \in BOOLEAN}
  /\ UNCHANGED <<path, recordLock, books, stream, m_lock, unlockFailed>>

\* A lock directory that cannot be made, or a file in its place, is an
\* IOException before anything has changed.
BeginFails(l) ==
  /\ pc[l] = "idle" /\ m_lock[l] = None
  /\ lockDir # "directory"
  /\ UNCHANGED vars

Enter(l) ==
  /\ Goes(l, "guard", "contains")
  /\ GuardIsFree(l)
  /\ guard' = [guard EXCEPT ![l] = sync[Process[l]]]
  /\ UNCHANGED <<files, statics, held, object, unlockFailed>>

\* Mutant: the path is added whether or not it is there.
Contains_Unasked(l) ==
  /\ set[Process[l]] # None
  /\ Goes(l, "contains", "add")
  /\ UNCHANGED <<files, books, object, unlockFailed>>

\* obtain() is false if the set has the path ...
Contains(l) ==
  /\ set[Process[l]] # None
  /\ IF set[Process[l]] \in held
     THEN /\ Goes(l, "contains", "idle")
          /\ guard' = [guard EXCEPT ![l] = None]
     ELSE /\ Goes(l, "contains", "add")
          /\ UNCHANGED guard
  /\ UNCHANGED <<files, statics, held, object, unlockFailed>>

\* ... and "reserves" it otherwise for this thread.
Reserve(l) ==
  /\ Goes(l, "add", "open")
  /\ held' = held \cup {set[Process[l]]}
  /\ guard' = [guard EXCEPT ![l] = None]
  /\ UNCHANGED <<files, statics, object, unlockFailed>>

\* The ofstream opens the file, creating it if there is none.
OpenStream(l) ==
  /\ Goes(l, "open", "attach")
  /\ path' \in (IF path = None THEN {i \in Inodes : Unused(i)} ELSE {path})
  /\ stream' = [stream EXCEPT ![l] = path']
  /\ UNCHANGED <<recordLock, lockDir, books, m_lock, probe, unlockFailed>>

\* The stream or the file_lock cannot open the file.
OpenFails(l) ==
  /\ Goes(l, "open", "fail") \/ Goes(l, "attach", "fail")
  /\ recordLock' = Dropped(Process[l], stream[l])
  /\ stream' = [stream EXCEPT ![l] = None]
  /\ UNCHANGED <<path, lockDir, books, m_lock, probe, unlockFailed>>

\* The file_lock opens the path again.
Attach(l) ==
  /\ Goes(l, "attach", "lock")
  /\ path # None
  /\ m_lock' = [m_lock EXCEPT ![l] = path]
  /\ UNCHANGED <<files, books, stream, probe, unlockFailed>>

\* m_lock->lock() blocks while another process has the record lock.
Lock(l) ==
  /\ Goes(l, "lock", "close")
  /\ recordLock[m_lock[l]] \in {None, Process[l]}
  /\ recordLock' = [recordLock EXCEPT ![m_lock[l]] = Process[l]]
  /\ UNCHANGED <<path, lockDir, books, object, unlockFailed>>

\* lock() throws: m_lock is reset and f closed.
LockFails(l) ==
  /\ Goes(l, "lock", "fail")
  /\ recordLock' = [i \in Inodes |->
       IF i \in {stream[l], m_lock[l]} /\ recordLock[i] = Process[l]
       THEN None ELSE recordLock[i]]
  /\ stream' = [stream EXCEPT ![l] = None]
  /\ m_lock' = [m_lock EXCEPT ![l] = None]
  /\ UNCHANGED <<path, lockDir, books, probe, unlockFailed>>

\* f leaves its scope; obtain() is true.
CloseStream(l) ==
  /\ Goes(l, "close", IF probe[l] THEN "unlock" ELSE "held")
  /\ recordLock' = Dropped(Process[l], stream[l])
  /\ stream' = [stream EXCEPT ![l] = None]
  /\ UNCHANGED <<path, lockDir, books, m_lock, probe, unlockFailed>>

\* Under LOCK_FOR_HELD_LOCKS(), HELD_LOCKS() loses the path.
Remove(l) ==
  /\ GuardIsFree(l)
  /\ held' = held \ {set[Process[l]]}
  /\ UNCHANGED <<files, statics, guard, object, unlockFailed>>

\* Mutant: obtain() tries again until it succeeds.
Fail_Retries(l) ==
  /\ Goes(l, "fail", "open")
  /\ UNCHANGED <<files, books, object, unlockFailed>>

\* obtain() gives the reservation back; it is false, or is thrown from a probe.
Fail(l) == Goes(l, "fail", "idle") /\ Remove(l)

-----------------------------------------------------------------------------
(* release() *)

\* Of a lock that obtain() has got, or whose unlock() has failed before.
Release(l) ==
  /\ Goes(l, "held", "unlock") \/ (m_lock[l] # None /\ Goes(l, "idle", "unlock"))
  /\ UNCHANGED <<files, books, object, unlockFailed>>

Unlock(l) ==
  /\ Goes(l, "unlock", "unhold")
  /\ recordLock' = Dropped(Process[l], m_lock[l])
  /\ m_lock' = [m_lock EXCEPT ![l] = None]
  /\ UNCHANGED <<path, lockDir, books, stream, probe, unlockFailed>>

\* unlock() throws, which is caught: m_lock stays set, and release() goes on.
UnlockFails(l) ==
  /\ Goes(l, "unlock", "unhold")
  /\ unlockFailed' = unlockFailed \cup {Process[l]}
  /\ UNCHANGED <<files, books, object>>

Unhold(l) == Goes(l, "unhold", "unlink") /\ Remove(l)

\* remove_file(m_path), which may fail, on whatever file the path names by now.
Unlink(l) ==
  /\ Goes(l, "unlink", "idle")
  /\ path' \in {path, None}
  /\ UNCHANGED <<recordLock, lockDir, books, object, unlockFailed>>

\* NativeFSLockFactory::clear_lock() removes the file, whoever uses it.
ClearLock ==
  /\ path # None
  /\ path' = None
  /\ UNCHANGED <<recordLock, lockDir, books, object, pc, unlockFailed>>

-----------------------------------------------------------------------------

Proceed(l) ==
  \/ FindsNoGuard(l) \/ MakeGuard(l) \/ Enter(l)
  \/ FindsNoSet(l) \/ MakeSet(l) \/ Contains(l) \/ Reserve(l)
  \/ OpenStream(l) \/ OpenFails(l) \/ Attach(l) \/ Lock(l) \/ CloseStream(l) \/ Fail(l)
  \/ Unlock(l) \/ Unhold(l) \/ Unlink(l)

Next ==
  \/ ClearLock
  \/ \E l \in Locks :
       \/ Begin(l) \/ BeginFails(l) \/ Release(l) \/ Proceed(l)
       \/ LockFails(l) \/ UnlockFails(l)

Spec == Init /\ [][Next]_vars

\* The threads are scheduled, and what is free again and again is got; no client
\* keeps a lock for ever, nor does unlock() throw each time.
Fair(l) == SF_vars(Proceed(l)) /\ WF_vars(Release(l)) /\ SF_vars(Unlock(l))

-----------------------------------------------------------------------------
(* Properties *)

\* The threads of a process that are between the reservation of the path and its
\* removal, in an obtain(), with the lock, or in a release().
Users(p) == {l \in Locks : Process[l] = p /\ pc[l] \in Reserved}

\* Inside of a process, that is at most one thread, and HELD_LOCKS has the path
\* just then: no failed obtain() leaves it behind.  That ends when first calls
\* overlap and create two of what must be one, or a release() removes the path
\* although its unlock() has failed, and once more when it is called again.
HeldLocksExact ==
  \A p \in Processes \ (raced \cup unlockFailed) :
    /\ \A k, l \in Users(p) : k = l
    /\ set[p] \in held <=> Users(p) # {}

\* Every obtain(), is_locked() and release() comes back if no lock is kept for
\* ever, although m_lock->lock() blocks with the path reserved.  lock.h,
\* "immediately return upon success or failure", promises it without the if:
\* when the path is unlinked and made again between the two times that obtain()
\* opens it, the record lock survives, and another process blocks on it.
CallsReturn == \A l \in Locks : pc[l] \notin {"idle", "held"} ~> pc[l] \in {"idle", "held"}

\* lock.h, "An interprocess mutex lock": no two lock objects have the lock, if the
\* sets of held locks are in order.  The end of the ofstream's scope drops the
\* record lock that obtain() has just got.
MutualExclusion ==
  LET sound == {l \in Locks : Process[l] \notin raced \cup unlockFailed}
  IN  \A k, l \in sound : pc[k] = "held" /\ pc[l] = "held" => k = l
=============================================================================
