--------------------------- MODULE SingleInstanceLock ---------------------------
(***************************************************************************)
(* SingleInstanceLockFactory and its locks                                 *)
(* (src/store/single_instance_lock_factory.cpp): lock names in a HashSet   *)
(* that the factory and all its locks share, for one lock name.            *)
(*                                                                         *)
(* The copies of a HashSet share the container, and the Synchronize that   *)
(* guards it only if it exists when the copy is made: it is created by the *)
(* first SyncLock (src/util/lucene_sync.cpp).  A lock that make_lock()     *)
(* creates before the factory's own HashSet has one makes one for itself.  *)
(***************************************************************************)
CONSTANTS
  Clients, Stale,       \* see ExclusiveLock; each client has a lock object
  Nobody,               \* no client, and no Synchronize
  Factory               \* the Synchronize that the factory's HashSet creates

ASSUME ClientsAssumption ==
  /\ Nobody \notin Clients /\ Stale \notin Clients /\ Nobody # Stale
  /\ Factory \notin Clients

VARIABLES
  locked,               \* whether the name is in the container of m_locks
  factorySync,          \* whether the factory's HashSet has its Synchronize
  syncOf,               \* the Synchronize of each lock: Factory, its own, Nobody
  syncOwner,            \* who has each Synchronize
  pc,                   \* where a client is
  raced                 \* ghost: two were in the container at once

lockVars == <<locked, factorySync, syncOf, syncOwner, pc, raced>>

Syncs == Clients \cup {Factory}

\* "insert" is inside of HashSet::add(), which found no entry, "erase" inside of
\* remove(), "find" of contains(): the container is not safe for two threads at
\* a time.
Inside == {"add", "insert", "erase", "find"}
Pc == {"none", "idle", "held"} \cup Inside

holders == {c \in Clients : pc[c] \in {"held", "erase"}}

LockTypeOK ==
  /\ locked \in BOOLEAN
  /\ factorySync \in BOOLEAN
  /\ syncOf \in [Clients -> Syncs \cup {Nobody}]
  /\ syncOwner \in [Syncs -> Clients \cup {Nobody}]
  /\ pc \in [Clients -> Pc]
  /\ raced \in BOOLEAN

LockInit ==
  /\ locked = FALSE
  /\ factorySync = FALSE
  /\ syncOf = [c \in Clients |-> Nobody]
  /\ syncOwner = [s \in Syncs |-> Nobody]
  /\ pc = [c \in Clients |-> "none"]
  /\ raced = FALSE

ClientGoes(c, from, to) == pc[c] = from /\ pc' = [pc EXCEPT ![c] = to]

\* SyncLock(&m_locks) of a lock: the first one creates the Synchronize.  It keeps
\* out those that use the same one.
EnterSync(c) ==
  LET s == IF syncOf[c] = Nobody THEN c ELSE syncOf[c]
  IN  /\ syncOwner[s] = Nobody
      /\ syncOf' = [syncOf EXCEPT ![c] = s]
      /\ syncOwner' = [syncOwner EXCEPT ![s] = c]
      /\ raced' = (raced \/ \E d \in Clients : pc[d] \in Inside /\ syncOf[d] # s)

LeaveSync(c) == syncOwner' = [syncOwner EXCEPT ![syncOf[c]] = Nobody]

-----------------------------------------------------------------------------
(* The factory *)

\* The lock copies the factory's HashSet.
MakeLock(c) ==
  /\ ClientGoes(c, "none", "idle")
  /\ syncOf' = [syncOf EXCEPT ![c] = IF factorySync THEN Factory ELSE Nobody]
  /\ UNCHANGED <<locked, factorySync, syncOwner, raced>>

\* "Only call this at a time when you are certain this lock is no longer in use."
ClearLock ==
  /\ \A c \in Clients : pc[c] \in {"none", "idle"}
  /\ factorySync' = TRUE
  /\ locked' = FALSE
  /\ UNCHANGED <<syncOf, syncOwner, pc, raced>>

-----------------------------------------------------------------------------
(* SingleInstanceLock *)

Obtain(c) ==
  /\ ClientGoes(c, "idle", "add")
  /\ EnterSync(c)
  /\ UNCHANGED <<locked, factorySync>>

\* HashSet::add() inserts nothing if the name is there, and obtain() is false.
AddFinds(c) ==
  /\ locked
  /\ ClientGoes(c, "add", "idle")
  /\ LeaveSync(c)
  /\ UNCHANGED <<locked, factorySync, syncOf, raced>>

\* Mutant: the name counts as added although it was there.
AddFindsNone_Always(c) ==
  /\ ClientGoes(c, "add", "insert")
  /\ UNCHANGED <<locked, factorySync, syncOf, syncOwner, raced>>

AddFindsNone(c) ==
  /\ ~locked
  /\ ClientGoes(c, "add", "insert")
  /\ UNCHANGED <<locked, factorySync, syncOf, syncOwner, raced>>

Insert(c) ==
  /\ ClientGoes(c, "insert", "held")
  /\ locked' = TRUE
  /\ LeaveSync(c)
  /\ UNCHANGED <<factorySync, syncOf, raced>>

\* is_locked() of a lock that is not held by this object.
IsLocked(c) ==
  /\ ClientGoes(c, "idle", "find")
  /\ EnterSync(c)
  /\ UNCHANGED <<locked, factorySync>>

Contains(c) ==
  /\ ClientGoes(c, "find", "idle")
  /\ LeaveSync(c)
  /\ UNCHANGED <<locked, factorySync, syncOf, raced>>

Release(c) ==
  /\ ClientGoes(c, "held", "erase")
  /\ EnterSync(c)
  /\ UNCHANGED <<locked, factorySync>>

Erase(c) ==
  /\ ClientGoes(c, "erase", "idle")
  /\ locked' = FALSE
  /\ LeaveSync(c)
  /\ UNCHANGED <<factorySync, syncOf, raced>>

\* The lock object is destroyed: its destructor does not release.
Drop(c) ==
  /\ ClientGoes(c, "idle", "none") \/ ClientGoes(c, "held", "none")
  /\ UNCHANGED <<locked, factorySync, syncOf, syncOwner, raced>>

-----------------------------------------------------------------------------

LockNext ==
  \/ ClearLock
  \/ \E c \in Clients :
       \/ MakeLock(c) \/ Drop(c)
       \/ Obtain(c) \/ AddFinds(c) \/ AddFindsNone(c) \/ Insert(c)
       \/ IsLocked(c) \/ Contains(c) \/ Release(c) \/ Erase(c)

LockSpec == LockInit /\ [][LockNext]_lockVars

-----------------------------------------------------------------------------
(* Properties *)

\* single_instance_lock_factory.h, "@return true if exclusive is obtained": the
\* lock is had by one client at a time, which keeps it until it releases it, and
\* it stays locked when its holder is destroyed without release(), whichever
\* Synchronizes are in use, until two clients are in the container at the same
\* moment under two different ones.
Owners == IF holders = {} /\ locked THEN {Stale} ELSE holders
Exclusive == INSTANCE ExclusiveLock WITH holders <- Owners
ExclusiveSpec == Exclusive!Init /\ [][~raced' => Exclusive!Next]_Owners

\* "@return true if exclusive is obtained" (single_instance_lock_factory.h:50), of
\* the locks as they are made, a clear_lock() before them or not: no two have it.
OneHolds == \A c, d \in holders : c = d
=============================================================================
