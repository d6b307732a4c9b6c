--------------------------- MODULE NativeFSLock_proofs ---------------------------
(***************************************************************************)
(* For any locks, processes and inodes: HELD_LOCKS of a process has the    *)
(* path exactly while one of its threads is between the reservation and    *)
(* its removal, until first calls overlap or an unlock() fails.            *)
(***************************************************************************)
EXTENDS NativeFSLock, TLAPS

\* Where m_lock is set, as long as no unlock() has failed.
Locking == {"lock", "close", "held", "unlock"}

\* What a process has, a lock object of it has created.
OwnStatics ==
  \A p \in Processes :
    /\ sync[p] # None => Process[sync[p]] = p
    /\ set[p] # None => Process[set[p]] = p

\* A thread is in a Synchronize just where the code is in the SyncLock, and what
\* it has looked up was there.
GuardPlaces ==
  /\ \A l \in Locks : guard[l] # None <=> pc[l] \in Guarded
  /\ \A l \in Locks : pc[l] = "add" => set[Process[l]] # None

\* One Synchronize and one set: at most one thread is in it.
Single(p) ==
  p \notin raced =>
    /\ \A l \in Locks : Process[l] = p /\ guard[l] # None => guard[l] = sync[p]
    /\ \A k, l \in Locks :
         Process[k] = p /\ Process[l] = p /\ guard[k] # None /\ guard[l] # None => k = l
    /\ \A l \in Locks : Process[l] = p /\ l \in held => set[p] = l

\* HeldLocksExact for one process, with what a thread that is about to reserve
\* has found, and where m_lock is set.
Books(p) ==
  p \notin raced /\ p \notin unlockFailed =>
    /\ \A k, l \in Locks :
         Process[k] = p /\ Process[l] = p /\ pc[k] \in Reserved /\ pc[l] \in Reserved => k = l
    /\ \A l \in Locks : Process[l] = p /\ pc[l] \in Reserved => set[p] \in held
    /\ set[p] \in held => \E l \in Locks : Process[l] = p /\ pc[l] \in Reserved
    /\ \A l \in Locks : Process[l] = p /\ pc[l] = "add" => set[p] \notin held
    /\ \A l \in Locks : Process[l] = p /\ m_lock[l] # None => pc[l] \in Locking

\* The inductive invariant.
HInv ==
  /\ TypeOK /\ OwnStatics /\ GuardPlaces
  /\ \A p \in Processes : Single(p) /\ Books(p)

-----------------------------------------------------------------------------

\* A step of l leaves the other threads and the other processes alone.
OnlyIn(l) ==
  /\ \A k \in Locks : k # l => UNCHANGED <<pc[k], guard[k], m_lock[k]>>
  /\ \A q \in Processes : q # Process[l] =>
       /\ UNCHANGED <<sync[q], set[q]>>
       /\ q \in raced' <=> q \in raced
       /\ q \in unlockFailed' <=> q \in unlockFailed
  /\ \A k \in Locks : Process[k] # Process[l] => (k \in held' <=> k \in held)

\* So the books of the other processes are what they were.
LEMMA OtherProcess ==
  ASSUME TypeOK, OwnStatics, held' \subseteq Locks, NEW l \in Locks, OnlyIn(l),
         NEW q \in Processes, q # Process[l], Single(q), Books(q)
  PROVE  Single(q)' /\ Books(q)'
<1>1. /\ UNCHANGED <<sync[q], set[q]>>
      /\ q \in raced' <=> q \in raced
      /\ q \in unlockFailed' <=> q \in unlockFailed
  BY DEF OnlyIn
<1>2. \A k \in Locks : Process[k] = q =>
        UNCHANGED <<pc[k], guard[k], m_lock[k]>> /\ (k \in held' <=> k \in held)
  BY DEF OnlyIn
<1>3. set[q] \in held' <=> set[q] \in held
  BY <1>2, NoneAssumption DEF TypeOK, OwnStatics
<1>4. Single(q)'
  BY <1>1, <1>2 DEF Single
<1>5. Books(q)'
  BY <1>1, <1>2, <1>3 DEF Books
<1> QED
  BY <1>4, <1>5

\* What one step of l has to show.
LEMMA OneLock ==
  ASSUME HInv, NEW l \in Locks, OnlyIn(l), TypeOK', OwnStatics', GuardPlaces',
         Single(Process[l])', Books(Process[l])'
  PROVE  HInv'
<1>1. ASSUME NEW p \in Processes PROVE Single(p)' /\ Books(p)'
  BY OtherProcess, <1>1 DEF HInv, TypeOK
<1> QED
  BY <1>1 DEF HInv

-----------------------------------------------------------------------------
(* The steps *)

\* The initial state satisfies the invariant.
LEMMA InitHInv == Init => HInv
<1> SUFFICES ASSUME Init PROVE HInv
  OBVIOUS
<1>1. TypeOK /\ OwnStatics /\ GuardPlaces
  BY DEF Init, TypeOK, OwnStatics, GuardPlaces, Pc, Guarded
<1>2. ASSUME NEW p \in Processes PROVE Single(p) /\ Books(p)
  BY DEF Init, Single, Books, Reserved
<1> QED
  BY <1>1, <1>2 DEF HInv

\* obtain() begins.
LEMMA BeginKeeps ==
  ASSUME HInv, NEW l \in Locks, Begin(l)
  PROVE  HInv'
<1> USE NoneAssumption, ProcessAssumption DEF Goes, files, statics, books, object
<1> DEFINE p == Process[l]
<1>1. TypeOK /\ OwnStatics /\ GuardPlaces /\ p \in Processes /\ Single(p) /\ Books(p)
  BY DEF HInv
<1>2. TypeOK'
  BY <1>1 DEF TypeOK, GuardPlaces, Pc, Guarded, Reserved, Begin
<1>3. OwnStatics'
  BY <1>1 DEF TypeOK, OwnStatics, Begin
<1>4. GuardPlaces'
  BY <1>1 DEF TypeOK, GuardPlaces, Guarded, Reserved, Begin
<1>5. OnlyIn(l)
  BY <1>1 DEF TypeOK, OwnStatics, OnlyIn, Begin
<1>6. Single(p)'
  BY <1>1 DEF TypeOK, OwnStatics, GuardPlaces, Guarded, Single, Begin
<1>7. Books(p)'
  BY <1>1 DEF TypeOK, OwnStatics, GuardPlaces, Guarded, Reserved, Locking, Single, Books, Begin
<1> QED
  BY <1>2, <1>3, <1>4, <1>5, <1>6, <1>7, OneLock

\* The first call finds no Synchronize.
LEMMA FindsNoGuardKeeps ==
  ASSUME HInv, NEW l \in Locks, FindsNoGuard(l)
  PROVE  HInv'
<1> USE NoneAssumption, ProcessAssumption DEF Goes, files, statics, books, object
<1> DEFINE p == Process[l]
<1>1. TypeOK /\ OwnStatics /\ GuardPlaces /\ p \in Processes /\ Single(p) /\ Books(p)
  BY DEF HInv
<1>2. TypeOK'
  BY <1>1 DEF TypeOK, GuardPlaces, Pc, Guarded, Reserved, FindsNoGuard
<1>3. OwnStatics'
  BY <1>1 DEF TypeOK, OwnStatics, FindsNoGuard
<1>4. GuardPlaces'
  BY <1>1 DEF TypeOK, GuardPlaces, Guarded, Reserved, FindsNoGuard
<1>5. OnlyIn(l)
  BY <1>1 DEF TypeOK, OwnStatics, OnlyIn, FindsNoGuard
<1>6. Single(p)'
  BY <1>1 DEF TypeOK, OwnStatics, GuardPlaces, Guarded, Single, FindsNoGuard
<1>7. Books(p)'
  BY <1>1 DEF TypeOK, OwnStatics, GuardPlaces, Guarded, Reserved, Locking, Single, Books, FindsNoGuard
<1> QED
  BY <1>2, <1>3, <1>4, <1>5, <1>6, <1>7, OneLock

\* It creates one.
LEMMA MakeGuardKeeps ==
  ASSUME HInv, NEW l \in Locks, MakeGuard(l)
  PROVE  HInv'
<1> USE NoneAssumption, ProcessAssumption DEF Goes, files, statics, books, object
<1> DEFINE p == Process[l]
<1>1. TypeOK /\ OwnStatics /\ GuardPlaces /\ p \in Processes /\ Single(p) /\ Books(p)
  BY DEF HInv
<1>2. TypeOK'
  BY <1>1 DEF TypeOK, GuardPlaces, Pc, Guarded, Reserved, MakeGuard
<1>3. OwnStatics'
  BY <1>1 DEF TypeOK, OwnStatics, MakeGuard
<1>4. GuardPlaces'
  BY <1>1 DEF TypeOK, GuardPlaces, Guarded, Reserved, MakeGuard
<1>5. OnlyIn(l)
  BY <1>1 DEF TypeOK, OwnStatics, OnlyIn, MakeGuard
<1>6. Single(p)'
  BY <1>1 DEF TypeOK, OwnStatics, GuardPlaces, Guarded, Single, MakeGuard
<1>7. Books(p)'
  BY <1>1 DEF TypeOK, OwnStatics, GuardPlaces, Guarded, Reserved, Locking, Single, Books, MakeGuard
<1> QED
  BY <1>2, <1>3, <1>4, <1>5, <1>6, <1>7, OneLock

\* One thread at a time is in it.
LEMMA EnterKeeps ==
  ASSUME HInv, NEW l \in Locks, Enter(l)
  PROVE  HInv'
<1> USE NoneAssumption, ProcessAssumption DEF Goes, files, statics, books, object
<1> DEFINE p == Process[l]
<1>1. TypeOK /\ OwnStatics /\ GuardPlaces /\ p \in Processes /\ Single(p) /\ Books(p)
  BY DEF HInv
<1>2. TypeOK'
  BY <1>1 DEF TypeOK, GuardPlaces, Pc, Guarded, Reserved, Enter, GuardIsFree
<1>3. OwnStatics'
  BY <1>1 DEF TypeOK, OwnStatics, Enter, GuardIsFree
<1>4. GuardPlaces'
  BY <1>1 DEF TypeOK, GuardPlaces, Guarded, Reserved, Enter, GuardIsFree
<1>5. OnlyIn(l)
  BY <1>1 DEF TypeOK, OwnStatics, OnlyIn, Enter, GuardIsFree
<1>6. Single(p)'
  BY <1>1 DEF TypeOK, OwnStatics, GuardPlaces, Guarded, Single, Enter, GuardIsFree
<1>7. Books(p)'
  BY <1>1 DEF TypeOK, OwnStatics, GuardPlaces, Guarded, Reserved, Locking, Single, Books, Enter, GuardIsFree
<1> QED
  BY <1>2, <1>3, <1>4, <1>5, <1>6, <1>7, OneLock

\* The first call finds no set.
LEMMA FindsNoSetKeeps ==
  ASSUME HInv, NEW l \in Locks, FindsNoSet(l)
  PROVE  HInv'
<1> USE NoneAssumption, ProcessAssumption DEF Goes, files, statics, books, object
<1> DEFINE p == Process[l]
<1>1. TypeOK /\ OwnStatics /\ GuardPlaces /\ p \in Processes /\ Single(p) /\ Books(p)
  BY DEF HInv
<1>2. TypeOK'
  BY <1>1 DEF TypeOK, GuardPlaces, Pc, Guarded, Reserved, FindsNoSet
<1>3. OwnStatics'
  BY <1>1 DEF TypeOK, OwnStatics, FindsNoSet
<1>4. GuardPlaces'
  BY <1>1 DEF TypeOK, GuardPlaces, Guarded, Reserved, FindsNoSet
<1>5. OnlyIn(l)
  BY <1>1 DEF TypeOK, OwnStatics, OnlyIn, FindsNoSet
<1>6. Single(p)'
  BY <1>1 DEF TypeOK, OwnStatics, GuardPlaces, Guarded, Single, FindsNoSet
<1>7. Books(p)'
  BY <1>1 DEF TypeOK, OwnStatics, GuardPlaces, Guarded, Reserved, Locking, Single, Books, FindsNoSet
<1> QED
  BY <1>2, <1>3, <1>4, <1>5, <1>6, <1>7, OneLock

\* It creates one, which is empty.
LEMMA MakeSetKeeps ==
  ASSUME HInv, NEW l \in Locks, MakeSet(l)
  PROVE  HInv'
<1> USE NoneAssumption, ProcessAssumption DEF Goes, files, statics, books, object
<1> DEFINE p == Process[l]
<1>1. TypeOK /\ OwnStatics /\ GuardPlaces /\ p \in Processes /\ Single(p) /\ Books(p)
  BY DEF HInv
<1>2. TypeOK'
  BY <1>1 DEF TypeOK, GuardPlaces, Pc, Guarded, Reserved, MakeSet
<1>3. OwnStatics'
  BY <1>1 DEF TypeOK, OwnStatics, MakeSet
<1>4. GuardPlaces'
  BY <1>1 DEF TypeOK, GuardPlaces, Guarded, Reserved, MakeSet
<1>5. OnlyIn(l)
  BY <1>1 DEF TypeOK, OwnStatics, OnlyIn, MakeSet
<1>6. Single(p)'
  BY <1>1 DEF TypeOK, OwnStatics, GuardPlaces, Guarded, Single, MakeSet
<1>7. Books(p)'
  BY <1>1 DEF TypeOK, OwnStatics, GuardPlaces, Guarded, Reserved, Locking, Single, Books, MakeSet
<1> QED
  BY <1>2, <1>3, <1>4, <1>5, <1>6, <1>7, OneLock

\* The path is looked up.
LEMMA ContainsKeeps ==
  ASSUME HInv, NEW l \in Locks, Contains(l)
  PROVE  HInv'
<1> USE NoneAssumption, ProcessAssumption DEF Goes, files, statics, books, object
<1> DEFINE p == Process[l]
<1>1. TypeOK /\ OwnStatics /\ GuardPlaces /\ p \in Processes /\ Single(p) /\ Books(p)
  BY DEF HInv
<1>2. TypeOK'
  BY <1>1 DEF TypeOK, GuardPlaces, Pc, Guarded, Reserved, Contains
<1>3. OwnStatics'
  BY <1>1 DEF TypeOK, OwnStatics, Contains
<1>4. GuardPlaces'
  BY <1>1 DEF TypeOK, GuardPlaces, Guarded, Reserved, Contains
<1>5. OnlyIn(l)
  BY <1>1 DEF TypeOK, OwnStatics, OnlyIn, Contains
<1>6. Single(p)'
  BY <1>1 DEF TypeOK, OwnStatics, GuardPlaces, Guarded, Single, Contains
<1>7. Books(p)'
  BY <1>1 DEF TypeOK, OwnStatics, GuardPlaces, Guarded, Reserved, Locking, Single, Books, Contains
<1> QED
  BY <1>2, <1>3, <1>4, <1>5, <1>6, <1>7, OneLock

\* And reserved by the thread that has not found it.
LEMMA ReserveKeeps ==
  ASSUME HInv, NEW l \in Locks, Reserve(l)
  PROVE  HInv'
<1> USE NoneAssumption, ProcessAssumption DEF Goes, files, statics, books, object
<1> DEFINE p == Process[l]
<1>1. TypeOK /\ OwnStatics /\ GuardPlaces /\ p \in Processes /\ Single(p) /\ Books(p)
  BY DEF HInv
<1>2. TypeOK'
  <2>1. pc[l] = "add" /\ pc' \in [Locks -> Pc]
    BY <1>1 DEF TypeOK, Pc, Guarded, Reserved, Reserve
  <2>2. set[p] \in Locks
    BY <1>1, <2>1 DEF TypeOK, GuardPlaces
  <2> QED
    BY <1>1, <2>1, <2>2 DEF TypeOK, Reserve
<1>3. OwnStatics'
  BY <1>1 DEF TypeOK, OwnStatics, Reserve
<1>4. GuardPlaces'
  BY <1>1 DEF TypeOK, GuardPlaces, Guarded, Reserved, Reserve
<1>5. OnlyIn(l)
  BY <1>1 DEF TypeOK, OwnStatics, OnlyIn, Reserve
<1>6. Single(p)'
  BY <1>1 DEF TypeOK, OwnStatics, GuardPlaces, Guarded, Single, Reserve
<1>7. Books(p)'
  <2> SUFFICES ASSUME p \notin raced, p \notin unlockFailed PROVE Books(p)'
    BY DEF Books, Reserve
  <2>1. /\ pc[l] = "add" /\ pc'[l] = "open" /\ guard[l] # None
        /\ \A k \in Locks \ {l} : pc'[k] = pc[k]
    <3>1. pc[l] = "add" /\ pc'[l] = "open" /\ \A k \in Locks \ {l} : pc'[k] = pc[k]
      BY <1>1 DEF TypeOK, Reserve
    <3> QED
      BY <1>1, <3>1 DEF GuardPlaces, Guarded
  <2>2. \A k \in Locks \ {l} : Process[k] = p => pc[k] \notin Reserved /\ pc[k] # "add"
    <3>1. \A k \in Locks : Process[k] = p /\ pc[k] \in Reserved => set[p] \in held
      BY <1>1 DEF Books
    <3>2. set[p] \notin held
      BY <1>1, <2>1 DEF Books
    <3>3. \A k \in Locks \ {l} : Process[k] = p => guard[k] = None
      BY <1>1, <2>1 DEF Single
    <3> QED
      BY <1>1, <3>1, <3>2, <3>3 DEF GuardPlaces, Guarded
  <2>3. set' = set /\ set[p] \in held' /\ m_lock' = m_lock
    BY DEF Reserve
  <2> QED
    BY <1>1, <2>1, <2>2, <2>3 DEF Books, Reserved, Locking
<1> QED
  BY <1>2, <1>3, <1>4, <1>5, <1>6, <1>7, OneLock

\* The file is opened.
LEMMA OpenStreamKeeps ==
  ASSUME HInv, NEW l \in Locks, OpenStream(l)
  PROVE  HInv'
<1> USE NoneAssumption, ProcessAssumption DEF Goes, files, statics, books, object
<1> DEFINE p == Process[l]
<1>1. TypeOK /\ OwnStatics /\ GuardPlaces /\ p \in Processes /\ Single(p) /\ Books(p)
  BY DEF HInv
<1>2. TypeOK'
  BY <1>1 DEF TypeOK, GuardPlaces, Pc, Guarded, Reserved, OpenStream
<1>3. OwnStatics'
  BY <1>1 DEF TypeOK, OwnStatics, OpenStream
<1>4. GuardPlaces'
  BY <1>1 DEF TypeOK, GuardPlaces, Guarded, Reserved, OpenStream
<1>5. OnlyIn(l)
  BY <1>1 DEF TypeOK, OwnStatics, OnlyIn, OpenStream
<1>6. Single(p)'
  BY <1>1 DEF TypeOK, OwnStatics, GuardPlaces, Guarded, Single, OpenStream
<1>7. Books(p)'
  BY <1>1 DEF TypeOK, OwnStatics, GuardPlaces, Guarded, Reserved, Locking, Single, Books, OpenStream
<1> QED
  BY <1>2, <1>3, <1>4, <1>5, <1>6, <1>7, OneLock

\* It cannot be opened.
LEMMA OpenFailsKeeps ==
  ASSUME HInv, NEW l \in Locks, OpenFails(l)
  PROVE  HInv'
<1> USE NoneAssumption, ProcessAssumption DEF Goes, files, statics, books, object
<1> DEFINE p == Process[l]
<1>1. TypeOK /\ OwnStatics /\ GuardPlaces /\ p \in Processes /\ Single(p) /\ Books(p)
  BY DEF HInv
<1>2. TypeOK'
  BY <1>1 DEF TypeOK, GuardPlaces, Pc, Guarded, Reserved, OpenFails, Dropped
<1>3. OwnStatics'
  BY <1>1 DEF TypeOK, OwnStatics, OpenFails, Dropped
<1>4. GuardPlaces'
  BY <1>1 DEF TypeOK, GuardPlaces, Guarded, Reserved, OpenFails, Dropped
<1>5. OnlyIn(l)
  BY <1>1 DEF TypeOK, OwnStatics, OnlyIn, OpenFails, Dropped
<1>6. Single(p)'
  BY <1>1 DEF TypeOK, OwnStatics, GuardPlaces, Guarded, Single, OpenFails, Dropped
<1>7. Books(p)'
  BY <1>1 DEF TypeOK, OwnStatics, GuardPlaces, Guarded, Reserved, Locking, Single, Books, OpenFails, Dropped
<1> QED
  BY <1>2, <1>3, <1>4, <1>5, <1>6, <1>7, OneLock

\* It is opened again.
LEMMA AttachKeeps ==
  ASSUME HInv, NEW l \in Locks, Attach(l)
  PROVE  HInv'
<1> USE NoneAssumption, ProcessAssumption DEF Goes, files, statics, books, object
<1> DEFINE p == Process[l]
<1>1. TypeOK /\ OwnStatics /\ GuardPlaces /\ p \in Processes /\ Single(p) /\ Books(p)
  BY DEF HInv
<1>2. TypeOK'
  BY <1>1 DEF TypeOK, GuardPlaces, Pc, Guarded, Reserved, Attach
<1>3. OwnStatics'
  BY <1>1 DEF TypeOK, OwnStatics, Attach
<1>4. GuardPlaces'
  BY <1>1 DEF TypeOK, GuardPlaces, Guarded, Reserved, Attach
<1>5. OnlyIn(l)
  BY <1>1 DEF TypeOK, OwnStatics, OnlyIn, Attach
<1>6. Single(p)'
  BY <1>1 DEF TypeOK, OwnStatics, GuardPlaces, Guarded, Single, Attach
<1>7. Books(p)'
  BY <1>1 DEF TypeOK, OwnStatics, GuardPlaces, Guarded, Reserved, Locking, Single, Books, Attach
<1> QED
  BY <1>2, <1>3, <1>4, <1>5, <1>6, <1>7, OneLock

\* The record lock is got.
LEMMA LockKeeps ==
  ASSUME HInv, NEW l \in Locks, Lock(l)
  PROVE  HInv'
<1> USE NoneAssumption, ProcessAssumption DEF Goes, files, statics, books, object
<1> DEFINE p == Process[l]
<1>1. TypeOK /\ OwnStatics /\ GuardPlaces /\ p \in Processes /\ Single(p) /\ Books(p)
  BY DEF HInv
<1>2. TypeOK'
  BY <1>1 DEF TypeOK, GuardPlaces, Pc, Guarded, Reserved, Lock
<1>3. OwnStatics'
  BY <1>1 DEF TypeOK, OwnStatics, Lock
<1>4. GuardPlaces'
  BY <1>1 DEF TypeOK, GuardPlaces, Guarded, Reserved, Lock
<1>5. OnlyIn(l)
  BY <1>1 DEF TypeOK, OwnStatics, OnlyIn, Lock
<1>6. Single(p)'
  BY <1>1 DEF TypeOK, OwnStatics, GuardPlaces, Guarded, Single, Lock
<1>7. Books(p)'
  BY <1>1 DEF TypeOK, OwnStatics, GuardPlaces, Guarded, Reserved, Locking, Single, Books, Lock
<1> QED
  BY <1>2, <1>3, <1>4, <1>5, <1>6, <1>7, OneLock

\* It is not.
LEMMA LockFailsKeeps ==
  ASSUME HInv, NEW l \in Locks, LockFails(l)
  PROVE  HInv'
<1> USE NoneAssumption, ProcessAssumption DEF Goes, files, statics, books, object
<1> DEFINE p == Process[l]
<1>1. TypeOK /\ OwnStatics /\ GuardPlaces /\ p \in Processes /\ Single(p) /\ Books(p)
  BY DEF HInv
<1>2. TypeOK'
  BY <1>1 DEF TypeOK, GuardPlaces, Pc, Guarded, Reserved, LockFails
<1>3. OwnStatics'
  BY <1>1 DEF TypeOK, OwnStatics, LockFails
<1>4. GuardPlaces'
  BY <1>1 DEF TypeOK, GuardPlaces, Guarded, Reserved, LockFails
<1>5. OnlyIn(l)
  BY <1>1 DEF TypeOK, OwnStatics, OnlyIn, LockFails
<1>6. Single(p)'
  BY <1>1 DEF TypeOK, OwnStatics, GuardPlaces, Guarded, Single, LockFails
<1>7. Books(p)'
  BY <1>1 DEF TypeOK, OwnStatics, GuardPlaces, Guarded, Reserved, Locking, Single, Books, LockFails
<1> QED
  BY <1>2, <1>3, <1>4, <1>5, <1>6, <1>7, OneLock

\* The stream is closed.
LEMMA CloseStreamKeeps ==
  ASSUME HInv, NEW l \in Locks, CloseStream(l)
  PROVE  HInv'
<1> USE NoneAssumption, ProcessAssumption DEF Goes, files, statics, books, object
<1> DEFINE p == Process[l]
<1>1. TypeOK /\ OwnStatics /\ GuardPlaces /\ p \in Processes /\ Single(p) /\ Books(p)
  BY DEF HInv
<1>2. TypeOK'
  BY <1>1 DEF TypeOK, GuardPlaces, Pc, Guarded, Reserved, CloseStream, Dropped
<1>3. OwnStatics'
  BY <1>1 DEF TypeOK, OwnStatics, CloseStream, Dropped
<1>4. GuardPlaces'
  BY <1>1 DEF TypeOK, GuardPlaces, Guarded, Reserved, CloseStream, Dropped
<1>5. OnlyIn(l)
  BY <1>1 DEF TypeOK, OwnStatics, OnlyIn, CloseStream, Dropped
<1>6. Single(p)'
  BY <1>1 DEF TypeOK, OwnStatics, GuardPlaces, Guarded, Single, CloseStream, Dropped
<1>7. Books(p)'
  BY <1>1 DEF TypeOK, OwnStatics, GuardPlaces, Guarded, Reserved, Locking, Single, Books, CloseStream, Dropped
<1> QED
  BY <1>2, <1>3, <1>4, <1>5, <1>6, <1>7, OneLock

\* The reservation is given back: it was the only one.
LEMMA FailKeeps ==
  ASSUME HInv, NEW l \in Locks, Fail(l)
  PROVE  HInv'
<1> USE NoneAssumption, ProcessAssumption DEF Goes, files, statics, books, object
<1> DEFINE p == Process[l]
<1>1. TypeOK /\ OwnStatics /\ GuardPlaces /\ p \in Processes /\ Single(p) /\ Books(p)
  BY DEF HInv
<1>2. TypeOK'
  BY <1>1 DEF TypeOK, GuardPlaces, Pc, Guarded, Reserved, Fail, Remove, GuardIsFree
<1>3. OwnStatics'
  BY <1>1 DEF TypeOK, OwnStatics, Fail, Remove, GuardIsFree
<1>4. GuardPlaces'
  BY <1>1 DEF TypeOK, GuardPlaces, Guarded, Reserved, Fail, Remove, GuardIsFree
<1>5. OnlyIn(l)
  BY <1>1 DEF TypeOK, OwnStatics, OnlyIn, Fail, Remove, GuardIsFree
<1>6. Single(p)'
  BY <1>1 DEF TypeOK, OwnStatics, GuardPlaces, Guarded, Single, Fail, Remove, GuardIsFree
<1>7. Books(p)'
  BY <1>1 DEF TypeOK, OwnStatics, GuardPlaces, Guarded, Reserved, Locking, Single, Books, Fail, Remove, GuardIsFree
<1> QED
  BY <1>2, <1>3, <1>4, <1>5, <1>6, <1>7, OneLock

\* release() begins.
LEMMA ReleaseKeeps ==
  ASSUME HInv, NEW l \in Locks, Release(l)
  PROVE  HInv'
<1> USE NoneAssumption, ProcessAssumption DEF Goes, files, statics, books, object
<1> DEFINE p == Process[l]
<1>1. TypeOK /\ OwnStatics /\ GuardPlaces /\ p \in Processes /\ Single(p) /\ Books(p)
  BY DEF HInv
<1>2. TypeOK'
  BY <1>1 DEF TypeOK, GuardPlaces, Pc, Guarded, Reserved, Release
<1>3. OwnStatics'
  BY <1>1 DEF TypeOK, OwnStatics, Release
<1>4. GuardPlaces'
  BY <1>1 DEF TypeOK, GuardPlaces, Guarded, Reserved, Release
<1>5. OnlyIn(l)
  BY <1>1 DEF TypeOK, OwnStatics, OnlyIn, Release
<1>6. Single(p)'
  BY <1>1 DEF TypeOK, OwnStatics, GuardPlaces, Guarded, Single, Release
<1>7. Books(p)'
  BY <1>1 DEF TypeOK, OwnStatics, GuardPlaces, Guarded, Reserved, Locking, Single, Books, Release
<1> QED
  BY <1>2, <1>3, <1>4, <1>5, <1>6, <1>7, OneLock

\* m_lock is unlocked and reset.
LEMMA UnlockKeeps ==
  ASSUME HInv, NEW l \in Locks, Unlock(l)
  PROVE  HInv'
<1> USE NoneAssumption, ProcessAssumption DEF Goes, files, statics, books, object
<1> DEFINE p == Process[l]
<1>1. TypeOK /\ OwnStatics /\ GuardPlaces /\ p \in Processes /\ Single(p) /\ Books(p)
  BY DEF HInv
<1>2. TypeOK'
  BY <1>1 DEF TypeOK, GuardPlaces, Pc, Guarded, Reserved, Unlock, Dropped
<1>3. OwnStatics'
  BY <1>1 DEF TypeOK, OwnStatics, Unlock, Dropped
<1>4. GuardPlaces'
  BY <1>1 DEF TypeOK, GuardPlaces, Guarded, Reserved, Unlock, Dropped
<1>5. OnlyIn(l)
  BY <1>1 DEF TypeOK, OwnStatics, OnlyIn, Unlock, Dropped
<1>6. Single(p)'
  BY <1>1 DEF TypeOK, OwnStatics, GuardPlaces, Guarded, Single, Unlock, Dropped
<1>7. Books(p)'
  BY <1>1 DEF TypeOK, OwnStatics, GuardPlaces, Guarded, Reserved, Locking, Single, Books, Unlock, Dropped
<1> QED
  BY <1>2, <1>3, <1>4, <1>5, <1>6, <1>7, OneLock

\* unlock() throws, and the books are exact no longer.
LEMMA UnlockFailsKeeps ==
  ASSUME HInv, NEW l \in Locks, UnlockFails(l)
  PROVE  HInv'
<1> USE NoneAssumption, ProcessAssumption DEF Goes, files, statics, books, object
<1> DEFINE p == Process[l]
<1>1. TypeOK /\ OwnStatics /\ GuardPlaces /\ p \in Processes /\ Single(p) /\ Books(p)
  BY DEF HInv
<1>2. TypeOK'
  BY <1>1 DEF TypeOK, GuardPlaces, Pc, Guarded, Reserved, UnlockFails
<1>3. OwnStatics'
  BY <1>1 DEF TypeOK, OwnStatics, UnlockFails
<1>4. GuardPlaces'
  BY <1>1 DEF TypeOK, GuardPlaces, Guarded, Reserved, UnlockFails
<1>5. OnlyIn(l)
  BY <1>1 DEF TypeOK, OwnStatics, OnlyIn, UnlockFails
<1>6. Single(p)'
  BY <1>1 DEF TypeOK, OwnStatics, GuardPlaces, Guarded, Single, UnlockFails
<1>7. Books(p)'
  BY <1>1 DEF TypeOK, OwnStatics, GuardPlaces, Guarded, Reserved, Locking, Single, Books, UnlockFails
<1> QED
  BY <1>2, <1>3, <1>4, <1>5, <1>6, <1>7, OneLock

\* The path is removed: it was reserved by this thread alone.
LEMMA UnholdKeeps ==
  ASSUME HInv, NEW l \in Locks, Unhold(l)
  PROVE  HInv'
<1> USE NoneAssumption, ProcessAssumption DEF Goes, files, statics, books, object
<1> DEFINE p == Process[l]
<1>1. TypeOK /\ OwnStatics /\ GuardPlaces /\ p \in Processes /\ Single(p) /\ Books(p)
  BY DEF HInv
<1>2. TypeOK'
  BY <1>1 DEF TypeOK, GuardPlaces, Pc, Guarded, Reserved, Unhold, Remove, GuardIsFree
<1>3. OwnStatics'
  BY <1>1 DEF TypeOK, OwnStatics, Unhold, Remove, GuardIsFree
<1>4. GuardPlaces'
  BY <1>1 DEF TypeOK, GuardPlaces, Guarded, Reserved, Unhold, Remove, GuardIsFree
<1>5. OnlyIn(l)
  BY <1>1 DEF TypeOK, OwnStatics, OnlyIn, Unhold, Remove, GuardIsFree
<1>6. Single(p)'
  BY <1>1 DEF TypeOK, OwnStatics, GuardPlaces, Guarded, Single, Unhold, Remove, GuardIsFree
<1>7. Books(p)'
  BY <1>1 DEF TypeOK, OwnStatics, GuardPlaces, Guarded, Reserved, Locking, Single, Books, Unhold, Remove, GuardIsFree
<1> QED
  BY <1>2, <1>3, <1>4, <1>5, <1>6, <1>7, OneLock

\* The file is removed.
LEMMA UnlinkKeeps ==
  ASSUME HInv, NEW l \in Locks, Unlink(l)
  PROVE  HInv'
<1> USE NoneAssumption, ProcessAssumption DEF Goes, files, statics, books, object
<1> DEFINE p == Process[l]
<1>1. TypeOK /\ OwnStatics /\ GuardPlaces /\ p \in Processes /\ Single(p) /\ Books(p)
  BY DEF HInv
<1>2. TypeOK'
  BY <1>1 DEF TypeOK, GuardPlaces, Pc, Guarded, Reserved, Unlink
<1>3. OwnStatics'
  BY <1>1 DEF TypeOK, OwnStatics, Unlink
<1>4. GuardPlaces'
  BY <1>1 DEF TypeOK, GuardPlaces, Guarded, Reserved, Unlink
<1>5. OnlyIn(l)
  BY <1>1 DEF TypeOK, OwnStatics, OnlyIn, Unlink
<1>6. Single(p)'
  BY <1>1 DEF TypeOK, OwnStatics, GuardPlaces, Guarded, Single, Unlink
<1>7. Books(p)'
  BY <1>1 DEF TypeOK, OwnStatics, GuardPlaces, Guarded, Reserved, Locking, Single, Books, Unlink
<1> QED
  BY <1>2, <1>3, <1>4, <1>5, <1>6, <1>7, OneLock

\* Each step keeps the invariant.
LEMMA NextHInv == HInv /\ [Next]_vars => HInv'
<1> SUFFICES ASSUME HInv, [Next]_vars PROVE HInv'
  OBVIOUS
<1>1. ASSUME NEW l \in Locks, ~BeginFails(l),
             \/ Begin(l) \/ BeginFails(l) \/ Release(l) \/ Proceed(l)
             \/ LockFails(l) \/ UnlockFails(l)
      PROVE  HInv'
  <2>1. CASE Begin(l)
    BY <2>1, BeginKeeps
  <2>2. CASE FindsNoGuard(l)
    BY <2>2, FindsNoGuardKeeps
  <2>3. CASE MakeGuard(l)
    BY <2>3, MakeGuardKeeps
  <2>4. CASE Enter(l)
    BY <2>4, EnterKeeps
  <2>5. CASE FindsNoSet(l)
    BY <2>5, FindsNoSetKeeps
  <2>6. CASE MakeSet(l)
    BY <2>6, MakeSetKeeps
  <2>7. CASE Contains(l)
    BY <2>7, ContainsKeeps
  <2>8. CASE Reserve(l)
    BY <2>8, ReserveKeeps
  <2>9. CASE OpenStream(l)
    BY <2>9, OpenStreamKeeps
  <2>10. CASE OpenFails(l)
    BY <2>10, OpenFailsKeeps
  <2>11. CASE Attach(l)
    BY <2>11, AttachKeeps
  <2>12. CASE Lock(l)
    BY <2>12, LockKeeps
  <2>13. CASE LockFails(l)
    BY <2>13, LockFailsKeeps
  <2>14. CASE CloseStream(l)
    BY <2>14, CloseStreamKeeps
  <2>15. CASE Fail(l)
    BY <2>15, FailKeeps
  <2>16. CASE Release(l)
    BY <2>16, ReleaseKeeps
  <2>17. CASE Unlock(l)
    BY <2>17, UnlockKeeps
  <2>18. CASE UnlockFails(l)
    BY <2>18, UnlockFailsKeeps
  <2>19. CASE Unhold(l)
    BY <2>19, UnholdKeeps
  <2>20. CASE Unlink(l)
    BY <2>20, UnlinkKeeps
  <2> QED
    BY <1>1, <2>1, <2>2, <2>3, <2>4, <2>5, <2>6, <2>7, <2>8, <2>9, <2>10,
       <2>11, <2>12, <2>13, <2>14, <2>15, <2>16, <2>17, <2>18, <2>19, <2>20 DEF Proceed
<1>2. CASE ClearLock
  <2>1. TypeOK'
    BY <1>2 DEF HInv, ClearLock, TypeOK, books, statics, object
  <2>2. UNCHANGED <<sync, set, held, guard, m_lock, pc, raced, unlockFailed>>
    BY <1>2 DEF ClearLock, books, statics, object
  <2> QED
    BY <2>1, <2>2 DEF HInv, OwnStatics, GuardPlaces, Single, Books
<1>3. CASE UNCHANGED vars
  <2>1. TypeOK'
    BY <1>3 DEF HInv, TypeOK, vars, files, books, statics, object
  <2>2. UNCHANGED <<sync, set, held, guard, m_lock, pc, raced, unlockFailed>>
    BY <1>3 DEF vars, books, statics, object
  <2> QED
    BY <2>1, <2>2 DEF HInv, OwnStatics, GuardPlaces, Single, Books
<1>4. ASSUME NEW l \in Locks, BeginFails(l) PROVE HInv'
  BY <1>3, <1>4 DEF BeginFails
<1> QED
  BY <1>1, <1>2, <1>3, <1>4 DEF Next

\* HeldLocksExact, for any locks in any processes: until first calls of a process
\* overlap or its unlock() fails, one thread at a time has the path reserved
\* (native_fs_lock_factory.cpp:91-106), and no failed obtain() leaves it reserved.
THEOREM HeldLocksAreExact == Spec => []HeldLocksExact
<1>1. HInv => HeldLocksExact
  <2> SUFFICES ASSUME HInv, NEW p \in Processes, p \notin raced, p \notin unlockFailed
               PROVE  /\ \A k, l \in Users(p) : k = l
                      /\ set[p] \in held <=> Users(p) # {}
    BY DEF HeldLocksExact
  <2>1. Books(p)
    BY DEF HInv
  <2> QED
    BY <2>1 DEF Books, Users
<1> QED
  BY <1>1, InitHInv, NextHInv, PTL DEF Spec
=============================================================================
