---------------------------- MODULE Concurrency_proofs ----------------------------
(***************************************************************************)
(* Threads and monitors of src/util, for any threads and bounds: what      *)
(* stop() guarantees although it never joins; that the books of            *)
(* Synchronize agree with its mutex until a lock() times out, and that     *)
(* its scopes exclude each other whatever times out.                       *)
(***************************************************************************)
EXTENDS LuceneThread, Monitor, TLAPS

(* LuceneThread: every interleaving of controllers and bodies, restarts included. *)

\* The controller is between Spawn and the end of stop() or join().
InEffect == {"spawned", "started", "stopping", "cleared", "waiting"}

\* From Spawn on, m_thread is a std::thread that has not been joined.
HandleInEffect ==
  \A t \in Threads : ctl[t] \in InEffect => handle[t] \in {"joinable", "terminated"}

\* The flag is down where the controller has just cleared it.
FlagDown ==
  \A t \in Threads : ctl[t] \in {"starting", "spawned", "cleared"} => ~running[t]

\* Outside the calls, the flag is down under every body that is in its loop.
IdleBodyIsStopped ==
  \A t \in Threads : ctl[t] = "idle" /\ body[t] \in {"test", "work"} => ~running[t]

\* A thread object without a std::thread, or with one that was joined, has no
\* body that goes on.
NothingRuns ==
  \A t \in Threads :
    /\ handle[t] = "null" => body[t] = "none"
    /\ handle[t] = "joined" => body[t] = "dead"

\* The inductive invariant behind StartedBodyIsAlive, RestartIsAlone and
\* NoNewIteration.
IInv ==
  /\ ThreadTypeOK
  /\ HandleInEffect
  /\ FlagDown
  /\ IdleBodyIsStopped
  /\ StartedBodyIsAlive
  /\ NothingRuns

\* The initial state satisfies the inductive invariant.
LEMMA InitIInv == ThreadInit => IInv
BY DEF ThreadInit, IInv, ThreadTypeOK, Handle, Body, Ctl, HandleInEffect, InEffect, FlagDown,
       IdleBodyIsStopped, StartedBodyIsAlive, NothingRuns

\* Every step of a controller and of a body keeps the inductive invariant.
LEMMA NextIInv == IInv /\ [ThreadNext]_tvars => IInv'
<1> USE DEF IInv, ThreadTypeOK, Handle, Body, Ctl, HandleInEffect, InEffect, FlagDown,
            IdleBodyIsStopped, StartedBodyIsAlive, NothingRuns, IsAlive
<1> SUFFICES ASSUME IInv, [ThreadNext]_tvars PROVE IInv'
  OBVIOUS
<1>1. CASE UNCHANGED tvars
  BY <1>1 DEF tvars
<1>2. ASSUME NEW t \in Threads, Start(t) PROVE IInv'
  BY <1>2 DEF Start, Control
<1>3. ASSUME NEW t \in Threads, Spawn(t) PROVE IInv'
  BY <1>3 DEF Spawn, Control
<1>4. ASSUME NEW t \in Threads, SpawnFails(t) PROVE IInv'
  BY <1>4 DEF SpawnFails, Control
<1>5. ASSUME NEW t \in Threads, StartDone(t) PROVE IInv'
  BY <1>5 DEF StartDone, Control
<1>6. ASSUME NEW t \in Threads, Loop(t) PROVE IInv'
  BY <1>6 DEF Loop, BodyMoves
<1>7. ASSUME NEW t \in Threads, Work(t) PROVE IInv'
  BY <1>7 DEF Work, BodyMoves
<1>8. ASSUME NEW t \in Threads, Throw(t) PROVE IInv'
  BY <1>8 DEF Throw, BodyMoves
<1>9. ASSUME NEW t \in Threads, Leave(t) PROVE IInv'
  BY <1>9 DEF Leave, BodyMoves
<1>10. ASSUME NEW t \in Threads, StopTest(t) PROVE IInv'
  BY <1>10 DEF StopTest, Control
<1>11. ASSUME NEW t \in Threads, StopClear(t) PROVE IInv'
  BY <1>11 DEF StopClear, Control
<1>12. ASSUME NEW t \in Threads, Join(t) PROVE IInv'
  BY <1>12 DEF Join, Control, Terminated
<1>13. ASSUME NEW t \in Threads, JoinReturn(t) PROVE IInv'
  BY <1>13 DEF JoinReturn, Control, Terminated
<1> QED
  BY <1>1, <1>2, <1>3, <1>4, <1>5, <1>6, <1>7, <1>8, <1>9, <1>10, <1>11, <1>12, <1>13
  DEF ThreadNext, Call, CallStep, BodyStep

\* Every reachable state satisfies the inductive invariant.
THEOREM ThreadInvariant == ThreadSpec => []IInv
BY InitIInv, NextIInv, PTL DEF ThreadSpec

\* The variables of a thread object keep their types (lucene_thread.cpp).
THEOREM ThreadTypeCorrect == ThreadSpec => []ThreadTypeOK
<1>1. IInv => ThreadTypeOK
  BY DEF IInv
<1> QED
  BY ThreadInvariant, <1>1, PTL

\* stop() cannot overlook a thread that is in its loop: is_alive() is true of it
\* from the return of start() until stop() clears the flag.
THEOREM StopSeesTheBody == ThreadSpec => []StartedBodyIsAlive
<1>1. IInv => StartedBodyIsAlive
  BY DEF IInv
<1> QED
  BY ThreadInvariant, <1>1, PTL

\* start() after a stop() that did not wait never puts a second body beside the
\* first: it replaces a std::thread that was not joined, and ends the process.
THEOREM RestartsAlone == ThreadSpec => RestartIsAlone
<1>1. ASSUME IInv, [ThreadNext]_tvars
      PROVE  [\A t \in Threads :
                ctl[t] = "starting" /\ ctl'[t] = "spawned"
                  => body[t] \in {"none", "dead"} \/ Terminated']_tvars
  <2> USE <1>1 DEF IInv, ThreadTypeOK, Handle, NothingRuns
  <2> SUFFICES ASSUME NEW t \in Threads, ctl[t] = "starting", ctl'[t] = "spawned"
               PROVE  body[t] \in {"none", "dead"} \/ Terminated'
    OBVIOUS
  <2>1. CASE UNCHANGED tvars
    BY <2>1 DEF tvars
  <2>2. ASSUME NEW u \in Threads, Spawn(u) PROVE body[t] \in {"none", "dead"} \/ Terminated'
    <3>1. u = t
      BY <2>2 DEF Spawn, Control
    <3>2. handle[t] = "joinable" => handle'[t] = "terminated"
      BY <2>2, <3>1 DEF Spawn
    <3>3. handle[t] # "terminated"
      BY <2>2 DEF Spawn, Control, Terminated
    <3> QED
      BY <3>2, <3>3 DEF Terminated
  <2>3. ASSUME NEW u \in Threads, ~Spawn(u), Call(u) \/ CallStep(u) \/ BodyStep(u)
        PROVE  FALSE
    BY <2>3 DEF Call, CallStep, BodyStep, Start, SpawnFails, StartDone, StopTest, StopClear,
                Join, JoinReturn, Control, Loop, Work, Throw, Leave, Ctl
  <2> QED
    BY <1>1, <2>1, <2>2, <2>3 DEF ThreadNext
<1> QED
  BY ThreadInvariant, <1>1, PTL DEF ThreadSpec, RestartIsAlone

\* stop() returns without waiting, but the body begins no iteration after it.
THEOREM StopIsEffective == ThreadSpec => NoNewIteration
<1>1. ASSUME IInv, [ThreadNext]_tvars
      PROVE  [\A t \in Threads :
                ctl[t] = "idle" /\ body[t] = "test" => body'[t] # "work"]_tvars
  <2> USE <1>1 DEF IInv, ThreadTypeOK, IdleBodyIsStopped
  <2> SUFFICES ASSUME NEW t \in Threads, ctl[t] = "idle", body[t] = "test"
               PROVE  body'[t] # "work"
    OBVIOUS
  <2>1. CASE UNCHANGED tvars
    BY <2>1 DEF tvars
  <2>2. ASSUME NEW u \in Threads, Call(u) PROVE body'[t] # "work"
    BY <2>2 DEF Call, Start, StopTest, Join
  <2>3. ASSUME NEW u \in Threads, CallStep(u) PROVE body'[t] # "work"
    BY <2>3 DEF CallStep, Spawn, SpawnFails, StartDone, StopClear, Join, JoinReturn, Control
  <2>4. ASSUME NEW u \in Threads, BodyStep(u) PROVE body'[t] # "work"
    BY <2>4 DEF BodyStep, Loop, Work, Throw, Leave, BodyMoves
  <2> QED
    BY <1>1, <2>1, <2>2, <2>3, <2>4 DEF ThreadNext
<1> QED
  BY ThreadInvariant, <1>1, PTL DEF ThreadSpec, NoNewIteration

-----------------------------------------------------------------------------
(* Monitor: mutual exclusion whatever times out, and exact books until then. *)

\* The levels of the mutex that a thread has.
Own(t) == IF owner = t THEN depth ELSE 0

NotNegative(n) == IF n > 0 THEN n ELSE 0

\* The mutex is free when it has no level.
MutexSound == owner = NoThread <=> depth = 0

\* Where a thread is says whether it is in wait(), and what it holds there.
PlacesSound(t) ==
  /\ pc[t] = "client" => ~waits[t]
  /\ pc[t] \in {"unlockall", "relock"} \cup InWait => waits[t]
  /\ pc[t] \in InLock => owner = t
  /\ pc[t] \in InUnlock /\ ~waits[t] => Scopes(t) > 0
  /\ waitOwner = t => waits[t] /\ pc[t] \in {"relock"} \cup InLock

\* A thread has a level for each of its scopes that have locked, next to those
\* that wait() has released and gives back.
LevelsSound(t) ==
  /\ pc[t] = "client" => Own(t) >= locked[t]
  /\ ~waits[t] /\ pc[t] \in InUnlock => Own(t) >= locked[t]
  /\ ~waits[t] /\ pc[t] \in InLock => Own(t) >= locked[t] + 1
  /\ pc[t] = "unlockall" => left[t] <= relockCount[t] /\ (left[t] >= 0 \/ left[t] = relockCount[t])
  /\ waits[t] /\ pc[t] \in InUnlock => left[t] > 0 /\ left[t] <= relockCount[t]
  /\ waits[t] /\ pc[t] \in {"unlockall"} \cup InUnlock =>
       Own(t) + relockCount[t] - left[t] >= locked[t]
  /\ pc[t] \in InWait => Own(t) + NotNegative(relockCount[t]) >= locked[t]
  /\ pc[t] = "relock" => Own(t) + NotNegative(left[t]) >= locked[t]
  /\ waits[t] /\ pc[t] \in InLock => left[t] > 0 /\ Own(t) + left[t] >= locked[t] + 1

\* The inductive invariant of every state.
MInv ==
  /\ TypeOK /\ MutexSound
  /\ \A t \in Thr : PlacesSound(t) /\ LevelsSound(t)

\* The levels that a thread has between two calls of lock() and unlock().
Held(t) ==
  IF ~waits[t] THEN locked[t]
  ELSE IF pc[t] \in {"unlockall"} \cup InUnlock THEN left[t]
  ELSE IF pc[t] \in InWait THEN 0
  ELSE relockCount[t] - left[t]

\* The loops of wait() count what the scopes of the thread have locked.
LoopsExact(t) ==
  waits[t] => relockCount[t] = locked[t] /\ left[t] \in 0 .. relockCount[t]

\* Mutex and books agree, step by step through lock() and unlock().
Exact(t) ==
  /\ lapsed[t] = 0 /\ LoopsExact(t)
  /\ pc[t] \notin InLock \cup InUnlock =>
       IF Held(t) = 0 THEN owner # t
       ELSE owner = t /\ depth = Held(t) /\ recursionCount = Held(t) /\ lockThread = t
  /\ pc[t] \in InLock => owner = t /\ depth = Held(t) + 1 /\ recursionCount = Held(t)
  /\ pc[t] \in {"fetching", "adding"} \/ (pc[t] = "noting" /\ Held(t) > 0) => lockThread = t
  /\ pc[t] \in {"adding", "storing"} => register[t] = Held(t)
  /\ pc[t] \in InUnlock => owner = t /\ depth = Held(t)
  /\ pc[t] \in {"loading", "storing"} => recursionCount = Held(t) /\ lockThread = t
  /\ pc[t] \in {"testing", "releasing"} => recursionCount = Held(t) - 1
  /\ pc[t] = "testing" => register[t] = Held(t) - 1 /\ lockThread = t
  /\ pc[t] = "releasing" => Held(t) = 1 \/ lockThread = t

\* The inductive invariant of the states before a lock() has timed out.
BooksExact ==
  expired = 0 =>
    /\ owner = NoThread => recursionCount = 0
    /\ \A t \in Thr : Exact(t)

-----------------------------------------------------------------------------
(* The other threads *)

\* A step of t leaves to the other threads what is theirs, and takes no mutex
\* from them.
OnlyOf(t) ==
  /\ \A u \in Thr : u # t => UNCHANGED <<pc[u], waits[u], relockCount[u], left[u],
                                        locked[u], lapsed[u], register[u]>>
  /\ UNCHANGED mutex \/ (owner \in {NoThread, t} /\ owner' \in {NoThread, t})
  /\ waitOwner' \in {waitOwner, t, NoThread}

\* So they stay where they were.
LEMMA OthersSound ==
  ASSUME NEW t \in Thr, OnlyOf(t), NEW u \in Thr, u # t, PlacesSound(u), LevelsSound(u)
  PROVE  PlacesSound(u)' /\ LevelsSound(u)'
<1>1. UNCHANGED <<pc[u], waits[u], relockCount[u], left[u], locked[u], lapsed[u]>>
  BY DEF OnlyOf
<1>2. Own(u)' = Own(u) /\ (owner = u => owner' = u)
  BY NoThreadAssumption DEF OnlyOf, Own, mutex
<1>3. waitOwner' = u => waitOwner = u
  BY NoThreadAssumption DEF OnlyOf
<1>4. PlacesSound(u)'
  BY <1>1, <1>2, <1>3 DEF PlacesSound, Scopes
<1>5. LevelsSound(u)'
  BY <1>1, <1>2 DEF LevelsSound
<1> QED
  BY <1>4, <1>5

\* Their books are as exact as before, when t alone can have had the mutex.
LEMMA OthersExact ==
  ASSUME NEW t \in Thr, OnlyOf(t), NEW u \in Thr, u # t, Exact(u),
         \/ owner \in {NoThread, t} /\ owner' \in {NoThread, t}
         \/ UNCHANGED <<owner, depth, lockThread, recursionCount>>
  PROVE  Exact(u)'
<1>1. UNCHANGED <<pc[u], waits[u], relockCount[u], left[u], locked[u], lapsed[u], register[u]>>
  BY DEF OnlyOf
<1>2. Held(u)' = Held(u) /\ LoopsExact(u)'
  BY <1>1 DEF Held, Exact, LoopsExact
<1>3. CASE UNCHANGED <<owner, depth, lockThread, recursionCount>>
  BY <1>1, <1>2, <1>3 DEF Exact
<1>4. CASE owner \in {NoThread, t} /\ owner' \in {NoThread, t}
  <2>1. owner # u /\ owner' # u
    BY <1>4, NoThreadAssumption
  <2>2. pc[u] \notin InLock \cup InUnlock /\ Held(u) = 0
    BY <2>1 DEF Exact
  <2> QED
    BY <1>1, <1>2, <2>1, <2>2 DEF Exact, InLock, InUnlock
<1> QED
  BY <1>3, <1>4

\* What one step of t has to show.
LEMMA OneThread ==
  ASSUME MInv, NEW t \in Thr, OnlyOf(t), TypeOK', MutexSound', PlacesSound(t)', LevelsSound(t)'
  PROVE  MInv'
BY OthersSound DEF MInv

\* And of the books.
LEMMA OneThreadBooks ==
  ASSUME BooksExact, NEW t \in Thr, OnlyOf(t),
         expired' = 0 =>
           /\ expired = 0
           /\ owner' = NoThread => recursionCount' = 0
           /\ Exact(t)'
           /\ \/ owner \in {NoThread, t} /\ owner' \in {NoThread, t}
              \/ UNCHANGED <<owner, depth, lockThread, recursionCount>>
  PROVE  BooksExact'
BY OthersExact DEF BooksExact

-----------------------------------------------------------------------------
(* The steps *)

\* What is needed of an assignment to pc[t].
LEMMA GoesFacts ==
  ASSUME TypeOK, NEW t \in Thr, NEW from, NEW to \in Pc, Goes(t, from, to)
  PROVE  /\ pc' \in [Thr -> Pc]
         /\ pc[t] = from /\ pc'[t] = to
         /\ \A u \in Thr : u # t => pc'[u] = pc[u]
BY DEF Goes, TypeOK

\* The initial state satisfies the invariants.
LEMMA InitMInv == Init => MInv /\ BooksExact
<1> SUFFICES ASSUME Init PROVE MInv /\ BooksExact
  OBVIOUS
<1> USE NoThreadAssumption DEF Init, InLock, InUnlock, InWait
<1>1. TypeOK
  BY DEF TypeOK, Pc
<1>2. MutexSound
  BY DEF MutexSound
<1>3. ASSUME NEW t \in Thr PROVE PlacesSound(t) /\ LevelsSound(t) /\ Exact(t)
  BY DEF PlacesSound, LevelsSound, Own, Exact, LoopsExact, Held
<1> QED
  BY <1>1, <1>2, <1>3 DEF MInv, BooksExact

\* The mutex is taken: a level more for the books to note.
LEMMA LockKeeps ==
  ASSUME MInv, BooksExact, NEW t \in Thr, Lock(t)
  PROVE  MInv' /\ BooksExact'
<1> USE NoThreadAssumption, BoundsAssumption DEF mutex, books, signal, scopes, Goes
<1>1. TypeOK /\ MutexSound /\ PlacesSound(t) /\ LevelsSound(t)
  BY DEF MInv
<1>2. OnlyOf(t)
  BY <1>1 DEF OnlyOf, TypeOK, Lock, Acquire
<1>3. TypeOK'
  BY <1>1 DEF TypeOK, MutexSound, PlacesSound, Scopes, Pc, InLock, InUnlock, InWait, Lock, Acquire
<1>4. MutexSound'
  BY <1>1 DEF TypeOK, MutexSound, Lock, Acquire
<1>5. PlacesSound(t)'
  BY <1>1 DEF TypeOK, PlacesSound, Scopes, InLock, InUnlock, InWait, Lock, Acquire
<1>6. LevelsSound(t)'
  BY <1>1 DEF TypeOK, PlacesSound, LevelsSound, Own, NotNegative, MutexSound, Scopes, InLock, InUnlock, InWait, Lock, Acquire
<1>7. ASSUME expired' = 0
      PROVE  /\ expired = 0
             /\ owner' = NoThread => recursionCount' = 0
             /\ Exact(t)'
             /\ \/ owner \in {NoThread, t} /\ owner' \in {NoThread, t}
                \/ UNCHANGED <<owner, depth, lockThread, recursionCount>>
  <2>1. expired = 0 /\ Exact(t) /\ (owner = NoThread => recursionCount = 0)
    BY <1>1, <1>7 DEF TypeOK, BooksExact, Lock, Acquire
  <2>2. /\ owner' = NoThread => recursionCount' = 0
        /\ \/ owner \in {NoThread, t} /\ owner' \in {NoThread, t}
           \/ UNCHANGED <<owner, depth, lockThread, recursionCount>>
    BY <1>1, <2>1 DEF TypeOK, MutexSound, PlacesSound, LevelsSound, Exact, LoopsExact, Held, InLock, InUnlock, InWait, Lock, Acquire
  <2>3. Exact(t)'
    BY <1>1, <2>1 DEF TypeOK, MutexSound, PlacesSound, LevelsSound, Scopes, Exact, LoopsExact, Held, InLock, InUnlock, InWait, Lock, Acquire
  <2> QED
    BY <2>1, <2>2, <2>3
<1> QED
  BY <1>2, <1>3, <1>4, <1>5, <1>6, <1>7, OneThread, OneThreadBooks

\* A lock() that times out takes nothing, but ends the exactness of the books.
LEMMA LockTimesOutKeeps ==
  ASSUME MInv, BooksExact, NEW t \in Thr, LockTimesOut(t)
  PROVE  MInv' /\ BooksExact'
<1> USE NoThreadAssumption, BoundsAssumption DEF mutex, books, signal, scopes, Goes
<1>1. TypeOK /\ MutexSound /\ PlacesSound(t) /\ LevelsSound(t)
  BY DEF MInv
<1>2. OnlyOf(t)
  BY <1>1 DEF OnlyOf, TypeOK, LockTimesOut
<1>3. TypeOK'
  BY <1>1 DEF TypeOK, MutexSound, PlacesSound, Scopes, Pc, InLock, InUnlock, InWait, LockTimesOut
<1>4. MutexSound'
  BY <1>1 DEF TypeOK, MutexSound, LockTimesOut
<1>5. PlacesSound(t)'
  BY <1>1 DEF TypeOK, PlacesSound, Scopes, InLock, InUnlock, InWait, LockTimesOut
<1>6. LevelsSound(t)'
  BY <1>1 DEF TypeOK, PlacesSound, LevelsSound, Own, NotNegative, MutexSound, Scopes, InLock, InUnlock, InWait, LockTimesOut
<1>7. expired' # 0
  BY <1>1 DEF TypeOK, LockTimesOut
<1> QED
  BY <1>2, <1>3, <1>4, <1>5, <1>6, <1>7, OneThread, OneThreadBooks

\* The owner is noted.
LEMMA NoteThreadKeeps ==
  ASSUME MInv, BooksExact, NEW t \in Thr, NoteThread(t)
  PROVE  MInv' /\ BooksExact'
<1> USE NoThreadAssumption, BoundsAssumption DEF mutex, books, signal, scopes, Goes
<1>1. TypeOK /\ MutexSound /\ PlacesSound(t) /\ LevelsSound(t)
  BY DEF MInv
<1>2. OnlyOf(t)
  BY <1>1 DEF OnlyOf, TypeOK, NoteThread
<1>3. TypeOK'
  BY <1>1 DEF TypeOK, MutexSound, PlacesSound, Scopes, Pc, InLock, InUnlock, InWait, NoteThread
<1>4. MutexSound'
  BY <1>1 DEF TypeOK, MutexSound, NoteThread
<1>5. PlacesSound(t)'
  BY <1>1 DEF TypeOK, PlacesSound, Scopes, InLock, InUnlock, InWait, NoteThread
<1>6. LevelsSound(t)'
  BY <1>1 DEF TypeOK, PlacesSound, LevelsSound, Own, NotNegative, MutexSound, Scopes, InLock, InUnlock, InWait, NoteThread
<1>7. ASSUME expired' = 0
      PROVE  /\ expired = 0
             /\ owner' = NoThread => recursionCount' = 0
             /\ Exact(t)'
             /\ \/ owner \in {NoThread, t} /\ owner' \in {NoThread, t}
                \/ UNCHANGED <<owner, depth, lockThread, recursionCount>>
  <2>1. expired = 0 /\ Exact(t) /\ (owner = NoThread => recursionCount = 0)
    BY <1>1, <1>7 DEF TypeOK, BooksExact, NoteThread
  <2>2. /\ owner' = NoThread => recursionCount' = 0
        /\ \/ owner \in {NoThread, t} /\ owner' \in {NoThread, t}
           \/ UNCHANGED <<owner, depth, lockThread, recursionCount>>
    BY <1>1, <2>1 DEF TypeOK, MutexSound, PlacesSound, LevelsSound, Exact, LoopsExact, Held, InLock, InUnlock, InWait, NoteThread
  <2>3. Exact(t)'
    BY <1>1, <2>1 DEF TypeOK, MutexSound, PlacesSound, LevelsSound, Scopes, Exact, LoopsExact, Held, InLock, InUnlock, InWait, NoteThread
  <2> QED
    BY <2>1, <2>2, <2>3
<1> QED
  BY <1>2, <1>3, <1>4, <1>5, <1>6, <1>7, OneThread, OneThreadBooks

\* The count is loaded, for ++ or for --.
LEMMA FetchCountKeeps ==
  ASSUME MInv, BooksExact, NEW t \in Thr, FetchCount(t)
  PROVE  MInv' /\ BooksExact'
<1> USE NoThreadAssumption, BoundsAssumption DEF mutex, books, signal, scopes, Goes
<1>1. TypeOK /\ MutexSound /\ PlacesSound(t) /\ LevelsSound(t)
  BY DEF MInv
<1>2. OnlyOf(t)
  BY <1>1 DEF OnlyOf, TypeOK, FetchCount
<1>3. TypeOK'
  BY <1>1 DEF TypeOK, MutexSound, PlacesSound, Scopes, Pc, InLock, InUnlock, InWait, FetchCount
<1>4. MutexSound'
  BY <1>1 DEF TypeOK, MutexSound, FetchCount
<1>5. PlacesSound(t)'
  BY <1>1 DEF TypeOK, PlacesSound, Scopes, InLock, InUnlock, InWait, FetchCount
<1>6. LevelsSound(t)'
  BY <1>1 DEF TypeOK, PlacesSound, LevelsSound, Own, NotNegative, MutexSound, Scopes, InLock, InUnlock, InWait, FetchCount
<1>7. ASSUME expired' = 0
      PROVE  /\ expired = 0
             /\ owner' = NoThread => recursionCount' = 0
             /\ Exact(t)'
             /\ \/ owner \in {NoThread, t} /\ owner' \in {NoThread, t}
                \/ UNCHANGED <<owner, depth, lockThread, recursionCount>>
  <2>1. expired = 0 /\ Exact(t) /\ (owner = NoThread => recursionCount = 0)
    BY <1>1, <1>7 DEF TypeOK, BooksExact, FetchCount
  <2>2. /\ owner' = NoThread => recursionCount' = 0
        /\ \/ owner \in {NoThread, t} /\ owner' \in {NoThread, t}
           \/ UNCHANGED <<owner, depth, lockThread, recursionCount>>
    BY <1>1, <2>1 DEF TypeOK, MutexSound, PlacesSound, LevelsSound, Exact, LoopsExact, Held, InLock, InUnlock, InWait, FetchCount
  <2>3. Exact(t)'
    BY <1>1, <2>1 DEF TypeOK, MutexSound, PlacesSound, LevelsSound, Scopes, Exact, LoopsExact, Held, InLock, InUnlock, InWait, FetchCount
  <2> QED
    BY <2>1, <2>2, <2>3
<1> QED
  BY <1>2, <1>3, <1>4, <1>5, <1>6, <1>7, OneThread, OneThreadBooks

\* The count is stored, and lock() returns.
LEMMA AddOneKeeps ==
  ASSUME MInv, BooksExact, NEW t \in Thr, AddOne(t)
  PROVE  MInv' /\ BooksExact'
<1> USE NoThreadAssumption, BoundsAssumption DEF mutex, books, signal, scopes, Goes
<1>1. TypeOK /\ MutexSound /\ PlacesSound(t) /\ LevelsSound(t)
  BY DEF MInv
<1>2. OnlyOf(t)
  BY <1>1 DEF OnlyOf, TypeOK, AddOne
<1>3. TypeOK'
  BY <1>1 DEF TypeOK, MutexSound, PlacesSound, Scopes, Pc, InLock, InUnlock, InWait, AddOne
<1>4. MutexSound'
  BY <1>1 DEF TypeOK, MutexSound, AddOne
<1>5. PlacesSound(t)'
  BY <1>1 DEF TypeOK, PlacesSound, Scopes, InLock, InUnlock, InWait, AddOne
<1>6. LevelsSound(t)'
  BY <1>1 DEF TypeOK, PlacesSound, LevelsSound, Own, NotNegative, MutexSound, Scopes, InLock, InUnlock, InWait, AddOne
<1>7. ASSUME expired' = 0
      PROVE  /\ expired = 0
             /\ owner' = NoThread => recursionCount' = 0
             /\ Exact(t)'
             /\ \/ owner \in {NoThread, t} /\ owner' \in {NoThread, t}
                \/ UNCHANGED <<owner, depth, lockThread, recursionCount>>
  <2>1. expired = 0 /\ Exact(t) /\ (owner = NoThread => recursionCount = 0)
    BY <1>1, <1>7 DEF TypeOK, BooksExact, AddOne
  <2>2. /\ owner' = NoThread => recursionCount' = 0
        /\ \/ owner \in {NoThread, t} /\ owner' \in {NoThread, t}
           \/ UNCHANGED <<owner, depth, lockThread, recursionCount>>
    BY <1>1, <2>1 DEF TypeOK, MutexSound, PlacesSound, LevelsSound, Exact, LoopsExact, Held, InLock, InUnlock, InWait, AddOne
  <2>3. Exact(t)'
    BY <1>1, <2>1 DEF TypeOK, MutexSound, PlacesSound, LevelsSound, Scopes, Exact, LoopsExact, Held, InLock, InUnlock, InWait, AddOne
  <2> QED
    BY <2>1, <2>2, <2>3
<1> QED
  BY <1>2, <1>3, <1>4, <1>5, <1>6, <1>7, OneThread, OneThreadBooks

\* unlock() of a lock that the books say is free.
LEMMA UnlockNothingKeeps ==
  ASSUME MInv, BooksExact, NEW t \in Thr, UnlockNothing(t)
  PROVE  MInv' /\ BooksExact'
<1> USE NoThreadAssumption, BoundsAssumption DEF mutex, books, signal, scopes, Goes
<1>1. TypeOK /\ MutexSound /\ PlacesSound(t) /\ LevelsSound(t)
  BY DEF MInv
<1>2. OnlyOf(t)
  BY <1>1 DEF OnlyOf, TypeOK, UnlockNothing, CallsUnlock, UnlockReturns, LeavesScope
<1>3. TypeOK'
  BY <1>1 DEF TypeOK, MutexSound, PlacesSound, Scopes, Pc, InLock, InUnlock, InWait, UnlockNothing, CallsUnlock, UnlockReturns, LeavesScope
<1>4. MutexSound'
  BY <1>1 DEF TypeOK, MutexSound, UnlockNothing, CallsUnlock, UnlockReturns, LeavesScope
<1>5. PlacesSound(t)'
  BY <1>1 DEF TypeOK, PlacesSound, Scopes, InLock, InUnlock, InWait, UnlockNothing, CallsUnlock, UnlockReturns, LeavesScope
<1>6. LevelsSound(t)'
  BY <1>1 DEF TypeOK, PlacesSound, LevelsSound, Own, NotNegative, MutexSound, Scopes, InLock, InUnlock, InWait, UnlockNothing, CallsUnlock, UnlockReturns, LeavesScope
<1>7. ASSUME expired' = 0
      PROVE  /\ expired = 0
             /\ owner' = NoThread => recursionCount' = 0
             /\ Exact(t)'
             /\ \/ owner \in {NoThread, t} /\ owner' \in {NoThread, t}
                \/ UNCHANGED <<owner, depth, lockThread, recursionCount>>
  <2>1. expired = 0 /\ Exact(t) /\ (owner = NoThread => recursionCount = 0)
    BY <1>1, <1>7 DEF TypeOK, BooksExact, UnlockNothing, CallsUnlock, UnlockReturns, LeavesScope
  <2>2. /\ owner' = NoThread => recursionCount' = 0
        /\ \/ owner \in {NoThread, t} /\ owner' \in {NoThread, t}
           \/ UNCHANGED <<owner, depth, lockThread, recursionCount>>
    BY <1>1, <2>1 DEF TypeOK, MutexSound, PlacesSound, LevelsSound, Exact, LoopsExact, Held, InLock, InUnlock, InWait, UnlockNothing, CallsUnlock, UnlockReturns, LeavesScope
  <2>3. Exact(t)'
    BY <1>1, <2>1 DEF TypeOK, MutexSound, PlacesSound, LevelsSound, Scopes, Exact, LoopsExact, Held, InLock, InUnlock, InWait, UnlockNothing, CallsUnlock, UnlockReturns, LeavesScope
  <2> QED
    BY <2>1, <2>2, <2>3
<1> QED
  BY <1>2, <1>3, <1>4, <1>5, <1>6, <1>7, OneThread, OneThreadBooks

\* unlock() begins.
LEMMA UnlockKeeps ==
  ASSUME MInv, BooksExact, NEW t \in Thr, Unlock(t)
  PROVE  MInv' /\ BooksExact'
<1> USE NoThreadAssumption, BoundsAssumption DEF mutex, books, signal, scopes, Goes
<1>1. TypeOK /\ MutexSound /\ PlacesSound(t) /\ LevelsSound(t)
  BY DEF MInv
<1>2. OnlyOf(t)
  BY <1>1 DEF OnlyOf, TypeOK, Unlock, CallsUnlock
<1>3. TypeOK'
  BY <1>1 DEF TypeOK, MutexSound, PlacesSound, Scopes, Pc, InLock, InUnlock, InWait, Unlock, CallsUnlock
<1>4. MutexSound'
  BY <1>1 DEF TypeOK, MutexSound, Unlock, CallsUnlock
<1>5. PlacesSound(t)'
  BY <1>1 DEF TypeOK, PlacesSound, Scopes, InLock, InUnlock, InWait, Unlock, CallsUnlock
<1>6. LevelsSound(t)'
  BY <1>1 DEF TypeOK, PlacesSound, LevelsSound, Own, NotNegative, MutexSound, Scopes, InLock, InUnlock, InWait, Unlock, CallsUnlock
<1>7. ASSUME expired' = 0
      PROVE  /\ expired = 0
             /\ owner' = NoThread => recursionCount' = 0
             /\ Exact(t)'
             /\ \/ owner \in {NoThread, t} /\ owner' \in {NoThread, t}
                \/ UNCHANGED <<owner, depth, lockThread, recursionCount>>
  <2>1. expired = 0 /\ Exact(t) /\ (owner = NoThread => recursionCount = 0)
    BY <1>1, <1>7 DEF TypeOK, BooksExact, Unlock, CallsUnlock
  <2>2. /\ owner' = NoThread => recursionCount' = 0
        /\ \/ owner \in {NoThread, t} /\ owner' \in {NoThread, t}
           \/ UNCHANGED <<owner, depth, lockThread, recursionCount>>
    BY <1>1, <2>1 DEF TypeOK, MutexSound, PlacesSound, LevelsSound, Exact, LoopsExact, Held, InLock, InUnlock, InWait, Unlock, CallsUnlock
  <2>3. Exact(t)'
    BY <1>1, <2>1 DEF TypeOK, MutexSound, PlacesSound, LevelsSound, Scopes, Exact, LoopsExact, Held, InLock, InUnlock, InWait, Unlock, CallsUnlock
  <2> QED
    BY <2>1, <2>2, <2>3
<1> QED
  BY <1>2, <1>3, <1>4, <1>5, <1>6, <1>7, OneThread, OneThreadBooks

\* The count is stored.
LEMMA SubtractOneKeeps ==
  ASSUME MInv, BooksExact, NEW t \in Thr, SubtractOne(t)
  PROVE  MInv' /\ BooksExact'
<1> USE NoThreadAssumption, BoundsAssumption DEF mutex, books, signal, scopes, Goes
<1>1. TypeOK /\ MutexSound /\ PlacesSound(t) /\ LevelsSound(t)
  BY DEF MInv
<1>2. OnlyOf(t)
  BY <1>1 DEF OnlyOf, TypeOK, SubtractOne
<1>3. TypeOK'
  BY <1>1 DEF TypeOK, MutexSound, PlacesSound, Scopes, Pc, InLock, InUnlock, InWait, SubtractOne
<1>4. MutexSound'
  BY <1>1 DEF TypeOK, MutexSound, SubtractOne
<1>5. PlacesSound(t)'
  BY <1>1 DEF TypeOK, PlacesSound, Scopes, InLock, InUnlock, InWait, SubtractOne
<1>6. LevelsSound(t)'
  BY <1>1 DEF TypeOK, PlacesSound, LevelsSound, Own, NotNegative, MutexSound, Scopes, InLock, InUnlock, InWait, SubtractOne
<1>7. ASSUME expired' = 0
      PROVE  /\ expired = 0
             /\ owner' = NoThread => recursionCount' = 0
             /\ Exact(t)'
             /\ \/ owner \in {NoThread, t} /\ owner' \in {NoThread, t}
                \/ UNCHANGED <<owner, depth, lockThread, recursionCount>>
  <2>1. expired = 0 /\ Exact(t) /\ (owner = NoThread => recursionCount = 0)
    BY <1>1, <1>7 DEF TypeOK, BooksExact, SubtractOne
  <2>2. /\ owner' = NoThread => recursionCount' = 0
        /\ \/ owner \in {NoThread, t} /\ owner' \in {NoThread, t}
           \/ UNCHANGED <<owner, depth, lockThread, recursionCount>>
    BY <1>1, <2>1 DEF TypeOK, MutexSound, PlacesSound, LevelsSound, Exact, LoopsExact, Held, InLock, InUnlock, InWait, SubtractOne
  <2>3. Exact(t)'
    BY <1>1, <2>1 DEF TypeOK, MutexSound, PlacesSound, LevelsSound, Scopes, Exact, LoopsExact, Held, InLock, InUnlock, InWait, SubtractOne
  <2> QED
    BY <2>1, <2>2, <2>3
<1> QED
  BY <1>2, <1>3, <1>4, <1>5, <1>6, <1>7, OneThread, OneThreadBooks

\* The owner is forgotten with the last level.
LEMMA TestResultKeeps ==
  ASSUME MInv, BooksExact, NEW t \in Thr, TestResult(t)
  PROVE  MInv' /\ BooksExact'
<1> USE NoThreadAssumption, BoundsAssumption DEF mutex, books, signal, scopes, Goes
<1>1. TypeOK /\ MutexSound /\ PlacesSound(t) /\ LevelsSound(t)
  BY DEF MInv
<1>2. OnlyOf(t)
  BY <1>1 DEF OnlyOf, TypeOK, TestResult
<1>3. TypeOK'
  BY <1>1 DEF TypeOK, MutexSound, PlacesSound, Scopes, Pc, InLock, InUnlock, InWait, TestResult
<1>4. MutexSound'
  BY <1>1 DEF TypeOK, MutexSound, TestResult
<1>5. PlacesSound(t)'
  BY <1>1 DEF TypeOK, PlacesSound, Scopes, InLock, InUnlock, InWait, TestResult
<1>6. LevelsSound(t)'
  BY <1>1 DEF TypeOK, PlacesSound, LevelsSound, Own, NotNegative, MutexSound, Scopes, InLock, InUnlock, InWait, TestResult
<1>7. ASSUME expired' = 0
      PROVE  /\ expired = 0
             /\ owner' = NoThread => recursionCount' = 0
             /\ Exact(t)'
             /\ \/ owner \in {NoThread, t} /\ owner' \in {NoThread, t}
                \/ UNCHANGED <<owner, depth, lockThread, recursionCount>>
  <2>1. expired = 0 /\ Exact(t) /\ (owner = NoThread => recursionCount = 0)
    BY <1>1, <1>7 DEF TypeOK, BooksExact, TestResult
  <2>2. /\ owner' = NoThread => recursionCount' = 0
        /\ \/ owner \in {NoThread, t} /\ owner' \in {NoThread, t}
           \/ UNCHANGED <<owner, depth, lockThread, recursionCount>>
    BY <1>1, <2>1 DEF TypeOK, MutexSound, PlacesSound, LevelsSound, Exact, LoopsExact, Held, InLock, InUnlock, InWait, TestResult
  <2>3. Exact(t)'
    BY <1>1, <2>1 DEF TypeOK, MutexSound, PlacesSound, LevelsSound, Scopes, Exact, LoopsExact, Held, InLock, InUnlock, InWait, TestResult
  <2> QED
    BY <2>1, <2>2, <2>3
<1> QED
  BY <1>2, <1>3, <1>4, <1>5, <1>6, <1>7, OneThread, OneThreadBooks

\* The mutex follows the books.
LEMMA UnlockMutexKeeps ==
  ASSUME MInv, BooksExact, NEW t \in Thr, UnlockMutex(t)
  PROVE  MInv' /\ BooksExact'
<1> USE NoThreadAssumption, BoundsAssumption DEF mutex, books, signal, scopes, Goes
<1>1. TypeOK /\ MutexSound /\ PlacesSound(t) /\ LevelsSound(t)
  BY DEF MInv
<1>2. OnlyOf(t)
  BY <1>1 DEF OnlyOf, TypeOK, UnlockMutex, Release, UnlockReturns, LeavesScope
<1>3. TypeOK'
  BY <1>1 DEF TypeOK, MutexSound, PlacesSound, Scopes, Pc, InLock, InUnlock, InWait, UnlockMutex, Release, UnlockReturns, LeavesScope
<1>4. MutexSound'
  BY <1>1 DEF TypeOK, MutexSound, UnlockMutex, Release, UnlockReturns, LeavesScope
<1>5. PlacesSound(t)'
  BY <1>1 DEF TypeOK, PlacesSound, Scopes, InLock, InUnlock, InWait, UnlockMutex, Release, UnlockReturns, LeavesScope
<1>6. LevelsSound(t)'
  BY <1>1 DEF TypeOK, PlacesSound, LevelsSound, Own, NotNegative, MutexSound, Scopes, InLock, InUnlock, InWait, UnlockMutex, Release, UnlockReturns, LeavesScope
<1>7. ASSUME expired' = 0
      PROVE  /\ expired = 0
             /\ owner' = NoThread => recursionCount' = 0
             /\ Exact(t)'
             /\ \/ owner \in {NoThread, t} /\ owner' \in {NoThread, t}
                \/ UNCHANGED <<owner, depth, lockThread, recursionCount>>
  <2>1. expired = 0 /\ Exact(t) /\ (owner = NoThread => recursionCount = 0)
    BY <1>1, <1>7 DEF TypeOK, BooksExact, UnlockMutex, Release, UnlockReturns, LeavesScope
  <2>2. /\ owner' = NoThread => recursionCount' = 0
        /\ \/ owner \in {NoThread, t} /\ owner' \in {NoThread, t}
           \/ UNCHANGED <<owner, depth, lockThread, recursionCount>>
    BY <1>1, <2>1 DEF TypeOK, MutexSound, PlacesSound, LevelsSound, Exact, LoopsExact, Held, InLock, InUnlock, InWait, UnlockMutex, Release, UnlockReturns, LeavesScope
  <2>3. Exact(t)'
    BY <1>1, <2>1 DEF TypeOK, MutexSound, PlacesSound, LevelsSound, Scopes, Exact, LoopsExact, Held, InLock, InUnlock, InWait, UnlockMutex, Release, UnlockReturns, LeavesScope
  <2> QED
    BY <2>1, <2>2, <2>3
<1> QED
  BY <1>2, <1>3, <1>4, <1>5, <1>6, <1>7, OneThread, OneThreadBooks

\* wait() reads how many levels there are.
LEMMA WaitUnlocksKeeps ==
  ASSUME MInv, BooksExact, NEW t \in Thr, WaitUnlocks(t)
  PROVE  MInv' /\ BooksExact'
<1> USE NoThreadAssumption, BoundsAssumption DEF mutex, books, signal, scopes, Goes
<1>1. TypeOK /\ MutexSound /\ PlacesSound(t) /\ LevelsSound(t)
  BY DEF MInv
<1>2. OnlyOf(t)
  BY <1>1 DEF OnlyOf, TypeOK, WaitUnlocks
<1>3. TypeOK'
  BY <1>1 DEF TypeOK, MutexSound, PlacesSound, Scopes, Pc, InLock, InUnlock, InWait, WaitUnlocks
<1>4. MutexSound'
  BY <1>1 DEF TypeOK, MutexSound, WaitUnlocks
<1>5. PlacesSound(t)'
  BY <1>1 DEF TypeOK, PlacesSound, Scopes, InLock, InUnlock, InWait, WaitUnlocks
<1>6. LevelsSound(t)'
  BY <1>1 DEF TypeOK, PlacesSound, LevelsSound, Own, NotNegative, MutexSound, Scopes, InLock, InUnlock, InWait, WaitUnlocks
<1>7. ASSUME expired' = 0
      PROVE  /\ expired = 0
             /\ owner' = NoThread => recursionCount' = 0
             /\ Exact(t)'
             /\ \/ owner \in {NoThread, t} /\ owner' \in {NoThread, t}
                \/ UNCHANGED <<owner, depth, lockThread, recursionCount>>
  <2>1. expired = 0 /\ Exact(t) /\ (owner = NoThread => recursionCount = 0)
    BY <1>1, <1>7 DEF TypeOK, BooksExact, WaitUnlocks
  <2>2. /\ owner' = NoThread => recursionCount' = 0
        /\ \/ owner \in {NoThread, t} /\ owner' \in {NoThread, t}
           \/ UNCHANGED <<owner, depth, lockThread, recursionCount>>
    BY <1>1, <2>1 DEF TypeOK, MutexSound, PlacesSound, LevelsSound, Exact, LoopsExact, Held, InLock, InUnlock, InWait, WaitUnlocks
  <2>3. Exact(t)'
    BY <1>1, <2>1 DEF TypeOK, MutexSound, PlacesSound, LevelsSound, Scopes, Exact, LoopsExact, Held, InLock, InUnlock, InWait, WaitUnlocks
  <2> QED
    BY <2>1, <2>2, <2>3
<1> QED
  BY <1>2, <1>3, <1>4, <1>5, <1>6, <1>7, OneThread, OneThreadBooks

\* All of them are released.
LEMMA UnlockedAllKeeps ==
  ASSUME MInv, BooksExact, NEW t \in Thr, UnlockedAll(t)
  PROVE  MInv' /\ BooksExact'
<1> USE NoThreadAssumption, BoundsAssumption DEF mutex, books, signal, scopes, Goes
<1>1. TypeOK /\ MutexSound /\ PlacesSound(t) /\ LevelsSound(t)
  BY DEF MInv
<1>2. OnlyOf(t)
  BY <1>1 DEF OnlyOf, TypeOK, UnlockedAll
<1>3. TypeOK'
  BY <1>1 DEF TypeOK, MutexSound, PlacesSound, Scopes, Pc, InLock, InUnlock, InWait, UnlockedAll
<1>4. MutexSound'
  BY <1>1 DEF TypeOK, MutexSound, UnlockedAll
<1>5. PlacesSound(t)'
  BY <1>1 DEF TypeOK, PlacesSound, Scopes, InLock, InUnlock, InWait, UnlockedAll
<1>6. LevelsSound(t)'
  BY <1>1 DEF TypeOK, PlacesSound, LevelsSound, Own, NotNegative, MutexSound, Scopes, InLock, InUnlock, InWait, UnlockedAll
<1>7. ASSUME expired' = 0
      PROVE  /\ expired = 0
             /\ owner' = NoThread => recursionCount' = 0
             /\ Exact(t)'
             /\ \/ owner \in {NoThread, t} /\ owner' \in {NoThread, t}
                \/ UNCHANGED <<owner, depth, lockThread, recursionCount>>
  <2>1. expired = 0 /\ Exact(t) /\ (owner = NoThread => recursionCount = 0)
    BY <1>1, <1>7 DEF TypeOK, BooksExact, UnlockedAll
  <2>2. /\ owner' = NoThread => recursionCount' = 0
        /\ \/ owner \in {NoThread, t} /\ owner' \in {NoThread, t}
           \/ UNCHANGED <<owner, depth, lockThread, recursionCount>>
    BY <1>1, <2>1 DEF TypeOK, MutexSound, PlacesSound, LevelsSound, Exact, LoopsExact, Held, InLock, InUnlock, InWait, UnlockedAll
  <2>3. Exact(t)'
    BY <1>1, <2>1 DEF TypeOK, MutexSound, PlacesSound, LevelsSound, Scopes, Exact, LoopsExact, Held, InLock, InUnlock, InWait, UnlockedAll
  <2> QED
    BY <2>1, <2>2, <2>3
<1> QED
  BY <1>2, <1>3, <1>4, <1>5, <1>6, <1>7, OneThread, OneThreadBooks

\* wait() is on the condition variable.
LEMMA ParkKeeps ==
  ASSUME MInv, BooksExact, NEW t \in Thr, Park(t)
  PROVE  MInv' /\ BooksExact'
<1> USE NoThreadAssumption, BoundsAssumption DEF mutex, books, signal, scopes, Goes
<1>1. TypeOK /\ MutexSound /\ PlacesSound(t) /\ LevelsSound(t)
  BY DEF MInv
<1>2. OnlyOf(t)
  BY <1>1 DEF OnlyOf, TypeOK, Park
<1>3. TypeOK'
  BY <1>1 DEF TypeOK, MutexSound, PlacesSound, Scopes, Pc, InLock, InUnlock, InWait, Park
<1>4. MutexSound'
  BY <1>1 DEF TypeOK, MutexSound, Park
<1>5. PlacesSound(t)'
  BY <1>1 DEF TypeOK, PlacesSound, Scopes, InLock, InUnlock, InWait, Park
<1>6. LevelsSound(t)'
  BY <1>1 DEF TypeOK, PlacesSound, LevelsSound, Own, NotNegative, MutexSound, Scopes, InLock, InUnlock, InWait, Park
<1>7. ASSUME expired' = 0
      PROVE  /\ expired = 0
             /\ owner' = NoThread => recursionCount' = 0
             /\ Exact(t)'
             /\ \/ owner \in {NoThread, t} /\ owner' \in {NoThread, t}
                \/ UNCHANGED <<owner, depth, lockThread, recursionCount>>
  <2>1. expired = 0 /\ Exact(t) /\ (owner = NoThread => recursionCount = 0)
    BY <1>1, <1>7 DEF TypeOK, BooksExact, Park
  <2>2. /\ owner' = NoThread => recursionCount' = 0
        /\ \/ owner \in {NoThread, t} /\ owner' \in {NoThread, t}
           \/ UNCHANGED <<owner, depth, lockThread, recursionCount>>
    BY <1>1, <2>1 DEF TypeOK, MutexSound, PlacesSound, LevelsSound, Exact, LoopsExact, Held, InLock, InUnlock, InWait, Park
  <2>3. Exact(t)'
    BY <1>1, <2>1 DEF TypeOK, MutexSound, PlacesSound, LevelsSound, Scopes, Exact, LoopsExact, Held, InLock, InUnlock, InWait, Park
  <2> QED
    BY <2>1, <2>2, <2>3
<1> QED
  BY <1>2, <1>3, <1>4, <1>5, <1>6, <1>7, OneThread, OneThreadBooks

\* Its time is over.
LEMMA TimesOutKeeps ==
  ASSUME MInv, BooksExact, NEW t \in Thr, TimesOut(t)
  PROVE  MInv' /\ BooksExact'
<1> USE NoThreadAssumption, BoundsAssumption DEF mutex, books, signal, scopes, Goes
<1>1. TypeOK /\ MutexSound /\ PlacesSound(t) /\ LevelsSound(t)
  BY DEF MInv
<1>2. OnlyOf(t)
  BY <1>1 DEF OnlyOf, TypeOK, TimesOut
<1>3. TypeOK'
  BY <1>1 DEF TypeOK, MutexSound, PlacesSound, Scopes, Pc, InLock, InUnlock, InWait, TimesOut
<1>4. MutexSound'
  BY <1>1 DEF TypeOK, MutexSound, TimesOut
<1>5. PlacesSound(t)'
  BY <1>1 DEF TypeOK, PlacesSound, Scopes, InLock, InUnlock, InWait, TimesOut
<1>6. LevelsSound(t)'
  BY <1>1 DEF TypeOK, PlacesSound, LevelsSound, Own, NotNegative, MutexSound, Scopes, InLock, InUnlock, InWait, TimesOut
<1>7. ASSUME expired' = 0
      PROVE  /\ expired = 0
             /\ owner' = NoThread => recursionCount' = 0
             /\ Exact(t)'
             /\ \/ owner \in {NoThread, t} /\ owner' \in {NoThread, t}
                \/ UNCHANGED <<owner, depth, lockThread, recursionCount>>
  <2>1. expired = 0 /\ Exact(t) /\ (owner = NoThread => recursionCount = 0)
    BY <1>1, <1>7 DEF TypeOK, BooksExact, TimesOut
  <2>2. /\ owner' = NoThread => recursionCount' = 0
        /\ \/ owner \in {NoThread, t} /\ owner' \in {NoThread, t}
           \/ UNCHANGED <<owner, depth, lockThread, recursionCount>>
    BY <1>1, <2>1 DEF TypeOK, MutexSound, PlacesSound, LevelsSound, Exact, LoopsExact, Held, InLock, InUnlock, InWait, TimesOut
  <2>3. Exact(t)'
    BY <1>1, <2>1 DEF TypeOK, MutexSound, PlacesSound, LevelsSound, Scopes, Exact, LoopsExact, Held, InLock, InUnlock, InWait, TimesOut
  <2> QED
    BY <2>1, <2>2, <2>3
<1> QED
  BY <1>2, <1>3, <1>4, <1>5, <1>6, <1>7, OneThread, OneThreadBooks

\* It is woken by nobody.
LEMMA SpuriousWakeUpKeeps ==
  ASSUME MInv, BooksExact, NEW t \in Thr, SpuriousWakeUp(t)
  PROVE  MInv' /\ BooksExact'
<1> USE NoThreadAssumption, BoundsAssumption DEF mutex, books, signal, scopes, Goes
<1>1. TypeOK /\ MutexSound /\ PlacesSound(t) /\ LevelsSound(t)
  BY DEF MInv
<1>2. OnlyOf(t)
  BY <1>1 DEF OnlyOf, TypeOK, SpuriousWakeUp
<1>3. TypeOK'
  BY <1>1 DEF TypeOK, MutexSound, PlacesSound, Scopes, Pc, InLock, InUnlock, InWait, SpuriousWakeUp
<1>4. MutexSound'
  BY <1>1 DEF TypeOK, MutexSound, SpuriousWakeUp
<1>5. PlacesSound(t)'
  BY <1>1 DEF TypeOK, PlacesSound, Scopes, InLock, InUnlock, InWait, SpuriousWakeUp
<1>6. LevelsSound(t)'
  BY <1>1 DEF TypeOK, PlacesSound, LevelsSound, Own, NotNegative, MutexSound, Scopes, InLock, InUnlock, InWait, SpuriousWakeUp
<1>7. ASSUME expired' = 0
      PROVE  /\ expired = 0
             /\ owner' = NoThread => recursionCount' = 0
             /\ Exact(t)'
             /\ \/ owner \in {NoThread, t} /\ owner' \in {NoThread, t}
                \/ UNCHANGED <<owner, depth, lockThread, recursionCount>>
  <2>1. expired = 0 /\ Exact(t) /\ (owner = NoThread => recursionCount = 0)
    BY <1>1, <1>7 DEF TypeOK, BooksExact, SpuriousWakeUp
  <2>2. /\ owner' = NoThread => recursionCount' = 0
        /\ \/ owner \in {NoThread, t} /\ owner' \in {NoThread, t}
           \/ UNCHANGED <<owner, depth, lockThread, recursionCount>>
    BY <1>1, <2>1 DEF TypeOK, MutexSound, PlacesSound, LevelsSound, Exact, LoopsExact, Held, InLock, InUnlock, InWait, SpuriousWakeUp
  <2>3. Exact(t)'
    BY <1>1, <2>1 DEF TypeOK, MutexSound, PlacesSound, LevelsSound, Scopes, Exact, LoopsExact, Held, InLock, InUnlock, InWait, SpuriousWakeUp
  <2> QED
    BY <2>1, <2>2, <2>3
<1> QED
  BY <1>2, <1>3, <1>4, <1>5, <1>6, <1>7, OneThread, OneThreadBooks

\* It goes on waiting.
LEMMA WaitAgainKeeps ==
  ASSUME MInv, BooksExact, NEW t \in Thr, WaitAgain(t)
  PROVE  MInv' /\ BooksExact'
<1> USE NoThreadAssumption, BoundsAssumption DEF mutex, books, signal, scopes, Goes
<1>1. TypeOK /\ MutexSound /\ PlacesSound(t) /\ LevelsSound(t)
  BY DEF MInv
<1>2. OnlyOf(t)
  BY <1>1 DEF OnlyOf, TypeOK, WaitAgain
<1>3. TypeOK'
  BY <1>1 DEF TypeOK, MutexSound, PlacesSound, Scopes, Pc, InLock, InUnlock, InWait, WaitAgain
<1>4. MutexSound'
  BY <1>1 DEF TypeOK, MutexSound, WaitAgain
<1>5. PlacesSound(t)'
  BY <1>1 DEF TypeOK, PlacesSound, Scopes, InLock, InUnlock, InWait, WaitAgain
<1>6. LevelsSound(t)'
  BY <1>1 DEF TypeOK, PlacesSound, LevelsSound, Own, NotNegative, MutexSound, Scopes, InLock, InUnlock, InWait, WaitAgain
<1>7. ASSUME expired' = 0
      PROVE  /\ expired = 0
             /\ owner' = NoThread => recursionCount' = 0
             /\ Exact(t)'
             /\ \/ owner \in {NoThread, t} /\ owner' \in {NoThread, t}
                \/ UNCHANGED <<owner, depth, lockThread, recursionCount>>
  <2>1. expired = 0 /\ Exact(t) /\ (owner = NoThread => recursionCount = 0)
    BY <1>1, <1>7 DEF TypeOK, BooksExact, WaitAgain
  <2>2. /\ owner' = NoThread => recursionCount' = 0
        /\ \/ owner \in {NoThread, t} /\ owner' \in {NoThread, t}
           \/ UNCHANGED <<owner, depth, lockThread, recursionCount>>
    BY <1>1, <2>1 DEF TypeOK, MutexSound, PlacesSound, LevelsSound, Exact, LoopsExact, Held, InLock, InUnlock, InWait, WaitAgain
  <2>3. Exact(t)'
    BY <1>1, <2>1 DEF TypeOK, MutexSound, PlacesSound, LevelsSound, Scopes, Exact, LoopsExact, Held, InLock, InUnlock, InWait, WaitAgain
  <2> QED
    BY <2>1, <2>2, <2>3
<1> QED
  BY <1>2, <1>3, <1>4, <1>5, <1>6, <1>7, OneThread, OneThreadBooks

\* It has m_waitMutex, and wants the lock back.
LEMMA LeaveLoopKeeps ==
  ASSUME MInv, BooksExact, NEW t \in Thr, LeaveLoop(t)
  PROVE  MInv' /\ BooksExact'
<1> USE NoThreadAssumption, BoundsAssumption DEF mutex, books, signal, scopes, Goes
<1>1. TypeOK /\ MutexSound /\ PlacesSound(t) /\ LevelsSound(t)
  BY DEF MInv
<1>2. OnlyOf(t)
  BY <1>1 DEF OnlyOf, TypeOK, LeaveLoop
<1>3. TypeOK'
  BY <1>1 DEF TypeOK, MutexSound, PlacesSound, Scopes, Pc, InLock, InUnlock, InWait, LeaveLoop
<1>4. MutexSound'
  BY <1>1 DEF TypeOK, MutexSound, LeaveLoop
<1>5. PlacesSound(t)'
  BY <1>1 DEF TypeOK, PlacesSound, Scopes, InLock, InUnlock, InWait, LeaveLoop
<1>6. LevelsSound(t)'
  BY <1>1 DEF TypeOK, PlacesSound, LevelsSound, Own, NotNegative, MutexSound, Scopes, InLock, InUnlock, InWait, LeaveLoop
<1>7. ASSUME expired' = 0
      PROVE  /\ expired = 0
             /\ owner' = NoThread => recursionCount' = 0
             /\ Exact(t)'
             /\ \/ owner \in {NoThread, t} /\ owner' \in {NoThread, t}
                \/ UNCHANGED <<owner, depth, lockThread, recursionCount>>
  <2>1. expired = 0 /\ Exact(t) /\ (owner = NoThread => recursionCount = 0)
    BY <1>1, <1>7 DEF TypeOK, BooksExact, LeaveLoop
  <2>2. /\ owner' = NoThread => recursionCount' = 0
        /\ \/ owner \in {NoThread, t} /\ owner' \in {NoThread, t}
           \/ UNCHANGED <<owner, depth, lockThread, recursionCount>>
    BY <1>1, <2>1 DEF TypeOK, MutexSound, PlacesSound, LevelsSound, Exact, LoopsExact, Held, InLock, InUnlock, InWait, LeaveLoop
  <2>3. Exact(t)'
    BY <1>1, <2>1 DEF TypeOK, MutexSound, PlacesSound, LevelsSound, Scopes, Exact, LoopsExact, Held, InLock, InUnlock, InWait, LeaveLoop
  <2> QED
    BY <2>1, <2>2, <2>3
<1> QED
  BY <1>2, <1>3, <1>4, <1>5, <1>6, <1>7, OneThread, OneThreadBooks

\* It has a level again.
LEMMA RelockKeeps ==
  ASSUME MInv, BooksExact, NEW t \in Thr, Relock(t)
  PROVE  MInv' /\ BooksExact'
<1> USE NoThreadAssumption, BoundsAssumption DEF mutex, books, signal, scopes, Goes
<1>1. TypeOK /\ MutexSound /\ PlacesSound(t) /\ LevelsSound(t)
  BY DEF MInv
<1>2. OnlyOf(t)
  BY <1>1 DEF OnlyOf, TypeOK, Relock, Acquire
<1>3. TypeOK'
  BY <1>1 DEF TypeOK, MutexSound, PlacesSound, Scopes, Pc, InLock, InUnlock, InWait, Relock, Acquire
<1>4. MutexSound'
  BY <1>1 DEF TypeOK, MutexSound, Relock, Acquire
<1>5. PlacesSound(t)'
  BY <1>1 DEF TypeOK, PlacesSound, Scopes, InLock, InUnlock, InWait, Relock, Acquire
<1>6. LevelsSound(t)'
  BY <1>1 DEF TypeOK, PlacesSound, LevelsSound, Own, NotNegative, MutexSound, Scopes, InLock, InUnlock, InWait, Relock, Acquire
<1>7. ASSUME expired' = 0
      PROVE  /\ expired = 0
             /\ owner' = NoThread => recursionCount' = 0
             /\ Exact(t)'
             /\ \/ owner \in {NoThread, t} /\ owner' \in {NoThread, t}
                \/ UNCHANGED <<owner, depth, lockThread, recursionCount>>
  <2>1. expired = 0 /\ Exact(t) /\ (owner = NoThread => recursionCount = 0)
    BY <1>1, <1>7 DEF TypeOK, BooksExact, Relock, Acquire
  <2>2. /\ owner' = NoThread => recursionCount' = 0
        /\ \/ owner \in {NoThread, t} /\ owner' \in {NoThread, t}
           \/ UNCHANGED <<owner, depth, lockThread, recursionCount>>
    BY <1>1, <2>1 DEF TypeOK, MutexSound, PlacesSound, LevelsSound, Exact, LoopsExact, Held, InLock, InUnlock, InWait, Relock, Acquire
  <2>3. Exact(t)'
    BY <1>1, <2>1 DEF TypeOK, MutexSound, PlacesSound, LevelsSound, Scopes, Exact, LoopsExact, Held, InLock, InUnlock, InWait, Relock, Acquire
  <2> QED
    BY <2>1, <2>2, <2>3
<1> QED
  BY <1>2, <1>3, <1>4, <1>5, <1>6, <1>7, OneThread, OneThreadBooks

\* It has all of them, and gives m_waitMutex back.
LEMMA WaitReturnsKeeps ==
  ASSUME MInv, BooksExact, NEW t \in Thr, WaitReturns(t)
  PROVE  MInv' /\ BooksExact'
<1> USE NoThreadAssumption, BoundsAssumption DEF mutex, books, signal, scopes, Goes
<1>1. TypeOK /\ MutexSound /\ PlacesSound(t) /\ LevelsSound(t)
  BY DEF MInv
<1>2. OnlyOf(t)
  BY <1>1 DEF OnlyOf, TypeOK, WaitReturns
<1>3. TypeOK'
  BY <1>1 DEF TypeOK, MutexSound, PlacesSound, Scopes, Pc, InLock, InUnlock, InWait, WaitReturns
<1>4. MutexSound'
  BY <1>1 DEF TypeOK, MutexSound, WaitReturns
<1>5. PlacesSound(t)'
  BY <1>1 DEF TypeOK, PlacesSound, Scopes, InLock, InUnlock, InWait, WaitReturns
<1>6. LevelsSound(t)'
  BY <1>1 DEF TypeOK, PlacesSound, LevelsSound, Own, NotNegative, MutexSound, Scopes, InLock, InUnlock, InWait, WaitReturns
<1>7. ASSUME expired' = 0
      PROVE  /\ expired = 0
             /\ owner' = NoThread => recursionCount' = 0
             /\ Exact(t)'
             /\ \/ owner \in {NoThread, t} /\ owner' \in {NoThread, t}
                \/ UNCHANGED <<owner, depth, lockThread, recursionCount>>
  <2>1. expired = 0 /\ Exact(t) /\ (owner = NoThread => recursionCount = 0)
    BY <1>1, <1>7 DEF TypeOK, BooksExact, WaitReturns
  <2>2. /\ owner' = NoThread => recursionCount' = 0
        /\ \/ owner \in {NoThread, t} /\ owner' \in {NoThread, t}
           \/ UNCHANGED <<owner, depth, lockThread, recursionCount>>
    BY <1>1, <2>1 DEF TypeOK, MutexSound, PlacesSound, LevelsSound, Exact, LoopsExact, Held, InLock, InUnlock, InWait, WaitReturns
  <2>3. Exact(t)'
    BY <1>1, <2>1 DEF TypeOK, MutexSound, PlacesSound, LevelsSound, Scopes, Exact, LoopsExact, Held, InLock, InUnlock, InWait, WaitReturns
  <2> QED
    BY <2>1, <2>2, <2>3
<1> QED
  BY <1>2, <1>3, <1>4, <1>5, <1>6, <1>7, OneThread, OneThreadBooks

\* notify_all() moves the parked threads alone, and takes nothing.
LEMMA NotifyKeeps ==
  ASSUME MInv, BooksExact, NEW t \in Thr, notify_all(t)
  PROVE  MInv' /\ BooksExact'
<1> USE NoThreadAssumption DEF mutex, books, signal, scopes
<1>1. TypeOK'
  BY DEF MInv, TypeOK, Pc, InWait, notify_all
<1>2. ASSUME NEW u \in Thr
      PROVE  /\ UNCHANGED <<owner, depth, lockThread, recursionCount, waitOwner, waits[u],
                            relockCount[u], left[u], locked[u], lapsed[u], register[u], expired>>
             /\ (pc'[u] = pc[u] \/ (pc[u] = "parked" /\ pc'[u] = "woken"))
  BY DEF notify_all
<1>3. ASSUME NEW u \in Thr PROVE PlacesSound(u)' /\ LevelsSound(u)'
  BY <1>2 DEF MInv, PlacesSound, LevelsSound, Scopes, Own, InLock, InUnlock, InWait
<1>4. ASSUME NEW u \in Thr, expired = 0 PROVE Exact(u)'
  BY <1>2, <1>4 DEF BooksExact, Exact, LoopsExact, Held, InLock, InUnlock, InWait
<1> QED
  BY <1>1, <1>2, <1>3, <1>4 DEF MInv, MutexSound, BooksExact, notify_all

\* Every step keeps both.
LEMMA NextMInv ==
  ASSUME MInv, BooksExact, [Next]_vars
  PROVE  MInv' /\ BooksExact'
<1>1. CASE UNCHANGED vars
  <2>1. ASSUME NEW u \in Thr PROVE UNCHANGED <<PlacesSound(u), LevelsSound(u), Exact(u)>>
    BY <1>1 DEF vars, mutex, books, signal, scopes, PlacesSound, LevelsSound, Scopes, Own, Exact, LoopsExact, Held
  <2>2. UNCHANGED <<TypeOK, MutexSound>>
    BY <1>1 DEF vars, mutex, books, signal, scopes, TypeOK, MutexSound
  <2> QED
    BY <1>1, <2>1, <2>2 DEF MInv, BooksExact, vars, mutex, books
<1>2. ASSUME NEW t \in Thr, Step(t) PROVE MInv' /\ BooksExact'
  <2>1. CASE notify_all(t)
    BY <2>1, NotifyKeeps
  <2>2. CASE Lock(t)
    BY <2>2, LockKeeps
  <2>3. CASE LockTimesOut(t)
    BY <2>3, LockTimesOutKeeps
  <2>4. CASE NoteThread(t)
    BY <2>4, NoteThreadKeeps
  <2>5. CASE FetchCount(t)
    BY <2>5, FetchCountKeeps
  <2>6. CASE AddOne(t)
    BY <2>6, AddOneKeeps
  <2>7. CASE UnlockNothing(t)
    BY <2>7, UnlockNothingKeeps
  <2>8. CASE Unlock(t)
    BY <2>8, UnlockKeeps
  <2>9. CASE SubtractOne(t)
    BY <2>9, SubtractOneKeeps
  <2>10. CASE TestResult(t)
    BY <2>10, TestResultKeeps
  <2>11. CASE UnlockMutex(t)
    BY <2>11, UnlockMutexKeeps
  <2>12. CASE WaitUnlocks(t)
    BY <2>12, WaitUnlocksKeeps
  <2>13. CASE UnlockedAll(t)
    BY <2>13, UnlockedAllKeeps
  <2>14. CASE Park(t)
    BY <2>14, ParkKeeps
  <2>15. CASE TimesOut(t)
    BY <2>15, TimesOutKeeps
  <2>16. CASE SpuriousWakeUp(t)
    BY <2>16, SpuriousWakeUpKeeps
  <2>17. CASE WaitAgain(t)
    BY <2>17, WaitAgainKeeps
  <2>18. CASE LeaveLoop(t)
    BY <2>18, LeaveLoopKeeps
  <2>19. CASE Relock(t)
    BY <2>19, RelockKeeps
  <2>20. CASE WaitReturns(t)
    BY <2>20, WaitReturnsKeeps
  <2> QED
    BY <1>2, <2>1, <2>2, <2>3, <2>4, <2>5, <2>6, <2>7, <2>8, <2>9, <2>10, <2>11, <2>12, <2>13, <2>14, <2>15, <2>16, <2>17, <2>18, <2>19, <2>20 DEF Step, Proceed
<1> QED
  BY <1>1, <1>2 DEF Next

\* They hold in every state.
LEMMA MonitorInvariant == Spec => [](MInv /\ BooksExact)
BY InitMInv, NextMInv, PTL DEF Spec

\* HoldsLockExact: for any threads, scopes and bounds, as long as no lock() has
\* timed out, holds_lock() (synchronize.cpp:60-62), which takes no mutex, is
\* true in exactly the threads that are in a scope, and the books show how deep.
THEOREM HoldsLockIsExact == Spec => []HoldsLockExact
<1>1. MInv /\ BooksExact => HoldsLockExact
  <2> SUFFICES ASSUME MInv, BooksExact, expired = 0, NEW t \in Thr, pc[t] = "client"
               PROVE  /\ holds_lock(t) <=> locked[t] > 0
                      /\ locked[t] > 0 => owner = t /\ depth = locked[t] /\ recursionCount = locked[t]
    BY DEF HoldsLockExact
  <2>1. Held(t) = locked[t] /\ locked[t] \in Nat /\ Exact(t)
    BY DEF MInv, BooksExact, PlacesSound, TypeOK, Held
  <2>2. locked[t] > 0 => owner = t /\ depth = locked[t] /\ recursionCount = locked[t] /\ lockThread = t
    BY <2>1 DEF Exact, InLock, InUnlock
  <2>3. CASE locked[t] > 0
    BY <2>2, <2>3 DEF holds_lock
  <2>4. CASE locked[t] = 0
    <3>1. owner # t
      BY <2>1, <2>4 DEF Exact, InLock, InUnlock
    <3>2. ASSUME NEW u \in Thr, owner = u, recursionCount > 0 PROVE lockThread = u
      <4>1. Exact(u) /\ recursionCount \in Int /\ pc[u] \in Pc /\ locked[u] \in Nat /\ relockCount[u] \in Int
                /\ left[u] \in Int
        BY DEF BooksExact, MInv, TypeOK
      <4> QED
        BY <3>2, <4>1 DEF Exact, Held, LoopsExact, Pc, InLock, InUnlock, InWait
    <3>3. recursionCount > 0 => owner \in Thr
      BY DEF BooksExact, MInv, TypeOK
    <3>4. ~(lockThread = t /\ recursionCount > 0)
      BY <3>1, <3>2, <3>3
    <3> QED
      BY <2>4, <3>4 DEF holds_lock
  <2> QED
    BY <2>1, <2>3, <2>4
<1> QED
  BY <1>1, MonitorInvariant, PTL

\* WaitGivesUpTheLock: until a lock() times out, a thread that waits
\* (lucene_signal.cpp:24-39) has neither the lock nor m_waitMutex.
THEOREM WaitReleases == Spec => []WaitGivesUpTheLock
<1>1. MInv /\ BooksExact => WaitGivesUpTheLock
  <2> SUFFICES ASSUME MInv, BooksExact, expired = 0, NEW t \in Thr, pc[t] \in InWait
               PROVE  owner # t /\ waitOwner # t
    BY DEF WaitGivesUpTheLock
  <2>1. PlacesSound(t) /\ Exact(t)
    BY DEF MInv, BooksExact
  <2>2. Held(t) = 0
    BY <2>1 DEF PlacesSound, Held, InLock, InUnlock, InWait
  <2> QED
    BY <2>1, <2>2 DEF PlacesSound, Exact, InLock, InUnlock, InWait
<1> QED
  BY <1>1, MonitorInvariant, PTL

\* LockedScopesExclude: whatever the scopes whose lock() has timed out do to the
\* books (synchronize.cpp:40-48), a thread has the mutex in the scopes of its own
\* that have locked, as often as there are such scopes.
THEOREM LockedScopesAreExclusive == Spec => []LockedScopesExclude
<1>1. MInv => LockedScopesExclude
  <2> SUFFICES ASSUME MInv, NEW t \in Thr, pc[t] = "client", locked[t] > 0
               PROVE  owner = t /\ depth >= locked[t]
    BY DEF LockedScopesExclude
  <2>1. Own(t) >= locked[t] /\ locked[t] \in Nat
    BY DEF MInv, LevelsSound, TypeOK
  <2> QED
    BY <2>1 DEF Own
<1> QED
  BY <1>1, MonitorInvariant, PTL

=============================================================================
