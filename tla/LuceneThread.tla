----------------------------- MODULE LuceneThread -----------------------------
(***************************************************************************)
(* LuceneThread (src/util/lucene_thread.cpp): a std::thread with a         *)
(* m_running flag, and the stop() that MergeThread and UpdateThread give   *)
(* it (src/server/merge_thread.cpp, src/server/update_thread.cpp).         *)
(*                                                                         *)
(* Each thread object has one controller, the thread that calls start(),   *)
(* stop() and join() on it, and a body, the std::thread that executes      *)
(* run_thread().  set_running() and is_running() are atomic because they   *)
(* hold the object's lock; the `while (m_running)` test of the body does   *)
(* not, but reads one byte that the compiler has to reload, so it is       *)
(* atomic as well.                                                         *)
(***************************************************************************)
CONSTANT Threads        \* the thread objects

VARIABLES
  running,              \* m_running
  handle,               \* m_thread: what the std::thread it points to is
  body,                 \* where the std::thread executes in run_thread()
  ctl                   \* where the controller is in start(), stop(), join()

tvars == <<running, handle, body, ctl>>

\* "terminated": a joinable std::thread was destroyed, std::terminate() ran.
Handle == {"null", "joinable", "joined", "terminated"}

\* "test" evaluates the loop condition, "work" executes the loop's body,
\* "leaving" has left run() and not yet cleared the flag.
Body == {"none", "test", "work", "leaving", "dead"}

\* "idle" is outside every call with no start() in effect, "started" is
\* outside every call after start() returned.
Ctl == {"idle", "starting", "spawned", "started", "stopping", "cleared", "waiting"}

ThreadTypeOK ==
  /\ running \in [Threads -> BOOLEAN]
  /\ handle \in [Threads -> Handle]
  /\ body \in [Threads -> Body]
  /\ ctl \in [Threads -> Ctl]

ThreadInit ==
  /\ running = [t \in Threads |-> FALSE]
  /\ handle = [t \in Threads |-> "null"]
  /\ body = [t \in Threads |-> "none"]
  /\ ctl = [t \in Threads |-> "idle"]

IsAlive(t) == handle[t] # "null" /\ running[t]

Terminated == \E t \in Threads : handle[t] = "terminated"

\* The controller moves from one of the places in `from` to `to`.
Control(t, from, to) ==
  /\ ~Terminated
  /\ ctl[t] \in from
  /\ ctl' = [ctl EXCEPT ![t] = to]

BodyMoves(t, from, to) ==
  /\ ~Terminated
  /\ body[t] = from
  /\ body' = [body EXCEPT ![t] = to]

-----------------------------------------------------------------------------
(* start() *)

Start(t) ==
  /\ Control(t, {"idle"}, "starting")
  /\ running' = [running EXCEPT ![t] = FALSE]
  /\ UNCHANGED <<handle, body>>

\* The assignment to m_thread destroys the std::thread it replaces.
Spawn(t) ==
  /\ Control(t, {"starting"}, "spawned")
  /\ handle' = [handle EXCEPT ![t] =
                  IF handle[t] = "joinable" THEN "terminated" ELSE "joinable"]
  /\ body' = [body EXCEPT ![t] = "test"]
  /\ UNCHANGED running

\* The constructor of std::thread throws: start() leaves by the exception.
SpawnFails(t) ==
  /\ Control(t, {"starting"}, "idle")
  /\ UNCHANGED <<running, handle, body>>

\* Mutant: start() leaves the flag down.
StartDone_NoFlag(t) ==
  /\ Control(t, {"spawned"}, "started")
  /\ UNCHANGED <<running, handle, body>>

StartDone(t) ==
  /\ Control(t, {"spawned"}, "started")
  /\ running' = [running EXCEPT ![t] = TRUE]
  /\ UNCHANGED <<handle, body>>

-----------------------------------------------------------------------------
(* run_thread(): run() is a loop on m_running, or leaves by an exception *)

\* Mutant: the compiler keeps m_running in a register.
Loop_CachedFlag(t) ==
  /\ \E flag \in {running[t], TRUE} :
       BodyMoves(t, "test", IF flag THEN "work" ELSE "leaving")
  /\ UNCHANGED <<running, handle, ctl>>

Loop(t) ==
  /\ BodyMoves(t, "test", IF running[t] THEN "work" ELSE "leaving")
  /\ UNCHANGED <<running, handle, ctl>>

Work(t) ==
  /\ BodyMoves(t, "work", "test")
  /\ UNCHANGED <<running, handle, ctl>>

Throw(t) ==
  /\ BodyMoves(t, "work", "leaving")
  /\ UNCHANGED <<running, handle, ctl>>

Leave(t) ==
  /\ BodyMoves(t, "leaving", "dead")
  /\ running' = [running EXCEPT ![t] = FALSE]
  /\ UNCHANGED <<handle, ctl>>

-----------------------------------------------------------------------------
(* stop() and join() *)

StopTest(t) ==
  /\ Control(t, {"started"}, IF IsAlive(t) THEN "stopping" ELSE "idle")
  /\ UNCHANGED <<running, handle, body>>

\* Mutant: stop() joins without clearing the flag.
StopClear_NoFlag(t) ==
  /\ Control(t, {"stopping"}, "cleared")
  /\ UNCHANGED <<running, handle, body>>

StopClear(t) ==
  /\ Control(t, {"stopping"}, "cleared")
  /\ running' = [running EXCEPT ![t] = FALSE]
  /\ UNCHANGED <<handle, body>>

\* join(), called by stop() or by a client of a started thread.
Join(t) ==
  /\ Control(t, {"started", "cleared"},
             IF IsAlive(t) /\ handle[t] = "joinable" THEN "waiting" ELSE "idle")
  /\ UNCHANGED <<running, handle, body>>

\* Mutant: detach() in the place of join().
JoinReturn_Detached(t) ==
  /\ Control(t, {"waiting"}, "idle")
  /\ handle' = [handle EXCEPT ![t] = "joined"]
  /\ UNCHANGED <<running, body>>

JoinReturn(t) ==
  /\ body[t] = "dead"
  /\ Control(t, {"waiting"}, "idle")
  /\ handle' = [handle EXCEPT ![t] = "joined"]
  /\ UNCHANGED <<running, body>>

-----------------------------------------------------------------------------

BodyStep(t) == Loop(t) \/ Work(t) \/ Throw(t) \/ Leave(t)

\* What the controller does once it has called start(), stop() or join().
CallStep(t) ==
  \/ Spawn(t) \/ SpawnFails(t) \/ StartDone(t)
  \/ StopClear(t) \/ (ctl[t] = "cleared" /\ Join(t)) \/ JoinReturn(t)

\* What the controller may call.
Call(t) == Start(t) \/ StopTest(t) \/ (ctl[t] = "started" /\ Join(t))

ThreadNext == \E t \in Threads : Call(t) \/ CallStep(t) \/ BodyStep(t)

ThreadSpec == ThreadInit /\ [][ThreadNext]_tvars

\* The scheduler runs the threads, and a call goes on until it returns.
ThreadFairness == \A t \in Threads : WF_tvars(CallStep(t)) /\ WF_tvars(BodyStep(t))

-----------------------------------------------------------------------------
(* Properties *)

\* While start() has returned and nobody has called stop(), a body that is in
\* its loop is reported alive by is_alive(), so that stop() cannot overlook it.
StartedBodyIsAlive ==
  \A t \in Threads :
    ctl[t] \in {"started", "stopping"} /\ body[t] \in {"test", "work"} => IsAlive(t)

\* The two bodies of a restart would share one m_running, and the flag raised for
\* the second would keep the first going.  start() never makes a second body
\* beside a first that has not ended: std::terminate() ends the process instead.
RestartIsAlone ==
  [][\A t \in Threads :
       ctl[t] = "starting" /\ ctl'[t] = "spawned"
         => body[t] \in {"none", "dead"} \/ Terminated']_tvars

\* Once stop() has returned, the body begins no further iteration of its loop.
NoNewIteration ==
  [][\A t \in Threads :
       ctl[t] = "idle" /\ body[t] = "test" => body'[t] # "work"]_tvars

\* A thread whose stop() has returned ends sometime, although nothing waits for
\* it (or the process has been terminated by a second start()).
StopEnds ==
  \A t \in Threads :
    ctl[t] = "idle" /\ body[t] # "none"
      ~> body[t] = "dead" \/ Terminated
=============================================================================
