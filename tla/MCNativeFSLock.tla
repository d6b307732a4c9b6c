---------------------------- MODULE MCNativeFSLock ----------------------------
(* Three lock objects, of which two are used in a behaviour: those of one process
   or those of two. *)
EXTENDS NativeFSLock

CONSTANTS a, b, c, p1, p2
MCLocks == {a, b, c}
MCProcesses == {p1, p2}
MCProcess == [l \in MCLocks |-> IF l = c THEN p2 ELSE p1]
MCInodes == 1 .. 3

CONSTANT MCPairs
SameProcess == {a, b}
TwoProcesses == {a, c}
EitherPair == {SameProcess, TwoProcesses}
OnlyTwoProcesses == {TwoProcesses}

\* One process gets by with two inodes, of which the first is there or none.
VARIABLE used           \* the lock objects of the behaviour
MCInit == used \in MCPairs /\ Init /\ path \in {None, 1}
MCNext ==
  /\ Next /\ UNCHANGED used
  /\ \A l \in Locks \ used : pc'[l] = pc[l]
  /\ path' = 3 => used = TwoProcesses
MCSpec == MCInit /\ [][MCNext]_<<vars, used>>

\* The fairness of the two that are used.
OfOther(Action(_)) ==
  \/ used = SameProcess /\ Action(b)
  \/ used = TwoProcesses /\ Action(c)
MCReleasingSpec ==
  /\ MCSpec
  /\ Fair(a)
  /\ SF_vars(OfOther(Proceed)) /\ WF_vars(OfOther(Release)) /\ SF_vars(OfOther(Unlock))
=============================================================================
