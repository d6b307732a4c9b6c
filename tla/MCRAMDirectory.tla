---------------------------- MODULE MCRAMDirectory ----------------------------
(* Two threads and two names, for two files or one that replaces another; and
   three clients of the locks that a RAMDirectory makes. *)
EXTENDS RAMDirectory, SingleInstanceLock

CONSTANTS t1, t2, n1, n2, f1, f2
MCThreads == {t1, t2}
MCNames == {n1, n2}
MCFiles == {f1, f2}

CONSTANTS c1, c2, c3
MCClients == {c1, c2, c3}

CONSTANT MCParts
BothParts == {"directory", "lock"}
OnlyLock == {"lock"}

\* The two share no state; a behaviour is of one of them.
VARIABLE part
MCInit == part \in MCParts /\ Init /\ LockInit
MCNext ==
  /\ UNCHANGED part
  /\ \/ part = "directory" /\ Next /\ UNCHANGED lockVars
     \/ part = "lock" /\ LockNext /\ UNCHANGED vars
MCSpec == MCInit /\ [][MCNext]_<<part, vars, lockVars>>
MCFairSpec == MCSpec /\ Fairness
=============================================================================
