----------------------------- MODULE MCConcurrency -----------------------------
(* The threads of the server, and the threads at a monitor: three none of which
   times out, or two with one lock() that does, which do not wait() at once.  The parts share no state; a
   behaviour is of one of them. *)
EXTENDS LuceneThread, Monitor

MCThreads == {"merge", "update"}

CONSTANTS t1, t2, t3
MCThr == {t1, t2, t3}
MCMaxScopes == [t \in MCThr |-> IF t = t1 THEN 2 ELSE 1]
MCNestedScopes == [t \in MCThr |-> 2]

CONSTANT MCParts
AllParts == {"threads", "three", "two"}
OnlyTwo == {"two"}

VARIABLE part
MCInit == part \in MCParts /\ ThreadInit /\ Init
MCNext ==
  /\ UNCHANGED part
  /\ \/ part = "threads" /\ ThreadNext /\ UNCHANGED vars
     \/ part = "three" /\ Next /\ expired' = 0 /\ UNCHANGED tvars
     \/ /\ part = "two" /\ Next /\ UNCHANGED tvars
        /\ pc'[t3] = "client" /\ locked'[t3] = 0
        /\ ~(waits'[t1] /\ waits'[t2])
MCSpec == MCInit /\ [][MCNext]_<<part, tvars, vars>>
MCFairSpec == MCSpec /\ ThreadFairness /\ Fairness
=============================================================================
