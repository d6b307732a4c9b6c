----------------------------- MODULE ExclusiveLock -----------------------------
(***************************************************************************)
(* What a Lock promises (src/store/lock.h): "An interprocess mutex lock",  *)
(* whose obtain() returns true "if exclusive access is obtained".  A       *)
(* client that crashes may leave the lock behind, obtained by nobody,      *)
(* until it is cleared.                                                    *)
(***************************************************************************)
CONSTANTS
  Clients,              \* those who lock
  Stale                 \* who has a lock that was left behind; no client

VARIABLE holders        \* who has the lock: nobody, one client, or Stale

Init == holders = {}

Obtain(c) == holders = {} /\ holders' = {c}

Release(c) == holders = {c} /\ holders' = {}

Abandon(c) == holders = {c} /\ holders' = {Stale}

Clear == holders = {Stale} /\ holders' = {}

Next == Clear \/ \E c \in Clients : Obtain(c) \/ Release(c) \/ Abandon(c)

Spec == Init /\ [][Next]_holders
=============================================================================
