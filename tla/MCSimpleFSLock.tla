---------------------------- MODULE MCSimpleFSLock ----------------------------
(* A try without a wait, one poll, and a wait for ever. *)
EXTENDS SimpleFSLock

CONSTANTS c1, c2, c3
MCClients == {c1, c2, c3}
MCTimeouts == {0, 1500, LOCK_OBTAIN_WAIT_FOREVER}
=============================================================================
