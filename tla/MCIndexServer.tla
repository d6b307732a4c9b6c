----------------------------- MODULE MCIndexServer -----------------------------
(* A small segments.meta and few messages, for TLC. *)
EXTENDS IndexServer

MCStoredNames == {1, 2, 4}
MCMsgIds == {1, 2, 3}
=============================================================================
