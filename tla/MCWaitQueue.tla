---------------------------- MODULE MCWaitQueue ----------------------------
(* Instance of WaitQueue for TLC. *)
EXTENDS WaitQueue
=============================================================================
