-------------------------- MODULE MCWaitReachable ---------------------------
(* An instance of WaitReachable small enough for TLC. *)
EXTENDS WaitReachable

=============================================================================
