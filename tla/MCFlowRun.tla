----------------------------- MODULE MCFlowRun ------------------------------
(* An instance of FlowRun small enough for TLC. *)
EXTENDS FlowRun

=============================================================================
