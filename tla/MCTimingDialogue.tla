-------------------------- MODULE MCTimingDialogue --------------------------
(* An instance of TimingDialogue small enough for TLC. *)
EXTENDS TimingDialogue

=============================================================================
