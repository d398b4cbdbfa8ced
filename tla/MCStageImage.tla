---------------------------- MODULE MCStageImage ----------------------------
(* An instance of StageImage small enough for TLC. *)
EXTENDS StageImage

TwoDevices == <<"d1", "d2">>

=============================================================================
