--------------------------- MODULE MCContainerRun ---------------------------
(* An instance of ContainerRun small enough for TLC. *)
EXTENDS ContainerRun

=============================================================================
