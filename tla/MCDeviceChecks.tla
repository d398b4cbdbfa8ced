--------------------------- MODULE MCDeviceChecks ---------------------------
(* An instance of DeviceChecks small enough for TLC. *)
EXTENDS DeviceChecks

=============================================================================
