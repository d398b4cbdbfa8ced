----------------------------- MODULE DeviceLoop ------------------------------
(***************************************************************************)
(* What the handlers have in common that check one device after the other. *)
(***************************************************************************)
EXTENDS Naturals

CONSTANT NDevices \* target devices, in order

VARIABLES
  pc,
  dev,      \* current device
  verdict

Devices == 1 .. NDevices

=============================================================================
