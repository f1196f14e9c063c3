-------------------------- MODULE MCHardwareChild ---------------------------
(* HardwareChild for TLC.                                                   *)
EXTENDS HardwareChild

=============================================================================
