----------------------------- MODULE MCFirmware ----------------------------
(* Images of Firmware for TLC.                                             *)
EXTENDS Firmware

=============================================================================
