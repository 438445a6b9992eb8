-------------------------- MODULE MCUsbInEndpoint --------------------------
(* Instances of UsbInEndpoint for TLC.                                     *)
EXTENDS UsbInEndpoint, TLC

Symmetric == Permutations(Eps)

=============================================================================
