-------------------------- MODULE MCUsbOutEndpoint -------------------------
(* Instances of UsbOutEndpoint for TLC.                                    *)
EXTENDS UsbOutEndpoint, TLC

Symmetric == Permutations(Eps)

=============================================================================
