------------------------------- MODULE MCGpio ------------------------------
(* PB8 shares channel 8 with PB22; PB23 has channel 9 and shares the remap  *)
(* with PB22.                                                              *)
EXTENDS Gpio

MCChan == [p \in Pins |-> IF p = "PB23" THEN "B9" ELSE "B8"]
MCPort == [c \in Channels |-> "B"]
MCIntxMode == [p \in Pins |-> IF p = "PB8" THEN 1 ELSE 2]
MCWaits == [p \in Pins |-> CASE p = "PB8" -> {"rising"} [] p = "PB22" -> {"any"}
                             [] p = "PB23" -> {"low"}]
=============================================================================
