-------------------------- MODULE MCUsbControlPipe -------------------------
(* Requests for the model checker: a two-packet read and write, a rejected *)
(* read and write, and SET_ADDRESS.                                        *)
EXTENDS UsbControlPipe

Request(dir, len, verdict) == [dir |-> dir, len |-> len, verdict |-> verdict]

AllRequests ==
    {Request("in", 2, "accept"), Request("out", 2, "accept"),
     Request("in", 1, "reject"), Request("out", 1, "reject"),
     Request("out", 0, "address")}

DataRequests == {Request("in", 2, "accept"), Request("out", 2, "accept"),
                 Request("out", 1, "reject")}
=============================================================================
