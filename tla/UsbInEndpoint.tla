--------------------------- MODULE UsbInEndpoint ---------------------------
(***************************************************************************)
(* EndpointIn::write of src/src/usb.rs against the interrupt handler, the  *)
(* Bus methods, cancellation, and a host that polls the endpoint, loses    *)
(* acknowledgements and resets the bus.  A packet is the number of the     *)
(* write call that put it into the DMA bank.                               *)
(***************************************************************************)
EXTENDS UsbTransfer

CONSTANTS
    MaxWrites,      \* bound: packets written per endpoint
    Halts,          \* the host sets and clears ENDPOINT_HALT
    InDoubtCancels  \* a write may be cancelled after its acknowledgement was lost

ASSUME InAssumption ==
    /\ MaxWrites \in Nat
    /\ Halts \in BOOLEAN /\ InDoubtCancels \in BOOLEAN

VARIABLES
    bank,       \* the packet in the IN DMA bank
    txToggle,   \* UEP_T_TOG: the data PID of the next IN packet
    hostToggle, \* the data PID the host expects
    hostIn,     \* the last packet the host accepted
    sent        \* the last packet whose acknowledgement the SIE saw

dataVars == <<bank, txToggle, hostToggle, hostIn, sent>>
vars == <<busVars, epVars, taskVars, dataVars>>

InPc == {"idle", "snap", "fill", "arm"} \cup Owning \cup WaitPc

TypeOK ==
    /\ TransferTypeOK
    /\ pc \in [Eps -> InPc]
    /\ bank \in [Eps -> 0 .. MaxWrites]
    /\ \A e \in Eps : pc[e] \in {"snap", "fill"} => bank[e] < MaxWrites
    /\ txToggle \in [Eps -> {0, 1}]
    /\ hostToggle \in [Eps -> {0, 1}]
    /\ hostIn \in [Eps -> 0 .. MaxWrites]
    /\ sent \in [Eps -> 0 .. MaxWrites]

Init ==
    /\ TransferInit
    /\ bank = [e \in Eps |-> 0]
    /\ txToggle = [e \in Eps |-> 0]
    /\ hostToggle = [e \in Eps |-> 0]
    /\ hostIn = [e \in Eps |-> 0]
    /\ sent = [e \in Eps |-> 0]

-----------------------------------------------------------------------------
(* EndpointIn::write.                                                      *)

WriteBegin(e) ==
    /\ bank[e] < MaxWrites
    /\ CheckEnabled(e)
    /\ UNCHANGED dataVars

WriteSnapshot(e) == TakeSnapshot(e, "fill") /\ UNCHANGED dataVars

\* write_endpoint_buffer, before the critical section.
WriteFill(e) ==
    /\ pc[e] = "fill" /\ Unmasked
    /\ bank' = [bank EXCEPT ![e] = @ + 1]
    /\ Goto(e, "arm")
    /\ UNCHANGED <<snap, registered, woken, busVars, epVars>>
    /\ UNCHANGED <<txToggle, hostToggle, hostIn, sent>>

WriteArm(e) == (ArmFails(e) \/ ArmSucceeds(e)) /\ UNCHANGED dataVars

WritePoll(e) ==
    /\ Register(e) \/ CheckLife(e) \/ CheckDone(e, "idle")
    /\ UNCHANGED dataVars

WriteDrop(e) == DropGuard(e) /\ UNCHANGED dataVars

WriteCancel(e) ==
    /\ txToggle[e] # hostToggle[e] => InDoubtCancels
    /\ Cancel(e)
    /\ UNCHANGED dataVars

Wait(e) == (WaitEnabled(e) \/ WaitCheck(e)) /\ UNCHANGED dataVars

Poll(e) == Resume(e) /\ UNCHANGED dataVars

-----------------------------------------------------------------------------
(* Bus methods.  Enabling an endpoint, clearing its halt and a bus reset   *)
(* bring both ends back to DATA0.                                          *)

\* Mutant: the device keeps its data PID.
ToggleHostOnly(who) ==
    /\ hostToggle' = [e \in Eps |-> IF e \in who THEN 0 ELSE hostToggle[e]]
    /\ UNCHANGED <<txToggle, bank, hostIn, sent>>

ToggleReset(who) ==
    /\ txToggle' = [e \in Eps |-> IF e \in who THEN 0 ELSE txToggle[e]]
    /\ hostToggle' = [e \in Eps |-> IF e \in who THEN 0 ELSE hostToggle[e]]
    /\ UNCHANGED <<bank, hostIn, sent>>

\* Mutant: a newly enabled IN endpoint is armed like an OUT endpoint.
InSetEnabledArmed(e, on) ==
    /\ SetEnabled(e, on, IF on THEN "ACK" ELSE "STALL")
    /\ ToggleReset(IF on THEN {e} ELSE {})

InSetEnabled(e, on) ==
    /\ SetEnabled(e, on, IF on THEN "NAK" ELSE "STALL")
    /\ ToggleReset(IF on THEN {e} ELSE {})

InSetStalled(e, stalled) ==
    /\ Halts
    /\ SetStalled(e, IF stalled THEN "STALL" ELSE "NAK")
    /\ ToggleReset(IF stalled THEN {} ELSE {e})

InBusEnable == BusEnable /\ ToggleReset(Eps)

InBusDisable == BusDisable /\ UNCHANGED dataVars

-----------------------------------------------------------------------------
(* An IN transaction: the SIE sends the bank under the current PID.  The   *)
(* host accepts it if that is the PID it expects and acknowledges it in    *)
(* any case.  An acknowledgement that arrives advances the PID             *)
(* (UEP_AUTO_TOG) and latches the transfer; one that is lost does neither, *)
(* and the packet goes out again at the next IN token.                     *)
HostIn(e, acked) ==
    LET fresh == txToggle[e] = hostToggle[e] IN
    /\ SieReady(e)
    /\ ~acked /\ pc[e] = "drop" => InDoubtCancels
    /\ hostIn' = IF fresh THEN [hostIn EXCEPT ![e] = bank[e]] ELSE hostIn
    /\ hostToggle' = IF fresh THEN [hostToggle EXCEPT ![e] = 1 - @] ELSE hostToggle
    /\ txToggle' = IF acked THEN [txToggle EXCEPT ![e] = 1 - @] ELSE txToggle
    /\ sent' = IF acked THEN [sent EXCEPT ![e] = bank[e]] ELSE sent
    /\ xfer' = IF acked THEN e ELSE xfer
    /\ UNCHANGED <<bank, usbOn, resetFlag, irqDue, resetGen, epVars, taskVars>>

InHostReset == HostReset /\ UNCHANGED dataVars

IsrIn(e) == IsrComplete(e) /\ UNCHANGED dataVars

InReset == IsrReset /\ ToggleReset(Eps)

-----------------------------------------------------------------------------
WriteStep(e) ==
    \/ WriteSnapshot(e) \/ WriteFill(e) \/ WriteArm(e)
    \/ WritePoll(e) \/ WriteDrop(e)

Next ==
    \/ \E e \in Eps :
        \/ WriteBegin(e) \/ WriteStep(e) \/ WriteCancel(e)
        \/ Wait(e) \/ Poll(e)
        \/ \E on \in BOOLEAN : InSetEnabled(e, on)
        \/ \E stalled \in BOOLEAN : InSetStalled(e, stalled)
        \/ (\E acked \in BOOLEAN : HostIn(e, acked)) \/ IsrIn(e)
    \/ InBusEnable \/ InBusDisable
    \/ InHostReset
    \/ InReset

Spec == Init /\ [][Next]_vars

\* The core runs the interrupt handler and the task it is in; the executor
\* polls every woken task in turn (Executor shows why); and a host that keeps
\* polling an armed endpoint gets an acknowledgement through in the end.
Fairness ==
    /\ WF_vars(InReset)
    /\ \A e \in Eps :
        /\ WF_vars(IsrIn(e))
        /\ WF_vars(WriteStep(e))
        /\ WF_vars(Wait(e) /\ pc[e] # "idle")
        /\ SF_vars(Poll(e) /\ woken[e])
        /\ SF_vars(HostIn(e, TRUE))

FairSpec == Spec /\ Fairness

-----------------------------------------------------------------------------
(* Safety.                                                                 *)

\* While the bus is on, an endpoint answers ACK only for a write future that
\* is still pending (or whose guard is about to be dropped), was armed in the
\* current bus session and endpoint instance, and has not completed.  Hence no
\* write can touch a DMA bank the SIE may send, and no packet of a cancelled or
\* outdated write is left behind for the host to collect.
ArmedIsOwned ==
    usbOn => \A e \in Eps : response[e] = "ACK" =>
        pc[e] \in Owning /\ Valid(e) /\ doneGen[e] = snap[e].done

\* A completion generation that differs from a pending write's snapshot means
\* that this very packet was sent and acknowledged: no completion of an
\* earlier, cancelled or superseded write is taken for it, and none is hidden
\* by the generation wrapping around.
OkWasSent ==
    \A e \in Eps : pc[e] \in Polling /\ doneGen[e] # snap[e].done =>
        sent[e] = bank[e]

\* Conversely a pending valid write whose packet was acknowledged sees it once
\* the handler has run: the handler's increment is never the one that brings
\* the narrow counter back to the snapshot.
SentIsSeen ==
    \A e \in Eps :
        pc[e] \in Polling /\ Valid(e) /\ sent[e] = bank[e] /\ xfer # e =>
            doneGen[e] # snap[e].done

\* A write that is to return Ok handed its packet to the host's driver: both
\* ends agree on the data PID through lost acknowledgements, halts, resets and
\* new endpoint instances, so the host does not discard it as a repetition.
OkIsDelivered ==
    \A e \in Eps : pc[e] \in Polling /\ doneGen[e] # snap[e].done =>
        hostIn[e] = bank[e]

\* The host accepts a packet only while the write that queued it is still
\* valid, and never an older packet after a newer one or the same one twice.
NoGhostPacket ==
    [][\A e \in Eps : hostIn'[e] # hostIn[e] =>
         pc[e] \in Owning /\ Valid(e) /\ hostIn'[e] > hostIn[e]]_vars

\* A suspended write that can only be ended by the host still has its endpoint
\* armed: without halts nothing turns ACK into NAK behind the future's back.
PendingWriteIsArmed ==
    \A e \in Eps :
        pc[e] = "await" /\ Valid(e) /\ doneGen[e] = snap[e].done =>
            response[e] = "ACK"

-----------------------------------------------------------------------------
(* Liveness.                                                               *)

\* Every write ends: sent, or failed by a reset, a disable or a new instance.
WriteEnds ==
    \A e \in Eps : pc[e] \in Polling ~> pc[e] \notin Polling

\* wait_enabled returns once the endpoint is enabled and stays so.
WaitEnds ==
    \A e \in Eps :
        pc[e] \in WaitPc /\ enabled[e] ~> pc[e] \notin WaitPc \/ ~enabled[e]

=============================================================================
