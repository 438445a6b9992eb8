--------------------------- MODULE UsbOutEndpoint --------------------------
(***************************************************************************)
(* EndpointOut::read of src/src/usb.rs against the interrupt handler, the  *)
(* Bus methods, cancellation, and a host that sends numbered packets,      *)
(* repeats one whose handshake it did not see, and resets the bus.         *)
(***************************************************************************)
EXTENDS UsbTransfer

CONSTANTS
    MaxPackets,       \* bound: packets the host sends per endpoint
    Halts,            \* the host sets and clears ENDPOINT_HALT
    RepeatEnable,     \* an enabled endpoint may be enabled again
    TrafficInDisable  \* a packet may arrive while its endpoint is disabled

ASSUME OutAssumption ==
    /\ MaxPackets \in Nat
    /\ Halts \in BOOLEAN /\ RepeatEnable \in BOOLEAN /\ TrafficInDisable \in BOOLEAN

VARIABLES
    outComplete, \* OUT_COMPLETE: the bank holds a packet nobody has claimed
    rxToggle,    \* UEP_R_TOG: the data PID the SIE expects
    togOk,       \* UIS_TOG_OK of the latched transfer
    bank,        \* the packet in the OUT DMA bank
    hostToggle,  \* the data PID of the host's next packet
    hostOut,     \* the packet the host is sending
    got,         \* the last packet latched with the expected PID
    origin,      \* the generations at that moment
    taken        \* the last packet a read consumed

hostVars == <<hostToggle, hostOut>>
histVars == <<got, origin, taken>>
dataVars == <<outComplete, rxToggle, togOk, bank, hostVars, histVars>>
vars == <<busVars, epVars, taskVars, dataVars>>

OutPc == {"idle", "snap", "arm", "owned", "copy"} \cup Owning \cup WaitPc

Packets == 0 .. MaxPackets

TypeOK ==
    /\ TransferTypeOK
    /\ pc \in [Eps -> OutPc]
    /\ outComplete \in [Eps -> BOOLEAN]
    /\ rxToggle \in [Eps -> {0, 1}] /\ hostToggle \in [Eps -> {0, 1}]
    /\ togOk \in BOOLEAN
    /\ bank \in [Eps -> Packets] /\ got \in [Eps -> Packets] /\ taken \in [Eps -> Packets]
    /\ hostOut \in [Eps -> 1 .. MaxPackets + 1]
    /\ origin \in [Eps -> [reset : 0 .. MaxResets, enable : 0 .. MaxEnables]]

Init ==
    /\ TransferInit
    /\ outComplete = [e \in Eps |-> FALSE]
    /\ rxToggle = [e \in Eps |-> 0] /\ hostToggle = [e \in Eps |-> 0]
    /\ togOk = FALSE
    /\ bank = [e \in Eps |-> 0] /\ got = [e \in Eps |-> 0] /\ taken = [e \in Eps |-> 0]
    /\ hostOut = [e \in Eps |-> 1]
    /\ origin = [e \in Eps |-> [reset |-> 0, enable |-> 0]]

-----------------------------------------------------------------------------
(* EndpointOut::read.                                                      *)

ReadBegin(e) == CheckEnabled(e) /\ UNCHANGED dataVars

ReadSnapshot(e) == TakeSnapshot(e, "arm") /\ UNCHANGED dataVars

ReadArmFails(e) == ArmFails(e) /\ UNCHANGED dataVars

\* Mutant: the completion is looked at and not consumed.
ReadClaimKeeps(e) ==
    /\ pc[e] = "arm" /\ CriticalSection
    /\ Valid(e) /\ outComplete[e]
    /\ Goto(e, "owned")
    /\ UNCHANGED <<snap, registered, woken, epVars, dataVars>>

\* ReadStart::Completed: a packet came before the read did.
ReadClaim(e) ==
    /\ pc[e] = "arm" /\ CriticalSection
    /\ Valid(e) /\ outComplete[e]
    /\ outComplete' = [outComplete EXCEPT ![e] = FALSE]
    /\ Goto(e, "owned")
    /\ UNCHANGED <<snap, registered, woken, epVars>>
    /\ UNCHANGED <<rxToggle, togOk, bank, hostVars, histVars>>

\* ReadStart::Armed.
ReadArm(e) ==
    /\ ~outComplete[e]
    /\ ArmSucceeds(e)
    /\ UNCHANGED dataVars

\* The lifecycle check a claimed packet has to pass once more.
ReadClaimed(e) ==
    /\ pc[e] = "owned" /\ Unmasked
    /\ Goto(e, IF Valid(e) THEN "copy" ELSE "idle")
    /\ UNCHANGED <<snap, registered, woken, busVars, epVars, dataVars>>

ReadRegister(e) == Register(e) /\ UNCHANGED dataVars

ReadCheckLife(e) == CheckLife(e) /\ UNCHANGED dataVars

ReadCheckDone(e) ==
    /\ CheckDone(e, "copy")
    /\ outComplete' = [outComplete EXCEPT ![e] = @ /\ pc'[e] # "copy"]
    /\ UNCHANGED <<rxToggle, togOk, bank, hostVars, histVars>>

\* The copy out of the bank, or BufferOverflow: the packet is consumed.
ReadCopy(e) ==
    /\ pc[e] = "copy" /\ Unmasked
    /\ taken' = [taken EXCEPT ![e] = bank[e]]
    /\ Goto(e, "idle")
    /\ UNCHANGED <<snap, registered, woken, busVars, epVars>>
    /\ UNCHANGED <<outComplete, rxToggle, togOk, bank, hostVars, got, origin>>

ReadDrop(e) == DropGuard(e) /\ UNCHANGED dataVars

ReadCancel(e) == Cancel(e) /\ UNCHANGED dataVars

Wait(e) == (WaitEnabled(e) \/ WaitCheck(e)) /\ UNCHANGED dataVars

Poll(e) == Resume(e) /\ UNCHANGED dataVars

-----------------------------------------------------------------------------
(* Bus methods.  When both ends go back to DATA0 the host gives up a       *)
(* packet it does not know to have arrived.                                *)

\* Mutant: the device keeps its data PID.
ToggleHostOnly(who) ==
    /\ hostToggle' = [e \in Eps |-> IF e \in who THEN 0 ELSE hostToggle[e]]
    /\ hostOut' = [e \in Eps |->
           IF e \in who /\ rxToggle[e] # hostToggle[e] THEN hostOut[e] + 1 ELSE hostOut[e]]
    /\ UNCHANGED rxToggle

ToggleReset(who) ==
    /\ rxToggle' = [e \in Eps |-> IF e \in who THEN 0 ELSE rxToggle[e]]
    /\ hostToggle' = [e \in Eps |-> IF e \in who THEN 0 ELSE hostToggle[e]]
    /\ hostOut' = [e \in Eps |->
           IF e \in who /\ rxToggle[e] # hostToggle[e] THEN hostOut[e] + 1 ELSE hostOut[e]]

Forget(who) == outComplete' = [e \in Eps |-> outComplete[e] /\ e \notin who]

\* Mutant: a disabled endpoint keeps its unclaimed packet.
OutSetEnabledKeeps(e, on) ==
    /\ on /\ enabled[e] => RepeatEnable
    /\ ~on /\ xfer = e => TrafficInDisable
    /\ SetEnabled(e, on, IF on THEN "ACK" ELSE "STALL")
    /\ ToggleReset(IF on THEN {e} ELSE {})
    /\ UNCHANGED <<outComplete, togOk, bank, histVars>>

OutSetEnabled(e, on) ==
    /\ on /\ enabled[e] => RepeatEnable
    /\ ~on /\ xfer = e => TrafficInDisable
    /\ SetEnabled(e, on, IF on THEN "ACK" ELSE "STALL")
    /\ Forget(IF on THEN {} ELSE {e})
    /\ ToggleReset(IF on THEN {e} ELSE {})
    /\ UNCHANGED <<togOk, bank, histVars>>

\* Mutants: clearing a halt always arms; setting one discards the packet.
OutSetStalledArms(e, stalled) ==
    /\ Halts
    /\ SetStalled(e, IF stalled THEN "STALL" ELSE "ACK")
    /\ ToggleReset(IF stalled THEN {} ELSE {e})
    /\ UNCHANGED <<outComplete, togOk, bank, histVars>>

OutSetStalledForgets(e, stalled) ==
    /\ Halts
    /\ SetStalled(e, IF stalled THEN "STALL"
                     ELSE IF outComplete[e] THEN "NAK" ELSE "ACK")
    /\ Forget(IF stalled THEN {e} ELSE {})
    /\ ToggleReset(IF stalled THEN {} ELSE {e})
    /\ UNCHANGED <<togOk, bank, histVars>>

OutSetStalled(e, stalled) ==
    /\ Halts
    /\ SetStalled(e, IF stalled THEN "STALL"
                     ELSE IF outComplete[e] THEN "NAK" ELSE "ACK")
    /\ ToggleReset(IF stalled THEN {} ELSE {e})
    /\ UNCHANGED <<outComplete, togOk, bank, histVars>>

OutBusEnable ==
    /\ BusEnable
    /\ Forget(Eps) /\ ToggleReset(Eps)
    /\ UNCHANGED <<togOk, bank, histVars>>

OutBusDisable == BusDisable /\ UNCHANGED dataVars

-----------------------------------------------------------------------------
(* An OUT transaction.  The SIE stores the packet in the bank, checks its  *)
(* PID, advances its own if they agree (UEP_AUTO_TOG), acknowledges and    *)
(* latches the transfer.  A host that misses the handshake repeats it.     *)
HostSends(e, acked) ==
    LET good == rxToggle[e] = hostToggle[e] IN
    /\ SieReady(e)
    /\ hostOut[e] <= MaxPackets
    /\ bank' = [bank EXCEPT ![e] = hostOut[e]]
    /\ rxToggle' = IF good THEN [rxToggle EXCEPT ![e] = 1 - @] ELSE rxToggle
    /\ got' = IF good THEN [got EXCEPT ![e] = hostOut[e]] ELSE got
    /\ origin' = IF good
                   THEN [origin EXCEPT ![e] = [reset |-> resetGen, enable |-> enableGen[e]]]
                   ELSE origin
    /\ togOk' = good
    /\ xfer' = e
    /\ hostToggle' = IF acked THEN [hostToggle EXCEPT ![e] = 1 - @] ELSE hostToggle
    /\ hostOut' = IF acked THEN [hostOut EXCEPT ![e] = @ + 1] ELSE hostOut
    /\ UNCHANGED <<usbOn, resetFlag, irqDue, resetGen, epVars, taskVars, outComplete, taken>>

OutHostReset == HostReset /\ UNCHANGED dataVars

IsrOut(e) ==
    /\ togOk
    /\ IsrComplete(e)
    /\ outComplete' = [outComplete EXCEPT ![e] = TRUE]
    /\ UNCHANGED <<rxToggle, togOk, bank, hostVars, histVars>>

\* A repeated packet: the handler only clears the flag.
IsrOutRepeated(e) ==
    /\ ~togOk
    /\ IsrRetire(e)
    /\ UNCHANGED <<epVars, taskVars, dataVars>>

OutReset ==
    /\ IsrReset
    /\ Forget(Eps) /\ ToggleReset(Eps)
    /\ UNCHANGED <<togOk, bank, histVars>>

-----------------------------------------------------------------------------
ReadStep(e) ==
    \/ ReadSnapshot(e) \/ ReadArmFails(e) \/ ReadClaim(e) \/ ReadArm(e)
    \/ ReadClaimed(e) \/ ReadRegister(e) \/ ReadCheckLife(e) \/ ReadCheckDone(e)
    \/ ReadCopy(e) \/ ReadDrop(e)

Next ==
    \/ \E e \in Eps :
        \/ ReadBegin(e) \/ ReadStep(e) \/ ReadCancel(e)
        \/ Wait(e) \/ Poll(e)
        \/ \E on \in BOOLEAN : OutSetEnabled(e, on)
        \/ \E stalled \in BOOLEAN : OutSetStalled(e, stalled)
        \/ \E acked \in BOOLEAN : HostSends(e, acked)
        \/ IsrOut(e) \/ IsrOutRepeated(e)
    \/ OutBusEnable \/ OutBusDisable
    \/ OutHostReset
    \/ OutReset

Spec == Init /\ [][Next]_vars

\* As in UsbInEndpoint; nothing is asked of the host.
Fairness ==
    /\ WF_vars(OutReset)
    /\ \A e \in Eps :
        /\ WF_vars(IsrOut(e) \/ IsrOutRepeated(e))
        /\ WF_vars(ReadStep(e))
        /\ WF_vars(Wait(e) /\ pc[e] # "idle")
        /\ SF_vars(Poll(e) /\ woken[e])

FairSpec == Spec /\ Fairness

-----------------------------------------------------------------------------
(* Safety.                                                                 *)

\* While software owns the only DMA bank (a completed packet nobody has
\* claimed, or one a read is about to copy) the endpoint does not answer ACK,
\* so the SIE cannot overwrite the packet: the rule stated in the handler.
BankOwnedBySoftware ==
    usbOn => \A e \in Eps :
        outComplete[e] \/ pc[e] \in {"owned", "copy"} => response[e] # "ACK"

\* A packet of this bus session and endpoint instance that the host was told
\* had arrived is either consumed or still in the bank where a read finds it.
NoPacketLost ==
    \A e \in Eps :
        /\ got[e] # taken[e] /\ enabled[e]
        /\ origin[e] = [reset |-> resetGen, enable |-> enableGen[e]]
        => /\ bank[e] = got[e]
           /\ outComplete[e] \/ (xfer = e /\ togOk) \/ pc[e] \in {"owned", "copy"}

\* No packet is read twice, torn between two, or after a later one.
ReadOnceInOrder ==
    [][\A e \in Eps : pc[e] = "copy" /\ pc'[e] # "copy" =>
         taken'[e] = got[e] /\ taken'[e] > taken[e]]_vars

\* A read returns only a packet that arrived in the bus session and endpoint
\* instance the read was started in.
ReadFromOwnInstance ==
    [][\A e \in Eps : pc[e] = "copy" /\ pc'[e] # "copy" =>
         origin[e] = [reset |-> snap[e].reset, enable |-> snap[e].enable]]_vars

\* A packet the handler discards as a repetition is one it already took: the
\* data PIDs agree again after every reset, halt and new instance.
OnlyRepeatsIgnored ==
    \A e \in Eps : xfer = e /\ ~togOk => bank[e] = got[e]

\* A pending read that waits for the host lets the host in (or is halted);
\* in particular clearing a halt does not leave the endpoint at NAK.
PendingReadIsArmed ==
    \A e \in Eps :
        pc[e] = "await" /\ Valid(e) /\ doneGen[e] = snap[e].done =>
            response[e] # "NAK"

-----------------------------------------------------------------------------
(* Liveness.                                                               *)

\* A read that has its packet, or whose instance is gone, ends.
ReadEnds ==
    \A e \in Eps :
        pc[e] \in Polling /\ ~(Valid(e) /\ doneGen[e] = snap[e].done)
            ~> pc[e] \notin Polling

=============================================================================
