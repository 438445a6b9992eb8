------------------------ MODULE UsbOutEndpointProofs -----------------------
(***************************************************************************)
(* For every set of endpoints, every width of the completion generation    *)
(* and all bounds: the SIE never writes to a bank that software holds, no  *)
(* packet is lost or read twice, a pending read lets the host in, and no   *)
(* wake-up is lost.                                                        *)
(***************************************************************************)
EXTENDS UsbOutEndpoint, UsbTransferProofs

-----------------------------------------------------------------------------
(* The inductive invariant.                                                *)

\* The data PIDs differ exactly while the host does not know that its packet
\* has arrived.
TogglesAgree(e) ==
    IF rxToggle[e] = hostToggle[e] THEN got[e] < hostOut[e] ELSE got[e] = hostOut[e]

\* Where a read holds a packet that OUT_COMPLETE no longer tells of.
Holding == {"owned", "copy"}

EnabledIsOn(e) == enabled[e] => usbOn

\* The SIE may write to the bank only while nobody needs what is in it.
ArmedIsFree(e) ==
    usbOn /\ response[e] = "ACK" =>
        ~outComplete[e] /\ pc[e] \notin Holding /\ enabled[e]

\* The same, while a transfer is latched and its completion has not been told.
LatchedIsFree(e) ==
    xfer = e => usbOn /\ enabled[e] /\ ~outComplete[e] /\ pc[e] \notin Holding

CompleteIsEnabled(e) == usbOn /\ outComplete[e] => enabled[e]

\* A packet that is to be claimed is new and of the current instance.
Fresh(e) == bank[e] = got[e] /\ taken[e] < got[e]

CompleteIsFresh(e) ==
    (usbOn /\ outComplete[e]) \/ (xfer = e /\ togOk) =>
        Fresh(e) /\ origin[e] = [reset |-> resetGen, enable |-> enableGen[e]]

RepeatIsKnown(e) == xfer = e /\ ~togOk => bank[e] = got[e]

\* For a read that is valid the generation tells what OUT_COMPLETE does; one
\* whose instance ended after its last check has the bank to itself.
CompletionIsOurs(e) ==
    /\ pc[e] \in Polling /\ Valid(e) => (doneGen[e] # snap[e].done <=> outComplete[e])
    /\ pc[e] = "done" /\ ~Valid(e) => response[e] # "ACK" /\ xfer # e

\* A packet is held by the read it came for, and by OUT_COMPLETE or the read.
HeldIsOurs(e) ==
    /\ pc[e] \in Holding => ~outComplete[e]
    /\ pc[e] \in Holding \/ (pc[e] = "done" /\ doneGen[e] # snap[e].done) =>
        Fresh(e) /\ origin[e] = [reset |-> snap[e].reset, enable |-> snap[e].enable]

\* Generations only grow, so an instance that is over stays over, and packets
\* are read after they arrive.
PastInstances(e) ==
    /\ taken[e] <= got[e]
    /\ snap[e].enable <= enableGen[e]
    /\ origin[e].enable <= enableGen[e]

PendingIsArmed(e) ==
    pc[e] \in Polling /\ Valid(e) /\ doneGen[e] = snap[e].done => response[e] # "NAK"

NotLost(e) ==
    /\ got[e] # taken[e] /\ enabled[e]
    /\ origin[e] = [reset |-> resetGen, enable |-> enableGen[e]]
    => bank[e] = got[e]
       /\ (outComplete[e] \/ (xfer = e /\ togOk) \/ pc[e] \in Holding)

EpInv(e) ==
    /\ EnabledIsOn(e) /\ ArmedIsFree(e) /\ LatchedIsFree(e) /\ CompleteIsEnabled(e)
    /\ CompleteIsFresh(e) /\ RepeatIsKnown(e) /\ CompletionIsOurs(e) /\ HeldIsOurs(e)
    /\ PastInstances(e) /\ PendingIsArmed(e) /\ NotLost(e)

Typed == TypeOK /\ \A e \in Eps : TogglesAgree(e)

IInv == Typed /\ \A e \in Eps : EpInv(e)

-----------------------------------------------------------------------------
(* Type correctness.                                                       *)

\* The part of TypeOK this module adds.
DataTyped ==
    /\ pc \in [Eps -> OutPc]
    /\ outComplete \in [Eps -> BOOLEAN] /\ togOk \in BOOLEAN
    /\ rxToggle \in [Eps -> {0, 1}] /\ hostToggle \in [Eps -> {0, 1}]
    /\ bank \in [Eps -> Packets] /\ got \in [Eps -> Packets] /\ taken \in [Eps -> Packets]
    /\ hostOut \in [Eps -> 1 .. MaxPackets + 1]
    /\ origin \in [Eps -> [reset : 0 .. MaxResets, enable : 0 .. MaxEnables]]

\* The initial state is typed, and no packet was sent.
LEMMA InitTyped == Init => Typed
<1> SUFFICES ASSUME Init PROVE Typed
  OBVIOUS
<1>1. TransferTypeOK
  BY TransferInitTyped DEF Init
<1>2. outComplete \in [Eps -> BOOLEAN] /\ togOk \in BOOLEAN
  BY Zenon DEF Init
<1>3. [reset |-> 0, enable |-> 0] \in [reset : 0 .. MaxResets, enable : 0 .. MaxEnables]
  BY TransferAssumption DEF TransferAssumption
<1>4. DataTyped
  <2>1. pc \in [Eps -> OutPc]
    BY DEF Init, TransferInit, OutPc
  <2>2. /\ bank \in [Eps -> Packets] /\ got \in [Eps -> Packets] /\ taken \in [Eps -> Packets]
        /\ hostOut \in [Eps -> 1 .. MaxPackets + 1]
    BY OutAssumption DEF OutAssumption, Init, Packets
  <2>3. /\ rxToggle \in [Eps -> {0, 1}] /\ hostToggle \in [Eps -> {0, 1}]
        /\ origin \in [Eps -> [reset : 0 .. MaxResets, enable : 0 .. MaxEnables]]
    BY <1>3 DEF Init
  <2>4. QED BY <1>2, <2>1, <2>2, <2>3 DEF DataTyped
<1>5. ASSUME NEW e \in Eps PROVE TogglesAgree(e)
  <2>1. rxToggle[e] = 0 /\ hostToggle[e] = 0 /\ got[e] = 0 /\ hostOut[e] = 1
    BY DEF Init
  <2>2. QED BY <2>1 DEF TogglesAgree
<1>6. QED BY <1>1, <1>4, <1>5 DEF Typed, TypeOK, DataTyped

\* Moving to a program counter of read() or wait_enabled.
LEMMA GotoTyped ==
    ASSUME Typed, NEW e \in Eps, NEW there \in OutPc, Goto(e, there), UNCHANGED dataVars
    PROVE  DataTyped' /\ \A f \in Eps : TogglesAgree(f)'
BY DEF Typed, TypeOK, DataTyped, TogglesAgree, Goto, dataVars, hostVars, histVars

\* The steps of the owning task keep every variable in its type.
LEMMA TaskStepTyped ==
    ASSUME Typed, NEW e \in Eps,
           ReadBegin(e) \/ ReadStep(e) \/ ReadCancel(e) \/ Wait(e) \/ Poll(e)
    PROVE  Typed'
<1> SUFFICES TransferTypeOK' /\ DataTyped' /\ \A f \in Eps : TogglesAgree(f)'
  BY DEF Typed, TypeOK, DataTyped
<1>a. TransferTypeOK /\ TypeOK
  BY DEF Typed, TypeOK
<1> USE DEF OutPc, Owning, Polling, WaitPc
<1>1. CASE ReadBegin(e)
  BY <1>1, <1>a, FutureTyped, GotoTyped DEF ReadBegin, CheckEnabled
<1>2. CASE ReadSnapshot(e)
  BY <1>2, <1>a, SnapshotTyped, GotoTyped DEF ReadSnapshot, TakeSnapshot
<1>3. CASE ReadArmFails(e)
  BY <1>3, <1>a, FutureTyped, GotoTyped DEF ReadArmFails, ArmFails
<1>4. CASE ReadClaim(e)
  <2>1. TransferTypeOK'
    BY <1>4, <1>a DEF ReadClaim, CriticalSection, IrqPending, TransferTypeOK, epVars
  <2>2. outComplete' = [outComplete EXCEPT ![e] = FALSE]
    BY <1>4 DEF ReadClaim
  <2>3. outComplete' \in [Eps -> BOOLEAN]
    BY <2>2, <1>a, Zenon DEF TypeOK
  <2>4. QED
    BY <1>4, <2>1, <2>3, <1>a
    DEF ReadClaim, Goto, TypeOK, DataTyped, Typed, TogglesAgree, hostVars, histVars
<1>5. CASE ReadArm(e)
  BY <1>5, <1>a, ArmTyped, GotoTyped DEF ReadArm, ArmSucceeds
<1>6. CASE ReadClaimed(e)
  <2>1. TransferTypeOK'
    BY <1>6, <1>a DEF ReadClaimed, TransferTypeOK, busVars, epVars
  <2>2. QED BY <1>6, <2>1, GotoTyped DEF ReadClaimed
<1>7. CASE ReadRegister(e)
  BY <1>7, <1>a, FutureTyped, GotoTyped DEF ReadRegister, Register
<1>8. CASE ReadCheckLife(e)
  BY <1>8, <1>a, FutureTyped, GotoTyped DEF ReadCheckLife, CheckLife
<1>9. CASE ReadCheckDone(e)
  <2>1. TransferTypeOK'
    BY <1>9, <1>a, FutureTyped DEF ReadCheckDone
  <2>2. outComplete' \in [Eps -> BOOLEAN]
    <3>1. PICK b : outComplete' = [outComplete EXCEPT ![e] = outComplete[e] /\ b]
      BY <1>9 DEF ReadCheckDone
    <3>2. QED BY <3>1, <1>a, Zenon DEF TypeOK
  <2>3. QED
    BY <1>9, <2>1, <2>2, <1>a
    DEF ReadCheckDone, CheckDone, Goto, TypeOK, DataTyped, Typed, TogglesAgree, hostVars, histVars
<1>10. CASE ReadCopy(e)
  <2>1. TransferTypeOK'
    BY <1>10, <1>a DEF ReadCopy, TransferTypeOK, busVars, epVars
  <2>2. DataTyped'
    BY <1>10, <1>a DEF ReadCopy, Goto, TypeOK, DataTyped, hostVars
  <2>3. QED BY <1>10, <2>1, <2>2 DEF ReadCopy, Typed, TogglesAgree, hostVars
<1>11. CASE ReadDrop(e)
  BY <1>11, <1>a, FutureTyped, GotoTyped DEF ReadDrop, DropGuard
<1>12. CASE ReadCancel(e)
  BY <1>12, <1>a, FutureTyped, GotoTyped DEF ReadCancel, Cancel
<1>13. CASE Wait(e)
  <2>1. CASE WaitEnabled(e)
    BY <1>13, <2>1, <1>a, FutureTyped, GotoTyped DEF Wait, WaitEnabled
  <2>2. CASE WaitCheck(e)
    BY <1>13, <2>2, <1>a, FutureTyped, GotoTyped DEF Wait, WaitCheck
  <2>3. QED BY <1>13, <2>1, <2>2 DEF Wait
<1>14. CASE Poll(e)
  BY <1>14, <1>a, FutureTyped, GotoTyped DEF Poll, Resume
<1>15. QED
  BY <1>1, <1>2, <1>3, <1>4, <1>5, <1>6, <1>7, <1>8, <1>9, <1>10, <1>11, <1>12, <1>13, <1>14
     DEF ReadStep

\* Both ends going back to DATA0 keeps the data typed: a packet that has arrived
\* unknown to the host is one the host then gives up.
LEMMA ToggleTyped ==
    ASSUME Typed, NEW who, ToggleReset(who), UNCHANGED <<togOk, bank, histVars, pc>>,
           outComplete' \in [Eps -> BOOLEAN]
    PROVE  DataTyped' /\ \A f \in Eps : TogglesAgree(f)'
<1>1. ASSUME NEW f \in Eps
      PROVE  hostOut'[f] \in 1 .. MaxPackets + 1 /\ TogglesAgree(f)'
  <2>1. got[f] \in 0 .. MaxPackets /\ hostOut[f] \in 1 .. MaxPackets + 1 /\ TogglesAgree(f)
    BY DEF Typed, TypeOK, Packets
  <2>2. /\ rxToggle'[f] = IF f \in who THEN 0 ELSE rxToggle[f]
        /\ hostToggle'[f] = IF f \in who THEN 0 ELSE hostToggle[f]
        /\ hostOut'[f] = IF f \in who /\ rxToggle[f] # hostToggle[f]
                         THEN hostOut[f] + 1 ELSE hostOut[f]
        /\ got'[f] = got[f]
    BY DEF ToggleReset, histVars
  <2>3. QED BY <2>1, <2>2, OutAssumption DEF OutAssumption, TogglesAgree
<1>2. hostOut' \in [Eps -> 1 .. MaxPackets + 1]
  BY <1>1 DEF ToggleReset
<1>3. rxToggle' \in [Eps -> {0, 1}] /\ hostToggle' \in [Eps -> {0, 1}]
  BY DEF ToggleReset, Typed, TypeOK
<1>4. QED BY <1>1, <1>2, <1>3 DEF Typed, TypeOK, DataTyped, histVars

\* Discarding completions leaves them flags.
LEMMA ForgetTyped ==
    ASSUME Typed, NEW who, Forget(who)
    PROVE  outComplete' \in [Eps -> BOOLEAN]
<1>1. outComplete' = [e \in Eps |-> outComplete[e] /\ e \notin who]
  BY DEF Forget
<1>2. QED BY <1>1, Zenon

\* An OUT transaction keeps everything typed, and the host and the device agree
\* on who knows what.
LEMMA HostTyped ==
    ASSUME Typed, NEW e \in Eps, NEW acked \in BOOLEAN, HostSends(e, acked)
    PROVE  Typed'
<1>1. TransferTypeOK'
  BY DEF HostSends, Typed, TypeOK, TransferTypeOK, epVars, taskVars
<1>2. /\ got[e] \in Packets /\ hostOut[e] \in 1 .. MaxPackets /\ hostOut[e] \in Packets
      /\ rxToggle[e] \in {0, 1} /\ hostToggle[e] \in {0, 1} /\ TogglesAgree(e)
  BY OutAssumption DEF OutAssumption, HostSends, Typed, TypeOK, Packets
<1>3. bank' \in [Eps -> Packets] /\ got' \in [Eps -> Packets] /\ taken' \in [Eps -> Packets]
  BY <1>2 DEF HostSends, Typed, TypeOK
<1>4. rxToggle' \in [Eps -> {0, 1}] /\ hostToggle' \in [Eps -> {0, 1}]
  BY <1>2 DEF HostSends, Typed, TypeOK
<1>5. hostOut' \in [Eps -> 1 .. MaxPackets + 1]
  <2>1. hostOut[e] + 1 \in 1 .. MaxPackets + 1 /\ hostOut \in [Eps -> 1 .. MaxPackets + 1]
    BY <1>2, OutAssumption DEF OutAssumption, Typed, TypeOK
  <2>2. hostOut' = IF acked THEN [hostOut EXCEPT ![e] = hostOut[e] + 1] ELSE hostOut
    BY DEF HostSends
  <2>3. QED BY <2>1, <2>2
<1>6. origin' \in [Eps -> [reset : 0 .. MaxResets, enable : 0 .. MaxEnables]]
  BY DEF HostSends, Typed, TypeOK, TransferTypeOK
<1>7. togOk' \in BOOLEAN
  <2>1. togOk' = TRUE \/ togOk' = FALSE
    BY DEF HostSends
  <2>2. QED BY <2>1
<1>8. DataTyped'
  BY <1>3, <1>4, <1>5, <1>6, <1>7 DEF DataTyped, HostSends, Typed, TypeOK, taskVars
<1>9. ASSUME NEW f \in Eps PROVE TogglesAgree(f)'
  <2>1. CASE f = e
    <3>1. /\ got'[e] = IF rxToggle[e] = hostToggle[e] THEN hostOut[e] ELSE got[e]
          /\ rxToggle'[e] = IF rxToggle[e] = hostToggle[e] THEN 1 - rxToggle[e] ELSE rxToggle[e]
          /\ hostToggle'[e] = IF acked THEN 1 - hostToggle[e] ELSE hostToggle[e]
          /\ hostOut'[e] = IF acked THEN hostOut[e] + 1 ELSE hostOut[e]
      BY DEF HostSends, Typed, TypeOK
    <3>2. QED BY <2>1, <3>1, <1>2 DEF TogglesAgree
  <2>2. CASE f # e
    <3>1. /\ got'[f] = got[f] /\ rxToggle'[f] = rxToggle[f]
          /\ hostToggle'[f] = hostToggle[f] /\ hostOut'[f] = hostOut[f]
      BY <2>2 DEF HostSends, Typed, TypeOK
    <3>2. QED BY <3>1 DEF Typed, TogglesAgree
  <2>3. QED BY <2>1, <2>2
<1>10. QED BY <1>1, <1>8, <1>9 DEF Typed, TypeOK, DataTyped

\* So do the Bus methods, the host's reset and the handler.
LEMMA OtherStepTyped ==
    ASSUME Typed, NEW e \in Eps,
           \/ \E on \in BOOLEAN : OutSetEnabled(e, on)
           \/ \E stalled \in BOOLEAN : OutSetStalled(e, stalled)
           \/ (\E acked \in BOOLEAN : HostSends(e, acked)) \/ IsrOut(e) \/ IsrOutRepeated(e)
           \/ OutBusEnable \/ OutBusDisable \/ OutHostReset \/ OutReset
    PROVE  Typed'
<1> DEFINE Goal == TransferTypeOK' /\ DataTyped' /\ \A f \in Eps : TogglesAgree(f)'
<1>a. TransferTypeOK
  BY DEF Typed, TypeOK
<1>b. outComplete \in [Eps -> BOOLEAN]
  BY DEF Typed, TypeOK
<1>c. ASSUME UNCHANGED <<dataVars, pc>>
      PROVE  DataTyped' /\ \A f \in Eps : TogglesAgree(f)'
  BY <1>c DEF Typed, TypeOK, DataTyped, TogglesAgree, dataVars, hostVars, histVars
<1>1. ASSUME NEW on \in BOOLEAN, OutSetEnabled(e, on) PROVE Goal
  <2>1. (IF on THEN "ACK" ELSE "STALL") \in Responses
    BY DEF Responses
  <2>2. QED
    BY <1>1, <1>a, <2>1, BusTyped, ToggleTyped, ForgetTyped DEF OutSetEnabled, SetEnabled
<1>2. ASSUME NEW stalled \in BOOLEAN, OutSetStalled(e, stalled) PROVE Goal
  <2>1. (IF stalled THEN "STALL" ELSE IF outComplete[e] THEN "NAK" ELSE "ACK") \in Responses
    BY DEF Responses
  <2>2. QED
    BY <1>2, <1>a, <1>b, <2>1, BusTyped, ToggleTyped DEF OutSetStalled, SetStalled, taskVars
<1>3. ASSUME IsrOut(e) PROVE Goal
  <2>1. outComplete' = [outComplete EXCEPT ![e] = TRUE]
    BY <1>3 DEF IsrOut
  <2>2. outComplete' \in [Eps -> BOOLEAN]
    BY <2>1, <1>b, Zenon
  <2>3. QED
    BY <1>3, <1>a, <2>2, IsrTyped
    DEF IsrOut, IsrComplete, Typed, TypeOK, DataTyped, TogglesAgree, hostVars, histVars
<1>4. ASSUME IsrOutRepeated(e) PROVE Goal
  <2>1. TransferTypeOK'
    BY <1>4, <1>a DEF IsrOutRepeated, IsrRetire, TransferTypeOK, epVars, taskVars
  <2>2. QED BY <1>4, <2>1, <1>c DEF IsrOutRepeated, taskVars
<1>5. ASSUME OutBusEnable PROVE Goal
  BY <1>5, <1>a, BusTyped, ToggleTyped, ForgetTyped
  DEF OutBusEnable, BusEnable, taskVars, Responses
<1>6. ASSUME OutBusDisable PROVE Goal
  BY <1>6, <1>a, <1>c, BusTyped DEF OutBusDisable, BusDisable, Responses
<1>7. ASSUME OutHostReset PROVE Goal
  BY <1>7, <1>a, <1>c, BusTyped DEF OutHostReset, HostReset, taskVars, Responses
<1>8. ASSUME OutReset PROVE Goal
  BY <1>8, <1>a, IsrTyped, ToggleTyped, ForgetTyped DEF OutReset, IsrReset
<1>9. Goal => Typed'
  BY DEF Typed, TypeOK, DataTyped
<1>10. CASE \E acked \in BOOLEAN : HostSends(e, acked)
  BY <1>10, HostTyped
<1>11. QED BY <1>1, <1>2, <1>3, <1>4, <1>5, <1>6, <1>7, <1>8, <1>9, <1>10

\* Typing, with the agreement of the data PIDs, is inductive by itself.
LEMMA StepTyped == Typed /\ [Next]_vars => Typed'
<1> SUFFICES ASSUME Typed, [Next]_vars PROVE Typed'
  OBVIOUS
<1>1. CASE UNCHANGED vars
  BY <1>1 DEF vars, busVars, epVars, taskVars, dataVars, hostVars, histVars, Typed, TypeOK,
              TransferTypeOK, TogglesAgree
<1>2. ASSUME NEW e \in Eps,
             ReadBegin(e) \/ ReadStep(e) \/ ReadCancel(e) \/ Wait(e) \/ Poll(e)
      PROVE  Typed'
  BY <1>2, TaskStepTyped
<1>3. ASSUME NEW e \in Eps,
             \/ \E on \in BOOLEAN : OutSetEnabled(e, on)
             \/ \E stalled \in BOOLEAN : OutSetStalled(e, stalled)
             \/ (\E acked \in BOOLEAN : HostSends(e, acked)) \/ IsrOut(e) \/ IsrOutRepeated(e)
      PROVE  Typed'
  BY <1>3, OtherStepTyped
<1>4. CASE OutBusEnable \/ OutBusDisable \/ OutHostReset \/ OutReset
  <2>1. PICK e : e \in Eps
    BY TransferAssumption DEF TransferAssumption
  <2>2. QED BY <1>4, <2>1, OtherStepTyped
<1>5. QED BY <1>1, <1>2, <1>3, <1>4 DEF Next

\* Every variable keeps its type, also the bounded counters of the host: with
\* repeated enables and traffic under a disable too.
THEOREM TypeCorrect == Spec => []TypeOK
<1>1. Typed => TypeOK
  BY DEF Typed
<1>2. QED BY <1>1, InitTyped, StepTyped, PTL DEF Spec

-----------------------------------------------------------------------------
(* The invariant is kept.                                                  *)

\* What the configuration of the runs says: an enabled endpoint is not enabled
\* again, and a packet does not arrive while its endpoint is being disabled.
OrdinaryUse == RepeatEnable = FALSE /\ TrafficInDisable = FALSE

\* It holds at the start: nothing is armed, latched or sent.
LEMMA InitInv == Init => IInv
<1> SUFFICES ASSUME Init PROVE IInv
  OBVIOUS
<1>1. ASSUME NEW e \in Eps PROVE EpInv(e)
  <2>1. /\ usbOn = FALSE /\ xfer # e /\ enabled[e] = FALSE /\ outComplete[e] = FALSE
        /\ pc[e] = "idle" /\ got[e] = 0 /\ taken[e] = 0 /\ enableGen[e] = 0
        /\ snap[e].enable = 0 /\ origin[e].enable = 0
    BY TransferAssumption DEF TransferAssumption, Init, TransferInit
  <2>2. QED
    BY <2>1
    DEF EpInv, EnabledIsOn, ArmedIsFree, LatchedIsFree, CompleteIsEnabled, CompleteIsFresh,
        RepeatIsKnown, CompletionIsOurs, HeldIsOurs, PastInstances, PendingIsArmed, NotLost,
        Polling, Holding
<1>2. QED BY <1>1, InitTyped DEF IInv

\* An endpoint that a step leaves alone keeps its invariant.
LEMMA OthersKept ==
    ASSUME NEW e, EpInv(e),
           resetGen' = resetGen, usbOn' = usbOn,
           (xfer' = xfer /\ togOk' = togOk) \/ (xfer # e /\ xfer' # e),
           enabled'[e] = enabled[e], enableGen'[e] = enableGen[e],
           doneGen'[e] = doneGen[e], response'[e] = response[e],
           pc'[e] = pc[e], snap'[e] = snap[e], outComplete'[e] = outComplete[e],
           bank'[e] = bank[e], got'[e] = got[e], origin'[e] = origin[e], taken'[e] = taken[e]
    PROVE  EpInv(e)'
<1> USE DEF EpInv, Valid, Fresh, Polling, Holding
<1>1. EnabledIsOn(e)' /\ ArmedIsFree(e)' /\ LatchedIsFree(e)' /\ CompleteIsEnabled(e)'
  BY DEF EnabledIsOn, ArmedIsFree, LatchedIsFree, CompleteIsEnabled
<1>2. CompleteIsFresh(e)' /\ RepeatIsKnown(e)' /\ NotLost(e)'
  BY DEF CompleteIsFresh, RepeatIsKnown, NotLost
<1>3. CompletionIsOurs(e)' /\ HeldIsOurs(e)' /\ PastInstances(e)' /\ PendingIsArmed(e)'
  BY DEF CompletionIsOurs, HeldIsOurs, PastInstances, PendingIsArmed
<1>4. QED BY <1>1, <1>2, <1>3

\* The steps of the owning task preserve the invariant.
LEMMA TaskStepInv ==
    ASSUME IInv, NEW e \in Eps,
           ReadBegin(e) \/ ReadStep(e) \/ ReadCancel(e) \/ Wait(e) \/ Poll(e)
    PROVE  \A f \in Eps : EpInv(f)'
<1> DEFINE Frame ==
      /\ resetGen' = resetGen /\ usbOn' = usbOn /\ xfer' = xfer /\ togOk' = togOk
      /\ enabled' = enabled /\ enableGen' = enableGen /\ doneGen' = doneGen
      /\ bank' = bank /\ got' = got /\ origin' = origin
      /\ \A f \in Eps \ {e} :
           /\ response'[f] = response[f] /\ pc'[f] = pc[f] /\ snap'[f] = snap[f]
           /\ outComplete'[f] = outComplete[f] /\ taken'[f] = taken[f]
    Same ==
      /\ response' = response /\ snap' = snap /\ outComplete' = outComplete /\ taken' = taken
<1>a. /\ TypeOK /\ TransferTypeOK /\ EpInv(e) /\ NoEp \notin Eps
      /\ pc \in [Eps -> OutPc] /\ response \in [Eps -> Responses]
      /\ snap \in [Eps -> Snapshots] /\ outComplete \in [Eps -> BOOLEAN]
      /\ taken \in [Eps -> Packets]
  BY TransferAssumption DEF TransferAssumption, IInv, Typed, TypeOK, TransferTypeOK
<1>b. ASSUME Frame, EpInv(e)' PROVE \A f \in Eps : EpInv(f)'
  <2>1. ASSUME NEW f \in Eps, f # e PROVE EpInv(f)'
    BY <1>b, <2>1, OthersKept DEF IInv
  <2>2. QED BY <1>b, <2>1
<1> USE DEF EpInv, EnabledIsOn, ArmedIsFree, LatchedIsFree, CompleteIsEnabled, CompleteIsFresh,
            RepeatIsKnown, CompletionIsOurs, HeldIsOurs, PastInstances, PendingIsArmed, NotLost,
            Valid, Fresh, Polling, Holding, Owning, Goto, dataVars, hostVars, histVars
<1>1. CASE ReadBegin(e)
  <2>1. Frame /\ Same /\ pc[e] = "idle" /\ pc'[e] = "snap"
    BY <1>1, <1>a DEF ReadBegin, CheckEnabled, busVars, epVars
  <2>2. QED BY <1>b, <2>1, <1>a
<1>2. CASE ReadSnapshot(e)
  <2>1. /\ Frame /\ pc[e] = "snap" /\ pc'[e] = "arm"
        /\ response' = response /\ outComplete' = outComplete /\ taken' = taken
        /\ snap'[e].enable = enableGen[e]
    BY <1>2, <1>a DEF ReadSnapshot, TakeSnapshot, busVars, epVars, Snapshots
  <2>2. enableGen[e] \in Nat
    BY <1>a, TransferAssumption DEF TransferAssumption, TransferTypeOK
  <2>3. PastInstances(e)' /\ HeldIsOurs(e)'
    BY <2>1, <2>2, <1>a
  <2>4. EpInv(e)'
    BY <2>1, <2>3, <1>a
  <2>5. QED BY <1>b, <2>1, <2>4
<1>3. CASE ReadArmFails(e)
  <2>1. Frame /\ Same /\ pc[e] = "arm" /\ pc'[e] = "idle"
    BY <1>3, <1>a DEF ReadArmFails, ArmFails, CriticalSection, epVars
  <2>2. QED BY <1>b, <2>1, <1>a
<1>4. CASE ReadClaim(e)
  <2>1. /\ Frame /\ response' = response /\ snap' = snap /\ taken' = taken
        /\ pc[e] = "arm" /\ pc'[e] = "owned" /\ Valid(e) /\ outComplete[e] /\ ~outComplete'[e]
    BY <1>4, <1>a DEF ReadClaim, CriticalSection, epVars
  <2>2. QED BY <1>b, <2>1, <1>a
<1>5. CASE ReadArm(e)
  <2>1. /\ Frame /\ outComplete' = outComplete /\ taken' = taken
        /\ pc[e] = "arm" /\ pc'[e] = "poll" /\ Valid(e) /\ ~outComplete[e]
        /\ response'[e] = "ACK" /\ snap'[e].done = doneGen[e]
        /\ snap'[e].reset = snap[e].reset /\ snap'[e].enable = snap[e].enable
    BY <1>5, <1>a DEF ReadArm, ArmSucceeds, CriticalSection, Snapshots
  <2>2. QED BY <1>b, <2>1, <1>a
<1>6. CASE ReadClaimed(e)
  <2>1. /\ Frame /\ Same /\ pc[e] = "owned"
        /\ pc'[e] = IF Valid(e) THEN "copy" ELSE "idle"
    BY <1>6, <1>a DEF ReadClaimed, busVars, epVars
  <2>2. CASE Valid(e)
    BY <1>b, <2>1, <2>2, <1>a
  <2>3. CASE ~Valid(e)
    BY <1>b, <2>1, <2>3, <1>a
  <2>4. QED BY <2>2, <2>3
<1>7. CASE ReadRegister(e)
  <2>1. \/ Frame /\ Same /\ pc[e] = "poll" /\ pc'[e] = "life"
        \/ Frame /\ Same /\ pc[e] = "wpoll" /\ pc'[e] = "wcheck"
    BY <1>7, <1>a DEF ReadRegister, Register, busVars, epVars
  <2>2. CASE pc[e] = "poll"
    BY <1>b, <2>1, <2>2, <1>a
  <2>3. CASE pc[e] = "wpoll"
    BY <1>b, <2>1, <2>3, <1>a
  <2>4. QED BY <2>1, <2>2, <2>3
<1>8. CASE ReadCheckLife(e)
  <2>1. /\ Frame /\ Same /\ pc[e] = "life"
        /\ pc'[e] = IF Valid(e) THEN "done" ELSE "drop"
    BY <1>8, <1>a DEF ReadCheckLife, CheckLife, busVars, epVars
  <2>2. QED BY <1>b, <2>1, <1>a
<1>9. CASE ReadCheckDone(e)
  <2>1. /\ Frame /\ response' = response /\ snap' = snap /\ taken' = taken
        /\ pc[e] = "done" /\ xfer = NoEp
        /\ pc'[e] = IF doneGen[e] # snap[e].done THEN "copy" ELSE "await"
        /\ outComplete'[e] <=> outComplete[e] /\ pc'[e] # "copy"
    BY <1>9, <1>a DEF ReadCheckDone, CheckDone, Unmasked, IrqPending, busVars, epVars
  <2>2. CASE doneGen[e] # snap[e].done
    BY <1>b, <2>1, <2>2, <1>a
  <2>3. CASE doneGen[e] = snap[e].done
    BY <1>b, <2>1, <2>3, <1>a
  <2>4. QED BY <2>2, <2>3
<1>10. CASE ReadCopy(e)
  <2>1. /\ Frame /\ response' = response /\ snap' = snap /\ outComplete' = outComplete
        /\ pc[e] = "copy" /\ pc'[e] = "idle" /\ taken'[e] = bank[e] /\ xfer = NoEp
    BY <1>10, <1>a DEF ReadCopy, Unmasked, IrqPending, busVars, epVars
  <2>2. got[e] \in Nat
    BY <1>a, OutAssumption DEF OutAssumption, TypeOK, Packets
  <2>3. QED BY <1>b, <2>1, <2>2, <1>a
<1>11. CASE ReadDrop(e)
  <2>1. /\ Frame /\ snap' = snap /\ outComplete' = outComplete /\ taken' = taken
        /\ pc[e] = "drop" /\ pc'[e] = "idle"
        /\ response'[e] = response[e] \/ response'[e] = "NAK"
    BY <1>11, <1>a DEF ReadDrop, DropGuard, CriticalSection
  <2>2. QED BY <1>b, <2>1, <1>a
<1>12. CASE ReadCancel(e)
  <2>1. /\ Frame /\ Same /\ pc[e] \in {"await", "wait"} /\ pc'[e] \in {"drop", "idle"}
    BY <1>12, <1>a DEF ReadCancel, Cancel, busVars, epVars
  <2>2. QED BY <1>b, <2>1, <1>a
<1>13. CASE Wait(e)
  <2>1. Frame /\ Same /\ pc[e] \in {"idle", "wcheck"} /\ pc'[e] \in {"idle", "wpoll", "wait"}
    BY <1>13, <1>a DEF Wait, WaitEnabled, WaitCheck, busVars, epVars
  <2>2. QED BY <1>b, <2>1, <1>a
<1>14. CASE Poll(e)
  <2>1. \/ Frame /\ Same /\ pc[e] = "await" /\ pc'[e] = "poll"
        \/ Frame /\ Same /\ pc[e] = "wait" /\ pc'[e] = "wpoll"
    BY <1>14, <1>a DEF Poll, Resume, busVars, epVars
  <2>2. CASE pc[e] = "await"
    BY <1>b, <2>1, <2>2, <1>a
  <2>3. CASE pc[e] = "wait"
    BY <1>b, <2>1, <2>3, <1>a
  <2>4. QED BY <2>1, <2>2, <2>3
<1>15. QED
  BY <1>1, <1>2, <1>3, <1>4, <1>5, <1>6, <1>7, <1>8, <1>9, <1>10, <1>11, <1>12, <1>13, <1>14
     DEF ReadStep

\* A critical section of the control task in which an endpoint gets a new
\* instance or is halted, or no longer is, preserves the invariant.
LEMMA ControlStepInv ==
    ASSUME IInv, OrdinaryUse, NEW e \in Eps,
           \/ \E on \in BOOLEAN : OutSetEnabled(e, on)
           \/ \E stalled \in BOOLEAN : OutSetStalled(e, stalled)
    PROVE  \A f \in Eps : EpInv(f)'
<1>a. /\ TypeOK /\ TransferTypeOK /\ EpInv(e) /\ NoEp \notin Eps
      /\ response \in [Eps -> Responses] /\ outComplete \in [Eps -> BOOLEAN]
      /\ enabled \in [Eps -> BOOLEAN] /\ enableGen \in [Eps -> 0 .. MaxEnables]
      /\ enableGen[e] \in Nat /\ snap[e].enable \in Nat /\ origin[e].enable \in Nat
  BY TransferAssumption
  DEF TransferAssumption, IInv, Typed, TypeOK, TransferTypeOK, Snapshots
<1>b. /\ usbOn' = usbOn /\ resetGen' = resetGen /\ xfer' = xfer /\ togOk' = togOk
      /\ UNCHANGED <<doneGen, pc, snap, bank, got, origin, taken>>
      /\ usbOn /\ pc[e] \in Suspended
  BY DEF OutSetEnabled, OutSetStalled, SetEnabled, SetStalled, CriticalSection, TaskFree,
         taskVars, histVars
<1>c. pc[e] \notin Holding /\ pc[e] # "done"
  BY <1>b DEF Suspended, Holding
<1>1. ASSUME NEW f \in Eps, f # e PROVE EpInv(f)'
  <2>1. /\ enabled'[f] = enabled[f] /\ enableGen'[f] = enableGen[f]
        /\ response'[f] = response[f]
    BY <1>1, <1>a DEF OutSetEnabled, OutSetStalled, SetEnabled, SetStalled
  <2>2. outComplete'[f] = outComplete[f]
    BY <1>1, <1>a DEF OutSetEnabled, OutSetStalled, Forget
  <2>3. QED BY <1>b, <2>1, <2>2, OthersKept DEF IInv
<1> USE DEF EpInv, EnabledIsOn, ArmedIsFree, LatchedIsFree, CompleteIsEnabled, CompleteIsFresh,
            RepeatIsKnown, CompletionIsOurs, HeldIsOurs, PastInstances, PendingIsArmed, NotLost,
            Valid, Fresh
<1>2. ASSUME OutSetEnabled(e, TRUE) PROVE EpInv(e)'
  <2>1. /\ ~enabled[e] /\ enabled'[e] /\ response'[e] = "ACK"
        /\ enableGen'[e] = enableGen[e] + 1 /\ outComplete'[e] = outComplete[e]
    BY <1>2, <1>a DEF OutSetEnabled, SetEnabled, OrdinaryUse, Forget
  <2>2. ~outComplete[e] /\ xfer # e
    BY <2>1, <1>a, <1>b
  <2>3. ~Valid(e)'
    BY <2>1, <1>a, <1>b
  <2>4. origin[e] # [reset |-> resetGen, enable |-> enableGen'[e]]
    BY <2>1, <1>a
  <2>5. QED BY <1>a, <1>b, <1>c, <2>1, <2>2, <2>3, <2>4
<1>3. ASSUME OutSetEnabled(e, FALSE) PROVE EpInv(e)'
  <2>1. /\ ~enabled'[e] /\ response'[e] = "STALL" /\ xfer # e
        /\ enableGen'[e] = enableGen[e] + 1 /\ ~outComplete'[e]
    BY <1>3, <1>a DEF OutSetEnabled, SetEnabled, OrdinaryUse, Forget
  <2>2. QED BY <1>a, <1>b, <1>c, <2>1
<1>4. ASSUME NEW stalled \in BOOLEAN, OutSetStalled(e, stalled) PROVE EpInv(e)'
  <2>1. /\ enabled' = enabled /\ enableGen' = enableGen /\ outComplete' = outComplete
        /\ enabled[e]
        /\ response'[e] = IF stalled THEN "STALL" ELSE IF outComplete[e] THEN "NAK" ELSE "ACK"
    BY <1>4, <1>a DEF OutSetStalled, SetStalled
  <2>2. Valid(e)' = Valid(e)
    BY <2>1, <1>b
  <2>3. ArmedIsFree(e)' /\ PendingIsArmed(e)'
    BY <2>1, <2>2, <1>a, <1>b, <1>c
  <2>4. QED BY <2>1, <2>2, <2>3, <1>a, <1>b, <1>c
<1>5. ASSUME NEW on \in BOOLEAN, OutSetEnabled(e, on) PROVE EpInv(e)'
  <2>1. CASE on = TRUE
    BY <1>2, <1>5, <2>1
  <2>2. CASE on = FALSE
    BY <1>3, <1>5, <2>2
  <2>3. QED BY <2>1, <2>2
<1> HIDE DEF EpInv
<1>6. EpInv(e)'
  BY <1>4, <1>5
<1>7. QED BY <1>1, <1>6

\* An OUT transaction preserves it: the bank was free.
LEMMA HostStepInv ==
    ASSUME IInv, NEW e \in Eps, NEW acked \in BOOLEAN, HostSends(e, acked)
    PROVE  \A f \in Eps : EpInv(f)'
<1>a. /\ TypeOK /\ EpInv(e) /\ TogglesAgree(e) /\ NoEp \notin Eps
      /\ bank \in [Eps -> Packets] /\ got \in [Eps -> Packets]
      /\ got[e] \in Nat /\ taken[e] \in Nat /\ hostOut[e] \in Nat
  BY TransferAssumption, OutAssumption
  DEF TransferAssumption, OutAssumption, IInv, Typed, TypeOK, Packets
<1>b. /\ usbOn /\ xfer = NoEp /\ response[e] = "ACK" /\ xfer' = e
      /\ UNCHANGED <<usbOn, resetGen, enabled, enableGen, doneGen, response, pc, snap,
                     outComplete, taken>>
      /\ bank'[e] = hostOut[e]
  BY <1>a DEF HostSends, SieReady, epVars, taskVars
<1>1. ASSUME NEW f \in Eps, f # e PROVE EpInv(f)'
  <2>1. bank'[f] = bank[f] /\ got'[f] = got[f] /\ origin'[f] = origin[f]
    BY <1>1 DEF HostSends, IInv, Typed, TypeOK
  <2>2. QED BY <1>a, <1>b, <1>1, <2>1, OthersKept DEF IInv
<1>2. /\ ~outComplete[e] /\ pc[e] \notin Holding /\ enabled[e]
      /\ ~(pc[e] = "done" /\ ~Valid(e))
  BY <1>a, <1>b DEF EpInv, ArmedIsFree, CompletionIsOurs
<1>3. pc[e] \in Polling /\ Valid(e) => doneGen[e] = snap[e].done
  BY <1>a, <1>2 DEF EpInv, CompletionIsOurs
<1>4. pc[e] = "done" => doneGen[e] = snap[e].done
  BY <1>2, <1>3 DEF Polling
<1>5. Valid(e)' = Valid(e)
  BY <1>b DEF Valid
<1> USE DEF EpInv, EnabledIsOn, ArmedIsFree, LatchedIsFree, CompleteIsEnabled, CompleteIsFresh,
            RepeatIsKnown, CompletionIsOurs, HeldIsOurs, PastInstances, PendingIsArmed, NotLost,
            Fresh
<1>6. CASE rxToggle[e] = hostToggle[e]
  <2>1. /\ togOk' = TRUE /\ got'[e] = hostOut[e] /\ got[e] < hostOut[e]
        /\ origin'[e] = [reset |-> resetGen, enable |-> enableGen[e]]
    BY <1>6, <1>a DEF HostSends, TogglesAgree, TypeOK
  <2>2. enableGen[e] \in Nat
    BY <1>a, TransferAssumption DEF TransferAssumption, TypeOK, TransferTypeOK
  <2>3. EnabledIsOn(e)' /\ ArmedIsFree(e)' /\ LatchedIsFree(e)' /\ CompleteIsEnabled(e)'
    BY <1>a, <1>b, <1>2
  <2>4. CompleteIsFresh(e)' /\ RepeatIsKnown(e)' /\ PastInstances(e)' /\ NotLost(e)'
    BY <1>a, <1>b, <1>2, <2>1, <2>2
  <2>5. CompletionIsOurs(e)' /\ HeldIsOurs(e)' /\ PendingIsArmed(e)'
    BY <1>a, <1>b, <1>2, <1>3, <1>4, <1>5
  <2> HIDE DEF EnabledIsOn, ArmedIsFree, LatchedIsFree, CompleteIsEnabled, CompleteIsFresh,
               RepeatIsKnown, CompletionIsOurs, HeldIsOurs, PastInstances, PendingIsArmed,
               NotLost
  <2>6. EpInv(e)'
    BY <2>3, <2>4, <2>5
  <2> HIDE DEF EpInv
  <2>7. QED BY <1>1, <2>6
<1>7. CASE rxToggle[e] # hostToggle[e]
  <2>1. togOk' = FALSE /\ got' = got /\ origin' = origin /\ got[e] = hostOut[e]
    BY <1>7, <1>a DEF HostSends, TogglesAgree
  <2>2. EnabledIsOn(e)' /\ ArmedIsFree(e)' /\ LatchedIsFree(e)' /\ CompleteIsEnabled(e)'
    BY <1>a, <1>b, <1>2
  <2>3. CompleteIsFresh(e)' /\ RepeatIsKnown(e)' /\ PastInstances(e)' /\ NotLost(e)'
    BY <1>a, <1>b, <1>2, <2>1
  <2>4. CompletionIsOurs(e)' /\ HeldIsOurs(e)' /\ PendingIsArmed(e)'
    BY <1>a, <1>b, <1>2, <1>3, <1>4, <1>5
  <2> HIDE DEF EnabledIsOn, ArmedIsFree, LatchedIsFree, CompleteIsEnabled, CompleteIsFresh,
               RepeatIsKnown, CompletionIsOurs, HeldIsOurs, PastInstances, PendingIsArmed,
               NotLost
  <2>5. EpInv(e)'
    BY <2>2, <2>3, <2>4
  <2> HIDE DEF EpInv
  <2>6. QED BY <1>1, <2>5
<1>8. QED BY <1>6, <1>7

\* The handler's increment always shows in the counter: its width is not one.
LEMMA IncrementShows ==
    ASSUME NEW g \in Generations
    PROVE  (g + 1) % CompletionModulus # g
<1>1. CASE g + 1 = CompletionModulus
  BY <1>1, TransferAssumption DEF TransferAssumption, Generations
<1>2. CASE g + 1 # CompletionModulus
  BY <1>2, TransferAssumption DEF TransferAssumption, Generations
<1>3. QED BY <1>1, <1>2

\* The handler and the methods that concern the whole bus preserve it.
LEMMA BusStepInv ==
    ASSUME IInv, NEW e \in Eps,
           \/ IsrOut(e) \/ IsrOutRepeated(e)
           \/ OutBusEnable \/ OutBusDisable \/ OutHostReset \/ OutReset
    PROVE  \A f \in Eps : EpInv(f)'
<1>a. /\ TypeOK /\ TransferTypeOK /\ NoEp \notin Eps
      /\ \A f \in Eps : EpInv(f) /\ snap[f].enable \in Nat
      /\ resetGen \in Nat
      /\ \A f \in Eps : snap[f].reset \in Nat /\ origin[f].reset \in Nat
  BY TransferAssumption
  DEF TransferAssumption, IInv, Typed, TypeOK, TransferTypeOK, Snapshots
<1>1. CASE IsrOut(e)
  <2>1. /\ xfer = e /\ togOk /\ xfer' = NoEp
        /\ UNCHANGED <<usbOn, resetGen, togOk, enabled, enableGen, pc, snap, bank, got,
                       origin, taken>>
        /\ response'[e] = "NAK" /\ outComplete'[e] /\ doneGen'[e] # doneGen[e]
        /\ \A f \in Eps \ {e} : /\ response'[f] = response[f] /\ doneGen'[f] = doneGen[f]
                                /\ outComplete'[f] = outComplete[f]
    BY <1>1, <1>a, IncrementShows
    DEF IsrOut, IsrComplete, IsrRetire, TypeOK, TransferTypeOK, hostVars, histVars
  <2>2. ASSUME NEW f \in Eps, f # e PROVE EpInv(f)'
    <3>1. xfer # f /\ xfer' # f /\ EpInv(f)
      BY <1>a, <2>1, <2>2
    <3>2. /\ doneGen'[f] = doneGen[f] /\ response'[f] = response[f]
          /\ outComplete'[f] = outComplete[f]
      BY <2>1, <2>2
    <3>3. QED BY <2>1, <3>1, <3>2, OthersKept
  <2>3. Valid(e)' = Valid(e)
    BY <2>1 DEF Valid
  <2>4. EpInv(e) /\ ~outComplete[e] /\ pc[e] \notin Holding
    BY <1>a, <2>1 DEF EpInv, LatchedIsFree
  <2>5. xfer' # e /\ usbOn /\ enabled[e]
    BY <1>a, <2>1, <2>4 DEF EpInv, LatchedIsFree
  <2>6. EnabledIsOn(e)' /\ ArmedIsFree(e)' /\ LatchedIsFree(e)' /\ CompleteIsEnabled(e)'
    BY <2>1, <2>5 DEF EnabledIsOn, ArmedIsFree, LatchedIsFree, CompleteIsEnabled
  <2>7. CompleteIsFresh(e)' /\ RepeatIsKnown(e)' /\ PastInstances(e)' /\ NotLost(e)'
    BY <2>1, <2>4, <2>5 DEF EpInv, CompleteIsFresh, RepeatIsKnown, PastInstances, NotLost, Fresh
  <2>8. CompletionIsOurs(e)' /\ PendingIsArmed(e)'
    BY <2>1, <2>3, <2>4, <2>5 DEF EpInv, CompletionIsOurs, PendingIsArmed
  <2>9. HeldIsOurs(e)'
    <3>1. pc[e] = "done" => Valid(e)
      BY <2>1, <2>4 DEF EpInv, CompletionIsOurs
    <3>2. QED
      BY <2>1, <2>4, <3>1 DEF EpInv, CompleteIsFresh, HeldIsOurs, Fresh, Valid
  <2>10. QED BY <2>2, <2>6, <2>7, <2>8, <2>9 DEF EpInv
<1>2. CASE IsrOutRepeated(e)
  <2>1. /\ xfer = e /\ ~togOk /\ xfer' = NoEp
        /\ UNCHANGED <<usbOn, resetGen, togOk, enabled, enableGen, doneGen, response, pc, snap,
                       outComplete, bank, got, origin, taken>>
    BY <1>2 DEF IsrOutRepeated, IsrRetire, epVars, taskVars, dataVars, histVars
  <2>2. ASSUME NEW f \in Eps, f # e PROVE EpInv(f)'
    BY <1>a, <2>1, <2>2, OthersKept
  <2>3. EpInv(e)'
    BY <1>a, <2>1
    DEF EpInv, EnabledIsOn, ArmedIsFree, LatchedIsFree, CompleteIsEnabled, CompleteIsFresh,
        RepeatIsKnown, CompletionIsOurs, HeldIsOurs, PastInstances, PendingIsArmed, NotLost,
        Fresh, Polling, Valid
  <2>4. QED BY <2>2, <2>3
<1>3. CASE OutBusEnable
  <2>1. ASSUME NEW f \in Eps PROVE EpInv(f)'
    <3>1. /\ pc[f] \in Suspended /\ ~enabled'[f] /\ response'[f] = "STALL" /\ xfer' # f
          /\ ~outComplete'[f] /\ usbOn'
          /\ UNCHANGED <<enableGen, doneGen, pc, snap, bank, got, origin, taken>>
      BY <1>3, <1>a DEF OutBusEnable, BusEnable, Forget, taskVars, histVars, TaskFree
    <3>2. pc[f] \notin Holding /\ pc[f] # "done"
      BY <3>1 DEF Suspended, Holding
    <3>3. QED
      BY <1>a, <3>1, <3>2
      DEF EpInv, EnabledIsOn, ArmedIsFree, LatchedIsFree, CompleteIsEnabled, CompleteIsFresh,
          RepeatIsKnown, CompletionIsOurs, HeldIsOurs, PastInstances, PendingIsArmed, NotLost,
          Fresh, Valid
  <2>2. QED BY <2>1
<1>4. CASE OutBusDisable
  <2>1. ASSUME NEW f \in Eps PROVE EpInv(f)'
    <3>1. /\ pc[f] \in Suspended /\ ~enabled'[f] /\ xfer' # f /\ ~usbOn'
          /\ UNCHANGED <<enableGen, doneGen, pc, snap, bank, got, origin, taken>>
      BY <1>4, <1>a DEF OutBusDisable, BusDisable, dataVars, histVars, TaskFree
    <3>2. pc[f] \notin Holding /\ pc[f] # "done"
      BY <3>1 DEF Suspended, Holding
    <3>3. QED
      BY <1>a, <3>1, <3>2
      DEF EpInv, EnabledIsOn, ArmedIsFree, LatchedIsFree, CompleteIsEnabled, CompleteIsFresh,
          RepeatIsKnown, CompletionIsOurs, HeldIsOurs, PastInstances, PendingIsArmed, NotLost,
          Fresh, Valid
  <2>2. QED BY <2>1
<1>5. CASE OutHostReset
  <2>1. UNCHANGED <<usbOn, xfer, togOk, resetGen, enabled, enableGen, doneGen, response, pc,
                    snap, outComplete, bank, got, origin, taken>>
    BY <1>5 DEF OutHostReset, HostReset, epVars, taskVars, dataVars, histVars
  <2>2. QED BY <1>a, <2>1, OthersKept
<1>6. CASE OutReset
  <2>1. ASSUME NEW f \in Eps PROVE EpInv(f)'
    <3>1. /\ ~enabled'[f] /\ response'[f] = "STALL" /\ xfer' # f /\ ~outComplete'[f]
          /\ UNCHANGED <<enableGen, doneGen, pc, snap, bank, got, origin, taken>>
      BY <1>6, <1>a DEF OutReset, IsrReset, Forget, histVars
    <3>2. QED
      BY <1>a, <3>1
      DEF EpInv, EnabledIsOn, ArmedIsFree, LatchedIsFree, CompleteIsEnabled, CompleteIsFresh,
          RepeatIsKnown, CompletionIsOurs, HeldIsOurs, PastInstances, PendingIsArmed, NotLost,
          Fresh, Valid
  <2>2. QED BY <2>1
<1>7. QED BY <1>1, <1>2, <1>3, <1>4, <1>5, <1>6

\* Every step preserves the invariant.
LEMMA StepInv == OrdinaryUse /\ IInv /\ [Next]_vars => IInv'
<1> SUFFICES ASSUME OrdinaryUse, IInv, [Next]_vars PROVE IInv'
  OBVIOUS
<1>1. Typed'
  BY StepTyped DEF IInv
<1>2. CASE UNCHANGED vars
  <2>1. UNCHANGED <<usbOn, xfer, togOk, resetGen, enabled, enableGen, doneGen, response, pc,
                    snap, outComplete, bank, got, origin, taken>>
    BY <1>2 DEF vars, busVars, epVars, taskVars, dataVars, histVars
  <2>2. \A f \in Eps : EpInv(f)'
    BY <2>1, OthersKept DEF IInv
  <2>3. QED BY <1>1, <2>2 DEF IInv
<1>3. ASSUME NEW e \in Eps,
             ReadBegin(e) \/ ReadStep(e) \/ ReadCancel(e) \/ Wait(e) \/ Poll(e)
      PROVE  IInv'
  BY <1>1, <1>3, TaskStepInv DEF IInv
<1>4. ASSUME NEW e \in Eps,
             \/ \E on \in BOOLEAN : OutSetEnabled(e, on)
             \/ \E stalled \in BOOLEAN : OutSetStalled(e, stalled)
      PROVE  IInv'
  BY <1>1, <1>4, ControlStepInv DEF IInv
<1>5. ASSUME NEW e \in Eps, NEW acked \in BOOLEAN, HostSends(e, acked) PROVE IInv'
  BY <1>1, <1>5, HostStepInv DEF IInv
<1>6. ASSUME NEW e \in Eps, IsrOut(e) \/ IsrOutRepeated(e) PROVE IInv'
  BY <1>1, <1>6, BusStepInv DEF IInv
<1>7. CASE OutBusEnable \/ OutBusDisable \/ OutHostReset \/ OutReset
  <2>1. PICK e : e \in Eps
    BY TransferAssumption DEF TransferAssumption
  <2>2. QED BY <1>1, <1>7, <2>1, BusStepInv DEF IInv
<1>8. QED BY <1>2, <1>3, <1>4, <1>5, <1>6, <1>7 DEF Next

\* The invariant holds in every state a bus used as usual reaches.
LEMMA InvariantHolds == ASSUME OrdinaryUse PROVE Spec => []IInv
<1>1. IInv /\ [Next]_vars => IInv'
  BY StepInv
<1>2. QED BY <1>1, InitInv, PTL DEF Spec

-----------------------------------------------------------------------------
(* The theorems.                                                           *)

\* The SIE cannot overwrite a packet that software still needs.
THEOREM BankIsOwned == ASSUME OrdinaryUse PROVE Spec => []BankOwnedBySoftware
<1>1. IInv => BankOwnedBySoftware
  BY DEF IInv, EpInv, ArmedIsFree, BankOwnedBySoftware, Holding
<1>2. QED BY <1>1, InvariantHolds, PTL

\* What was acknowledged is read or waits in the bank, as long as its instance
\* lasts: also when the read it came for is cancelled.
THEOREM PacketsAreKept == ASSUME OrdinaryUse PROVE Spec => []NoPacketLost
<1>1. IInv => NoPacketLost
  BY DEF IInv, EpInv, NotLost, NoPacketLost, Holding
<1>2. QED BY <1>1, InvariantHolds, PTL

\* What the handler ignores it has already taken.
THEOREM RepeatsAreKnown == ASSUME OrdinaryUse PROVE Spec => []OnlyRepeatsIgnored
<1>1. IInv => OnlyRepeatsIgnored
  BY DEF IInv, EpInv, RepeatIsKnown, OnlyRepeatsIgnored
<1>2. QED BY <1>1, InvariantHolds, PTL

\* A read that waits for the host does not leave its endpoint at NAK.
THEOREM PendingReadsAreArmed == ASSUME OrdinaryUse PROVE Spec => []PendingReadIsArmed
<1>1. IInv => PendingReadIsArmed
  BY DEF IInv, EpInv, PendingIsArmed, PendingReadIsArmed, Polling
<1>2. QED BY <1>1, InvariantHolds, PTL

\* A read leaves its last step only by the copy.
LEMMA LeavesCopy ==
    ASSUME Typed, [Next]_vars, NEW e \in Eps, pc[e] = "copy", pc'[e] # "copy"
    PROVE  taken'[e] = bank[e]
<1>a. pc \in [Eps -> OutPc] /\ taken \in [Eps -> Packets]
  BY DEF Typed, TypeOK
<1> USE DEF Goto
<1>1. ASSUME NEW f \in Eps, ReadCopy(f) PROVE taken'[e] = bank[e]
  BY <1>a, <1>1 DEF ReadCopy
<1>2. ASSUME NEW f \in Eps, ReadStep(f), ~ReadCopy(f) PROVE FALSE
  <2>1. pc[f] # "copy"
    BY <1>2 DEF ReadStep, ReadSnapshot, TakeSnapshot, ReadArmFails, ArmFails, ReadClaim, ReadArm,
                ArmSucceeds, ReadClaimed, ReadRegister, Register, ReadCheckLife, CheckLife,
                ReadCheckDone, CheckDone, ReadDrop, DropGuard
  <2>2. \A g \in Eps \ {f} : pc'[g] = pc[g]
    BY <1>2, <1>a
       DEF ReadStep, ReadSnapshot, TakeSnapshot, ReadArmFails, ArmFails, ReadClaim, ReadArm,
           ArmSucceeds, ReadClaimed, ReadRegister, Register, ReadCheckLife, CheckLife,
           ReadCheckDone, CheckDone, ReadDrop, DropGuard
  <2>3. QED BY <2>1, <2>2
<1>3. ASSUME NEW f \in Eps, ReadBegin(f) \/ ReadCancel(f) \/ Wait(f) \/ Poll(f) PROVE FALSE
  <2>1. pc[f] # "copy"
    BY <1>3 DEF ReadBegin, CheckEnabled, ReadCancel, Cancel, Wait, WaitEnabled, WaitCheck, Poll, Resume
  <2>2. \A g \in Eps \ {f} : pc'[g] = pc[g]
    BY <1>3, <1>a
       DEF ReadBegin, CheckEnabled, ReadCancel, Cancel, Wait, WaitEnabled, WaitCheck, Poll, Resume
  <2>3. QED BY <2>1, <2>2
<1>4. ASSUME NEW f \in Eps,
             \/ \E on \in BOOLEAN : OutSetEnabled(f, on)
             \/ \E stalled \in BOOLEAN : OutSetStalled(f, stalled)
             \/ (\E acked \in BOOLEAN : HostSends(f, acked)) \/ IsrOut(f) \/ IsrOutRepeated(f)
      PROVE  FALSE
  BY <1>4 DEF OutSetEnabled, SetEnabled, OutSetStalled, SetStalled, HostSends, IsrOut, IsrComplete,
              IsrOutRepeated, taskVars
<1>5. ASSUME OutBusEnable \/ OutBusDisable \/ OutHostReset \/ OutReset \/ UNCHANGED vars
      PROVE  FALSE
  BY <1>5 DEF OutBusEnable, BusEnable, OutBusDisable, BusDisable, OutHostReset, HostReset, OutReset,
              IsrReset, vars, taskVars
<1>6. QED BY <1>1, <1>2, <1>3, <1>4, <1>5 DEF Next

\* What a read holds is the packet that arrived last, of its own instance.
LEMMA ReadIsExact ==
    ASSUME OrdinaryUse, IInv, [Next]_vars, NEW e \in Eps, pc[e] = "copy", pc'[e] # "copy"
    PROVE  /\ taken'[e] = got[e] /\ taken'[e] > taken[e]
           /\ origin[e] = [reset |-> snap[e].reset, enable |-> snap[e].enable]
<1>1. Fresh(e) /\ origin[e] = [reset |-> snap[e].reset, enable |-> snap[e].enable]
  BY DEF IInv, EpInv, HeldIsOurs, Holding
<1>2. taken'[e] = bank[e]
  BY LeavesCopy DEF IInv
<1>3. bank[e] \in Nat /\ taken[e] \in Nat
  BY OutAssumption DEF OutAssumption, IInv, Typed, TypeOK, Packets
<1>4. QED BY <1>1, <1>2, <1>3 DEF Fresh

\* A read returns the packet that arrived last, and no packet is read twice.
THEOREM ReadsAreExact == ASSUME OrdinaryUse PROVE Spec => ReadOnceInOrder
<1>1. IInv /\ [Next]_vars =>
          [\A e \in Eps : pc[e] = "copy" /\ pc'[e] # "copy" =>
              taken'[e] = got[e] /\ taken'[e] > taken[e]]_vars
  BY ReadIsExact
<1>2. QED BY <1>1, InvariantHolds, PTL DEF ReadOnceInOrder, Spec

\* A read returns a packet only if it arrived in the bus session and endpoint
\* instance the read was started in.
THEOREM ReadsAreOfTheirInstance == ASSUME OrdinaryUse PROVE Spec => ReadFromOwnInstance
<1>1. IInv /\ [Next]_vars =>
          [\A e \in Eps : pc[e] = "copy" /\ pc'[e] # "copy" =>
              origin[e] = [reset |-> snap[e].reset, enable |-> snap[e].enable]]_vars
  BY ReadIsExact
<1>2. QED BY <1>1, InvariantHolds, PTL DEF ReadFromOwnInstance, Spec

-----------------------------------------------------------------------------
(* No lost wake-up: WakeInv of UsbTransferProofs, step by step.            *)

\* Each step of read() and wait_enabled, of the Bus, the host and the handler
\* is one of UsbTransfer, or leaves alone what a future waits for.
LEMMA StepWakes == TypeOK /\ WakeInv /\ [Next]_vars => WakeInv'
<1> SUFFICES ASSUME TypeOK, WakeInv, [Next]_vars PROVE WakeInv'
  OBVIOUS
<1>a. TransferTypeOK /\ pc \in [Eps -> OutPc]
  BY DEF TypeOK
<1>1. ASSUME NEW e \in Eps, ReadClaim(e) \/ ReadClaimed(e) \/ ReadCopy(e) PROVE WakeInv'
  <2>1. \E there \in {"owned", "copy", "idle"} :
          Goto(e, there)
          /\ UNCHANGED <<usbOn, resetGen, enabled, enableGen, doneGen, snap, registered, woken>>
    BY <1>1 DEF ReadClaim, ReadClaimed, ReadCopy, CriticalSection, busVars, epVars
  <2>2. QED BY <1>a, <2>1, BusyWakes
<1>2. ASSUME NEW e \in Eps,
             \/ ReadBegin(e) \/ ReadSnapshot(e) \/ ReadArmFails(e) \/ ReadArm(e)
             \/ ReadRegister(e) \/ ReadCheckLife(e) \/ ReadCheckDone(e)
             \/ ReadDrop(e) \/ ReadCancel(e) \/ Wait(e) \/ Poll(e)
      PROVE  WakeInv'
  <2>1. \E there \in {"fill", "arm", "idle", "copy"} :
          \/ CheckEnabled(e) \/ TakeSnapshot(e, there) \/ ArmFails(e)
          \/ ArmSucceeds(e) \/ Register(e) \/ CheckLife(e) \/ CheckDone(e, there)
          \/ Resume(e) \/ Cancel(e) \/ DropGuard(e) \/ WaitEnabled(e) \/ WaitCheck(e)
    BY <1>2 DEF ReadBegin, ReadSnapshot, ReadArmFails, ReadArm, ReadRegister,
                ReadCheckLife, ReadCheckDone, ReadDrop, ReadCancel, Wait, Poll
  <2>2. QED BY <1>a, <2>1, FutureWakes
<1>3. ASSUME NEW e \in Eps, NEW on \in BOOLEAN, OutSetEnabled(e, on) PROVE WakeInv'
  BY <1>3, <1>a, OtherWakes DEF OutSetEnabled
<1>4. ASSUME NEW e \in Eps, NEW stalled \in BOOLEAN, OutSetStalled(e, stalled)
      PROVE  WakeInv'
  BY <1>4, <1>a, OtherWakes DEF OutSetStalled
<1>5. ASSUME NEW e \in Eps, NEW acked \in BOOLEAN, HostSends(e, acked) PROVE WakeInv'
  BY <1>5, QuietWakes DEF HostSends, epVars
<1>6. ASSUME NEW e \in Eps, IsrOut(e) \/ IsrOutRepeated(e) PROVE WakeInv'
  BY <1>6, <1>a, OtherWakes, QuietWakes DEF IsrOut, IsrOutRepeated, IsrRetire, epVars
<1>7. CASE OutBusEnable \/ OutBusDisable \/ OutHostReset \/ OutReset
  <2>1. PICK e : e \in Eps
    BY TransferAssumption DEF TransferAssumption
  <2>2. QED
    BY <1>7, <1>a, <2>1, OtherWakes DEF OutBusEnable, OutBusDisable, OutHostReset, OutReset
<1>8. CASE UNCHANGED vars
  BY <1>8, QuietWakes DEF vars, busVars, epVars
<1>9. QED
  BY <1>1, <1>2, <1>3, <1>4, <1>5, <1>6, <1>7, <1>8 DEF Next, ReadStep

\* Whatever makes a suspended read or wait_enabled ready has woken its task,
\* also where endpoints are enabled twice and hosts send into a disable.
THEOREM WakeupsAreKept == Spec => []NoLostWakeup
<1>1. Init => WakeInv
  BY InitWakes DEF Init
<1>2. QED BY <1>1, StepWakes, WakeInvSuffices, TypeCorrect, PTL DEF Spec

=============================================================================
