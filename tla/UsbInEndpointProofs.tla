------------------------ MODULE UsbInEndpointProofs ------------------------
(***************************************************************************)
(* For every set of endpoints, every width of the completion generation    *)
(* and all bounds: an armed IN endpoint is owned by a valid pending write, *)
(* a moved completion generation means that write's packet was sent, no    *)
(* wake-up is lost, a pending write stays armed unless it is halted, and   *)
(* Ok means delivered unless a write was cancelled in doubt.               *)
(***************************************************************************)
EXTENDS UsbInEndpoint, UsbTransferProofs

-----------------------------------------------------------------------------
(* Type correctness.  DataTyped is the part of TypeOK this module adds.    *)

DataTyped ==
    /\ pc \in [Eps -> InPc]
    /\ bank \in [Eps -> 0 .. MaxWrites]
    /\ \A e \in Eps : pc[e] \in {"snap", "fill"} => bank[e] < MaxWrites
    /\ txToggle \in [Eps -> {0, 1}]
    /\ hostToggle \in [Eps -> {0, 1}]
    /\ hostIn \in [Eps -> 0 .. MaxWrites]
    /\ sent \in [Eps -> 0 .. MaxWrites]

\* The initial state is typed.
LEMMA InitTyped == Init => TypeOK
<1> SUFFICES ASSUME Init PROVE TypeOK
  OBVIOUS
<1>1. TransferTypeOK
  BY TransferInitTyped DEF Init
<1>2. DataTyped
  BY InAssumption DEF InAssumption, Init, TransferInit, DataTyped, InPc
<1>3. QED BY <1>1, <1>2 DEF TypeOK, DataTyped

\* Going to a program counter of write() or wait_enabled, with the bank left
\* alone, keeps the data typed unless it enters the two steps before the fill.
LEMMA GotoTyped ==
    ASSUME TypeOK, NEW e \in Eps, NEW there \in InPc, Goto(e, there),
           there \in {"snap", "fill"} => bank[e] < MaxWrites,
           UNCHANGED dataVars
    PROVE  DataTyped'
BY DEF TypeOK, DataTyped, Goto, dataVars

\* The steps of the owning task keep every variable in its type.
LEMMA TaskStepTyped ==
    ASSUME TypeOK, NEW e \in Eps,
           WriteBegin(e) \/ WriteStep(e) \/ WriteCancel(e) \/ Wait(e) \/ Poll(e)
    PROVE  TypeOK'
<1> SUFFICES TransferTypeOK' /\ DataTyped'
  BY DEF TypeOK, DataTyped
<1>a. TransferTypeOK
  BY DEF TypeOK
<1> USE DEF InPc, Owning, Polling, WaitPc
<1>1. CASE WriteBegin(e)
  BY <1>1, <1>a, FutureTyped, GotoTyped DEF WriteBegin, CheckEnabled
<1>2. CASE WriteSnapshot(e)
  BY <1>2, <1>a, SnapshotTyped, GotoTyped DEF WriteSnapshot, TakeSnapshot, TypeOK
<1>3. CASE WriteFill(e)
  <2>1. TransferTypeOK'
    BY <1>3, <1>a DEF WriteFill, TransferTypeOK, busVars, epVars
  <2>2. bank[e] \in 0 .. MaxWrites /\ bank[e] < MaxWrites
    BY <1>3 DEF WriteFill, TypeOK
  <2>3. bank' \in [Eps -> 0 .. MaxWrites]
    BY <1>3, <2>2, InAssumption DEF InAssumption, WriteFill, TypeOK
  <2>4. pc' \in [Eps -> InPc]
    BY <1>3 DEF WriteFill, Goto, TypeOK
  <2>5. \A f \in Eps : pc'[f] \in {"snap", "fill"} => bank'[f] < MaxWrites
    BY <1>3 DEF WriteFill, Goto, TypeOK
  <2>6. QED BY <1>3, <2>1, <2>3, <2>4, <2>5 DEF WriteFill, TypeOK, DataTyped
<1>4. CASE WriteArm(e)
  <2>1. CASE ArmFails(e)
    BY <1>4, <2>1, <1>a, FutureTyped, GotoTyped DEF WriteArm, ArmFails
  <2>2. CASE ArmSucceeds(e)
    BY <1>4, <2>2, <1>a, ArmTyped, GotoTyped DEF WriteArm, ArmSucceeds
  <2>3. QED BY <1>4, <2>1, <2>2 DEF WriteArm
<1>5. CASE WritePoll(e)
  <2>1. CASE Register(e)
    BY <1>5, <2>1, <1>a, FutureTyped, GotoTyped DEF WritePoll, Register
  <2>2. CASE CheckLife(e)
    BY <1>5, <2>2, <1>a, FutureTyped, GotoTyped DEF WritePoll, CheckLife
  <2>3. CASE CheckDone(e, "idle")
    BY <1>5, <2>3, <1>a, FutureTyped, GotoTyped DEF WritePoll, CheckDone
  <2>4. QED BY <1>5, <2>1, <2>2, <2>3 DEF WritePoll
<1>6. CASE WriteDrop(e)
  BY <1>6, <1>a, FutureTyped, GotoTyped DEF WriteDrop, DropGuard
<1>7. CASE WriteCancel(e)
  BY <1>7, <1>a, FutureTyped, GotoTyped DEF WriteCancel, Cancel
<1>8. CASE Wait(e)
  <2>1. CASE WaitEnabled(e)
    BY <1>8, <2>1, <1>a, FutureTyped, GotoTyped DEF Wait, WaitEnabled
  <2>2. CASE WaitCheck(e)
    BY <1>8, <2>2, <1>a, FutureTyped, GotoTyped DEF Wait, WaitCheck
  <2>3. QED BY <1>8, <2>1, <2>2 DEF Wait
<1>9. CASE Poll(e)
  BY <1>9, <1>a, FutureTyped, GotoTyped DEF Poll, Resume
<1>10. QED BY <1>1, <1>2, <1>3, <1>4, <1>5, <1>6, <1>7, <1>8, <1>9 DEF WriteStep

\* Returning to DATA0 keeps the data typed while the tasks stand still.
LEMMA ToggleTyped ==
    ASSUME TypeOK, NEW who, ToggleReset(who), pc' = pc
    PROVE  DataTyped'
BY DEF TypeOK, DataTyped, ToggleReset

\* So do the Bus methods, the host and the handler.
LEMMA OtherStepTyped ==
    ASSUME TypeOK, NEW e \in Eps,
           \/ \E on \in BOOLEAN : InSetEnabled(e, on)
           \/ \E stalled \in BOOLEAN : InSetStalled(e, stalled)
           \/ (\E acked \in BOOLEAN : HostIn(e, acked)) \/ IsrIn(e)
           \/ InBusEnable \/ InBusDisable \/ InHostReset \/ InReset
    PROVE  TypeOK'
<1> SUFFICES TransferTypeOK' /\ DataTyped'
  BY DEF TypeOK, DataTyped
<1>a. TransferTypeOK
  BY DEF TypeOK
<1>1. ASSUME NEW on \in BOOLEAN, InSetEnabled(e, on)
      PROVE  TransferTypeOK' /\ DataTyped'
  <2>1. (IF on THEN "NAK" ELSE "STALL") \in Responses
    BY DEF Responses
  <2>2. QED BY <1>1, <1>a, <2>1, BusTyped, ToggleTyped DEF InSetEnabled, SetEnabled
<1>2. ASSUME NEW stalled \in BOOLEAN, InSetStalled(e, stalled)
      PROVE  TransferTypeOK' /\ DataTyped'
  <2>1. (IF stalled THEN "STALL" ELSE "NAK") \in Responses
    BY DEF Responses
  <2>2. QED
    BY <1>2, <1>a, <2>1, BusTyped, ToggleTyped DEF InSetStalled, SetStalled, taskVars
<1>3. ASSUME NEW acked \in BOOLEAN, HostIn(e, acked)
      PROVE  TransferTypeOK' /\ DataTyped'
  <2>1. TransferTypeOK'
    BY <1>3, <1>a DEF HostIn, TransferTypeOK, epVars, taskVars
  <2>2. hostIn' \in [Eps -> 0 .. MaxWrites] /\ sent' \in [Eps -> 0 .. MaxWrites]
    BY <1>3 DEF HostIn, TypeOK
  <2>3. txToggle' \in [Eps -> {0, 1}] /\ hostToggle' \in [Eps -> {0, 1}]
    BY <1>3 DEF HostIn, TypeOK
  <2>4. QED BY <1>3, <2>1, <2>2, <2>3 DEF HostIn, TypeOK, DataTyped, taskVars
<1>4. CASE \E acked \in BOOLEAN : HostIn(e, acked)
  BY <1>3, <1>4
<1>5. CASE IsrIn(e)
  BY <1>5, <1>a, IsrTyped DEF IsrIn, IsrComplete, TypeOK, DataTyped, dataVars
<1>6. CASE InBusEnable
  BY <1>6, <1>a, BusTyped, ToggleTyped DEF InBusEnable, BusEnable, taskVars, Responses
<1>7. CASE InBusDisable
  BY <1>7, <1>a, BusTyped DEF InBusDisable, BusDisable, TypeOK, DataTyped, dataVars, Responses
<1>8. CASE InHostReset
  BY <1>8, <1>a, BusTyped DEF InHostReset, HostReset, TypeOK, DataTyped, dataVars, taskVars, Responses
<1>9. CASE InReset
  BY <1>9, <1>a, IsrTyped, ToggleTyped DEF InReset, IsrReset
<1>10. QED BY <1>1, <1>2, <1>4, <1>5, <1>6, <1>7, <1>8, <1>9

\* Type correctness is inductive by itself.
LEMMA StepTyped == TypeOK /\ [Next]_vars => TypeOK'
<1> SUFFICES ASSUME TypeOK, [Next]_vars PROVE TypeOK'
  OBVIOUS
<1>1. CASE UNCHANGED vars
  BY <1>1 DEF vars, busVars, epVars, taskVars, dataVars, TypeOK, TransferTypeOK
<1>2. ASSUME NEW e \in Eps,
             WriteBegin(e) \/ WriteStep(e) \/ WriteCancel(e) \/ Wait(e) \/ Poll(e)
      PROVE  TypeOK'
  BY <1>2, TaskStepTyped
<1>3. ASSUME NEW e \in Eps,
             \/ \E on \in BOOLEAN : InSetEnabled(e, on)
             \/ \E stalled \in BOOLEAN : InSetStalled(e, stalled)
             \/ (\E acked \in BOOLEAN : HostIn(e, acked)) \/ IsrIn(e)
      PROVE  TypeOK'
  BY <1>3, OtherStepTyped
<1>4. CASE InBusEnable \/ InBusDisable \/ InHostReset \/ InReset
  <2>1. PICK e : e \in Eps
    BY TransferAssumption DEF TransferAssumption
  <2>2. QED BY <1>4, <2>1, OtherStepTyped
<1>5. QED BY <1>1, <1>2, <1>3, <1>4 DEF Next

\* Every variable keeps its type through every step of task, host and handler.
THEOREM TypeCorrect == Spec => []TypeOK
BY InitTyped, StepTyped, PTL DEF Spec

-----------------------------------------------------------------------------
(* The inductive invariant.  ArmedIsOwned is inductive on top of TypeOK.   *)
(* To relate a completion to its packet one has to follow the transfer     *)
(* through the time it is latched and the handler has not run.             *)

\* The response is ACK for a live write only, whose completion is still due.
Owned(e) ==
    usbOn /\ response[e] = "ACK" =>
        pc[e] \in Owning /\ Valid(e) /\ doneGen[e] = snap[e].done

\* A latched transfer the tasks have not touched yet is still armed ...
LatchedIsArmed(e) == xfer = e /\ ~irqDue => response[e] = "ACK"

\* ... and belongs to the pending write, for which its completion is the first.
LatchedIsOurs(e) ==
    xfer = e /\ pc[e] \in Polling =>
        sent[e] = bank[e] /\ (Valid(e) => doneGen[e] = snap[e].done)

\* Lifecycle generations only grow, so an invalid write stays invalid.
SnapshotIsPast(e) == snap[e].reset <= resetGen /\ snap[e].enable <= enableGen[e]

\* A packet about to be armed was never sent.
FillIsNew(e) == sent[e] <= bank[e] /\ (pc[e] = "arm" => sent[e] < bank[e])

CompletionIsOurs(e) ==
    pc[e] \in Polling /\ doneGen[e] # snap[e].done => sent[e] = bank[e]

CompletionIsSeen(e) ==
    pc[e] \in Polling /\ Valid(e) /\ sent[e] = bank[e] /\ xfer # e =>
        doneGen[e] # snap[e].done

EpInv(e) ==
    /\ Owned(e) /\ LatchedIsArmed(e) /\ LatchedIsOurs(e) /\ SnapshotIsPast(e)
    /\ FillIsNew(e) /\ CompletionIsOurs(e) /\ CompletionIsSeen(e)

IInv == TypeOK /\ (IrqPending => usbOn) /\ \A e \in Eps : EpInv(e)

\* It holds at the start: nothing is armed, latched or sent.
LEMMA InitInv == Init => IInv
<1> SUFFICES ASSUME Init PROVE IInv
  OBVIOUS
<1>1. TypeOK
  BY InitTyped
<1>2. ~IrqPending
  BY DEF Init, TransferInit, IrqPending
<1>3. ASSUME NEW e \in Eps PROVE EpInv(e)
  BY TransferAssumption
  DEF TransferAssumption, Init, TransferInit, EpInv, Owned, LatchedIsArmed, LatchedIsOurs,
      SnapshotIsPast, FillIsNew, CompletionIsOurs, CompletionIsSeen, Polling
<1>4. QED BY <1>1, <1>2, <1>3 DEF IInv

\* An endpoint that a step leaves alone keeps its invariant; if the step was a
\* critical section, a transfer latched meanwhile is due when it ends.
LEMMA OthersKept ==
    ASSUME NEW e, EpInv(e),
           resetGen' = resetGen, usbOn' = usbOn, xfer' = xfer,
           irqDue' = irqDue \/ (irqDue' = IrqPending),
           enabled'[e] = enabled[e], enableGen'[e] = enableGen[e],
           doneGen'[e] = doneGen[e], response'[e] = response[e],
           pc'[e] = pc[e], snap'[e] = snap[e], bank'[e] = bank[e], sent'[e] = sent[e],
           e # NoEp
    PROVE  EpInv(e)'
BY DEF EpInv, Owned, LatchedIsArmed, LatchedIsOurs, SnapshotIsPast, FillIsNew,
       CompletionIsOurs, CompletionIsSeen, Valid, IrqPending

\* The steps of the owning task preserve the invariant.
LEMMA TaskStepInv ==
    ASSUME IInv, NEW e \in Eps,
           WriteBegin(e) \/ WriteStep(e) \/ WriteCancel(e) \/ Wait(e) \/ Poll(e)
    PROVE  (IrqPending => usbOn)' /\ \A f \in Eps : EpInv(f)'
<1> DEFINE Frame ==
      /\ resetGen' = resetGen /\ usbOn' = usbOn /\ xfer' = xfer /\ resetFlag' = resetFlag
      /\ irqDue' = irqDue \/ (irqDue' = IrqPending)
      /\ enabled' = enabled /\ enableGen' = enableGen /\ doneGen' = doneGen
      /\ sent' = sent
      /\ \A f \in Eps \ {e} :
           /\ response'[f] = response[f] /\ pc'[f] = pc[f]
           /\ snap'[f] = snap[f] /\ bank'[f] = bank[f]
<1>a. /\ TypeOK /\ TransferTypeOK /\ EpInv(e) /\ NoEp \notin Eps
      /\ pc \in [Eps -> InPc] /\ response \in [Eps -> Responses]
      /\ snap \in [Eps -> Snapshots] /\ bank \in [Eps -> 0 .. MaxWrites]
  BY TransferAssumption DEF TransferAssumption, IInv, TypeOK, TransferTypeOK
<1>b. ASSUME Frame, EpInv(e)'
      PROVE  (IrqPending => usbOn)' /\ \A f \in Eps : EpInv(f)'
  <2>1. (IrqPending => usbOn)'
    BY <1>b DEF IInv, IrqPending
  <2>2. ASSUME NEW f \in Eps, f # e PROVE EpInv(f)'
    BY <1>a, <1>b, <2>2, OthersKept DEF IInv
  <2>3. QED BY <1>b, <2>1, <2>2
<1> USE DEF EpInv, Owned, LatchedIsArmed, LatchedIsOurs, SnapshotIsPast, FillIsNew,
            CompletionIsOurs, CompletionIsSeen, Valid, Polling, Owning, Goto
<1>1. CASE WriteBegin(e)
  <2>1. Frame /\ EpInv(e)'
    BY <1>1, <1>a DEF WriteBegin, CheckEnabled, busVars, epVars, dataVars
  <2>2. QED BY <1>b, <2>1
<1>2. CASE WriteSnapshot(e)
  <2>1. /\ Frame /\ pc'[e] = "fill" /\ response' = response /\ bank' = bank
        /\ snap'[e].reset = resetGen /\ snap'[e].enable = enableGen[e]
        /\ pc[e] = "snap" /\ irqDue' = irqDue
    BY <1>2, <1>a DEF WriteSnapshot, TakeSnapshot, busVars, epVars, dataVars, Snapshots
  <2>2. resetGen \in Nat /\ enableGen[e] \in Nat
    BY <1>a, TransferAssumption DEF TransferAssumption, TransferTypeOK
  <2>3. EpInv(e)'
    BY <2>1, <2>2, <1>a
  <2>4. QED BY <1>b, <2>1, <2>3
<1>3. CASE WriteFill(e)
  <2>1. /\ Frame /\ bank'[e] = bank[e] + 1 /\ pc'[e] = "arm" /\ pc[e] = "fill"
        /\ snap' = snap /\ response' = response /\ irqDue' = irqDue
    BY <1>3, <1>a DEF WriteFill, busVars, epVars
  <2>2. bank[e] \in Nat /\ sent[e] \in Nat
    BY <1>a, InAssumption DEF InAssumption, TypeOK
  <2>3. EpInv(e)'
    BY <2>1, <2>2, <1>a
  <2>4. QED BY <1>b, <2>1, <2>3
<1>4. CASE WriteArm(e)
  <2>1. CASE ArmFails(e)
    <3>1. Frame /\ EpInv(e)'
      BY <1>4, <2>1, <1>a DEF WriteArm, ArmFails, CriticalSection, IrqPending, epVars, dataVars
    <3>2. QED BY <1>b, <3>1
  <2>2. CASE ArmSucceeds(e)
    <3>1. /\ Frame /\ pc[e] = "arm" /\ pc'[e] = "poll" /\ response'[e] = "ACK"
          /\ snap'[e].reset = snap[e].reset /\ snap'[e].enable = snap[e].enable
          /\ snap'[e].done = doneGen[e] /\ bank' = bank /\ ~irqDue /\ Valid(e)
      BY <1>4, <2>2, <1>a
      DEF WriteArm, ArmSucceeds, CriticalSection, IrqPending, dataVars, Snapshots
    <3>2. xfer # e
      BY <3>1, <1>a DEF IInv, IrqPending
    <3>3. sent[e] # bank[e]
      <4>1. bank[e] \in Nat /\ sent[e] \in Nat
        BY <1>a, InAssumption DEF InAssumption, TypeOK
      <4>2. QED BY <3>1, <4>1, <1>a
    <3>4. EpInv(e)'
      BY <3>1, <3>2, <3>3, <1>a
    <3>5. QED BY <1>b, <3>1, <3>4
  <2>3. QED BY <1>4, <2>1, <2>2 DEF WriteArm
<1>5. CASE WritePoll(e)
  <2>1. CASE Register(e)
    <3>1. Frame /\ EpInv(e)'
      BY <1>5, <2>1, <1>a DEF WritePoll, Register, busVars, epVars, dataVars
    <3>2. QED BY <1>b, <3>1
  <2>2. CASE CheckLife(e)
    <3>1. Frame /\ EpInv(e)'
      BY <1>5, <2>2, <1>a DEF WritePoll, CheckLife, busVars, epVars, dataVars
    <3>2. QED BY <1>b, <3>1
  <2>3. CASE CheckDone(e, "idle")
    <3>1. Frame /\ EpInv(e)'
      BY <1>5, <2>3, <1>a
      DEF WritePoll, CheckDone, Unmasked, IrqPending, busVars, epVars, dataVars
    <3>2. QED BY <1>b, <3>1
  <2>4. QED BY <1>5, <2>1, <2>2, <2>3 DEF WritePoll
<1>6. CASE WriteDrop(e)
  <2>1. Frame /\ EpInv(e)'
    BY <1>6, <1>a DEF WriteDrop, DropGuard, CriticalSection, IrqPending, dataVars
  <2>2. QED BY <1>b, <2>1
<1>7. CASE WriteCancel(e)
  <2>1. Frame /\ EpInv(e)'
    BY <1>7, <1>a
    DEF WriteCancel, Cancel, Unmasked, IrqPending, busVars, epVars, dataVars
  <2>2. QED BY <1>b, <2>1
<1>8. CASE Wait(e)
  <2>1. Frame /\ EpInv(e)'
    BY <1>8, <1>a DEF Wait, WaitEnabled, WaitCheck, busVars, epVars, dataVars
  <2>2. QED BY <1>b, <2>1
<1>9. CASE Poll(e)
  <2>1. Frame /\ EpInv(e)'
    BY <1>9, <1>a DEF Poll, Resume, busVars, epVars, dataVars
  <2>2. QED BY <1>b, <2>1
<1>10. QED BY <1>1, <1>2, <1>3, <1>4, <1>5, <1>6, <1>7, <1>8, <1>9 DEF WriteStep

\* A critical section of the control task that gives endpoint e another
\* response than ACK, and perhaps a new instance, preserves the invariant.
LEMMA ControlStepInv ==
    ASSUME IInv, NEW e \in Eps, CriticalSection,
           response'[e] # "ACK",
           \A f \in Eps \ {e} : /\ response'[f] = response[f] /\ enabled'[f] = enabled[f]
                                /\ enableGen'[f] = enableGen[f],
           \/ enableGen'[e] = enableGen[e] + 1
           \/ enableGen'[e] = enableGen[e] /\ enabled'[e] = enabled[e],
           UNCHANGED <<doneGen, pc, snap, bank, sent>>
    PROVE  (IrqPending => usbOn)' /\ \A f \in Eps : EpInv(f)'
<1>a. /\ EpInv(e) /\ NoEp \notin Eps /\ enableGen[e] \in Nat
      /\ snap[e].enable \in Nat
  BY TransferAssumption
  DEF TransferAssumption, IInv, TypeOK, TransferTypeOK, Snapshots
<1>b. /\ resetGen' = resetGen /\ usbOn' = usbOn /\ xfer' = xfer /\ resetFlag' = resetFlag
      /\ irqDue' = IrqPending
  BY DEF CriticalSection
<1>1. (IrqPending => usbOn)'
  BY <1>b DEF IInv, IrqPending
<1>2. ASSUME NEW f \in Eps, f # e PROVE EpInv(f)'
  BY <1>a, <1>b, <1>2, OthersKept DEF IInv
<1>3. EpInv(e)'
  <2>1. Owned(e)' /\ LatchedIsArmed(e)'
    BY <1>a, <1>b DEF Owned, LatchedIsArmed, IrqPending
  <2>2. Valid(e)' => Valid(e)
    <3>1. CASE enableGen'[e] = enableGen[e] + 1
      BY <1>a, <1>b, <3>1 DEF EpInv, SnapshotIsPast, Valid
    <3>2. CASE enableGen'[e] = enableGen[e] /\ enabled'[e] = enabled[e]
      BY <1>b, <3>2, Zenon DEF Valid
    <3>3. QED BY <3>1, <3>2
  <2>3. SnapshotIsPast(e)'
    BY <1>a, <1>b DEF EpInv, SnapshotIsPast
  <2>4. QED
    BY <1>a, <1>b, <2>1, <2>2, <2>3
    DEF EpInv, LatchedIsOurs, FillIsNew, CompletionIsOurs, CompletionIsSeen
<1>4. QED BY <1>1, <1>2, <1>3

\* An IN transaction preserves it: the packet on the wire is the live write's.
LEMMA HostStepInv ==
    ASSUME IInv, NEW e \in Eps, NEW acked \in BOOLEAN, HostIn(e, acked)
    PROVE  (IrqPending => usbOn)' /\ \A f \in Eps : EpInv(f)'
<1>a. /\ EpInv(e) /\ NoEp \notin Eps /\ sent \in [Eps -> 0 .. MaxWrites]
      /\ bank[e] \in Nat
  BY TransferAssumption, InAssumption
  DEF TransferAssumption, InAssumption, IInv, TypeOK
<1>b. /\ usbOn /\ xfer = NoEp /\ response[e] = "ACK"
      /\ UNCHANGED <<usbOn, resetFlag, irqDue, resetGen, enabled, enableGen, doneGen,
                     response, pc, snap, bank>>
      /\ xfer' = (IF acked THEN e ELSE xfer)
      /\ sent' = (IF acked THEN [sent EXCEPT ![e] = bank[e]] ELSE sent)
  BY DEF HostIn, SieReady, epVars, taskVars
<1>1. (IrqPending => usbOn)'
  BY <1>b DEF IrqPending
<1>2. ASSUME NEW f \in Eps, f # e PROVE EpInv(f)'
  BY <1>a, <1>b, <1>2
  DEF IInv, EpInv, Owned, LatchedIsArmed, LatchedIsOurs, SnapshotIsPast, FillIsNew,
      CompletionIsOurs, CompletionIsSeen, Valid
<1>3. EpInv(e)'
  <2>1. pc[e] \in Owning /\ Valid(e) /\ doneGen[e] = snap[e].done
    BY <1>a, <1>b DEF EpInv, Owned
  <2>2. pc[e] # "arm"
    BY <2>1 DEF Owning, Polling
  <2>3. CASE acked
    BY <1>a, <1>b, <2>1, <2>2, <2>3
    DEF EpInv, Owned, LatchedIsArmed, LatchedIsOurs, SnapshotIsPast, FillIsNew,
        CompletionIsOurs, CompletionIsSeen, Valid
  <2>4. CASE ~acked
    BY <1>a, <1>b, <2>4
    DEF EpInv, Owned, LatchedIsArmed, LatchedIsOurs, SnapshotIsPast, FillIsNew,
        CompletionIsOurs, CompletionIsSeen, Valid
  <2>5. QED BY <2>3, <2>4
<1>4. QED BY <1>1, <1>2, <1>3

\* The handler's increment always shows in the counter: its width is not one.
LEMMA IncrementShows ==
    ASSUME NEW g \in Generations
    PROVE  (g + 1) % CompletionModulus # g
<1>1. CASE g + 1 = CompletionModulus
  BY <1>1, TransferAssumption DEF TransferAssumption, Generations
<1>2. CASE g + 1 < CompletionModulus
  BY <1>2, TransferAssumption DEF TransferAssumption, Generations
<1>3. QED BY <1>1, <1>2, TransferAssumption DEF TransferAssumption, Generations

\* The transfer interrupt preserves the invariant.
LEMMA IsrInInv ==
    ASSUME IInv, NEW e \in Eps, IsrIn(e)
    PROVE  (IrqPending => usbOn)' /\ \A f \in Eps : EpInv(f)'
<1>a. /\ EpInv(e) /\ NoEp \notin Eps /\ doneGen \in [Eps -> Generations]
      /\ response \in [Eps -> Responses]
  BY TransferAssumption DEF TransferAssumption, IInv, TypeOK, TransferTypeOK
<1>b. /\ usbOn /\ xfer = e /\ xfer' = NoEp
      /\ UNCHANGED <<usbOn, resetFlag, resetGen, enabled, enableGen, pc, snap, bank, sent>>
      /\ response' = [response EXCEPT ![e] = "NAK"]
      /\ doneGen' = [doneGen EXCEPT ![e] = (doneGen[e] + 1) % CompletionModulus]
  BY DEF IsrIn, IsrComplete, IsrRetire, dataVars
<1>1. (IrqPending => usbOn)'
  BY <1>b DEF IrqPending
<1>2. ASSUME NEW f \in Eps, f # e PROVE EpInv(f)'
  BY <1>a, <1>b, <1>2
  DEF IInv, EpInv, Owned, LatchedIsArmed, LatchedIsOurs, SnapshotIsPast, FillIsNew,
      CompletionIsOurs, CompletionIsSeen, Valid
<1>3. doneGen'[e] # doneGen[e] /\ response'[e] = "NAK"
  BY <1>a, <1>b, IncrementShows
<1>4. EpInv(e)'
  BY <1>a, <1>b, <1>3
  DEF EpInv, Owned, LatchedIsArmed, LatchedIsOurs, SnapshotIsPast, FillIsNew,
      CompletionIsOurs, CompletionIsSeen, Valid
<1>5. QED BY <1>1, <1>2, <1>4

\* Steps that end a bus session, or start one, preserve the invariant: no
\* endpoint answers ACK and every snapshot is outdated or its endpoint disabled.
LEMMA SessionStepInv ==
    ASSUME IInv,
           xfer' = NoEp, enabled' = [e \in Eps |-> FALSE],
           IrqPending' => usbOn',
           usbOn' => \A e \in Eps : response'[e] # "ACK",
           resetGen' \in {resetGen, resetGen + 1},
           UNCHANGED <<enableGen, doneGen, pc, snap, bank, sent>>
    PROVE  (IrqPending => usbOn)' /\ \A f \in Eps : EpInv(f)'
<1>1. ASSUME NEW e \in Eps PROVE EpInv(e)'
  <2>1. /\ EpInv(e) /\ NoEp \notin Eps /\ resetGen \in Nat /\ snap[e].reset \in Nat
    BY TransferAssumption
    DEF TransferAssumption, IInv, TypeOK, TransferTypeOK, Snapshots
  <2>2. QED
    BY <2>1 DEF EpInv, Owned, LatchedIsArmed, LatchedIsOurs, SnapshotIsPast, FillIsNew,
                CompletionIsOurs, CompletionIsSeen, Valid
<1>2. QED BY <1>1

\* The invariant is inductive: every step of Next is one of the above.
LEMMA StepInv == IInv /\ [Next]_vars => IInv'
<1> SUFFICES ASSUME IInv, [Next]_vars
             PROVE  (IrqPending => usbOn)' /\ \A f \in Eps : EpInv(f)'
  BY StepTyped DEF IInv
<1>a. TypeOK /\ TransferTypeOK /\ enableGen \in [Eps -> 0 .. MaxEnables]
      /\ enabled \in [Eps -> BOOLEAN] /\ response \in [Eps -> Responses]
  BY DEF IInv, TypeOK, TransferTypeOK
<1>1. CASE UNCHANGED vars
  BY <1>1 DEF vars, busVars, epVars, taskVars, dataVars, IInv, EpInv, Owned,
              LatchedIsArmed, LatchedIsOurs, SnapshotIsPast, FillIsNew,
              CompletionIsOurs, CompletionIsSeen, Valid, IrqPending
<1>2. ASSUME NEW e \in Eps,
             WriteBegin(e) \/ WriteStep(e) \/ WriteCancel(e) \/ Wait(e) \/ Poll(e)
      PROVE  (IrqPending => usbOn)' /\ \A f \in Eps : EpInv(f)'
  BY <1>2, TaskStepInv
<1>3. ASSUME NEW e \in Eps, NEW on \in BOOLEAN, InSetEnabled(e, on)
      PROVE  (IrqPending => usbOn)' /\ \A f \in Eps : EpInv(f)'
  BY <1>3, <1>a, ControlStepInv DEF InSetEnabled, SetEnabled, ToggleReset
<1>4. ASSUME NEW e \in Eps, NEW stalled \in BOOLEAN, InSetStalled(e, stalled)
      PROVE  (IrqPending => usbOn)' /\ \A f \in Eps : EpInv(f)'
  BY <1>4, <1>a, ControlStepInv DEF InSetStalled, SetStalled, ToggleReset, taskVars
<1>5. ASSUME NEW e \in Eps, NEW acked \in BOOLEAN, HostIn(e, acked)
      PROVE  (IrqPending => usbOn)' /\ \A f \in Eps : EpInv(f)'
  BY <1>5, HostStepInv
<1>6. ASSUME NEW e \in Eps, IsrIn(e)
      PROVE  (IrqPending => usbOn)' /\ \A f \in Eps : EpInv(f)'
  BY <1>6, IsrInInv
<1>7. CASE InBusEnable
  BY <1>7, SessionStepInv DEF InBusEnable, BusEnable, ToggleReset, IrqPending, taskVars
<1>8. CASE InBusDisable
  BY <1>8, SessionStepInv DEF InBusDisable, BusDisable, IrqPending, dataVars
<1>9. CASE InHostReset
  BY <1>9 DEF InHostReset, HostReset, dataVars, epVars, taskVars, IInv, EpInv, Owned,
              LatchedIsArmed, LatchedIsOurs, SnapshotIsPast, FillIsNew,
              CompletionIsOurs, CompletionIsSeen, Valid, IrqPending
<1>10. CASE InReset
  BY <1>10, SessionStepInv DEF InReset, IsrReset, ToggleReset, IrqPending
<1>11. QED
  BY <1>1, <1>2, <1>3, <1>4, <1>5, <1>6, <1>7, <1>8, <1>9, <1>10 DEF Next

\* Hence it holds throughout.
LEMMA InvariantHolds == Spec => []IInv
BY InitInv, StepInv, PTL DEF Spec

-----------------------------------------------------------------------------
(* The properties.                                                         *)

\* An endpoint answers ACK only for a live, uncompleted write: write() never
\* fills a bank the SIE may send and leaves no packet behind when it ends.
THEOREM ArmedEndpointsAreOwned == Spec => []ArmedIsOwned
<1>1. IInv => ArmedIsOwned
  BY DEF IInv, EpInv, Owned, ArmedIsOwned
<1>2. QED BY <1>1, InvariantHolds, PTL

\* No write takes the completion of another packet for its own.
THEOREM OkOnlyIfSent == Spec => []OkWasSent
<1>1. IInv => OkWasSent
  BY DEF IInv, EpInv, CompletionIsOurs, OkWasSent
<1>2. QED BY <1>1, InvariantHolds, PTL

\* No completion is hidden from the write it belongs to, even by a counter of
\* two values.
THEOREM CompletionsAreSeen == Spec => []SentIsSeen
<1>1. IInv => SentIsSeen
  BY DEF IInv, EpInv, CompletionIsSeen, SentIsSeen
<1>2. QED BY <1>1, InvariantHolds, PTL

\* The host never holds a packet the endpoint has not had in its bank.
HostIsBehind == \A e \in Eps : hostIn[e] <= bank[e]

\* Packets reach the host out of the bank, and the bank's number only grows.
LEMMA HostBehindHolds == Spec => []HostIsBehind
<1>1. Init => HostIsBehind
  <2> SUFFICES ASSUME Init, NEW e \in Eps PROVE hostIn[e] <= bank[e]
    BY DEF HostIsBehind
  <2>1. hostIn[e] = 0 /\ bank[e] = 0
    BY DEF Init
  <2>2. QED BY <2>1
<1>2. TypeOK /\ HostIsBehind /\ [Next]_vars => HostIsBehind'
  <2> SUFFICES ASSUME TypeOK, HostIsBehind, [Next]_vars PROVE HostIsBehind'
    OBVIOUS
  <2>a. /\ bank \in [Eps -> 0 .. MaxWrites] /\ hostIn \in [Eps -> 0 .. MaxWrites]
        /\ MaxWrites \in Nat
    BY InAssumption DEF InAssumption, TypeOK
  <2>1. ASSUME NEW e \in Eps, WriteFill(e) PROVE HostIsBehind'
    BY <2>1, <2>a DEF WriteFill, HostIsBehind
  <2>2. ASSUME NEW e \in Eps, NEW acked \in BOOLEAN, HostIn(e, acked)
        PROVE  HostIsBehind'
    BY <2>2, <2>a DEF HostIn, HostIsBehind
  <2>3. CASE UNCHANGED <<bank, hostIn>>
    BY <2>3 DEF HostIsBehind
  <2>4. ASSUME NEW e \in Eps,
               \/ WriteBegin(e) \/ WriteSnapshot(e) \/ WriteArm(e) \/ WritePoll(e)
               \/ WriteDrop(e) \/ WriteCancel(e) \/ Wait(e) \/ Poll(e) \/ IsrIn(e)
        PROVE  UNCHANGED <<bank, hostIn>>
    BY <2>4 DEF WriteBegin, WriteSnapshot, WriteArm, WritePoll, WriteDrop, WriteCancel,
                Wait, Poll, IsrIn, dataVars
  <2>5. ASSUME NEW e \in Eps, NEW b \in BOOLEAN,
               InSetEnabled(e, b) \/ InSetStalled(e, b)
        PROVE  UNCHANGED <<bank, hostIn>>
    BY <2>5 DEF InSetEnabled, InSetStalled, ToggleReset
  <2>6. CASE InBusEnable \/ InBusDisable \/ InHostReset \/ InReset
    BY <2>3, <2>6 DEF InBusEnable, InBusDisable, InHostReset, InReset, ToggleReset, dataVars
  <2>7. CASE UNCHANGED vars
    BY <2>3, <2>7 DEF vars, dataVars
  <2>8. QED
    BY <2>1, <2>2, <2>3, <2>4, <2>5, <2>6, <2>7 DEF Next, WriteStep
<1>3. QED BY <1>1, <1>2, TypeCorrect, PTL DEF Spec

\* What the host accepts is the packet of a write that is still valid, and it
\* is newer than all it accepted before.
THEOREM OnlyLivePacketsAccepted == Spec => NoGhostPacket
<1> DEFINE Accepted == \A e \in Eps : hostIn'[e] # hostIn[e] =>
                          pc[e] \in Owning /\ Valid(e) /\ hostIn'[e] > hostIn[e]
<1>1. IInv /\ HostIsBehind /\ [Next]_vars => Accepted
  <2> SUFFICES ASSUME IInv, HostIsBehind, [Next]_vars PROVE Accepted
    OBVIOUS
  <2>a. /\ bank \in [Eps -> 0 .. MaxWrites] /\ hostIn \in [Eps -> 0 .. MaxWrites]
        /\ MaxWrites \in Nat
    BY InAssumption DEF InAssumption, IInv, TypeOK
  <2>1. ASSUME NEW e \in Eps, NEW acked \in BOOLEAN, HostIn(e, acked) PROVE Accepted
    <3>1. pc[e] \in Owning /\ Valid(e)
      BY <2>1 DEF HostIn, SieReady, IInv, EpInv, Owned
    <3>2. \A f \in Eps : hostIn'[f] # hostIn[f] => f = e /\ hostIn'[e] = bank[e]
      BY <2>1, <2>a DEF HostIn
    <3>3. hostIn[e] <= bank[e] /\ hostIn[e] \in Nat /\ bank[e] \in Nat
      BY <2>a DEF HostIsBehind
    <3>4. QED BY <3>1, <3>2, <3>3
  <2>2. CASE UNCHANGED hostIn
    BY <2>2
  <2>3. ASSUME NEW e \in Eps,
               \/ WriteBegin(e) \/ WriteStep(e) \/ WriteCancel(e) \/ Wait(e)
               \/ Poll(e) \/ IsrIn(e)
        PROVE  UNCHANGED hostIn
    BY <2>3 DEF WriteStep, WriteBegin, WriteSnapshot, WriteFill, WriteArm, WritePoll,
                WriteDrop, WriteCancel, Wait, Poll, IsrIn, dataVars
  <2>4. ASSUME NEW e \in Eps, NEW b \in BOOLEAN,
               InSetEnabled(e, b) \/ InSetStalled(e, b)
        PROVE  UNCHANGED hostIn
    BY <2>4 DEF InSetEnabled, InSetStalled, ToggleReset
  <2>5. CASE InBusEnable \/ InBusDisable \/ InHostReset \/ InReset
    BY <2>2, <2>5 DEF InBusEnable, InBusDisable, InHostReset, InReset, ToggleReset, dataVars
  <2>6. CASE UNCHANGED vars
    BY <2>2, <2>6 DEF vars, dataVars
  <2>7. QED
    BY <2>1, <2>2, <2>3, <2>4, <2>5, <2>6 DEF Next
<1>2. QED
  BY <1>1, InvariantHolds, HostBehindHolds, PTL DEF Spec, NoGhostPacket

-----------------------------------------------------------------------------
(* No lost wake-up: WakeInv of UsbTransferProofs, step by step.            *)

\* Each step of write() and wait_enabled, of the Bus, the host and the handler
\* is one of UsbTransfer, or leaves alone what a future waits for.
LEMMA StepWakes == TypeOK /\ WakeInv /\ [Next]_vars => WakeInv'
<1> SUFFICES ASSUME TypeOK, WakeInv, [Next]_vars PROVE WakeInv'
  OBVIOUS
<1>a. TransferTypeOK /\ pc \in [Eps -> InPc]
  BY DEF TypeOK
<1>1. ASSUME NEW e \in Eps, WriteFill(e) PROVE WakeInv'
  BY <1>1, <1>a, BusyWakes DEF WriteFill, busVars, epVars
<1>2. ASSUME NEW e \in Eps,
             \/ WriteBegin(e) \/ WriteSnapshot(e) \/ WriteArm(e) \/ WritePoll(e)
             \/ WriteDrop(e) \/ WriteCancel(e) \/ Wait(e) \/ Poll(e)
      PROVE  WakeInv'
  <2>1. \E there \in {"fill", "arm", "idle", "copy"} :
          \/ CheckEnabled(e) \/ TakeSnapshot(e, there) \/ ArmFails(e)
          \/ ArmSucceeds(e) \/ Register(e) \/ CheckLife(e) \/ CheckDone(e, there)
          \/ Resume(e) \/ Cancel(e) \/ DropGuard(e) \/ WaitEnabled(e) \/ WaitCheck(e)
    BY <1>2 DEF WriteBegin, WriteSnapshot, WriteArm, WritePoll, WriteDrop, WriteCancel,
                Wait, Poll
  <2>2. QED BY <1>a, <2>1, FutureWakes
<1>3. ASSUME NEW e \in Eps, NEW on \in BOOLEAN, InSetEnabled(e, on) PROVE WakeInv'
  BY <1>3, <1>a, OtherWakes DEF InSetEnabled
<1>4. ASSUME NEW e \in Eps, NEW stalled \in BOOLEAN, InSetStalled(e, stalled)
      PROVE  WakeInv'
  BY <1>4, <1>a, OtherWakes DEF InSetStalled
<1>5. ASSUME NEW e \in Eps, NEW acked \in BOOLEAN, HostIn(e, acked) PROVE WakeInv'
  BY <1>5, QuietWakes DEF HostIn, epVars
<1>6. ASSUME NEW e \in Eps, IsrIn(e) PROVE WakeInv'
  BY <1>6, <1>a, OtherWakes DEF IsrIn
<1>7. CASE InBusEnable \/ InBusDisable \/ InHostReset \/ InReset
  <2>1. PICK e : e \in Eps
    BY TransferAssumption DEF TransferAssumption
  <2>2. QED
    BY <1>7, <1>a, <2>1, OtherWakes DEF InBusEnable, InBusDisable, InHostReset, InReset
<1>8. CASE UNCHANGED vars
  BY <1>8, QuietWakes DEF vars, busVars, epVars
<1>9. QED
  BY <1>1, <1>2, <1>3, <1>4, <1>5, <1>6, <1>7, <1>8 DEF Next, WriteStep

\* Whatever makes a suspended write or wait_enabled ready has woken its task:
\* registering before checking, and waking after changing, leaves no gap for an
\* interrupt or a Bus method to fall into.
THEOREM WakeupsAreKept == Spec => []NoLostWakeup
<1>1. Init => WakeInv
  BY InitWakes DEF Init
<1>2. QED BY <1>1, StepWakes, WakeInvSuffices, TypeCorrect, PTL DEF Spec

-----------------------------------------------------------------------------
(* Without halts a pending write stays armed until it has completed.       *)

PendingIsArmed(e) ==
    pc[e] \in Polling /\ Valid(e) /\ doneGen[e] = snap[e].done => response[e] = "ACK"

\* A step that leaves the endpoint e alone, or ends its instance.
LEMMA ArmedKept ==
    ASSUME IInv, NEW e \in Eps, PendingIsArmed(e),
           pc'[e] \in Polling => pc[e] \in Polling,
           snap'[e] = snap[e], doneGen'[e] = doneGen[e],
           \/ /\ UNCHANGED resetGen /\ response'[e] = response[e]
              /\ enableGen'[e] = enableGen[e] /\ enabled'[e] = enabled[e]
           \/ ~enabled'[e]
           \/ enableGen'[e] = enableGen[e] + 1
    PROVE  PendingIsArmed(e)'
<1>1. /\ SnapshotIsPast(e) /\ enableGen[e] \in Nat /\ snap[e].enable \in Nat
  BY TransferAssumption
  DEF TransferAssumption, IInv, EpInv, TypeOK, TransferTypeOK, Snapshots
<1>2. CASE enableGen'[e] = enableGen[e] + 1
  BY <1>1, <1>2 DEF SnapshotIsPast, Valid, PendingIsArmed
<1>3. CASE ~enabled'[e]
  BY <1>3 DEF Valid, PendingIsArmed
<1>4. CASE /\ UNCHANGED resetGen /\ response'[e] = response[e]
           /\ enableGen'[e] = enableGen[e] /\ enabled'[e] = enabled[e]
  BY <1>4 DEF Valid, PendingIsArmed
<1>5. QED BY <1>2, <1>3, <1>4

\* A step of a write, its cancellation and wait_enabled.
LEMMA TaskArmed ==
    ASSUME IInv, NEW e \in Eps, PendingIsArmed(e), NEW f \in Eps,
           WriteBegin(f) \/ WriteStep(f) \/ WriteCancel(f) \/ Wait(f) \/ Poll(f)
    PROVE  PendingIsArmed(e)'
<1>a. /\ pc \in [Eps -> InPc] /\ snap \in [Eps -> Snapshots]
      /\ response \in [Eps -> Responses]
  BY DEF IInv, TypeOK, TransferTypeOK
<1>b. UNCHANGED <<resetGen, enabled, enableGen, doneGen>>
  BY DEF WriteBegin, WriteStep, WriteSnapshot, WriteFill, WriteArm, WritePoll, WriteDrop,
         WriteCancel, Wait, Poll, CheckEnabled, TakeSnapshot, ArmFails, ArmSucceeds,
         CriticalSection, Register, CheckLife, CheckDone, Resume, Cancel, DropGuard,
         WaitEnabled, WaitCheck, busVars, epVars
<1>1. CASE e # f
  <2>1. pc'[e] = pc[e] /\ snap'[e] = snap[e] /\ response'[e] = response[e]
    BY <1>1, <1>a
    DEF WriteBegin, WriteStep, WriteSnapshot, WriteFill, WriteArm, WritePoll, WriteDrop,
        WriteCancel, Wait, Poll, CheckEnabled, TakeSnapshot, ArmFails, ArmSucceeds,
        Register, CheckLife, CheckDone, Resume, Cancel, DropGuard,
        WaitEnabled, WaitCheck, epVars, Goto
  <2>2. QED BY <1>b, <2>1, ArmedKept
<1>2. CASE e = f
  <2>1. CASE pc'[e] \notin Polling
    BY <2>1 DEF PendingIsArmed
  <2>2. CASE pc'[e] \in Polling /\ ArmSucceeds(e)
    BY <1>a, <2>2 DEF ArmSucceeds, PendingIsArmed
  <2>3. CASE pc'[e] \in Polling /\ ~ArmSucceeds(e)
    <3>1. Register(e) \/ CheckLife(e) \/ CheckDone(e, "idle") \/ Resume(e)
      BY <1>2, <1>a, <2>3
      DEF WriteBegin, WriteStep, WriteSnapshot, WriteFill, WriteArm, WritePoll, WriteDrop,
          WriteCancel, Wait, Poll, CheckEnabled, TakeSnapshot, ArmFails, Cancel, DropGuard,
          WaitEnabled, WaitCheck, Goto, Polling
    <3>2. pc[e] \in Polling /\ UNCHANGED <<snap, response>>
      BY <3>1, <1>a, <2>3
      DEF Register, CheckLife, CheckDone, Resume, Goto, Polling, epVars
    <3>3. QED BY <1>b, <3>2, ArmedKept
  <2>4. QED BY <2>1, <2>2, <2>3
<1>3. QED BY <1>1, <1>2

\* Only the completion of the write itself, or the end of its instance, takes
\* the ACK away.
LEMMA StepArmed ==
    ASSUME Halts = FALSE, IInv, NEW e \in Eps, PendingIsArmed(e), [Next]_vars
    PROVE  PendingIsArmed(e)'
<1>a. /\ TypeOK /\ TransferTypeOK /\ EpInv(e)
  BY DEF IInv, TypeOK
<1>1. ASSUME NEW f \in Eps,
             WriteBegin(f) \/ WriteStep(f) \/ WriteCancel(f) \/ Wait(f) \/ Poll(f)
      PROVE  PendingIsArmed(e)'
  BY <1>1, TaskArmed
<1>2. ASSUME NEW f \in Eps, NEW on \in BOOLEAN, InSetEnabled(f, on)
      PROVE  PendingIsArmed(e)'
  BY <1>2, <1>a, ArmedKept DEF InSetEnabled, SetEnabled, CriticalSection, TransferTypeOK
<1>3. ASSUME NEW f \in Eps, NEW acked \in BOOLEAN, HostIn(f, acked)
      PROVE  PendingIsArmed(e)'
  BY <1>3, ArmedKept DEF HostIn, epVars, taskVars
<1>4. ASSUME NEW f \in Eps, IsrIn(f) PROVE PendingIsArmed(e)'
  <2>1. CASE f # e
    BY <1>4, <1>a, <2>1, ArmedKept
    DEF IsrIn, IsrComplete, IsrRetire, TransferTypeOK
  <2>2. CASE f = e
    <3>1. /\ doneGen'[e] = (doneGen[e] + 1) % CompletionModulus
          /\ doneGen[e] \in Generations /\ xfer = e
          /\ UNCHANGED <<resetGen, enabled, enableGen, pc, snap>>
      BY <1>4, <1>a, <2>2 DEF IsrIn, IsrComplete, IsrRetire, TransferTypeOK
    <3>2. doneGen'[e] # doneGen[e]
      BY <3>1, IncrementShows
    <3>3. QED BY <1>a, <3>1, <3>2 DEF EpInv, LatchedIsOurs, PendingIsArmed, Valid
  <2>3. QED BY <2>1, <2>2
<1>5. CASE InBusEnable \/ InBusDisable \/ InReset
  BY <1>5, ArmedKept
  DEF InBusEnable, BusEnable, InBusDisable, BusDisable, InReset, IsrReset, taskVars
<1>6. CASE InHostReset
  BY <1>6, ArmedKept DEF InHostReset, HostReset, epVars, taskVars
<1>7. CASE UNCHANGED vars
  BY <1>7, ArmedKept DEF vars, busVars, epVars, taskVars
<1>8. QED
  BY <1>1, <1>2, <1>3, <1>4, <1>5, <1>6, <1>7 DEF Next, InSetStalled

\* While a write waits for the host and no endpoint is halted, the host can have
\* its packet: neither the handler, a reset, a new instance of the endpoint nor
\* an earlier, cancelled write leaves the endpoint at NAK under it.
THEOREM PendingWritesAreArmed ==
    ASSUME Halts = FALSE
    PROVE  Spec => []PendingWriteIsArmed
<1> DEFINE AllArmed == \A e \in Eps : PendingIsArmed(e)
<1>1. Init => AllArmed
  BY DEF Init, TransferInit, PendingIsArmed, Polling
<1>2. IInv /\ AllArmed /\ [Next]_vars => AllArmed'
  BY StepArmed
<1>3. AllArmed => PendingWriteIsArmed
  BY DEF PendingIsArmed, PendingWriteIsArmed, Polling
<1> HIDE DEF AllArmed
<1>4. QED BY <1>1, <1>2, <1>3, InvariantHolds, PTL DEF Spec

-----------------------------------------------------------------------------
(* Delivery: how the two data PIDs follow a write that is acknowledged, is *)
(* in doubt, or has failed.                                                *)

\* The PIDs differ only while the host holds the packet and the device does not
\* know: its write is pending, or the instance of the endpoint is over.
DoubtIsOurs(e) ==
    txToggle[e] # hostToggle[e] =>
        /\ hostIn[e] = bank[e] /\ xfer # e /\ pc[e] \notin {"snap", "fill", "arm"}
        /\ enabled[e] => pc[e] \in Polling /\ Valid(e) /\ doneGen[e] = snap[e].done

\* An acknowledged packet was accepted, now or when it was sent first.
LatchedIsDelivered(e) ==
    pc[e] \in Polling /\ (xfer = e \/ doneGen[e] # snap[e].done) => hostIn[e] = bank[e]

DeliveryInv == \A e \in Eps : DoubtIsOurs(e) /\ LatchedIsDelivered(e)

\* Nothing was sent.
LEMMA InitDelivery == Init => DeliveryInv
<1> SUFFICES ASSUME Init, NEW e \in Eps PROVE DoubtIsOurs(e) /\ LatchedIsDelivered(e)
  BY DEF DeliveryInv
<1>1. txToggle[e] = hostToggle[e] /\ pc[e] = "idle"
  BY DEF Init, TransferInit
<1>2. QED BY <1>1 DEF DoubtIsOurs, LatchedIsDelivered, Polling

\* A step that neither moves a packet nor a task: it leaves the data PIDs of an
\* endpoint alone, or makes them agree, or leaves the endpoint disabled.
LEMMA StillDelivered ==
    ASSUME DeliveryInv, NEW e \in Eps, e # NoEp,
           UNCHANGED <<bank, hostIn, pc, snap, doneGen>>, xfer' \in {xfer, NoEp},
           \/ txToggle'[e] = hostToggle'[e]
           \/ /\ txToggle'[e] = txToggle[e] /\ hostToggle'[e] = hostToggle[e]
              /\ \/ ~enabled'[e]
                 \/ enabled'[e] = enabled[e] /\ enableGen'[e] = enableGen[e]
                    /\ resetGen' = resetGen
    PROVE  DoubtIsOurs(e)' /\ LatchedIsDelivered(e)'
<1>1. DoubtIsOurs(e) /\ LatchedIsDelivered(e)
  BY DEF DeliveryInv
<1>2. LatchedIsDelivered(e)'
  BY <1>1 DEF LatchedIsDelivered
<1>3. DoubtIsOurs(e)'
  BY <1>1 DEF DoubtIsOurs, Valid
<1>4. QED BY <1>2, <1>3

\* The steps of a write, its cancellation and wait_enabled.
LEMMA TaskDelivery ==
    ASSUME InDoubtCancels = FALSE, IInv, DeliveryInv, NEW e \in Eps,
           WriteBegin(e) \/ WriteStep(e) \/ WriteCancel(e) \/ Wait(e) \/ Poll(e)
    PROVE  DeliveryInv'
<1> DEFINE Frame ==
      /\ UNCHANGED <<txToggle, hostToggle, hostIn, xfer, resetGen, enabled, enableGen, doneGen>>
      /\ \A f \in Eps \ {e} :
           pc'[f] = pc[f] /\ snap'[f] = snap[f] /\ bank'[f] = bank[f]
<1>a. /\ pc \in [Eps -> InPc] /\ snap \in [Eps -> Snapshots]
      /\ bank \in [Eps -> 0 .. MaxWrites] /\ DoubtIsOurs(e) /\ LatchedIsDelivered(e)
      /\ EpInv(e) /\ NoEp \notin Eps
  BY TransferAssumption
  DEF TransferAssumption, IInv, TypeOK, TransferTypeOK, DeliveryInv
<1>b. ASSUME Frame, DoubtIsOurs(e)', LatchedIsDelivered(e)' PROVE DeliveryInv'
  <2>1. ASSUME NEW f \in Eps, f # e PROVE DoubtIsOurs(f)' /\ LatchedIsDelivered(f)'
    <3>1. DoubtIsOurs(f) /\ LatchedIsDelivered(f)
      BY DEF DeliveryInv
    <3>2. QED BY <1>b, <2>1, <3>1 DEF DoubtIsOurs, LatchedIsDelivered, Valid
  <2>2. QED BY <1>b, <2>1 DEF DeliveryInv
<1> DEFINE Kept == Frame /\ DoubtIsOurs(e)' /\ LatchedIsDelivered(e)'
<1>c. Kept => DeliveryInv'
  BY <1>b
<1> USE DEF DoubtIsOurs, LatchedIsDelivered, Valid, Polling, Goto
<1>1. CASE WriteBegin(e)
  <2>1. Kept
    BY <1>1, <1>a DEF WriteBegin, CheckEnabled, busVars, epVars, dataVars
  <2>2. QED BY <1>c, <2>1
<1>2. CASE WriteSnapshot(e)
  <2>1. Kept
    BY <1>2, <1>a DEF WriteSnapshot, TakeSnapshot, busVars, epVars, dataVars
  <2>2. QED BY <1>c, <2>1
<1>3. CASE WriteFill(e)
  <2>1. Kept
    BY <1>3, <1>a DEF WriteFill, busVars, epVars
  <2>2. QED BY <1>c, <2>1
<1>4. CASE WriteArm(e)
  <2>1. CASE ArmFails(e)
    <3>1. Kept
      BY <1>4, <2>1, <1>a DEF WriteArm, ArmFails, CriticalSection, epVars, dataVars
    <3>2. QED BY <1>c, <3>1
  <2>2. CASE ArmSucceeds(e)
    <3>1. xfer # e
      BY <2>2, <1>a
      DEF ArmSucceeds, CriticalSection, IInv, IrqPending, EpInv, Owned, Owning, LatchedIsArmed
    <3>2. Frame /\ pc'[e] = "poll" /\ doneGen'[e] = snap'[e].done /\ pc[e] = "arm"
      BY <1>4, <2>2, <1>a DEF WriteArm, ArmSucceeds, CriticalSection, dataVars, Snapshots
    <3>3. Kept
      BY <1>a, <3>1, <3>2
    <3>4. QED BY <1>c, <3>3
  <2>3. QED BY <1>4, <2>1, <2>2 DEF WriteArm
<1>5. CASE WritePoll(e)
  <2>1. Kept
    BY <1>5, <1>a
    DEF WritePoll, Register, CheckLife, CheckDone, busVars, epVars, dataVars
  <2>2. QED BY <1>c, <2>1
<1>6. CASE WriteDrop(e)
  <2>1. Kept
    BY <1>6, <1>a DEF WriteDrop, DropGuard, CriticalSection, dataVars
  <2>2. QED BY <1>c, <2>1
<1>7. CASE WriteCancel(e)
  <2>1. Kept
    BY <1>7, <1>a DEF WriteCancel, Cancel, busVars, epVars, dataVars
  <2>2. QED BY <1>c, <2>1
<1>8. CASE Wait(e)
  <2>1. Kept
    BY <1>8, <1>a DEF Wait, WaitEnabled, WaitCheck, busVars, epVars, dataVars
  <2>2. QED BY <1>c, <2>1
<1>9. CASE Poll(e)
  <2>1. Kept
    BY <1>9, <1>a DEF Poll, Resume, busVars, epVars, dataVars
  <2>2. QED BY <1>c, <2>1
<1>10. QED BY <1>1, <1>2, <1>3, <1>4, <1>5, <1>6, <1>7, <1>8, <1>9 DEF WriteStep

\* An IN transaction: a packet the host had accepted before is acknowledged
\* under the PID the host no longer expects, any other under the one it does.
LEMMA HostDelivery ==
    ASSUME InDoubtCancels = FALSE, IInv, DeliveryInv, NEW e \in Eps, NEW acked \in BOOLEAN,
           HostIn(e, acked)
    PROVE  DeliveryInv'
<1>a. /\ hostIn \in [Eps -> 0 .. MaxWrites] /\ txToggle[e] \in {0, 1}
      /\ hostToggle[e] \in {0, 1} /\ NoEp \notin Eps
      /\ txToggle \in [Eps -> {0, 1}] /\ hostToggle \in [Eps -> {0, 1}]
  BY TransferAssumption DEF TransferAssumption, IInv, TypeOK
<1>b. /\ xfer = NoEp /\ UNCHANGED <<resetGen, enabled, enableGen, doneGen, pc, snap, bank>>
      /\ xfer' = IF acked THEN e ELSE xfer
  BY DEF HostIn, SieReady, epVars, taskVars
<1>1. ASSUME NEW f \in Eps, f # e PROVE DoubtIsOurs(f)' /\ LatchedIsDelivered(f)'
  <2>1. /\ DoubtIsOurs(f) /\ LatchedIsDelivered(f)
        /\ hostIn'[f] = hostIn[f] /\ txToggle'[f] = txToggle[f]
        /\ hostToggle'[f] = hostToggle[f]
    BY <1>1, <1>a DEF HostIn, DeliveryInv
  <2>2. QED BY <1>a, <1>b, <1>1, <2>1 DEF DoubtIsOurs, LatchedIsDelivered, Valid
<1>2. DoubtIsOurs(e)' /\ LatchedIsDelivered(e)'
  <2>1. /\ pc[e] \in Owning /\ Valid(e) /\ doneGen[e] = snap[e].done
        /\ ~acked => pc[e] # "drop"
    BY DEF HostIn, SieReady, IInv, EpInv, Owned
  <2>2. /\ hostIn'[e] = IF txToggle[e] = hostToggle[e] THEN bank[e] ELSE hostIn[e]
        /\ hostToggle'[e] = IF txToggle[e] = hostToggle[e] THEN 1 - hostToggle[e]
                                                           ELSE hostToggle[e]
        /\ txToggle'[e] = IF acked THEN 1 - txToggle[e] ELSE txToggle[e]
    BY <1>a DEF HostIn
  <2>3. DoubtIsOurs(e) /\ LatchedIsDelivered(e)
    BY DEF DeliveryInv
  <2>4. hostIn'[e] = bank[e] /\ (acked => txToggle'[e] = hostToggle'[e])
    BY <1>a, <2>2, <2>3 DEF DoubtIsOurs
  <2>5. pc[e] \notin {"snap", "fill", "arm"} /\ (~acked => pc[e] \in Polling)
    BY <2>1 DEF Owning, Polling
  <2>6. QED BY <1>a, <1>b, <2>1, <2>4, <2>5 DEF DoubtIsOurs, LatchedIsDelivered, Valid
<1>3. QED BY <1>1, <1>2 DEF DeliveryInv

\* The Bus methods, the host's reset and the handler.
LEMMA StepDelivery ==
    InDoubtCancels = FALSE /\ IInv /\ DeliveryInv /\ [Next]_vars => DeliveryInv'
<1> SUFFICES ASSUME InDoubtCancels = FALSE, IInv, DeliveryInv, [Next]_vars
             PROVE  DeliveryInv'
  OBVIOUS
<1>a. TransferTypeOK /\ NoEp \notin Eps
  BY TransferAssumption DEF TransferAssumption, IInv, TypeOK
<1>1. ASSUME NEW e \in Eps,
             WriteBegin(e) \/ WriteStep(e) \/ WriteCancel(e) \/ Wait(e) \/ Poll(e)
      PROVE  DeliveryInv'
  BY <1>1, TaskDelivery
<1>2. ASSUME NEW e \in Eps, NEW acked \in BOOLEAN, HostIn(e, acked) PROVE DeliveryInv'
  BY <1>2, HostDelivery
<1>3. ASSUME NEW e \in Eps, NEW on \in BOOLEAN, InSetEnabled(e, on) PROVE DeliveryInv'
  <2> SUFFICES ASSUME NEW f \in Eps PROVE DoubtIsOurs(f)' /\ LatchedIsDelivered(f)'
    BY DEF DeliveryInv
  <2>1. /\ UNCHANGED <<bank, hostIn, pc, snap, doneGen, xfer, resetGen>>
        /\ f # e \/ ~on => txToggle'[f] = txToggle[f] /\ hostToggle'[f] = hostToggle[f]
        /\ f = e /\ on => txToggle'[f] = hostToggle'[f]
        /\ f # e => enabled'[f] = enabled[f] /\ enableGen'[f] = enableGen[f]
        /\ f = e /\ ~on => ~enabled'[f]
    BY <1>3, <1>a DEF InSetEnabled, SetEnabled, CriticalSection, ToggleReset, TransferTypeOK
  <2>2. QED BY <1>a, <2>1, StillDelivered
<1>4. ASSUME NEW e \in Eps, NEW stalled \in BOOLEAN, InSetStalled(e, stalled)
      PROVE  DeliveryInv'
  <2> SUFFICES ASSUME NEW f \in Eps PROVE DoubtIsOurs(f)' /\ LatchedIsDelivered(f)'
    BY DEF DeliveryInv
  <2>1. /\ UNCHANGED <<bank, hostIn, pc, snap, doneGen, xfer, resetGen, enabled, enableGen>>
        /\ \/ txToggle'[f] = hostToggle'[f]
           \/ txToggle'[f] = txToggle[f] /\ hostToggle'[f] = hostToggle[f]
    BY <1>4 DEF InSetStalled, SetStalled, CriticalSection, ToggleReset, taskVars
  <2>2. QED BY <1>a, <2>1, StillDelivered
<1>5. ASSUME NEW e \in Eps, IsrIn(e) PROVE DeliveryInv'
  <2> SUFFICES ASSUME NEW f \in Eps PROVE DoubtIsOurs(f)' /\ LatchedIsDelivered(f)'
    BY DEF DeliveryInv
  <2>1. /\ UNCHANGED <<bank, hostIn, txToggle, hostToggle, pc, snap, resetGen, enabled, enableGen>>
        /\ xfer = e /\ xfer' = NoEp
        /\ f # e => doneGen'[f] = doneGen[f]
        /\ DoubtIsOurs(f) /\ LatchedIsDelivered(f)
    BY <1>5, <1>a DEF IsrIn, IsrComplete, IsrRetire, TransferTypeOK, dataVars, DeliveryInv
  <2>2. QED BY <1>a, <2>1 DEF DoubtIsOurs, LatchedIsDelivered, Valid
<1>6. CASE InBusEnable \/ InReset
  <2> SUFFICES ASSUME NEW f \in Eps PROVE DoubtIsOurs(f)' /\ LatchedIsDelivered(f)'
    BY DEF DeliveryInv
  <2>1. /\ UNCHANGED <<bank, hostIn, pc, snap, doneGen>> /\ xfer' \in {xfer, NoEp}
        /\ txToggle'[f] = hostToggle'[f]
    BY <1>6 DEF InBusEnable, BusEnable, InReset, IsrReset, ToggleReset, taskVars
  <2>2. QED BY <1>a, <2>1, StillDelivered
<1>7. CASE InBusDisable
  BY <1>7, <1>a, StillDelivered DEF InBusDisable, BusDisable, dataVars, DeliveryInv
<1>8. CASE InHostReset \/ UNCHANGED vars
  BY <1>8, <1>a, StillDelivered
  DEF InHostReset, HostReset, vars, busVars, epVars, taskVars, dataVars, DeliveryInv
<1>9. QED BY <1>1, <1>2, <1>3, <1>4, <1>5, <1>6, <1>7, <1>8 DEF Next

\* A write that returns Ok was received: with halts, resets, new instances and
\* lost acknowledgements, as long as no write is cancelled in doubt, no packet is
\* thrown away by the host as the repetition of an earlier one.
THEOREM OkMeansDelivered ==
    ASSUME InDoubtCancels = FALSE
    PROVE  Spec => []OkIsDelivered
<1>1. IInv /\ DeliveryInv /\ [Next]_vars => DeliveryInv'
  BY StepDelivery
<1>2. DeliveryInv => OkIsDelivered
  BY DEF DeliveryInv, LatchedIsDelivered, OkIsDelivered
<1>3. QED BY <1>1, <1>2, InitDelivery, InvariantHolds, PTL DEF Spec

=============================================================================
