------------------------- MODULE UsbTransferProofs -------------------------
(***************************************************************************)
(* The steps of UsbTransfer keep its variables in their types.  The two    *)
(* endpoint modules add the type of pc, whose values are theirs.  They     *)
(* keep wake-ups too: what makes a suspended future ready wakes its task.  *)
(***************************************************************************)
EXTENDS UsbTransfer, TLAPS

\* Generations stay within the counter when the handler advances one.
LEMMA NextGeneration ==
    ASSUME NEW g \in Generations
    PROVE  (g + 1) % CompletionModulus \in Generations
BY TransferAssumption DEF TransferAssumption, Generations

\* The program starts in a typed state.
LEMMA TransferInitTyped == TransferInit => TransferTypeOK
<1> SUFFICES ASSUME TransferInit PROVE TransferTypeOK
  OBVIOUS
<1>1. usbOn \in BOOLEAN /\ resetFlag \in BOOLEAN /\ irqDue \in BOOLEAN
  BY Zenon DEF TransferInit
<1>2. /\ enabled \in [Eps -> BOOLEAN] /\ registered \in [Eps -> BOOLEAN]
      /\ woken \in [Eps -> BOOLEAN]
  BY Zenon DEF TransferInit
<1>3. /\ resetGen \in 0 .. MaxResets /\ (resetFlag => resetGen < MaxResets)
      /\ xfer \in Eps \cup {NoEp}
      /\ enableGen \in [Eps -> 0 .. MaxEnables]
      /\ doneGen \in [Eps -> Generations]
  BY TransferAssumption DEF TransferAssumption, TransferInit, Generations
<1>4. response \in [Eps -> Responses]
  BY DEF TransferInit, Responses
<1>5. [reset |-> 0, enable |-> 0, done |-> 0] \in Snapshots
  BY TransferAssumption DEF TransferAssumption, Snapshots, Generations
<1>6. snap \in [Eps -> Snapshots]
  BY <1>5 DEF TransferInit
<1>7. QED BY <1>1, <1>2, <1>3, <1>4, <1>6 DEF TransferTypeOK

\* Recording the lifecycle generations gives a snapshot.
LEMMA SnapshotTyped ==
    ASSUME TransferTypeOK, NEW e \in Eps, NEW there, TakeSnapshot(e, there)
    PROVE  TransferTypeOK'
<1>1. snap[e] \in Snapshots /\ resetGen \in 0 .. MaxResets /\ enableGen[e] \in 0 .. MaxEnables
  BY DEF TransferTypeOK
<1>2. [snap[e] EXCEPT !.reset = resetGen, !.enable = enableGen[e]] \in Snapshots
  BY <1>1 DEF Snapshots
<1>3. snap' = [snap EXCEPT ![e] = [snap[e] EXCEPT !.reset = resetGen, !.enable = enableGen[e]]]
  BY DEF TakeSnapshot, TransferTypeOK
<1>4. snap' \in [Eps -> Snapshots]
  BY <1>2, <1>3 DEF TransferTypeOK
<1>5. QED BY <1>4 DEF TakeSnapshot, TransferTypeOK, busVars, epVars

\* So does recording the completion generation.
LEMMA ArmTyped ==
    ASSUME TransferTypeOK, NEW e \in Eps, ArmSucceeds(e)
    PROVE  TransferTypeOK'
<1>1. snap[e] \in Snapshots /\ doneGen[e] \in Generations
  BY DEF TransferTypeOK
<1>2. [snap[e] EXCEPT !.done = doneGen[e]] \in Snapshots
  BY <1>1 DEF Snapshots
<1>3. snap' \in [Eps -> Snapshots]
  BY <1>2 DEF ArmSucceeds, TransferTypeOK
<1>4. QED
  BY <1>3 DEF ArmSucceeds, CriticalSection, IrqPending, TransferTypeOK, Responses

\* The remaining steps of a transfer future, its guard and wait_enabled.
LEMMA FutureTyped ==
    ASSUME TransferTypeOK, NEW e \in Eps, NEW there,
           \/ CheckEnabled(e) \/ ArmFails(e) \/ Register(e) \/ CheckLife(e)
           \/ CheckDone(e, there) \/ Resume(e) \/ Cancel(e) \/ DropGuard(e)
           \/ WaitEnabled(e) \/ WaitCheck(e)
    PROVE  TransferTypeOK'
<1> USE DEF TransferTypeOK, busVars, epVars
<1>1. CASE CheckEnabled(e) \/ CheckLife(e) \/ CheckDone(e, there) \/ Cancel(e)
  BY <1>1 DEF CheckEnabled, CheckLife, CheckDone, Cancel
<1>2. CASE WaitEnabled(e) \/ WaitCheck(e)
  BY <1>2 DEF WaitEnabled, WaitCheck
<1>3. CASE Register(e)
  <2>1. registered' = [registered EXCEPT ![e] = TRUE]
    BY <1>3 DEF Register
  <2>2. registered' \in [Eps -> BOOLEAN]
    BY <2>1, Zenon
  <2>3. QED BY <1>3, <2>2 DEF Register
<1>4. CASE Resume(e)
  <2>1. woken' = [woken EXCEPT ![e] = FALSE]
    BY <1>4 DEF Resume
  <2>2. woken' \in [Eps -> BOOLEAN]
    BY <2>1, Zenon
  <2>3. QED BY <1>4, <2>2 DEF Resume
<1>5. CASE ArmFails(e)
  BY <1>5 DEF ArmFails, CriticalSection, IrqPending
<1>6. CASE DropGuard(e)
  <2>1. response' \in [Eps -> Responses]
    BY <1>6 DEF DropGuard, Responses
  <2>2. QED BY <1>6, <2>1 DEF DropGuard, CriticalSection, IrqPending
<1>7. QED BY <1>1, <1>2, <1>3, <1>4, <1>5, <1>6

\* Waking leaves `woken` a set of flags.
LEMMA WakeTyped ==
    ASSUME TransferTypeOK, NEW who, Wake(who)
    PROVE  woken' \in [Eps -> BOOLEAN]
BY DEF Wake, TransferTypeOK

\* The methods of Bus, and the host's reset signalling.
LEMMA BusTyped ==
    ASSUME TransferTypeOK, NEW e \in Eps, NEW on \in BOOLEAN, NEW resp \in Responses,
           \/ BusEnable \/ BusDisable \/ SetEnabled(e, on, resp)
           \/ SetStalled(e, resp) \/ HostReset
    PROVE  TransferTypeOK'
<1> USE TransferAssumption DEF TransferAssumption, TransferTypeOK, Responses
<1>1. CASE BusEnable
  BY <1>1 DEF BusEnable, taskVars
<1>2. CASE BusDisable
  <2>1. woken' \in [Eps -> BOOLEAN]
    BY <1>2, WakeTyped DEF BusDisable
  <2>2. enabled' \in [Eps -> BOOLEAN] /\ usbOn' \in BOOLEAN /\ resetFlag' \in BOOLEAN
    BY <1>2, Zenon DEF BusDisable
  <2>3. resetGen' \in 0 .. MaxResets /\ (resetFlag' => resetGen' < MaxResets)
    BY <1>2 DEF BusDisable
  <2>4. QED BY <1>2, <2>1, <2>2, <2>3 DEF BusDisable
<1>3. CASE SetEnabled(e, on, resp)
  BY <1>3, WakeTyped DEF SetEnabled, CriticalSection, IrqPending
<1>4. CASE SetStalled(e, resp)
  BY <1>4 DEF SetStalled, CriticalSection, IrqPending, taskVars
<1>5. CASE HostReset
  BY <1>5 DEF HostReset, epVars, taskVars
<1>6. QED BY <1>1, <1>2, <1>3, <1>4, <1>5

\* The interrupt handler.
LEMMA IsrTyped ==
    ASSUME TransferTypeOK, NEW e \in Eps, IsrComplete(e) \/ IsrReset
    PROVE  TransferTypeOK'
<1> USE TransferAssumption DEF TransferAssumption, TransferTypeOK, Responses
<1>1. CASE IsrComplete(e)
  <2>1. doneGen' \in [Eps -> Generations]
    BY <1>1, NextGeneration DEF IsrComplete
  <2>2. QED BY <1>1, <2>1, WakeTyped DEF IsrComplete, IsrRetire
<1>2. CASE IsrReset
  <2>1. woken' \in [Eps -> BOOLEAN]
    BY <1>2, WakeTyped DEF IsrReset
  <2>2. enabled' \in [Eps -> BOOLEAN] /\ irqDue' \in BOOLEAN /\ resetFlag' \in BOOLEAN
    BY <1>2, Zenon DEF IsrReset
  <2>3. resetGen' \in 0 .. MaxResets /\ (resetFlag' => resetGen' < MaxResets)
    BY <1>2 DEF IsrReset
  <2>4. response' \in [Eps -> Responses]
    BY <1>2 DEF IsrReset
  <2>5. QED BY <1>2, <2>1, <2>2, <2>3, <2>4 DEF IsrReset
<1>3. QED BY <1>1, <1>2

-----------------------------------------------------------------------------
(* No lost wake-up, for the futures of either direction.  The property is  *)
(* about suspended tasks; to be inductive it has to follow a task from the *)
(* registration of its waker through the checks that come after it.        *)

\* A disabled bus has no enabled endpoint, so that Bus::enable, which wakes
\* nobody, cannot be what ends a transfer.
OffIsDisabled == ~usbOn => \A e \in Eps : ~enabled[e]

\* Between the registration and the end of the poll, and while suspended, the
\* waker is there for whoever changes what the poll has looked at ...
WakerIsThere(e) ==
    pc[e] \in {"life", "done", "await", "wcheck", "wait"} => registered[e]

\* ... and a change after the look at it has set the wake flag.
ChangeWakes(e) ==
    /\ pc[e] \in {"done", "await"} /\ ~Valid(e) => woken[e]
    /\ pc[e] = "await" /\ doneGen[e] # snap[e].done => woken[e]
    /\ pc[e] = "wait" /\ enabled[e] => woken[e]

WakeInv == OffIsDisabled /\ \A e \in Eps : WakerIsThere(e) /\ ChangeWakes(e)

\* Nobody waits at the start.
LEMMA InitWakes == TransferInit => WakeInv
<1> SUFFICES ASSUME TransferInit PROVE WakeInv
  OBVIOUS
<1>1. ASSUME NEW e \in Eps PROVE pc[e] = "idle" /\ enabled[e] = FALSE
  BY <1>1 DEF TransferInit
<1>2. QED BY <1>1 DEF WakeInv, OffIsDisabled, WakerIsThere, ChangeWakes

\* It is what NoLostWakeup says, and more.
LEMMA WakeInvSuffices == WakeInv => NoLostWakeup
BY DEF WakeInv, ChangeWakes, NoLostWakeup

\* A step that touches none of what a future waits for or is woken by.
LEMMA QuietWakes ==
    ASSUME WakeInv,
           UNCHANGED <<usbOn, resetGen, enabled, enableGen, doneGen, taskVars>>
    PROVE  WakeInv'
BY DEF WakeInv, OffIsDisabled, WakerIsThere, ChangeWakes, Valid, taskVars

\* A step of the task that owns e which leaves it where it does not wait.
LEMMA BusyWakes ==
    ASSUME WakeInv, NEW e \in Eps, NEW S, pc \in [Eps -> S],
           NEW there, there \notin {"life", "done", "await", "wcheck", "wait"},
           Goto(e, there),
           \A f \in Eps \ {e} : snap'[f] = snap[f] /\ woken'[f] = woken[f],
           UNCHANGED <<usbOn, resetGen, enabled, enableGen, doneGen, registered>>
    PROVE  WakeInv'
<1>1. OffIsDisabled'
  BY DEF WakeInv, OffIsDisabled
<1>2. ASSUME NEW f \in Eps, f # e PROVE WakerIsThere(f)' /\ ChangeWakes(f)'
  <2>1. pc'[f] = pc[f] /\ snap'[f] = snap[f] /\ woken'[f] = woken[f]
    BY <1>2 DEF Goto
  <2>2. WakerIsThere(f) /\ ChangeWakes(f)
    BY DEF WakeInv
  <2>3. QED BY <2>1, <2>2 DEF WakerIsThere, ChangeWakes, Valid
<1>3. WakerIsThere(e)' /\ ChangeWakes(e)'
  BY DEF Goto, WakerIsThere, ChangeWakes
<1>4. QED BY <1>1, <1>2, <1>3 DEF WakeInv

\* The steps of a transfer future, its guard and wait_enabled.
LEMMA FutureWakes ==
    ASSUME TransferTypeOK, WakeInv, NEW e \in Eps, NEW S, pc \in [Eps -> S],
           NEW there \in {"fill", "arm", "idle", "copy"},
           \/ CheckEnabled(e) \/ TakeSnapshot(e, there) \/ ArmFails(e)
           \/ ArmSucceeds(e) \/ Register(e) \/ CheckLife(e) \/ CheckDone(e, there)
           \/ Resume(e) \/ Cancel(e) \/ DropGuard(e) \/ WaitEnabled(e) \/ WaitCheck(e)
    PROVE  WakeInv'
<1>a. /\ snap \in [Eps -> Snapshots] /\ registered \in [Eps -> BOOLEAN]
      /\ woken \in [Eps -> BOOLEAN] /\ WakerIsThere(e) /\ ChangeWakes(e)
  BY DEF TransferTypeOK, WakeInv
<1> DEFINE Still == UNCHANGED <<usbOn, resetGen, enabled, enableGen, doneGen, woken, snap>>
<1>b. ASSUME Still, NEW to, Goto(e, to), WakerIsThere(e)', ChangeWakes(e)',
             \A f \in Eps \ {e} : registered'[f] = registered[f]
      PROVE  WakeInv'
  <2>1. ASSUME NEW f \in Eps, f # e PROVE WakerIsThere(f)' /\ ChangeWakes(f)'
    <3>1. pc'[f] = pc[f] /\ registered'[f] = registered[f]
      BY <1>b, <2>1 DEF Goto
    <3>2. WakerIsThere(f) /\ ChangeWakes(f)
      BY DEF WakeInv
    <3>3. QED BY <1>b, <3>1, <3>2 DEF WakerIsThere, ChangeWakes, Valid
  <2>2. OffIsDisabled'
    BY <1>b DEF WakeInv, OffIsDisabled
  <2>3. QED BY <1>b, <2>1, <2>2 DEF WakeInv
<1>1. CASE CheckEnabled(e) \/ Cancel(e) \/ WaitEnabled(e)
  BY <1>1, BusyWakes DEF CheckEnabled, Cancel, WaitEnabled, busVars, epVars
<1>2. CASE TakeSnapshot(e, there)
  BY <1>2, <1>a, BusyWakes DEF TakeSnapshot, busVars, epVars
<1>3. CASE ArmFails(e) \/ DropGuard(e)
  BY <1>3, BusyWakes DEF ArmFails, DropGuard, CriticalSection, epVars
<1>4. CASE ArmSucceeds(e)
  BY <1>4, <1>a, BusyWakes DEF ArmSucceeds, CriticalSection
<1>5. CASE Resume(e)
  BY <1>5, <1>a, BusyWakes DEF Resume, busVars, epVars
<1>6. CASE Register(e)
  <2>1. pc'[e] \in {"life", "wcheck"} /\ registered'[e] = TRUE
    BY <1>6, <1>a DEF Register, Goto
  <2>2. WakerIsThere(e)' /\ ChangeWakes(e)'
    BY <2>1 DEF WakerIsThere, ChangeWakes
  <2>3. QED BY <1>6, <1>a, <1>b, <2>2 DEF Register, busVars, epVars
<1>7. CASE CheckLife(e)
  <2>1. /\ pc[e] = "life" /\ Still /\ registered' = registered
        /\ pc'[e] = IF Valid(e) THEN "done" ELSE "drop"
    BY <1>7 DEF CheckLife, Goto, busVars, epVars
  <2>2. WakerIsThere(e)' /\ ChangeWakes(e)'
    BY <2>1, <1>a DEF WakerIsThere, ChangeWakes, Valid
  <2>3. QED BY <1>7, <1>b, <2>1, <2>2 DEF CheckLife
<1>8. CASE CheckDone(e, there)
  <2>1. /\ pc[e] = "done" /\ Still /\ registered' = registered
        /\ pc'[e] = IF doneGen[e] # snap[e].done THEN there ELSE "await"
    BY <1>8 DEF CheckDone, Goto, busVars, epVars
  <2>2. WakerIsThere(e)' /\ ChangeWakes(e)'
    BY <2>1, <1>a DEF WakerIsThere, ChangeWakes, Valid
  <2>3. QED BY <1>8, <1>b, <2>1, <2>2 DEF CheckDone
<1>9. CASE WaitCheck(e)
  <2>1. /\ pc[e] = "wcheck" /\ Still /\ registered' = registered
        /\ pc'[e] = IF enabled[e] THEN "idle" ELSE "wait"
    BY <1>9 DEF WaitCheck, Goto, busVars, epVars
  <2>2. WakerIsThere(e)' /\ ChangeWakes(e)'
    BY <2>1, <1>a DEF WakerIsThere, ChangeWakes
  <2>3. QED BY <1>9, <1>b, <2>1, <2>2 DEF WaitCheck
<1>10. QED BY <1>1, <1>2, <1>3, <1>4, <1>5, <1>6, <1>7, <1>8, <1>9

\* The Bus methods, the host and the handler: each of them wakes the tasks
\* for which it changes what they wait for.
LEMMA OtherWakes ==
    ASSUME TransferTypeOK, WakeInv, NEW e \in Eps, NEW on \in BOOLEAN, NEW resp,
           \/ BusEnable \/ BusDisable \/ SetEnabled(e, on, resp)
           \/ SetStalled(e, resp) \/ HostReset \/ IsrComplete(e) \/ IsrReset
    PROVE  WakeInv'
<1>a. ASSUME NEW f \in Eps PROVE WakerIsThere(f) /\ ChangeWakes(f)
  BY DEF WakeInv
<1>1. CASE BusEnable
  <2>1. ASSUME NEW f \in Eps PROVE WakerIsThere(f)' /\ ChangeWakes(f)'
    <3>1. ~enabled[f] /\ enabled'[f] = FALSE
      BY <1>1 DEF BusEnable, WakeInv, OffIsDisabled
    <3>2. QED
      BY <1>1, <1>a, <3>1 DEF BusEnable, taskVars, WakerIsThere, ChangeWakes, Valid
  <2>2. QED BY <1>1, <2>1 DEF BusEnable, WakeInv, OffIsDisabled
<1>2. CASE BusDisable \/ IsrReset
  <2>1. ASSUME NEW f \in Eps PROVE WakerIsThere(f)' /\ ChangeWakes(f)'
    <3>1. /\ woken'[f] = (woken[f] \/ registered[f]) /\ enabled'[f] = FALSE
          /\ pc' = pc /\ registered' = registered
      BY <1>2 DEF BusDisable, IsrReset, Wake
    <3>2. QED BY <1>a, <3>1 DEF WakerIsThere, ChangeWakes
  <2>2. OffIsDisabled'
    BY <1>2 DEF BusDisable, IsrReset, OffIsDisabled
  <2>3. QED BY <2>1, <2>2 DEF WakeInv
<1>3. CASE SetEnabled(e, on, resp)
  <2>1. ASSUME NEW f \in Eps PROVE WakerIsThere(f)' /\ ChangeWakes(f)'
    <3>1. /\ woken'[f] = (woken[f] \/ (f = e /\ registered[f]))
          /\ UNCHANGED <<pc, snap, registered, doneGen, resetGen>>
          /\ f # e => enabled'[f] = enabled[f] /\ enableGen'[f] = enableGen[f]
      BY <1>3 DEF SetEnabled, CriticalSection, Wake, TransferTypeOK
    <3>2. CASE f = e
      <4>1. pc[f] \in Suspended
        BY <1>3 DEF SetEnabled, TaskFree
      <4>2. QED BY <1>a, <3>1, <3>2, <4>1 DEF Suspended, WakerIsThere, ChangeWakes
    <3>3. CASE f # e
      BY <1>a, <3>1, <3>3 DEF WakerIsThere, ChangeWakes, Valid
    <3>4. QED BY <3>2, <3>3
  <2>2. QED BY <1>3, <2>1 DEF SetEnabled, CriticalSection, WakeInv, OffIsDisabled
<1>4. CASE SetStalled(e, resp)
  BY <1>4, QuietWakes DEF SetStalled, CriticalSection
<1>5. CASE HostReset
  BY <1>5, QuietWakes DEF HostReset, epVars
<1>6. CASE IsrComplete(e)
  <2>1. ASSUME NEW f \in Eps PROVE WakerIsThere(f)' /\ ChangeWakes(f)'
    <3>1. /\ woken'[f] = (woken[f] \/ (f = e /\ registered[f]))
          /\ UNCHANGED <<pc, snap, registered, enabled, enableGen, resetGen>>
          /\ f # e => doneGen'[f] = doneGen[f]
      BY <1>6 DEF IsrComplete, IsrRetire, Wake, TransferTypeOK
    <3>2. QED BY <1>a, <3>1 DEF WakerIsThere, ChangeWakes, Valid
  <2>2. QED
    BY <1>6, <2>1 DEF IsrComplete, IsrRetire, WakeInv, OffIsDisabled
<1>7. QED BY <1>1, <1>2, <1>3, <1>4, <1>5, <1>6

=============================================================================
