---------------------------- MODULE UsbTransfer ----------------------------
(***************************************************************************)
(* What the IN and the OUT half of a non-control USB endpoint share        *)
(* (src/src/usb.rs): the bus, the one interrupt handler, the lifecycle     *)
(* generations, the snapshot a transfer future takes of them, its          *)
(* TransferGuard, its waker, and Endpoint::wait_enabled.  UsbInEndpoint    *)
(* and UsbOutEndpoint extend this module with their DMA bank and with the  *)
(* program of EndpointIn::write and EndpointOut::read.                     *)
(*                                                                         *)
(* The chip has one core.  The interrupt handler is atomic and preempts a  *)
(* task between any two steps that are not in one critical section; tasks  *)
(* run on one executor and give up the core at an await only.              *)
(***************************************************************************)
EXTENDS Integers

CONSTANTS
    Eps,                \* the endpoints of one direction
    NoEp,               \* "no endpoint": no transfer is latched
    CompletionModulus,  \* completion generations wrap here (AtomicU8: 256)
    MaxResets,          \* bound: bus resets and Bus::disable calls
    MaxEnables          \* bound: endpoint_set_enabled calls per endpoint

ASSUME TransferAssumption ==
    /\ Eps # {} /\ NoEp \notin Eps
    /\ CompletionModulus \in Nat /\ CompletionModulus >= 2
    /\ MaxResets \in Nat
    /\ MaxEnables \in Nat

VARIABLES
    usbOn,      \* Bus::enable has run and Bus::disable has not
    resetFlag,  \* UIF_BUS_RESET is set in INT_FG
    xfer,       \* the endpoint of the transfer latched in INT_FG/INT_ST
    irqDue,     \* a flag was latched under a critical section that has ended
    resetGen,   \* RESET_GENERATION
    enabled,    \* ENABLED_IN or ENABLED_OUT
    enableGen,  \* IN_/OUT_ENABLE_GENERATIONS
    doneGen,    \* IN_/OUT_COMPLETION_GENERATIONS
    response,   \* the response bits of the endpoint control register
    pc,         \* where the task that owns the endpoint is
    snap,       \* the generations its transfer future and guard hold
    registered, \* a waker is registered in IN_/OUT_WAKERS
    woken       \* the executor has been told to poll the task

busVars  == <<usbOn, resetFlag, xfer, irqDue, resetGen>>
epVars   == <<enabled, enableGen, doneGen, response>>
taskVars == <<pc, snap, registered, woken>>

-----------------------------------------------------------------------------
(* Program counters.  A task is suspended in a pending transfer ("await"), *)
(* in wait_enabled ("wait"), or busy elsewhere ("idle").                   *)

Suspended == {"idle", "await", "wait"}

\* A transfer future that has armed the endpoint and not yet ended.
Polling == {"poll", "life", "done", "await"}

\* The same, with the guard of a failed or cancelled future yet to be dropped.
Owning == Polling \cup {"drop"}

WaitPc == {"wpoll", "wcheck", "wait"}

Responses == {"ACK", "NAK", "STALL"}

Generations == 0 .. CompletionModulus - 1

Snapshots == [reset : 0 .. MaxResets, enable : 0 .. MaxEnables, done : Generations]

TransferTypeOK ==
    /\ usbOn \in BOOLEAN /\ resetFlag \in BOOLEAN /\ irqDue \in BOOLEAN
    /\ xfer \in Eps \cup {NoEp}
    /\ resetGen \in 0 .. MaxResets
    /\ resetFlag => resetGen < MaxResets
    /\ enabled \in [Eps -> BOOLEAN]
    /\ enableGen \in [Eps -> 0 .. MaxEnables]
    /\ doneGen \in [Eps -> Generations]
    /\ response \in [Eps -> Responses]
    /\ snap \in [Eps -> Snapshots]
    /\ registered \in [Eps -> BOOLEAN]
    /\ woken \in [Eps -> BOOLEAN]

TransferInit ==
    /\ usbOn = FALSE /\ resetFlag = FALSE /\ xfer = NoEp /\ irqDue = FALSE
    /\ resetGen = 0
    /\ enabled = [e \in Eps |-> FALSE]
    /\ enableGen = [e \in Eps |-> 0]
    /\ doneGen = [e \in Eps |-> 0]
    /\ response = [e \in Eps |-> "STALL"]
    /\ pc = [e \in Eps |-> "idle"]
    /\ snap = [e \in Eps |-> [reset |-> 0, enable |-> 0, done |-> 0]]
    /\ registered = [e \in Eps |-> FALSE]
    /\ woken = [e \in Eps |-> FALSE]

-----------------------------------------------------------------------------
(* Scheduling.                                                             *)

IrqPending == xfer # NoEp \/ resetFlag

\* Plain task code runs only while no interrupt is pending.
Unmasked == ~IrqPending

\* A critical section may start before a flag is latched and act after it:
\* the handler then runs before anything else does.
CriticalSection ==
    /\ ~irqDue
    /\ irqDue' = IrqPending
    /\ UNCHANGED <<usbOn, resetFlag, xfer, resetGen>>

\* No task is between two steps: another task, or the executor, may run.
TaskFree == \A e \in Eps : pc[e] \in Suspended

Goto(e, there) == pc' = [pc EXCEPT ![e] = there]

\* AtomicWaker::wake: a registered waker stays registered.
Wake(who) == woken' = [e \in Eps |-> woken[e] \/ (e \in who /\ registered[e])]

-----------------------------------------------------------------------------
(* Steps of the transfer futures that do not depend on the direction.      *)

\* The three comparisons every lifecycle check of a transfer makes.
Valid(e) ==
    /\ resetGen = snap[e].reset
    /\ enableGen[e] = snap[e].enable
    /\ enabled[e]

\* The early return on a disabled endpoint is the absence of this step.
CheckEnabled(e) ==
    /\ pc[e] = "idle" /\ TaskFree /\ Unmasked
    /\ enabled[e]
    /\ Goto(e, "snap")
    /\ UNCHANGED <<snap, registered, woken, busVars, epVars>>

TakeSnapshot(e, there) ==
    /\ pc[e] = "snap" /\ Unmasked
    /\ snap' = [snap EXCEPT ![e].reset = resetGen, ![e].enable = enableGen[e]]
    /\ Goto(e, there)
    /\ UNCHANGED <<registered, woken, busVars, epVars>>

\* The critical section that arms the endpoint: an immediate Disabled ...
ArmFails(e) ==
    /\ pc[e] = "arm" /\ CriticalSection
    /\ ~Valid(e)
    /\ Goto(e, "idle")
    /\ UNCHANGED <<snap, registered, woken, epVars>>

\* Mutants: the completion generation is not remembered; the response stays.
ArmForgetsCompletion(e) ==
    /\ pc[e] = "arm" /\ CriticalSection
    /\ Valid(e)
    /\ response' = [response EXCEPT ![e] = "ACK"]
    /\ Goto(e, "poll")
    /\ UNCHANGED <<snap, registered, woken, enabled, enableGen, doneGen>>

ArmWithoutAck(e) ==
    /\ pc[e] = "arm" /\ CriticalSection
    /\ Valid(e)
    /\ snap' = [snap EXCEPT ![e].done = doneGen[e]]
    /\ Goto(e, "poll")
    /\ UNCHANGED <<response, registered, woken, enabled, enableGen, doneGen>>

\* ... or the completion generation remembered and the response set to ACK.
ArmSucceeds(e) ==
    /\ pc[e] = "arm" /\ CriticalSection
    /\ Valid(e)
    /\ snap' = [snap EXCEPT ![e].done = doneGen[e]]
    /\ response' = [response EXCEPT ![e] = "ACK"]
    /\ Goto(e, "poll")
    /\ UNCHANGED <<registered, woken, enabled, enableGen, doneGen>>

\* poll_fn: the waker is registered before anything is checked.
Register(e) ==
    /\ pc[e] \in {"poll", "wpoll"} /\ Unmasked
    /\ registered' = [registered EXCEPT ![e] = TRUE]
    /\ Goto(e, IF pc[e] = "poll" THEN "life" ELSE "wcheck")
    /\ UNCHANGED <<snap, woken, busVars, epVars>>

CheckLife(e) ==
    /\ pc[e] = "life" /\ Unmasked
    /\ Goto(e, IF Valid(e) THEN "done" ELSE "drop")
    /\ UNCHANGED <<snap, registered, woken, busVars, epVars>>

\* The completion generation moved (the future is ready) or it did not.
CheckDone(e, there) ==
    /\ pc[e] = "done" /\ Unmasked
    /\ Goto(e, IF doneGen[e] # snap[e].done THEN there ELSE "await")
    /\ UNCHANGED <<snap, registered, woken, busVars, epVars>>

\* The executor polls a task: woken, or for the sake of another future in it.
Resume(e) ==
    /\ pc[e] \in {"await", "wait"} /\ TaskFree /\ Unmasked
    /\ Goto(e, IF pc[e] = "await" THEN "poll" ELSE "wpoll")
    /\ woken' = [woken EXCEPT ![e] = FALSE]
    /\ UNCHANGED <<snap, registered, busVars, epVars>>

\* The future is dropped at its await (a select or a timeout around it).
Cancel(e) ==
    /\ pc[e] \in {"await", "wait"} /\ TaskFree /\ Unmasked
    /\ Goto(e, IF pc[e] = "await" THEN "drop" ELSE "idle")
    /\ UNCHANGED <<snap, registered, woken, busVars, epVars>>

\* Mutant: a dropped future leaves its endpoint armed.
DropLeavesArmed(e) ==
    /\ pc[e] = "drop" /\ CriticalSection
    /\ Goto(e, "idle")
    /\ UNCHANGED <<snap, registered, woken, epVars>>

\* TransferGuard::drop returns the DMA bank to software.
DropGuard(e) ==
    /\ pc[e] = "drop" /\ CriticalSection
    /\ response' = IF Valid(e) /\ doneGen[e] = snap[e].done /\ response[e] = "ACK"
                     THEN [response EXCEPT ![e] = "NAK"]
                     ELSE response
    /\ Goto(e, "idle")
    /\ UNCHANGED <<snap, registered, woken, enabled, enableGen, doneGen>>

WaitEnabled(e) ==
    /\ pc[e] = "idle" /\ TaskFree /\ Unmasked
    /\ Goto(e, "wpoll")
    /\ UNCHANGED <<snap, registered, woken, busVars, epVars>>

WaitCheck(e) ==
    /\ pc[e] = "wcheck" /\ Unmasked
    /\ Goto(e, IF enabled[e] THEN "idle" ELSE "wait")
    /\ UNCHANGED <<snap, registered, woken, busVars, epVars>>

-----------------------------------------------------------------------------
(* The control task: embassy-usb calls the Bus methods.                    *)

\* Bus::enable and reset_endpoint_state(.., false): interrupt flags and
\* completion state of an earlier session are cleared, generations are not.
BusEnable ==
    /\ TaskFree /\ ~usbOn
    /\ usbOn' = TRUE /\ resetFlag' = FALSE /\ xfer' = NoEp /\ irqDue' = FALSE
    /\ enabled' = [e \in Eps |-> FALSE]
    /\ response' = [e \in Eps |-> "STALL"]
    /\ UNCHANGED <<resetGen, enableGen, doneGen, taskVars>>

\* Bus::disable masks the interrupt first, so nothing preempts the rest and
\* what is latched is lost; the response bits stay as they are.
BusDisable ==
    /\ TaskFree /\ usbOn /\ ~irqDue /\ resetGen < MaxResets
    /\ usbOn' = FALSE /\ resetFlag' = FALSE /\ xfer' = NoEp
    /\ resetGen' = resetGen + 1
    /\ enabled' = [e \in Eps |-> FALSE]
    /\ Wake(Eps)
    /\ UNCHANGED <<irqDue, enableGen, doneGen, response, pc, snap, registered>>

\* Mutant: wait_enabled is not woken.
SetEnabledSilently(e, on, resp) ==
    /\ TaskFree /\ usbOn /\ enableGen[e] < MaxEnables
    /\ CriticalSection
    /\ enableGen' = [enableGen EXCEPT ![e] = @ + 1]
    /\ enabled' = [enabled EXCEPT ![e] = on]
    /\ response' = [response EXCEPT ![e] = resp]
    /\ UNCHANGED <<doneGen, taskVars>>

\* endpoint_set_enabled; `resp` is the response the direction asks for.
SetEnabled(e, on, resp) ==
    /\ TaskFree /\ usbOn /\ enableGen[e] < MaxEnables
    /\ CriticalSection
    /\ enableGen' = [enableGen EXCEPT ![e] = @ + 1]
    /\ enabled' = [enabled EXCEPT ![e] = on]
    /\ response' = [response EXCEPT ![e] = resp]
    /\ Wake({e})
    /\ UNCHANGED <<doneGen, pc, snap, registered>>

\* endpoint_set_stalled; hosts halt the endpoints of their configuration.
SetStalled(e, resp) ==
    /\ TaskFree /\ usbOn /\ enabled[e]
    /\ CriticalSection
    /\ response' = [response EXCEPT ![e] = resp]
    /\ UNCHANGED <<enabled, enableGen, doneGen, taskVars>>

-----------------------------------------------------------------------------
(* The host and the serial interface engine (SIE).  The driver sets        *)
(* RB_UC_INT_BUSY: while a transfer is latched the SIE answers NAK, so at  *)
(* most one is.  During a bus reset there is no traffic.                   *)

SieReady(e) == usbOn /\ ~resetFlag /\ xfer = NoEp /\ response[e] = "ACK"

HostReset ==
    /\ usbOn /\ ~resetFlag /\ resetGen < MaxResets
    /\ resetFlag' = TRUE
    /\ UNCHANGED <<usbOn, xfer, irqDue, resetGen, epVars, taskVars>>

-----------------------------------------------------------------------------
(* usb_interrupt.  A latched transfer is retired first and the bus reset   *)
(* waits for the next entry, which comes before any task code.             *)

IsrRetire(e) ==
    /\ usbOn /\ xfer = e
    /\ xfer' = NoEp
    /\ irqDue' = resetFlag
    /\ UNCHANGED <<usbOn, resetFlag, resetGen>>

\* Mutants: the generation is wider than its snapshot; it does not advance; the
\* future is not woken.
IsrCompleteUnwrapped(e) ==
    /\ IsrRetire(e)
    /\ response' = [response EXCEPT ![e] = "NAK"]
    /\ doneGen' = [doneGen EXCEPT ![e] = @ + 1]
    /\ Wake({e})
    /\ UNCHANGED <<enabled, enableGen, pc, snap, registered>>

IsrCompleteUncounted(e) ==
    /\ IsrRetire(e)
    /\ response' = [response EXCEPT ![e] = "NAK"]
    /\ Wake({e})
    /\ UNCHANGED <<enabled, enableGen, doneGen, pc, snap, registered>>

IsrCompleteSilently(e) ==
    /\ IsrRetire(e)
    /\ response' = [response EXCEPT ![e] = "NAK"]
    /\ doneGen' = [doneGen EXCEPT ![e] = (@ + 1) % CompletionModulus]
    /\ UNCHANGED <<enabled, enableGen, taskVars>>

\* A transfer completed: hold NAK, advance the generation, wake the future.
IsrComplete(e) ==
    /\ IsrRetire(e)
    /\ response' = [response EXCEPT ![e] = "NAK"]
    /\ doneGen' = [doneGen EXCEPT ![e] = (@ + 1) % CompletionModulus]
    /\ Wake({e})
    /\ UNCHANGED <<enabled, enableGen, pc, snap, registered>>

\* Mutant: a bus reset wakes nobody.
IsrResetSilently ==
    /\ usbOn /\ resetFlag /\ xfer = NoEp
    /\ resetFlag' = FALSE /\ irqDue' = FALSE
    /\ resetGen' = resetGen + 1
    /\ enabled' = [e \in Eps |-> FALSE]
    /\ response' = [e \in Eps |-> "STALL"]
    /\ UNCHANGED <<usbOn, xfer, enableGen, doneGen, taskVars>>

\* The bus reset branch: every endpoint is disabled and every task woken.
IsrReset ==
    /\ usbOn /\ resetFlag /\ xfer = NoEp
    /\ resetFlag' = FALSE /\ irqDue' = FALSE
    /\ resetGen' = resetGen + 1
    /\ enabled' = [e \in Eps |-> FALSE]
    /\ response' = [e \in Eps |-> "STALL"]
    /\ Wake(Eps)
    /\ UNCHANGED <<usbOn, xfer, enableGen, doneGen, pc, snap, registered>>

-----------------------------------------------------------------------------
(* Safety.                                                                 *)

\* Whatever makes a suspended future ready has also woken its task, whichever
\* of the register, check and wake steps came first.
NoLostWakeup ==
    \A e \in Eps :
        /\ pc[e] = "await" /\ ~(Valid(e) /\ doneGen[e] = snap[e].done) => woken[e]
        /\ pc[e] = "wait" /\ enabled[e] => woken[e]

=============================================================================
