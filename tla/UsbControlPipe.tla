--------------------------- MODULE UsbControlPipe --------------------------
(***************************************************************************)
(* Endpoint zero (src/src/usb.rs): the ControlPipe methods as embassy-usb  *)
(* calls them for one request after the other, the EP0 branches of the     *)
(* interrupt handler, and a host that runs control transfers, abandons one *)
(* with the next SETUP, repeats packets whose handshake was lost and       *)
(* resets the bus.  EP0 has one DMA bank for SETUP, OUT and IN packets and *)
(* its data PIDs are advanced by software.                                 *)
(*                                                                         *)
(* The bus stays enabled.  Scheduling is as in UsbTransfer: the handler    *)
(* preempts the control task between steps, and after a critical section   *)
(* under which a flag was latched.                                         *)
(***************************************************************************)
EXTENDS Integers

CONSTANTS
    Requests,    \* what a SETUP can ask, see RequestAssumption
    MaxSetups,   \* bound: SETUP packets
    MaxResets,   \* bound: bus resets
    Aborts,      \* the host may abandon a transfer with a new SETUP
    Overtakes,   \* such a SETUP may arrive while the old transfer is about to
                 \* use the bank or to be rejected
    BackToBack,  \* the host may send an OUT packet before the last is copied
    LostAcks,    \* the handshake of a data packet may be lost
    Cancels      \* the application may drop UsbDevice::run while it waits

\* A request moves `len` packets to the host ("in") or to the device ("out");
\* the class code then accepts it, rejects it or sets the device address.
ASSUME RequestAssumption ==
    /\ Requests \subseteq [dir : {"in", "out"}, len : Nat,
                           verdict : {"accept", "reject", "address"}]
    /\ \A r \in Requests :
        /\ r.dir = "in" => r.len > 0 /\ r.verdict # "address"
        /\ r.verdict = "address" => r.len = 0
    /\ MaxSetups \in Nat /\ MaxResets \in Nat
    /\ Aborts \in BOOLEAN /\ Overtakes \in BOOLEAN /\ BackToBack \in BOOLEAN
    /\ LostAcks \in BOOLEAN /\ Cancels \in BOOLEAN

VARIABLES
    \* the driver's statics and EP0 registers
    setupPending, \* SETUP_PENDING
    inComplete,   \* bit 0 of IN_COMPLETE
    outComplete,  \* bit 0 of OUT_COMPLETE
    resetGen,     \* RESET_GENERATION
    shadow,       \* EP0_SETUP_SHADOW
    ctrl,         \* the EP0 control register: responses r, t and PIDs rTog, tTog
    txEmpty,      \* the EP0 IN packet has length zero
    bank,         \* the packet in EP0_BUFFER
    devAddr,      \* DEV_AD: 0, or the number of the request that set it
    \* interrupt state
    xfer,         \* the token latched in INT_FG/INT_ST, or "none"
    resetFlag,    \* UIF_BUS_RESET
    irqDue,       \* a flag was latched under a critical section that has ended
    \* the control task
    pc,
    cur,          \* the SETUP it serves
    done,         \* data packets of that transfer it has moved
    snapGen,      \* ControlPipe::reset_generation
    registered,   \* EP0_WAKER holds a waker
    woken,        \* the executor has been told to poll the task
    \* the host
    host,         \* its SETUP, the stage of its transfer, data packets moved
    hostAddr      \* the address it uses

irqVars  == <<xfer, resetFlag, irqDue>>
regVars  == <<ctrl, txEmpty, bank, devAddr>>
flagVars == <<setupPending, inComplete, outComplete, resetGen, shadow>>
jobVars  == <<cur, done, snapGen>>
wakeVars == <<registered, woken>>
taskVars == <<pc, jobVars, wakeVars>>
hostVars == <<host, hostAddr>>
vars == <<irqVars, regVars, flagVars, taskVars, hostVars>>

-----------------------------------------------------------------------------
NoRequest == [dir |-> "out", len |-> 0, verdict |-> "accept"]

Responses == {"ACK", "NAK", "STALL"}

Control(r, t, rTog, tTog) == [r |-> r, t |-> t, rTog |-> rTog, tTog |-> tTog]

Numbers == 0 .. MaxSetups

\* A packet is a SETUP or the i-th data packet of the transfer it began.
Setup(n, request) == [no |-> n, kind |-> "setup", req |-> request, i |-> 0]
Data(n, dir, i) == [no |-> n, kind |-> dir, req |-> NoRequest, i |-> i]

\* A data stage begins with DATA1 and alternates; a status stage is DATA1.
Pid(i) == 1 - (i % 2)

Pcs == {"setup", "take", "waitSetup", "prepIn", "armOut", "prepStatus", "poll", "life",
        "done", "await", "finIn", "finStatus", "copy", "reject", "drop"}

SetupPackets == {Setup(n, r) : n \in Numbers, r \in Requests \cup {NoRequest}}

TypeOK ==
    /\ setupPending \in BOOLEAN /\ inComplete \in BOOLEAN /\ outComplete \in BOOLEAN
    /\ resetFlag \in BOOLEAN /\ irqDue \in BOOLEAN /\ txEmpty \in BOOLEAN
    /\ registered \in BOOLEAN /\ woken \in BOOLEAN
    /\ resetGen \in 0 .. MaxResets /\ snapGen \in 0 .. resetGen
    /\ ctrl \in [r : Responses, t : Responses, rTog : {0, 1}, tTog : {0, 1}]
    /\ devAddr \in Numbers /\ hostAddr \in Numbers
    /\ xfer \in {"none", "setup", "in", "out", "repeat"}
    /\ pc \in Pcs
    /\ shadow \in SetupPackets /\ cur \in SetupPackets /\ host.setup \in SetupPackets
    /\ done \in 0 .. cur.req.len
    /\ bank.no \in Numbers /\ bank.kind \in {"setup", "in", "out"}
    /\ host.stage \in {"data", "status", "ended", "stalled"}
    /\ host.moved \in 0 .. host.setup.req.len

Init ==
    /\ setupPending = FALSE /\ inComplete = FALSE /\ outComplete = FALSE
    /\ resetGen = 0 /\ snapGen = 0
    /\ ctrl = Control("ACK", "NAK", 0, 0) /\ txEmpty = TRUE /\ devAddr = 0
    /\ bank = Setup(0, NoRequest) /\ shadow = Setup(0, NoRequest)
    /\ xfer = "none" /\ resetFlag = FALSE /\ irqDue = FALSE
    /\ pc = "setup" /\ cur = Setup(0, NoRequest) /\ done = 0
    /\ registered = FALSE /\ woken = FALSE
    /\ host = [setup |-> Setup(0, NoRequest), stage |-> "ended", moved |-> 0]
    /\ hostAddr = 0

IrqPending == xfer # "none" \/ resetFlag

Unmasked == ~IrqPending /\ UNCHANGED <<irqVars, hostVars>>

CriticalSection ==
    /\ ~irqDue
    /\ irqDue' = IrqPending
    /\ UNCHANGED <<xfer, resetFlag, hostVars>>

Goto(there) == pc' = there

\* The two conditions every critical section of a control transfer checks.
StillCurrent == resetGen = snapGen /\ ~setupPending

\* The direction of the completion bit the transfer waits for.
WaitsIn == cur.req.dir = "in" \/ done = cur.req.len

Completed == IF WaitsIn THEN inComplete ELSE outComplete

\* What embassy-usb calls next for a request with `moved` packets moved.
NextCall(request, moved) ==
    IF moved < request.len /\ (request.dir = "out" \/ request.verdict # "reject")
    THEN IF request.dir = "in" THEN "prepIn" ELSE "armOut"
    ELSE IF request.verdict = "reject" THEN "reject" ELSE "prepStatus"

-----------------------------------------------------------------------------
(* ControlPipe::setup.                                                     *)

SetupRegister ==
    /\ pc = "setup" /\ Unmasked
    /\ registered' = TRUE
    /\ Goto("take")
    /\ UNCHANGED <<regVars, flagVars, jobVars, woken>>

\* Eight bytes that are not a SETUP packet may read as any request.
SetupTake ==
    /\ pc = "take" /\ CriticalSection
    /\ setupPending
    /\ setupPending' = FALSE
    /\ ctrl' = Control("NAK", "NAK", 1, 1)
    /\ \E request \in Requests :
        /\ shadow.kind = "setup" => request = shadow.req
        /\ cur' = Setup(shadow.no, request) /\ done' = 0
        /\ Goto(NextCall(request, 0))
    /\ snapGen' = resetGen
    /\ UNCHANGED <<inComplete, outComplete, resetGen, shadow>>
    /\ UNCHANGED <<txEmpty, bank, devAddr, wakeVars>>

SetupPends ==
    /\ pc = "take" /\ CriticalSection
    /\ ~setupPending
    /\ Goto("waitSetup")
    /\ UNCHANGED <<regVars, flagVars, jobVars, wakeVars>>

-----------------------------------------------------------------------------
(* data_in, data_out, accept, accept_set_address and reject.               *)

\* A step in a critical section that does nothing once the transfer is no
\* longer current: the call returns and its guard, if any, is dropped.
Outdated(here) ==
    /\ pc = here /\ CriticalSection
    /\ ~StillCurrent
    /\ Goto("drop")
    /\ UNCHANGED <<regVars, flagVars, jobVars, wakeVars>>

\* Mutant: prepare_in does not check that the transfer is current.
PrepareInUnchecked ==
    /\ pc = "prepIn" /\ CriticalSection
    /\ inComplete' = FALSE
    /\ bank' = Data(cur.no, "in", done) /\ txEmpty' = FALSE
    /\ ctrl' = [ctrl EXCEPT !.r = IF done + 1 = cur.req.len THEN "ACK" ELSE "NAK", !.t = "ACK"]
    /\ Goto("poll")
    /\ UNCHANGED <<setupPending, outComplete, resetGen, shadow, devAddr, jobVars, wakeVars>>

\* prepare_in of data_in: the last packet also lets the status stage in.
PrepareIn ==
    /\ pc = "prepIn" /\ CriticalSection
    /\ StillCurrent
    /\ inComplete' = FALSE
    /\ bank' = Data(cur.no, "in", done) /\ txEmpty' = FALSE
    /\ ctrl' = [ctrl EXCEPT !.r = IF done + 1 = cur.req.len THEN "ACK" ELSE "NAK", !.t = "ACK"]
    /\ Goto("poll")
    /\ UNCHANGED <<setupPending, outComplete, resetGen, shadow, devAddr, jobVars, wakeVars>>

ArmOut ==
    /\ pc = "armOut" /\ CriticalSection
    /\ StillCurrent
    /\ ctrl' = [ctrl EXCEPT !.r = "ACK"]
    /\ Goto("poll")
    /\ UNCHANGED <<txEmpty, bank, devAddr, flagVars, jobVars, wakeVars>>

\* Mutant: the same for the status stage.
PrepareStatusUnchecked ==
    /\ pc = "prepStatus" /\ CriticalSection
    /\ inComplete' = FALSE
    /\ txEmpty' = TRUE
    /\ ctrl' = [ctrl EXCEPT !.r = "ACK", !.t = "ACK"]
    /\ Goto("poll")
    /\ UNCHANGED <<setupPending, outComplete, resetGen, shadow>>
    /\ UNCHANGED <<bank, devAddr, jobVars, wakeVars>>

\* prepare_in of status_in.
PrepareStatus ==
    /\ pc = "prepStatus" /\ CriticalSection
    /\ StillCurrent
    /\ inComplete' = FALSE
    /\ txEmpty' = TRUE
    /\ ctrl' = [ctrl EXCEPT !.r = "ACK", !.t = "ACK"]
    /\ Goto("poll")
    /\ UNCHANGED <<setupPending, outComplete, resetGen, shadow>>
    /\ UNCHANGED <<bank, devAddr, jobVars, wakeVars>>

\* wait_ep0: register, check the lifecycle, consume the completion bit.
WaitRegister ==
    /\ pc = "poll" /\ Unmasked
    /\ registered' = TRUE
    /\ Goto("life")
    /\ UNCHANGED <<regVars, flagVars, jobVars, woken>>

WaitLife ==
    /\ pc = "life" /\ Unmasked
    /\ Goto(IF StillCurrent THEN "done" ELSE "drop")
    /\ UNCHANGED <<regVars, flagVars, jobVars, wakeVars>>

WaitPends ==
    /\ pc = "done" /\ Unmasked
    /\ ~Completed
    /\ Goto("await")
    /\ UNCHANGED <<regVars, flagVars, jobVars, wakeVars>>

WaitReady ==
    /\ pc = "done" /\ Unmasked
    /\ Completed
    /\ inComplete' = (inComplete /\ ~WaitsIn) /\ outComplete' = (outComplete /\ WaitsIn)
    /\ done' = IF cur.req.dir = "in" THEN done + 1 ELSE done
    /\ Goto(IF cur.req.dir = "in"
            THEN IF done' < cur.req.len THEN "prepIn" ELSE "finIn"
            ELSE IF done < cur.req.len THEN "copy" ELSE "finStatus")
    /\ UNCHANGED <<regVars, setupPending, resetGen, shadow, cur, snapGen, wakeVars>>

\* After the last data_in packet: wait for the status OUT packet.
FinishIn ==
    /\ pc = "finIn" /\ CriticalSection
    /\ StillCurrent
    /\ ctrl' = Control("ACK", "NAK", 1, 1)
    /\ Goto("setup")
    /\ UNCHANGED <<txEmpty, bank, devAddr, flagVars, jobVars, wakeVars>>

\* Mutant: the packet is counted again.
CopyOutTwice ==
    /\ pc = "copy" /\ CriticalSection
    /\ StillCurrent
    /\ done' = done + 2
    /\ Goto(NextCall(cur.req, done'))
    /\ UNCHANGED <<regVars, flagVars, cur, snapGen, wakeVars>>

\* data_out copies the packet; embassy-usb asks for the next or decides.
CopyOut ==
    /\ pc = "copy" /\ CriticalSection
    /\ StillCurrent
    /\ done' = done + 1
    /\ Goto(NextCall(cur.req, done'))
    /\ UNCHANGED <<regVars, flagVars, cur, snapGen, wakeVars>>

\* status_in after its completion; accept_set_address passes the address.
FinishStatus ==
    /\ pc = "finStatus" /\ CriticalSection
    /\ StillCurrent
    /\ ctrl' = Control("ACK", "NAK", 0, 0)
    /\ devAddr' = IF cur.req.verdict = "address" THEN cur.no ELSE devAddr
    /\ Goto("setup")
    /\ UNCHANGED <<txEmpty, bank, flagVars, jobVars, wakeVars>>

\* reject checks nothing.
Reject ==
    /\ pc = "reject" /\ CriticalSection
    /\ ctrl' = Control("STALL", "STALL", 0, 0)
    /\ Goto("setup")
    /\ UNCHANGED <<txEmpty, bank, devAddr, flagVars, jobVars, wakeVars>>

\* ControlTransferGuard::drop.
DropGuard ==
    /\ pc = "drop" /\ CriticalSection
    /\ ctrl' = IF ~StillCurrent \/ Completed THEN ctrl
               ELSE IF WaitsIn
                    THEN [ctrl EXCEPT !.t = IF @ = "ACK" THEN "NAK" ELSE @]
                    ELSE [ctrl EXCEPT !.r = IF @ = "ACK" THEN "NAK" ELSE @]
    /\ Goto("setup")
    /\ UNCHANGED <<txEmpty, bank, devAddr, flagVars, jobVars, wakeVars>>

\* The executor polls the task, woken or for another future in it.
Resume ==
    /\ pc \in {"waitSetup", "await"} /\ Unmasked
    /\ Goto(IF pc = "await" THEN "poll" ELSE "setup")
    /\ woken' = FALSE
    /\ UNCHANGED <<regVars, flagVars, jobVars, registered>>

Cancel ==
    /\ Cancels
    /\ pc = "await" /\ Unmasked
    /\ Goto("drop")
    /\ UNCHANGED <<regVars, flagVars, jobVars, wakeVars>>

-----------------------------------------------------------------------------
(* The EP0 branches of usb_interrupt.                                      *)

Retire(token) ==
    /\ xfer = token
    /\ xfer' = "none" /\ irqDue' = resetFlag
    /\ UNCHANGED <<resetFlag, hostVars, pc, jobVars, registered>>

WakeEp0 == woken' = (woken \/ registered)

\* Mutants: the SETUP stays in the bank only; the completions of the aborted
\* transfer survive; so do its responses.
IsrSetupNoShadow ==
    /\ Retire("setup")
    /\ inComplete' = FALSE /\ outComplete' = FALSE
    /\ setupPending' = TRUE
    /\ ctrl' = Control("NAK", "NAK", 1, 1)
    /\ WakeEp0
    /\ UNCHANGED <<txEmpty, bank, devAddr, resetGen, shadow>>

IsrSetupKeepsCompletions ==
    /\ Retire("setup")
    /\ shadow' = bank
    /\ setupPending' = TRUE
    /\ ctrl' = Control("NAK", "NAK", 1, 1)
    /\ WakeEp0
    /\ UNCHANGED <<txEmpty, bank, devAddr, resetGen, inComplete, outComplete>>

IsrSetupKeepsControl ==
    /\ Retire("setup")
    /\ inComplete' = FALSE /\ outComplete' = FALSE
    /\ shadow' = bank
    /\ setupPending' = TRUE
    /\ WakeEp0
    /\ UNCHANGED <<regVars, resetGen>>

IsrSetup ==
    /\ Retire("setup")
    /\ inComplete' = FALSE /\ outComplete' = FALSE
    /\ shadow' = bank
    /\ setupPending' = TRUE
    /\ ctrl' = Control("NAK", "NAK", 1, 1)
    /\ WakeEp0
    /\ UNCHANGED <<txEmpty, bank, devAddr, resetGen>>

\* The response stays as it is: unlike on the other endpoints, ACK.
IsrOut ==
    /\ Retire("out")
    /\ ctrl' = [ctrl EXCEPT !.rTog = 1 - @]
    /\ outComplete' = TRUE
    /\ WakeEp0
    /\ UNCHANGED <<txEmpty, bank, devAddr, setupPending, inComplete, resetGen, shadow>>

IsrOutRepeated == Retire("repeat") /\ UNCHANGED <<regVars, flagVars, woken>>

\* Mutant: the control task is not woken.
IsrInSilently ==
    /\ Retire("in")
    /\ ctrl' = [ctrl EXCEPT !.tTog = 1 - @, !.t = "NAK"]
    /\ inComplete' = TRUE
    /\ UNCHANGED <<txEmpty, bank, devAddr, setupPending, outComplete, resetGen, shadow, woken>>

IsrIn ==
    /\ Retire("in")
    /\ ctrl' = [ctrl EXCEPT !.tTog = 1 - @, !.t = "NAK"]
    /\ inComplete' = TRUE
    /\ WakeEp0
    /\ UNCHANGED <<txEmpty, bank, devAddr, setupPending, outComplete, resetGen, shadow>>

\* Mutant: the address survives a bus reset.
IsrResetKeepsAddress ==
    /\ resetFlag /\ xfer = "none"
    /\ resetFlag' = FALSE /\ irqDue' = FALSE
    /\ resetGen' = resetGen + 1
    /\ setupPending' = FALSE /\ inComplete' = FALSE /\ outComplete' = FALSE
    /\ ctrl' = Control("ACK", "NAK", 0, 0)
    /\ WakeEp0
    /\ UNCHANGED <<xfer, shadow, txEmpty, bank, devAddr, pc, jobVars, registered, hostVars>>

IsrReset ==
    /\ resetFlag /\ xfer = "none"
    /\ resetFlag' = FALSE /\ irqDue' = FALSE
    /\ resetGen' = resetGen + 1
    /\ setupPending' = FALSE /\ inComplete' = FALSE /\ outComplete' = FALSE
    /\ ctrl' = Control("ACK", "NAK", 0, 0) /\ devAddr' = 0
    /\ WakeEp0
    /\ UNCHANGED <<xfer, shadow, txEmpty, bank, pc, jobVars, registered, hostVars>>

-----------------------------------------------------------------------------
(* The host and the SIE.  While a transfer is latched the SIE answers NAK; *)
(* a SETUP is accepted whatever the response bits say, and all tokens must *)
(* carry the device's address.                                             *)

SieFree == ~resetFlag /\ xfer = "none" /\ devAddr = hostAddr

\* A new SETUP would find the old transfer about to use the bank or to be
\* rejected.
InTheWay ==
    \/ pc \in {"prepIn", "copy"}
    \/ pc = "take" /\ setupPending /\ shadow.req.verdict = "reject"
    \/ pc \notin {"setup", "take", "waitSetup"} /\ cur.req.verdict = "reject"

HostSetup ==
    /\ SieFree
    /\ host.setup.no < MaxSetups
    /\ host.stage \in {"data", "status"} => Aborts
    /\ InTheWay => Overtakes
    /\ \E request \in Requests :
        /\ host' = [setup |-> Setup(host.setup.no + 1, request), moved |-> 0,
                    stage |-> IF request.len > 0 THEN "data" ELSE "status"]
        /\ bank' = host'.setup
    /\ xfer' = "setup"
    /\ UNCHANGED <<hostAddr, resetFlag, irqDue, ctrl, txEmpty, devAddr, flagVars, taskVars>>

HostMoves ==
    host' = [host EXCEPT !.moved = @ + 1,
                         !.stage = IF host.moved + 1 = host.setup.req.len THEN "status" ELSE @]

\* An IN packet of the data stage; a repeated one is only acknowledged.
HostIn(acked) ==
    /\ SieFree /\ ctrl.t = "ACK"
    /\ host.stage = "data" /\ host.setup.req.dir = "in"
    /\ acked \/ LostAcks
    /\ IF ctrl.tTog = Pid(host.moved) THEN HostMoves ELSE UNCHANGED host
    /\ xfer' = IF acked THEN "in" ELSE xfer
    /\ UNCHANGED <<hostAddr, resetFlag, irqDue, regVars, flagVars, taskVars>>

\* An OUT packet of the data stage.
HostOut(acked) ==
    LET good == ctrl.rTog = Pid(host.moved) IN
    /\ SieFree /\ ctrl.r = "ACK"
    /\ host.stage = "data" /\ host.setup.req.dir = "out"
    /\ acked \/ LostAcks
    /\ good /\ (outComplete \/ pc = "copy") => BackToBack
    /\ bank' = Data(host.setup.no, "out", host.moved)
    /\ xfer' = IF good THEN "out" ELSE "repeat"
    /\ IF acked THEN HostMoves ELSE UNCHANGED host
    /\ UNCHANGED <<hostAddr, resetFlag, irqDue>>
    /\ UNCHANGED <<ctrl, txEmpty, devAddr, flagVars, taskVars>>

\* The status stage of a control write: an empty IN packet.
HostStatusIn ==
    /\ SieFree /\ ctrl.t = "ACK"
    /\ host.stage = "status" /\ host.setup.req.dir = "out"
    /\ xfer' = "in"
    /\ IF ctrl.tTog = 1
         THEN /\ host' = [host EXCEPT !.stage = "ended"]
              /\ hostAddr' = IF host.setup.req.verdict = "address"
                               THEN host.setup.no ELSE hostAddr
         ELSE UNCHANGED hostVars
    /\ UNCHANGED <<resetFlag, irqDue, regVars, flagVars, taskVars>>

\* The status stage of a control read: an empty OUT packet.
HostStatusOut ==
    /\ SieFree /\ ctrl.r = "ACK"
    /\ host.stage = "status" /\ host.setup.req.dir = "in"
    /\ xfer' = IF ctrl.rTog = 1 THEN "out" ELSE "repeat"
    /\ host' = [host EXCEPT !.stage = "ended"]
    /\ UNCHANGED <<hostAddr, resetFlag, irqDue, regVars, flagVars, taskVars>>

\* The host's token is answered with STALL: its transfer has failed.
HostStalled ==
    /\ SieFree
    /\ host.stage \in {"data", "status"}
    /\ "STALL" = IF (host.setup.req.dir = "in") = (host.stage = "data") THEN ctrl.t ELSE ctrl.r
    /\ host' = [host EXCEPT !.stage = "stalled"]
    /\ UNCHANGED <<hostAddr, irqVars, regVars, flagVars, taskVars>>

HostReset ==
    /\ ~resetFlag /\ resetGen < MaxResets
    /\ resetFlag' = TRUE
    /\ host' = [host EXCEPT !.stage = "ended"] /\ hostAddr' = 0
    /\ UNCHANGED <<xfer, irqDue, regVars, flagVars, taskVars>>

-----------------------------------------------------------------------------
TaskStep ==
    \/ SetupRegister \/ SetupTake \/ SetupPends
    \/ Outdated("prepIn") \/ PrepareIn
    \/ Outdated("armOut") \/ ArmOut
    \/ Outdated("prepStatus") \/ PrepareStatus
    \/ WaitRegister \/ WaitLife \/ WaitPends \/ WaitReady
    \/ Outdated("finIn") \/ FinishIn
    \/ Outdated("copy") \/ CopyOut
    \/ Outdated("finStatus") \/ FinishStatus
    \/ Reject \/ DropGuard

IsrStep == IsrSetup \/ IsrOut \/ IsrOutRepeated \/ IsrIn \/ IsrReset

Next ==
    \/ TaskStep \/ Resume \/ Cancel
    \/ IsrStep
    \/ HostSetup
    \/ \E acked \in BOOLEAN : HostIn(acked) \/ HostOut(acked)
    \/ HostStatusIn \/ HostStatusOut \/ HostStalled
    \/ HostReset

Spec == Init /\ [][Next]_vars

\* The core runs the handler and the task it is in, the executor polls a woken
\* task, and the host goes on with the transfer it has begun.
Fairness ==
    /\ WF_vars(IsrStep)
    /\ WF_vars(TaskStep)
    /\ WF_vars(Resume /\ woken)
    /\ SF_vars(HostIn(TRUE)) /\ SF_vars(HostOut(TRUE))
    /\ SF_vars(HostStatusIn) /\ SF_vars(HostStatusOut) /\ SF_vars(HostStalled)

FairSpec == Spec /\ Fairness

-----------------------------------------------------------------------------
(* Safety.                                                                 *)

\* The SETUP of the host's running transfer is held where nothing overwrites it
\* until setup() has returned it: in the bank while its interrupt is pending,
\* then in the shadow, whatever the transfer it aborted goes on to do.
SetupIsHeld ==
    host.stage \in {"data", "status"} =>
        \/ xfer = "setup" /\ bank = host.setup
        \/ xfer # "setup" /\ setupPending /\ shadow = host.setup
        \/ xfer # "setup" /\ ~setupPending /\ cur = host.setup

\* The host takes as packet i of a control read the i-th packet the class code
\* gave data_in for this very SETUP: no PID is skipped or reused, and nothing
\* of an aborted transfer is sent.
InDataIntact ==
    [][host'.moved > host.moved /\ host.setup.req.dir = "in" =>
         bank = Data(host.setup.no, "in", host.moved) /\ ~txEmpty]_vars

\* data_out returns the packets of its own transfer, each once and in order.
OutDataIntact ==
    [][pc = "copy" /\ done' > done => bank = Data(cur.no, "out", done)]_vars

\* A control write ends with success at the host only when the class code has
\* had all of its data and accepted it, and the status packet is empty.
StatusMeansDone ==
    [][host.stage = "status" /\ host.setup.req.dir = "out" /\ host'.stage = "ended" /\ xfer' = "in" =>
         /\ cur = host.setup /\ done = cur.req.len
         /\ cur.req.verdict # "reject" /\ txEmpty]_vars

\* The host sees a STALL only on a request that was rejected: the response of
\* an aborted request never reaches the transfer that aborted it.
StallIsOwn ==
    [][host'.stage = "stalled" /\ host.stage # "stalled" =>
         cur = host.setup /\ cur.req.verdict = "reject"]_vars

\* Device and host agree on the address whenever the control task waits for the
\* next SETUP: it changes after the status stage that the host saw and not for
\* an aborted SET_ADDRESS or one from before a reset.
AddressAgreed ==
    pc = "waitSetup" /\ ~IrqPending => devAddr = hostAddr

-----------------------------------------------------------------------------
(* Liveness.                                                               *)

\* Every control transfer of a host that goes on with it ends: with success,
\* with STALL, or with the SETUP or bus reset that aborts it.
TransferEnds ==
    \A n \in 1 .. MaxSetups :
        host.setup.no = n /\ host.stage \in {"data", "status"} ~>
            host.setup.no # n \/ host.stage \in {"ended", "stalled"}

=============================================================================
