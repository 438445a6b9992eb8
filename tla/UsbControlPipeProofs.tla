------------------------ MODULE UsbControlPipeProofs -----------------------
(***************************************************************************)
(* For every set of requests and all bounds: a host whose SETUP does not   *)
(* overtake the use of the bank it shares has its SETUP held until setup() *)
(* returns it, and sees STALL only in answer to a request that was         *)
(* rejected, however it abandons transfers, repeats packets and resets.    *)
(* If it also waits for a packet to be copied before it sends the next,    *)
(* the data of both directions arrive once each and in order; and if the   *)
(* control task is never dropped, both sides agree on the address.         *)
(***************************************************************************)
EXTENDS UsbControlPipe, TLAPS

\* The one thing asked of the host, see InTheWay.
NoOvertaking == Overtakes = FALSE

-----------------------------------------------------------------------------
(* The inductive invariant.                                                *)

Idle == {"setup", "take", "waitSetup"}
Waiting == {"poll", "life", "done", "await"}
AnyRequest == Requests \cup {NoRequest}

Packets == [no : Numbers, kind : {"setup", "in", "out"}, req : AnyRequest, i : Nat]

\* TypeOK leaves open what a record holds besides the fields it names.
RecordsTyped ==
    /\ bank \in Packets
    /\ host \in [setup : SetupPackets, stage : {"data", "status", "ended", "stalled"},
                 moved : Nat]

\* Where the task is says what it has yet to move.
Progress ==
    /\ pc = "prepIn" => cur.req.dir = "in"
    /\ pc \in {"armOut", "copy"} => cur.req.dir = "out" /\ done < cur.req.len
    /\ pc = "prepStatus" =>
        cur.req.dir = "out" /\ done = cur.req.len /\ cur.req.verdict # "reject"
    /\ pc \in Waiting \cup {"prepIn"} /\ cur.req.dir = "in" => done < cur.req.len
    /\ host.stage = "data" => host.moved < host.setup.req.len

\* A reset is one of those the bound allows, and ends the host's transfer.
ResetPending == resetFlag => resetGen < MaxResets /\ host.stage = "ended"

\* Until its handler runs the bank holds the SETUP, and the task, which may
\* write to the bank, is not about to or has the handler before it.
SetupInBank ==
    xfer = "setup" =>
        /\ bank = host.setup
        /\ pc = "prepIn" => irqDue

\* A rejection that is under way is of the only transfer there is.
RejectIsAlone ==
    /\ pc = "take" /\ setupPending /\ shadow.req.verdict = "reject" => xfer # "setup"
    /\ pc \notin Idle /\ cur.req.verdict = "reject" => xfer # "setup" /\ ~setupPending
    /\ pc = "reject" => cur.req.verdict = "reject"

\* STALL is the answer to the host's transfer, or to one that is over.
StallIsCurrent ==
    /\ "STALL" \in {ctrl.r, ctrl.t}
    /\ host.stage \in {"data", "status"} /\ xfer # "setup"
    => ~setupPending /\ cur = host.setup /\ cur.req.verdict = "reject"

\* An IN packet is the task's answer to the host's transfer, or to one that is
\* over; for a control write it is the status stage.
AnswerIsCurrent ==
    /\ (ctrl.t = "ACK" /\ xfer # "setup") \/ xfer = "in"
    /\ host.stage \in {"data", "status"}
    => /\ ~setupPending /\ cur = host.setup
       /\ cur.req.dir = "out" =>
            done = cur.req.len /\ cur.req.verdict # "reject" /\ txEmpty

IInv ==
    /\ TypeOK /\ RecordsTyped /\ Progress /\ ResetPending
    /\ SetupInBank /\ SetupIsHeld /\ RejectIsAlone /\ StallIsCurrent /\ AnswerIsCurrent

-----------------------------------------------------------------------------
(* Packets, requests and the first state.                                  *)

\* A request has its fields, and one to the host has data.
LEMMA RequestFields ==
    ASSUME NEW q \in AnyRequest
    PROVE  /\ q.dir \in {"in", "out"} /\ q.len \in Nat
           /\ q.verdict \in {"accept", "reject", "address"}
           /\ q.dir = "in" => q.len > 0
BY RequestAssumption DEF AnyRequest, NoRequest

\* A SETUP packet is what Setup makes of its number and its request.
LEMMA SetupFields ==
    ASSUME NEW p \in SetupPackets
    PROVE  /\ p.no \in Numbers /\ p.req \in AnyRequest /\ p.kind = "setup"
           /\ p = Setup(p.no, p.req) /\ p \in Packets
BY DEF SetupPackets, Setup, AnyRequest, Packets

\* A number and a request make a SETUP packet with these fields.
LEMMA SetupMade ==
    ASSUME NEW n \in Numbers, NEW q \in AnyRequest
    PROVE  /\ Setup(n, q) \in SetupPackets
           /\ Setup(n, q).no = n /\ Setup(n, q).req = q /\ Setup(n, q).kind = "setup"
BY DEF SetupPackets, Setup, AnyRequest

\* The bus has just been enabled and no SETUP has come.
LEMMA InitInv == Init => IInv
<1> SUFFICES ASSUME Init PROVE IInv
  OBVIOUS
<1>1. 0 \in Numbers /\ MaxSetups \in Nat /\ MaxResets \in Nat
  BY RequestAssumption DEF Numbers
<1>2. NoRequest \in AnyRequest /\ NoRequest.len = 0 /\ NoRequest.verdict = "accept"
  BY DEF AnyRequest, NoRequest
<1>3. Setup(0, NoRequest) \in SetupPackets /\ Setup(0, NoRequest).req = NoRequest
  BY <1>1, <1>2, SetupMade
<1>4. bank \in Packets /\ bank.no \in Numbers /\ bank.kind = "setup"
  BY <1>3, SetupFields DEF Init
<1>5. TypeOK
  <2>1. ctrl \in [r : Responses, t : Responses, rTog : {0, 1}, tTog : {0, 1}]
    BY DEF Init, Control, Responses
  <2>2. /\ shadow \in SetupPackets /\ cur \in SetupPackets /\ host.setup \in SetupPackets
        /\ cur.req.len = 0 /\ host.setup.req.len = 0
    BY <1>2, <1>3 DEF Init
  <2>3. done \in 0 .. cur.req.len /\ host.moved \in 0 .. host.setup.req.len
    BY <2>2 DEF Init
  <2>4. /\ resetGen \in 0 .. MaxResets /\ snapGen \in 0 .. resetGen
        /\ devAddr \in Numbers /\ hostAddr \in Numbers
    BY <1>1 DEF Init
  <2>5. pc \in Pcs /\ host.stage \in {"data", "status", "ended", "stalled"}
    BY DEF Init, Pcs
  <2>6. /\ setupPending \in BOOLEAN /\ inComplete \in BOOLEAN /\ outComplete \in BOOLEAN
        /\ resetFlag \in BOOLEAN /\ irqDue \in BOOLEAN /\ txEmpty \in BOOLEAN
        /\ registered \in BOOLEAN /\ woken \in BOOLEAN
        /\ xfer \in {"none", "setup", "in", "out", "repeat"}
    BY DEF Init
  <2> QED
    BY <1>4, <2>1, <2>2, <2>3, <2>4, <2>5, <2>6 DEF TypeOK
<1>6. RecordsTyped
  BY <1>3, <1>4 DEF Init, RecordsTyped
<1>7. Progress
  BY DEF Init, Progress, Waiting
<1>8. ResetPending /\ SetupInBank /\ SetupIsHeld /\ RejectIsAlone
  BY DEF Init, ResetPending, SetupInBank, SetupIsHeld, RejectIsAlone, Idle
<1>9. StallIsCurrent /\ AnswerIsCurrent
  BY DEF Init, StallIsCurrent, AnswerIsCurrent, Control
<1> QED
  BY <1>5, <1>6, <1>7, <1>8, <1>9 DEF IInv

-----------------------------------------------------------------------------
(* Steps of the control task.                                              *)

\* The task leaves the host, the latch and the handler's words alone; with a
\* SETUP latched it takes one step at most before the handler runs.
LEMMA TaskFrame ==
    ASSUME TypeOK, TaskStep \/ Resume \/ Cancel
    PROVE  /\ UNCHANGED <<xfer, resetFlag, host, hostAddr, resetGen, shadow>>
           /\ irqDue' \in BOOLEAN
           /\ xfer = "setup" => ~irqDue /\ irqDue'
           /\ pc' \in Pcs
           /\ ctrl' \in [r : Responses, t : Responses, rTog : {0, 1}, tTog : {0, 1}]
<1> DEFINE Frame == /\ UNCHANGED <<xfer, resetFlag, host, hostAddr, resetGen, shadow>>
                    /\ irqDue' \in BOOLEAN
                    /\ xfer = "setup" => ~irqDue /\ irqDue'
           Controls == [r : Responses, t : Responses, rTog : {0, 1}, tTog : {0, 1}]
<1>1. ASSUME Unmasked, resetGen' = resetGen, shadow' = shadow PROVE Frame
  BY <1>1 DEF Unmasked, IrqPending, irqVars, hostVars, TypeOK
<1>2. ASSUME CriticalSection, resetGen' = resetGen, shadow' = shadow PROVE Frame
  BY <1>2 DEF CriticalSection, IrqPending, hostVars, TypeOK
<1>3. ctrl \in Controls
  BY DEF TypeOK
<1> SUFFICES Frame /\ pc' \in Pcs /\ ctrl' \in Controls
  OBVIOUS
<1> HIDE DEF Frame
<1>4. CASE SetupRegister \/ WaitRegister \/ WaitLife \/ WaitPends \/ Resume \/ Cancel
  BY <1>1, <1>3, <1>4
     DEF SetupRegister, WaitRegister, WaitLife, WaitPends, Resume, Cancel, Goto, Pcs,
         flagVars, regVars
<1>5. CASE WaitReady
  BY <1>1, <1>3, <1>5 DEF WaitReady, Goto, Pcs, regVars
<1>6. CASE SetupTake
  BY <1>2, <1>3, <1>6 DEF SetupTake, Goto, Pcs, NextCall, Control, Responses
<1>7. ASSUME NEW here \in Pcs, Outdated(here)
      PROVE  Frame /\ pc' \in Pcs /\ ctrl' \in Controls
  BY <1>2, <1>3, <1>7 DEF Outdated, Goto, Pcs, flagVars, regVars
<1>8. CASE SetupPends \/ PrepareIn \/ ArmOut \/ PrepareStatus
  BY <1>2, <1>3, <1>8
     DEF SetupPends, PrepareIn, ArmOut, PrepareStatus, Goto, Pcs, Responses, flagVars, regVars
<1>9. CASE FinishIn \/ CopyOut \/ FinishStatus \/ Reject
  BY <1>2, <1>3, <1>9
     DEF FinishIn, CopyOut, FinishStatus, Reject, Goto, Pcs, NextCall, Control, Responses,
         flagVars, regVars
<1>10. CASE DropGuard
  BY <1>2, <1>3, <1>10 DEF DropGuard, Goto, Pcs, Responses, flagVars
<1> QED
  BY <1>4, <1>5, <1>6, <1>7, <1>8, <1>9, <1>10 DEF TaskStep, Pcs, Frame


\* What embassy-usb calls next fits what has been moved.
LEMMA NextCallFits ==
    ASSUME NEW q \in AnyRequest, NEW n \in 0 .. q.len, q.dir = "in" => n = 0
    PROVE  LET call == NextCall(q, n)
           IN  /\ call \in {"prepIn", "armOut", "reject", "prepStatus"}
               /\ call = "prepIn" => q.dir = "in" /\ n < q.len
               /\ call = "armOut" => q.dir = "out" /\ n < q.len
               /\ call = "reject" => q.verdict = "reject"
               /\ call = "prepStatus" => q.dir = "out" /\ n = q.len /\ q.verdict # "reject"
BY RequestFields DEF NextCall

\* setup() returns the packet in the shadow.
LEMMA TakesShadow ==
    ASSUME TypeOK, SetupTake
    PROVE  cur' = shadow /\ done' = 0 /\ pc' = NextCall(shadow.req, 0) /\ snapGen' = resetGen
<1>1. shadow \in SetupPackets
  BY DEF TypeOK
<1>2. shadow.kind = "setup" /\ shadow = Setup(shadow.no, shadow.req)
  BY <1>1, SetupFields
<1> QED
  BY <1>2 DEF SetupTake, Goto

\* Every step of the task but four leaves what it has moved.
LEMMA JobKept ==
    ASSUME TaskStep \/ Resume \/ Cancel
    PROVE  \/ SetupTake \/ WaitReady \/ CopyOut
           \/ cur' = cur /\ done' = done /\ snapGen' = snapGen
<1>1. ASSUME NEW here, Outdated(here) PROVE cur' = cur /\ done' = done /\ snapGen' = snapGen
  BY <1>1 DEF Outdated, jobVars
<1> QED
  BY <1>1
     DEF TaskStep, SetupRegister, SetupPends, PrepareIn, ArmOut, PrepareStatus,
         WaitRegister, WaitLife, WaitPends, FinishIn, FinishStatus, Reject, DropGuard,
         Resume, Cancel, jobVars

\* The task knows where it is in its transfer.
LEMMA TaskProgress ==
    ASSUME IInv, TaskStep \/ Resume \/ Cancel
    PROVE  /\ Progress'
           /\ cur' \in SetupPackets /\ done' \in 0 .. cur'.req.len
           /\ snapGen' \in 0 .. resetGen
<1>1. /\ TypeOK /\ Progress
      /\ cur \in SetupPackets /\ shadow \in SetupPackets
      /\ done \in 0 .. cur.req.len /\ snapGen \in 0 .. resetGen /\ resetGen \in Nat
  BY RequestAssumption DEF IInv, TypeOK
<1>2. /\ cur.req \in AnyRequest /\ cur.req.len \in Nat /\ cur.req.dir \in {"in", "out"}
      /\ shadow.req \in AnyRequest /\ shadow.req.len \in Nat
  BY <1>1, SetupFields, RequestFields
<1>3. host' = host /\ done \in Nat
  BY <1>1, <1>2, TaskFrame
<1>4. CASE SetupTake
  <2>1. cur' = shadow /\ done' = 0 /\ pc' = NextCall(shadow.req, 0) /\ snapGen' = resetGen
    BY <1>1, <1>4, TakesShadow
  <2>2. 0 \in 0 .. shadow.req.len
    BY <1>2
  <2> QED
    BY <1>1, <1>2, <1>3, <2>1, <2>2, NextCallFits DEF Progress, Waiting
<1>5. CASE WaitReady
  <2>1. cur' = cur /\ snapGen' = snapGen /\ pc = "done"
    BY <1>5 DEF WaitReady
  <2>2. cur.req.dir = "in" => done < cur.req.len
    BY <1>1, <2>1 DEF Progress, Waiting
  <2>3. done' = IF cur.req.dir = "in" THEN done + 1 ELSE done
    BY <1>5 DEF WaitReady
  <2>4. pc' = IF cur.req.dir = "in"
              THEN IF done' < cur.req.len THEN "prepIn" ELSE "finIn"
              ELSE IF done < cur.req.len THEN "copy" ELSE "finStatus"
    BY <1>5 DEF WaitReady, Goto
  <2>5. done' \in 0 .. cur.req.len
    BY <1>1, <1>2, <1>3, <2>2, <2>3
  <2> QED
    BY <1>1, <1>2, <1>3, <2>1, <2>3, <2>4, <2>5 DEF Progress, Waiting
<1>6. CASE CopyOut
  <2>1. /\ cur' = cur /\ snapGen' = snapGen /\ pc = "copy"
        /\ done' = done + 1 /\ pc' = NextCall(cur.req, done + 1)
    BY <1>6 DEF CopyOut, Goto
  <2>2. cur.req.dir = "out" /\ done < cur.req.len
    BY <1>1, <2>1 DEF Progress
  <2>3. done + 1 \in 0 .. cur.req.len
    BY <1>2, <1>3, <2>2
  <2> QED
    BY <1>1, <1>2, <1>3, <2>1, <2>2, <2>3, NextCallFits DEF Progress, Waiting
<1>7. CASE cur' = cur /\ done' = done /\ snapGen' = snapGen
  <2> SUFFICES Progress'
    BY <1>1, <1>7
  <2>1. CASE \/ SetupRegister \/ SetupPends \/ (\E here \in Pcs : Outdated(here))
             \/ FinishIn \/ FinishStatus \/ Reject \/ DropGuard \/ Cancel
    BY <1>1, <1>3, <1>7, <2>1
       DEF SetupRegister, SetupPends, Outdated, FinishIn, FinishStatus, Reject, DropGuard,
           Cancel, Goto, Progress, Waiting
  <2>2. CASE PrepareIn \/ ArmOut \/ PrepareStatus
    BY <1>1, <1>3, <1>7, <2>2
       DEF PrepareIn, ArmOut, PrepareStatus, Goto, Progress, Waiting
  <2>3. CASE WaitRegister \/ WaitLife \/ WaitPends \/ Resume
    BY <1>1, <1>3, <1>7, <2>3
       DEF WaitRegister, WaitLife, WaitPends, Resume, Goto, Progress, Waiting
  <2>4. CASE SetupTake \/ WaitReady \/ CopyOut
    BY <1>4, <1>5, <1>6, <2>4
  <2> QED
    BY <2>1, <2>2, <2>3, <2>4 DEF TaskStep, Pcs
<1> QED
  BY <1>4, <1>5, <1>6, <1>7, JobKept

\* The task writes to the bank in prepare_in only.
LEMMA BankKept ==
    ASSUME TaskStep \/ Resume \/ Cancel
    PROVE  PrepareIn \/ bank' = bank
<1>1. ASSUME NEW here, Outdated(here) PROVE bank' = bank
  BY <1>1 DEF Outdated, regVars
<1> QED
  BY <1>1
     DEF TaskStep, SetupRegister, SetupTake, SetupPends, ArmOut, PrepareStatus,
         WaitRegister, WaitLife, WaitPends, WaitReady, FinishIn, CopyOut, FinishStatus,
         Reject, DropGuard, Resume, Cancel, regVars

\* The task keeps the types.
LEMMA TaskTyped ==
    ASSUME IInv, TaskStep \/ Resume \/ Cancel
    PROVE  TypeOK' /\ RecordsTyped'
<1>1. TypeOK /\ RecordsTyped
  BY DEF IInv
<1>2. /\ UNCHANGED <<xfer, resetFlag, host, hostAddr, resetGen, shadow>>
      /\ irqDue' \in BOOLEAN /\ pc' \in Pcs
      /\ ctrl' \in [r : Responses, t : Responses, rTog : {0, 1}, tTog : {0, 1}]
  BY <1>1, TaskFrame
<1>3. cur' \in SetupPackets /\ done' \in 0 .. cur'.req.len /\ snapGen' \in 0 .. resetGen
  BY TaskProgress
<1>4. bank' \in Packets
  <2>1. CASE PrepareIn
    <3>1. bank' = Data(cur.no, "in", done)
      BY <2>1 DEF PrepareIn
    <3>2. cur.no \in Numbers /\ cur.req \in AnyRequest
      BY <1>1, SetupFields DEF TypeOK
    <3>3. done \in Nat
      BY <1>1, <3>2, RequestFields DEF TypeOK
    <3> QED
      BY <3>1, <3>2, <3>3 DEF Data, Packets, AnyRequest
  <2>2. CASE bank' = bank
    BY <1>1, <2>2 DEF RecordsTyped
  <2> QED
    BY <2>1, <2>2, BankKept
<1>5. devAddr' \in Numbers
  <2>1. devAddr \in Numbers /\ cur.no \in Numbers
    BY <1>1, SetupFields DEF TypeOK
  <2>2. ASSUME NEW here, Outdated(here) PROVE devAddr' = devAddr
    BY <2>2 DEF Outdated, regVars
  <2> QED
    BY <2>1, <2>2
       DEF TaskStep, SetupRegister, SetupTake, SetupPends, PrepareIn, ArmOut, PrepareStatus,
           WaitRegister, WaitLife, WaitPends, WaitReady, FinishIn, CopyOut, FinishStatus,
           Reject, DropGuard, Resume, Cancel, regVars
<1>6. /\ setupPending' \in BOOLEAN /\ inComplete' \in BOOLEAN /\ outComplete' \in BOOLEAN
      /\ txEmpty' \in BOOLEAN /\ registered' \in BOOLEAN /\ woken' \in BOOLEAN
  <2>1. /\ setupPending \in BOOLEAN /\ inComplete \in BOOLEAN /\ outComplete \in BOOLEAN
        /\ txEmpty \in BOOLEAN /\ registered \in BOOLEAN /\ woken \in BOOLEAN
    BY <1>1 DEF TypeOK
  <2>2. ASSUME NEW here, Outdated(here)
        PROVE  UNCHANGED <<setupPending, inComplete, outComplete, txEmpty, registered, woken>>
    BY <2>2 DEF Outdated, regVars, flagVars, wakeVars
  <2>3. CASE SetupRegister \/ SetupTake \/ SetupPends \/ WaitRegister \/ WaitLife
             \/ WaitPends \/ Resume \/ Cancel
    BY <2>1, <2>3
       DEF SetupRegister, SetupTake, SetupPends, WaitRegister, WaitLife, WaitPends, Resume,
           Cancel, regVars, flagVars, wakeVars
  <2>4. CASE PrepareIn \/ ArmOut \/ PrepareStatus \/ FinishIn \/ CopyOut \/ FinishStatus
             \/ Reject \/ DropGuard
    BY <2>1, <2>4
       DEF PrepareIn, ArmOut, PrepareStatus, FinishIn, CopyOut, FinishStatus, Reject,
           DropGuard, regVars, flagVars, wakeVars
  <2>5. CASE WaitReady
    <3>1. /\ inComplete' = (inComplete /\ ~WaitsIn) /\ outComplete' = (outComplete /\ WaitsIn)
          /\ UNCHANGED <<regVars, setupPending, wakeVars>>
      BY <2>5 DEF WaitReady
    <3> QED
      BY <2>1, <3>1 DEF regVars, wakeVars
  <2> QED
    BY <2>1, <2>2, <2>3, <2>4, <2>5 DEF TaskStep
<1>7. TypeOK'
  <2>1. bank'.no \in Numbers /\ bank'.kind \in {"setup", "in", "out"}
    BY <1>4 DEF Packets
  <2> QED
    BY <1>1, <1>2, <1>3, <1>5, <1>6, <2>1 DEF TypeOK
<1> QED
  BY <1>1, <1>2, <1>4, <1>7 DEF RecordsTyped

\* Only setup() consumes a SETUP, and only prepare_in says whether the packet is
\* empty.
LEMMA PendingKept ==
    ASSUME TaskStep \/ Resume \/ Cancel
    PROVE  /\ SetupTake \/ setupPending' = setupPending
           /\ PrepareIn \/ PrepareStatus \/ txEmpty' = txEmpty
<1>1. ASSUME NEW here, Outdated(here)
      PROVE  setupPending' = setupPending /\ txEmpty' = txEmpty
  BY <1>1 DEF Outdated, regVars, flagVars
<1>2. CASE SetupRegister \/ SetupTake \/ SetupPends \/ ArmOut \/ WaitRegister
           \/ WaitLife \/ WaitPends \/ WaitReady \/ Resume \/ Cancel
  BY <1>2
     DEF SetupRegister, SetupTake, SetupPends, ArmOut, WaitRegister, WaitLife, WaitPends,
         WaitReady, Resume, Cancel, regVars, flagVars
<1>3. CASE PrepareIn \/ PrepareStatus \/ FinishIn \/ CopyOut \/ FinishStatus \/ Reject
           \/ DropGuard
  BY <1>3
     DEF PrepareIn, PrepareStatus, FinishIn, CopyOut, FinishStatus, Reject, DropGuard,
         regVars, flagVars
<1> QED
  BY <1>1, <1>2, <1>3 DEF TaskStep

\* Only reject() answers with STALL, and only prepare_in with a packet.
LEMMA AnswersKept ==
    ASSUME TypeOK, TaskStep \/ Resume \/ Cancel
    PROVE  /\ "STALL" \in {ctrl'.r, ctrl'.t} => Reject \/ "STALL" \in {ctrl.r, ctrl.t}
           /\ ctrl'.t = "ACK" => PrepareIn \/ PrepareStatus \/ ctrl.t = "ACK"
           /\ SetupTake => ctrl'.r = "NAK" /\ ctrl'.t = "NAK"
<1> DEFINE Kept == /\ "STALL" \in {ctrl'.r, ctrl'.t} => "STALL" \in {ctrl.r, ctrl.t}
                   /\ ctrl'.t = "ACK" => ctrl.t = "ACK"
<1>1. ctrl \in [r : Responses, t : Responses, rTog : {0, 1}, tTog : {0, 1}]
  BY DEF TypeOK
<1> SUFFICES /\ "STALL" \in {ctrl'.r, ctrl'.t} => Reject \/ "STALL" \in {ctrl.r, ctrl.t}
             /\ ctrl'.t = "ACK" => PrepareIn \/ PrepareStatus \/ ctrl.t = "ACK"
  BY DEF SetupTake, Control
<1>2. ASSUME NEW here, Outdated(here) PROVE Kept
  BY <1>2 DEF Outdated, regVars
<1>3. CASE SetupRegister \/ SetupPends \/ WaitRegister \/ WaitLife \/ WaitPends
           \/ WaitReady \/ CopyOut \/ Resume \/ Cancel
  BY <1>3
     DEF SetupRegister, SetupPends, WaitRegister, WaitLife, WaitPends, WaitReady, CopyOut,
         Resume, Cancel, regVars
<1>4. CASE SetupTake
  BY <1>4 DEF SetupTake, Control
<1>5. CASE PrepareIn \/ PrepareStatus \/ ArmOut
  BY <1>1, <1>5 DEF PrepareIn, PrepareStatus, ArmOut
<1>6. CASE FinishIn \/ FinishStatus \/ Reject
  BY <1>6 DEF FinishIn, FinishStatus, Reject, Control
<1>7. CASE DropGuard
  BY <1>1, <1>7 DEF DropGuard
<1> QED
  BY <1>2, <1>3, <1>4, <1>5, <1>6, <1>7 DEF TaskStep

\* The task registers its waker before it looks for a SETUP, begins a transfer in
\* setup() only, and is told to reject by embassy-usb.
LEMMA TaskMoves ==
    ASSUME TaskStep \/ Resume \/ Cancel
    PROVE  /\ pc' = "take" => xfer = "none"
           /\ pc \in Idle /\ pc' \notin Idle => SetupTake
           /\ pc' = "reject" => SetupTake \/ CopyOut
<1>1. ASSUME NEW here \in Pcs \ Idle, Outdated(here)
      PROVE  pc' = "drop" /\ pc \notin Idle
  BY <1>1 DEF Outdated, Goto
<1>2. CASE SetupRegister \/ SetupTake \/ SetupPends \/ Resume \/ Cancel
  BY <1>2
     DEF SetupRegister, SetupTake, SetupPends, Resume, Cancel, Goto, NextCall, Idle,
         Unmasked, IrqPending
<1>3. CASE PrepareIn \/ ArmOut \/ PrepareStatus \/ WaitRegister \/ WaitLife \/ WaitPends
  BY <1>3
     DEF PrepareIn, ArmOut, PrepareStatus, WaitRegister, WaitLife, WaitPends, Goto, Idle
<1>4. CASE WaitReady
  BY <1>4 DEF WaitReady, Goto, Idle
<1>5. CASE FinishIn \/ CopyOut \/ FinishStatus \/ Reject \/ DropGuard
  BY <1>5
     DEF FinishIn, CopyOut, FinishStatus, Reject, DropGuard, Goto, NextCall, Idle
<1> QED
  BY <1>1, <1>2, <1>3, <1>4, <1>5 DEF TaskStep, Pcs, Idle

\* The task loses no SETUP and rejects only what is current.
LEMMA TaskKeepsSetup ==
    ASSUME IInv, TaskStep \/ Resume \/ Cancel
    PROVE  ResetPending' /\ SetupInBank' /\ SetupIsHeld' /\ RejectIsAlone'
<1>1. /\ TypeOK /\ Progress /\ ResetPending /\ SetupInBank /\ SetupIsHeld /\ RejectIsAlone
      /\ shadow \in SetupPackets /\ cur \in SetupPackets
  BY DEF IInv, TypeOK
<1>2. /\ UNCHANGED <<xfer, resetFlag, host, hostAddr, resetGen, shadow>>
      /\ xfer = "setup" => ~irqDue /\ irqDue'
  BY <1>1, TaskFrame
<1>3. SetupTake => setupPending /\ ~setupPending' /\ cur' = shadow /\ pc' = NextCall(shadow.req, 0)
  BY <1>1, TakesShadow DEF SetupTake
<1>4. cur' = cur \/ SetupTake
  BY JobKept DEF WaitReady, CopyOut
<1>5. setupPending' = setupPending \/ SetupTake
  BY PendingKept
<1>6. xfer = "setup" => bank' = bank
  BY <1>1, <1>2, BankKept DEF SetupInBank, PrepareIn
<1>7. ResetPending'
  BY <1>1, <1>2 DEF ResetPending
<1>8. SetupInBank'
  BY <1>1, <1>2, <1>6 DEF SetupInBank
<1>9. SetupIsHeld'
  BY <1>1, <1>2, <1>3, <1>4, <1>5, <1>6 DEF SetupIsHeld, SetupInBank
<1>10. RejectIsAlone'
  <2>1. /\ pc' = "take" => xfer = "none"
        /\ pc \in Idle /\ pc' \notin Idle => SetupTake
        /\ pc' = "reject" => SetupTake \/ CopyOut
    BY TaskMoves
  <2>2. shadow.req \in AnyRequest /\ cur.req \in AnyRequest /\ cur.req.len \in Nat
    BY <1>1, SetupFields, RequestFields
  <2>3. CASE SetupTake
    <3>1. pc = "take" /\ 0 \in 0 .. shadow.req.len
      BY <2>2, <2>3, RequestFields DEF SetupTake
    <3>2. pc' = "reject" => shadow.req.verdict = "reject"
      BY <1>3, <2>2, <2>3, <3>1, NextCallFits
    <3> QED
      BY <1>1, <1>2, <1>3, <2>1, <2>3, <3>1, <3>2 DEF RejectIsAlone
  <2>4. CASE ~SetupTake
    <3>1. cur' = cur /\ setupPending' = setupPending
      BY <1>4, <1>5, <2>4
    <3>2. pc' = "reject" => cur.req.verdict = "reject"
      <4>1. SUFFICES ASSUME CopyOut PROVE pc' = "reject" => cur.req.verdict = "reject"
        BY <2>1, <2>4
      <4>2. cur.req.dir = "out" /\ done < cur.req.len
        BY <1>1, <4>1 DEF Progress, CopyOut
      <4>3. done + 1 \in 0 .. cur.req.len
        BY <1>1, <2>2, <4>2 DEF TypeOK
      <4>4. pc' = NextCall(cur.req, done + 1)
        BY <4>1 DEF CopyOut, Goto
      <4> QED
        BY <2>2, <4>2, <4>3, <4>4, NextCallFits
    <3> QED
      BY <1>1, <1>2, <2>1, <2>4, <3>1, <3>2 DEF RejectIsAlone
  <2> QED
    BY <2>3, <2>4
<1> QED
  BY <1>7, <1>8, <1>9, <1>10

\* What the task answers is for the host's transfer, or for one that is over.
LEMMA TaskKeepsAnswers ==
    ASSUME IInv, TaskStep \/ Resume \/ Cancel
    PROVE  StallIsCurrent' /\ AnswerIsCurrent'
<1>1. /\ TypeOK /\ Progress /\ SetupIsHeld /\ RejectIsAlone /\ StallIsCurrent
      /\ AnswerIsCurrent /\ cur \in SetupPackets
  BY DEF IInv, TypeOK
<1>2. UNCHANGED <<xfer, host>>
  BY <1>1, TaskFrame
<1>3. /\ "STALL" \in {ctrl'.r, ctrl'.t} => Reject \/ "STALL" \in {ctrl.r, ctrl.t}
      /\ ctrl'.t = "ACK" => PrepareIn \/ PrepareStatus \/ ctrl.t = "ACK"
      /\ SetupTake => ctrl'.r = "NAK" /\ ctrl'.t = "NAK"
  BY <1>1, AnswersKept
<1>4. SetupTake \/ (cur' = cur /\ setupPending' = setupPending)
  BY JobKept, PendingKept DEF WaitReady, CopyOut
<1>5. StallIsCurrent'
  <2> SUFFICES ASSUME "STALL" \in {ctrl'.r, ctrl'.t},
                      host.stage \in {"data", "status"}, xfer # "setup"
               PROVE  ~setupPending' /\ cur' = host.setup /\ cur'.req.verdict = "reject"
    BY <1>2 DEF StallIsCurrent
  <2>1. cur' = cur /\ setupPending' = setupPending
    BY <1>3, <1>4
  <2>2. CASE Reject
    <3>1. pc = "reject" /\ pc \notin Idle
      BY <2>2 DEF Reject, Idle
    <3> QED
      BY <1>1, <2>1, <3>1 DEF RejectIsAlone, SetupIsHeld
  <2>3. CASE "STALL" \in {ctrl.r, ctrl.t}
    BY <1>1, <2>1, <2>3 DEF StallIsCurrent
  <2> QED
    BY <1>3, <2>2, <2>3
<1>6. AnswerIsCurrent'
  <2> SUFFICES ASSUME (ctrl'.t = "ACK" /\ xfer # "setup") \/ xfer = "in",
                      host.stage \in {"data", "status"}
               PROVE  /\ ~setupPending' /\ cur' = host.setup
                      /\ cur'.req.dir = "out" =>
                           done' = cur'.req.len /\ cur'.req.verdict # "reject" /\ txEmpty'
    BY <1>2 DEF AnswerIsCurrent
  <2>1. CASE PrepareIn
    <3>1. pc = "prepIn" /\ ~setupPending
      BY <2>1 DEF PrepareIn, StillCurrent
    <3>2. cur' = cur /\ setupPending' = setupPending
      BY <2>1 DEF PrepareIn, jobVars
    <3>3. cur.req.dir = "in"
      BY <1>1, <3>1 DEF Progress
    <3> QED
      BY <1>1, <3>1, <3>2, <3>3 DEF SetupIsHeld
  <2>2. CASE PrepareStatus
    <3>1. pc = "prepStatus" /\ ~setupPending
      BY <2>2 DEF PrepareStatus, StillCurrent
    <3>2. cur' = cur /\ setupPending' = setupPending /\ done' = done /\ txEmpty' = TRUE
      BY <2>2 DEF PrepareStatus, jobVars
    <3> QED
      BY <1>1, <3>1, <3>2 DEF SetupIsHeld, Progress
  <2>3. CASE ~PrepareIn /\ ~PrepareStatus
    <3>1. (ctrl.t = "ACK" /\ xfer # "setup") \/ xfer = "in"
      BY <1>3, <2>3
    <3>2. /\ ~setupPending /\ cur = host.setup
          /\ cur.req.dir = "out" =>
               done = cur.req.len /\ cur.req.verdict # "reject" /\ txEmpty
      BY <1>1, <3>1 DEF AnswerIsCurrent
    <3>3. ~SetupTake
      BY <3>2 DEF SetupTake
    <3>4. cur' = cur /\ setupPending' = setupPending /\ txEmpty' = txEmpty
      BY <1>4, <2>3, <3>3, PendingKept
    <3>5. cur.req.len \in Nat
      BY <1>1, SetupFields, RequestFields
    <3>6. cur.req.dir = "out" => done' = done
      <4>1. CASE CopyOut
        BY <1>1, <3>2, <3>5, <4>1 DEF CopyOut, Progress
      <4>2. CASE WaitReady
        BY <4>2 DEF WaitReady
      <4> QED
        BY <3>3, <4>1, <4>2, JobKept
    <3> QED
      BY <3>2, <3>4, <3>6
  <2> QED
    BY <2>1, <2>2, <2>3
<1> QED
  BY <1>5, <1>6

-----------------------------------------------------------------------------
(* Steps of the interrupt handler.                                         *)

\* The handler keeps the invariant: it moves the SETUP to the shadow and clears
\* what the aborted transfer has left.
LEMMA IsrKeepsInv == ASSUME IInv, IsrStep PROVE IInv'
<1>1. /\ TypeOK /\ RecordsTyped /\ Progress /\ ResetPending /\ SetupInBank /\ SetupIsHeld
      /\ RejectIsAlone /\ StallIsCurrent /\ AnswerIsCurrent
      /\ ctrl \in [r : Responses, t : Responses, rTog : {0, 1}, tTog : {0, 1}]
      /\ cur \in SetupPackets /\ shadow \in SetupPackets
  BY DEF IInv, TypeOK
<1>2. /\ UNCHANGED <<host, hostAddr, bank, pc, cur, done, snapGen, txEmpty>>
      /\ xfer' = "none" /\ irqDue' \in BOOLEAN /\ woken' \in BOOLEAN /\ registered' = registered
  BY <1>1
     DEF IsrStep, IsrSetup, IsrOut, IsrOutRepeated, IsrIn, IsrReset, Retire, WakeEp0, TypeOK,
         hostVars, jobVars, regVars, flagVars
<1>3. Progress'
  BY <1>1, <1>2 DEF Progress
<1>4. RecordsTyped'
  BY <1>1, <1>2 DEF RecordsTyped
<1>5. SetupInBank'
  BY <1>2 DEF SetupInBank
<1>6. CASE IsrSetup
  <2>1. /\ xfer = "setup" /\ resetFlag' = resetFlag /\ resetGen' = resetGen
        /\ inComplete' = FALSE /\ outComplete' = FALSE /\ setupPending' = TRUE
        /\ shadow' = bank /\ devAddr' = devAddr
        /\ ctrl' = Control("NAK", "NAK", 1, 1)
    BY <1>6 DEF IsrSetup, Retire
  <2>2. shadow' = host.setup /\ shadow' \in SetupPackets
    BY <1>1, <2>1 DEF SetupInBank, TypeOK
  <2>3. TypeOK'
    BY <1>1, <1>2, <2>1, <2>2 DEF TypeOK, Control, Responses
  <2>4. RejectIsAlone'
    BY <1>1, <1>2, <2>1 DEF RejectIsAlone, Idle
  <2> QED
    BY <1>1, <1>2, <1>3, <1>4, <1>5, <2>1, <2>2, <2>3, <2>4
       DEF IInv, ResetPending, SetupIsHeld, StallIsCurrent, AnswerIsCurrent, Control
<1>7. CASE IsrOut \/ IsrOutRepeated \/ IsrIn
  <2>1. /\ xfer \in {"out", "repeat", "in"} /\ resetFlag' = resetFlag /\ resetGen' = resetGen
        /\ inComplete' \in BOOLEAN /\ outComplete' \in BOOLEAN
        /\ setupPending' = setupPending /\ shadow' = shadow /\ devAddr' = devAddr
    BY <1>1, <1>7
       DEF IsrOut, IsrOutRepeated, IsrIn, Retire, regVars, flagVars, TypeOK
  <2>2. /\ ctrl' \in [r : Responses, t : Responses, rTog : {0, 1}, tTog : {0, 1}]
        /\ "STALL" \in {ctrl'.r, ctrl'.t} => "STALL" \in {ctrl.r, ctrl.t}
        /\ ctrl'.t = "ACK" => ctrl.t = "ACK"
    <3>1. CASE IsrOut
      BY <1>1, <3>1 DEF IsrOut
    <3>2. CASE IsrOutRepeated
      BY <1>1, <3>2 DEF IsrOutRepeated, regVars
    <3>3. CASE IsrIn
      <4>1. /\ ctrl' = [ctrl EXCEPT !.tTog = 1 - ctrl.tTog, !.t = "NAK"]
            /\ 1 - ctrl.tTog \in {0, 1}
        BY <1>1, <3>3 DEF IsrIn
      <4>2. /\ ctrl' \in [r : Responses, t : Responses, rTog : {0, 1}, tTog : {0, 1}]
            /\ ctrl'.r = ctrl.r /\ ctrl'.t = "NAK"
        <5>1. "NAK" \in Responses
          BY DEF Responses
        <5> QED
          BY <1>1, <4>1, <5>1
      <4> QED
        BY <4>2
    <3> QED
      BY <1>7, <3>1, <3>2, <3>3
  <2>3. TypeOK'
    BY <1>1, <1>2, <2>1, <2>2 DEF TypeOK
  <2>4. RejectIsAlone' /\ SetupIsHeld' /\ ResetPending'
    BY <1>1, <1>2, <2>1 DEF RejectIsAlone, SetupIsHeld, ResetPending
  <2>5. StallIsCurrent'
    BY <1>1, <1>2, <2>1, <2>2 DEF StallIsCurrent
  <2>6. AnswerIsCurrent'
    BY <1>1, <1>2, <2>1, <2>2 DEF AnswerIsCurrent
  <2> QED
    BY <1>3, <1>4, <1>5, <2>3, <2>4, <2>5, <2>6 DEF IInv
<1>8. CASE IsrReset
  <2>1. /\ resetFlag /\ resetFlag' = FALSE /\ resetGen' = resetGen + 1
        /\ setupPending' = FALSE /\ inComplete' = FALSE /\ outComplete' = FALSE
        /\ ctrl' = Control("ACK", "NAK", 0, 0) /\ devAddr' = 0 /\ shadow' = shadow
        /\ xfer = "none"
    BY <1>8 DEF IsrReset
  <2>2. host.stage = "ended" /\ resetGen < MaxResets
    BY <1>1, <2>1 DEF ResetPending
  <2>3. /\ resetGen' \in 0 .. MaxResets /\ snapGen' \in 0 .. resetGen'
        /\ devAddr' \in Numbers
    BY <1>1, <1>2, <2>1, <2>2, RequestAssumption DEF TypeOK, Numbers
  <2>4. TypeOK'
    BY <1>1, <1>2, <2>1, <2>3 DEF TypeOK, Control, Responses
  <2>5. RejectIsAlone'
    BY <1>1, <1>2, <2>1 DEF RejectIsAlone
  <2> QED
    BY <1>2, <1>3, <1>4, <1>5, <2>1, <2>2, <2>4, <2>5
       DEF IInv, ResetPending, SetupIsHeld, StallIsCurrent, AnswerIsCurrent
<1> QED
  BY <1>6, <1>7, <1>8 DEF IsrStep

-----------------------------------------------------------------------------
(* Steps of the host.                                                      *)

\* The host has moved no more than its request asks for.
LEMMA HostMovesTyped ==
    ASSUME IInv, host.stage = "data", HostMoves \/ UNCHANGED host
    PROVE  /\ host' \in [setup : SetupPackets, stage : {"data", "status", "ended", "stalled"},
                         moved : Nat]
           /\ host'.setup = host.setup /\ host'.stage \in {"data", "status"}
           /\ host'.moved \in 0 .. host'.setup.req.len
           /\ host'.stage = "data" => host'.moved < host'.setup.req.len
<1>1. /\ host \in [setup : SetupPackets, stage : {"data", "status", "ended", "stalled"},
                   moved : Nat]
      /\ host.moved \in 0 .. host.setup.req.len /\ host.moved < host.setup.req.len
      /\ host.setup \in SetupPackets
  BY DEF IInv, TypeOK, RecordsTyped, Progress
<1>2. host.setup.req.len \in Nat /\ host.moved \in Nat
  BY <1>1, SetupFields, RequestFields
<1>3. CASE HostMoves
  <2>1. host' = [host EXCEPT !.moved = host.moved + 1,
                             !.stage = IF host.moved + 1 = host.setup.req.len
                                       THEN "status" ELSE host.stage]
    BY <1>3 DEF HostMoves
  <2>2. /\ host'.setup = host.setup /\ host'.moved = host.moved + 1
        /\ host'.stage = IF host.moved + 1 = host.setup.req.len THEN "status" ELSE "data"
    BY <1>1, <2>1
  <2>3. host' \in [setup : SetupPackets, stage : {"data", "status", "ended", "stalled"},
                   moved : Nat]
    <3>1. host.moved + 1 \in Nat
      BY <1>2
    <3>2. (IF host.moved + 1 = host.setup.req.len THEN "status" ELSE host.stage)
            \in {"data", "status", "ended", "stalled"}
      BY <1>1
    <3> QED
      BY <1>1, <2>1, <3>1, <3>2
  <2> QED
    BY <1>1, <1>2, <2>2, <2>3
<1>4. CASE UNCHANGED host
  BY <1>1, <1>2, <1>4
<1> QED
  BY <1>3, <1>4

\* The host keeps the invariant: NAK and STALL stop its tokens, and its SETUP
\* comes when nothing is in its way.
LEMMA HostKeepsInv ==
    ASSUME NoOvertaking, IInv,
           \/ HostSetup \/ (\E acked \in BOOLEAN : HostIn(acked) \/ HostOut(acked))
           \/ HostStatusIn \/ HostStatusOut \/ HostStalled \/ HostReset
    PROVE  IInv'
<1>1. /\ TypeOK /\ RecordsTyped /\ Progress /\ ResetPending /\ SetupInBank /\ SetupIsHeld
      /\ RejectIsAlone /\ StallIsCurrent /\ AnswerIsCurrent
      /\ host \in [setup : SetupPackets, stage : {"data", "status", "ended", "stalled"},
                   moved : Nat]
      /\ host.setup \in SetupPackets /\ host.setup.no \in Numbers
  BY SetupFields DEF IInv, TypeOK, RecordsTyped
<1>2. CASE HostSetup
  <2>1. PICK request \in Requests :
          /\ host' = [setup |-> Setup(host.setup.no + 1, request), moved |-> 0,
                      stage |-> IF request.len > 0 THEN "data" ELSE "status"]
          /\ bank' = host'.setup
    BY <1>2 DEF HostSetup
  <2>2. /\ xfer = "none" /\ ~resetFlag /\ ~InTheWay /\ xfer' = "setup"
        /\ host.setup.no < MaxSetups
        /\ UNCHANGED <<hostAddr, resetFlag, irqDue, ctrl, txEmpty, devAddr, flagVars, taskVars>>
    BY <1>2 DEF HostSetup, SieFree, NoOvertaking
  <2>3. request \in AnyRequest /\ request.len \in Nat
    BY RequestFields DEF AnyRequest
  <2>4. host.setup.no + 1 \in Numbers
    BY <1>1, <2>2, RequestAssumption DEF Numbers
  <2>5. /\ host'.setup \in SetupPackets /\ host'.setup.req = request
        /\ bank' \in Packets /\ host'.moved = 0
        /\ host'.stage = IF request.len > 0 THEN "data" ELSE "status"
    BY <2>1, <2>3, <2>4, SetupMade, SetupFields
  <2>6. RecordsTyped'
    BY <2>1, <2>5 DEF RecordsTyped
  <2>7. TypeOK'
    <3>1. bank'.no \in Numbers /\ bank'.kind \in {"setup", "in", "out"}
      BY <2>5 DEF Packets
    <3>2. host'.moved \in 0 .. host'.setup.req.len
      BY <2>3, <2>5
    <3> QED
      BY <1>1, <2>2, <2>5, <3>1, <3>2
         DEF TypeOK, flagVars, taskVars, jobVars, wakeVars
  <2>8. Progress'
    BY <1>1, <2>2, <2>3, <2>5 DEF Progress, taskVars, jobVars
  <2>9. SetupInBank'
    BY <2>1, <2>2 DEF SetupInBank, InTheWay, taskVars
  <2>10. SetupIsHeld' /\ ResetPending'
    BY <2>1, <2>2 DEF SetupIsHeld, ResetPending
  <2>11. RejectIsAlone'
    BY <1>1, <2>2 DEF RejectIsAlone, InTheWay, Idle, taskVars, jobVars, flagVars
  <2>12. StallIsCurrent' /\ AnswerIsCurrent'
    BY <2>2 DEF StallIsCurrent, AnswerIsCurrent
  <2> QED
    BY <2>6, <2>7, <2>8, <2>9, <2>10, <2>11, <2>12 DEF IInv
<1>3. ASSUME NEW acked \in BOOLEAN, HostIn(acked)
      PROVE  IInv'
  <2>1. /\ xfer = "none" /\ xfer' \in {"in", "none"} /\ ~resetFlag /\ ctrl.t = "ACK"
        /\ host.stage = "data"
        /\ HostMoves \/ UNCHANGED host
        /\ UNCHANGED <<hostAddr, resetFlag, irqDue, regVars, flagVars, taskVars>>
    BY <1>3 DEF HostIn, SieFree
  <2>2. /\ host' \in [setup : SetupPackets, stage : {"data", "status", "ended", "stalled"},
                      moved : Nat]
        /\ host'.setup = host.setup /\ host'.stage \in {"data", "status"}
        /\ host'.moved \in 0 .. host'.setup.req.len
        /\ host'.stage = "data" => host'.moved < host'.setup.req.len
    BY <2>1, HostMovesTyped
  <2>3. TypeOK' /\ RecordsTyped'
    BY <1>1, <2>1, <2>2
       DEF TypeOK, RecordsTyped, regVars, flagVars, taskVars, jobVars, wakeVars
  <2>4. Progress' /\ ResetPending'
    BY <1>1, <2>1, <2>2 DEF Progress, ResetPending, taskVars, jobVars
  <2>5. SetupInBank' /\ SetupIsHeld' /\ RejectIsAlone'
    BY <1>1, <2>1, <2>2
       DEF SetupInBank, SetupIsHeld, RejectIsAlone, taskVars, jobVars, flagVars
  <2>6. StallIsCurrent' /\ AnswerIsCurrent'
    BY <1>1, <2>1, <2>2
       DEF StallIsCurrent, AnswerIsCurrent, taskVars, jobVars, flagVars, regVars
  <2> QED
    BY <2>3, <2>4, <2>5, <2>6 DEF IInv
<1>4. ASSUME NEW acked \in BOOLEAN, HostOut(acked)
      PROVE  IInv'
  <2>1. /\ xfer = "none" /\ xfer' \in {"out", "repeat"} /\ ~resetFlag
        /\ host.stage = "data"
        /\ HostMoves \/ UNCHANGED host
        /\ bank' = Data(host.setup.no, "out", host.moved)
        /\ UNCHANGED <<hostAddr, resetFlag, irqDue, ctrl, txEmpty, devAddr, flagVars, taskVars>>
    BY <1>4 DEF HostOut, SieFree
  <2>2. /\ host' \in [setup : SetupPackets, stage : {"data", "status", "ended", "stalled"},
                      moved : Nat]
        /\ host'.setup = host.setup /\ host'.stage \in {"data", "status"}
        /\ host'.moved \in 0 .. host'.setup.req.len
        /\ host'.stage = "data" => host'.moved < host'.setup.req.len
    BY <2>1, HostMovesTyped
  <2>3. bank' \in Packets /\ bank'.no \in Numbers /\ bank'.kind = "out"
    BY <1>1, <2>1 DEF Data, Packets, AnyRequest
  <2>4. TypeOK' /\ RecordsTyped'
    BY <1>1, <2>1, <2>2, <2>3
       DEF TypeOK, RecordsTyped, flagVars, taskVars, jobVars, wakeVars
  <2>5. Progress' /\ ResetPending'
    BY <1>1, <2>1, <2>2 DEF Progress, ResetPending, taskVars, jobVars
  <2>6. SetupInBank' /\ SetupIsHeld' /\ RejectIsAlone'
    BY <1>1, <2>1, <2>2
       DEF SetupInBank, SetupIsHeld, RejectIsAlone, taskVars, jobVars, flagVars
  <2>7. StallIsCurrent' /\ AnswerIsCurrent'
    BY <1>1, <2>1, <2>2
       DEF StallIsCurrent, AnswerIsCurrent, taskVars, jobVars, flagVars
  <2> QED
    BY <2>4, <2>5, <2>6, <2>7 DEF IInv
<1>5. CASE HostStatusIn
  <2>1. /\ xfer = "none" /\ xfer' = "in" /\ ~resetFlag /\ ctrl.t = "ACK"
        /\ host.stage = "status"
        /\ host' = host \/ host' = [host EXCEPT !.stage = "ended"]
        /\ hostAddr' \in {hostAddr, host.setup.no}
        /\ UNCHANGED <<resetFlag, irqDue, regVars, flagVars, taskVars>>
    BY <1>5 DEF HostStatusIn, SieFree, hostVars
  <2>2. /\ host' \in [setup : SetupPackets, stage : {"data", "status", "ended", "stalled"},
                      moved : Nat]
        /\ host'.setup = host.setup /\ host'.stage \in {"status", "ended"}
        /\ host'.moved = host.moved /\ hostAddr' \in Numbers
    BY <1>1, <2>1 DEF TypeOK
  <2>3. TypeOK' /\ RecordsTyped'
    BY <1>1, <2>1, <2>2
       DEF TypeOK, RecordsTyped, regVars, flagVars, taskVars, jobVars, wakeVars
  <2>4. Progress' /\ ResetPending'
    BY <1>1, <2>1, <2>2 DEF Progress, ResetPending, taskVars, jobVars
  <2>5. SetupInBank' /\ SetupIsHeld' /\ RejectIsAlone'
    BY <1>1, <2>1, <2>2
       DEF SetupInBank, SetupIsHeld, RejectIsAlone, taskVars, jobVars, flagVars
  <2>6. StallIsCurrent' /\ AnswerIsCurrent'
    BY <1>1, <2>1, <2>2
       DEF StallIsCurrent, AnswerIsCurrent, taskVars, jobVars, flagVars, regVars
  <2> QED
    BY <2>3, <2>4, <2>5, <2>6 DEF IInv
<1>6. CASE HostStatusOut \/ HostStalled \/ HostReset
  <2>1. /\ xfer' \in {xfer, "out", "repeat"}
        /\ host' = [host EXCEPT !.stage = "ended"] \/ host' = [host EXCEPT !.stage = "stalled"]
        /\ hostAddr' \in {hostAddr, 0}
        /\ resetFlag' \in BOOLEAN
        /\ resetFlag' => resetGen < MaxResets /\ host' = [host EXCEPT !.stage = "ended"]
        /\ UNCHANGED <<irqDue, regVars, flagVars, taskVars>>
    <3>1. resetFlag \in BOOLEAN /\ (resetFlag => resetGen < MaxResets)
      BY <1>1 DEF TypeOK, ResetPending
    <3>2. CASE HostStatusOut
      BY <3>1, <3>2 DEF HostStatusOut, SieFree
    <3>3. CASE HostStalled
      BY <3>1, <3>3 DEF HostStalled, SieFree, irqVars
    <3>4. CASE HostReset
      BY <3>1, <3>4 DEF HostReset
    <3> QED
      BY <1>6, <3>2, <3>3, <3>4
  <2>2. /\ host' \in [setup : SetupPackets, stage : {"data", "status", "ended", "stalled"},
                      moved : Nat]
        /\ host'.setup = host.setup /\ host'.stage \in {"ended", "stalled"}
        /\ host'.moved = host.moved
        /\ resetFlag' => host'.stage = "ended"
    BY <1>1, <2>1
  <2>3. hostAddr' \in Numbers
    BY <1>1, <2>1, RequestAssumption DEF TypeOK, Numbers
  <2>4. TypeOK' /\ RecordsTyped'
    <3>1. xfer' \in {"none", "setup", "in", "out", "repeat"}
      BY <1>1, <2>1 DEF TypeOK
    <3> QED
      BY <1>1, <2>1, <2>2, <2>3, <3>1
         DEF TypeOK, RecordsTyped, regVars, flagVars, taskVars, jobVars, wakeVars
  <2>5. Progress' /\ ResetPending'
    BY <1>1, <2>1, <2>2 DEF Progress, ResetPending, taskVars, jobVars, flagVars
  <2>6. SetupInBank' /\ SetupIsHeld' /\ RejectIsAlone'
    <3>1. xfer' = "setup" => xfer = "setup"
      BY <2>1
    <3>2. SetupInBank' /\ SetupIsHeld'
      BY <1>1, <2>1, <2>2, <3>1 DEF SetupInBank, SetupIsHeld, taskVars, regVars
    <3>3. RejectIsAlone'
      BY <1>1, <2>1, <3>1 DEF RejectIsAlone, taskVars, jobVars, flagVars
    <3> QED
      BY <3>2, <3>3
  <2>7. StallIsCurrent' /\ AnswerIsCurrent'
    BY <2>2 DEF StallIsCurrent, AnswerIsCurrent
  <2> QED
    BY <2>4, <2>5, <2>6, <2>7 DEF IInv
<1> QED
  BY <1>2, <1>3, <1>4, <1>5, <1>6

-----------------------------------------------------------------------------
\* Every step keeps the invariant.
LEMMA StepInv == NoOvertaking /\ IInv /\ [Next]_vars => IInv'
<1> SUFFICES ASSUME NoOvertaking, IInv, [Next]_vars PROVE IInv'
  OBVIOUS
<1>1. CASE TaskStep \/ Resume \/ Cancel
  BY <1>1, TaskTyped, TaskProgress, TaskKeepsSetup, TaskKeepsAnswers DEF IInv
<1>2. CASE IsrStep
  BY <1>2, IsrKeepsInv
<1>3. CASE UNCHANGED vars
  BY <1>3
     DEF vars, irqVars, regVars, flagVars, taskVars, jobVars, wakeVars, hostVars,
         IInv, TypeOK, RecordsTyped, Progress, ResetPending, SetupInBank, SetupIsHeld,
         RejectIsAlone, StallIsCurrent, AnswerIsCurrent
<1> QED
  BY <1>1, <1>2, <1>3, HostKeepsInv DEF Next

\* So it holds in every reachable state.
LEMMA InvariantHolds == ASSUME NoOvertaking PROVE Spec => []IInv
<1>1. Init => IInv
  BY InitInv
<1>2. IInv /\ [Next]_vars => IInv'
  BY StepInv
<1> QED
  BY <1>1, <1>2, PTL DEF Spec

\* The host's transfer ends or fails by steps of the host alone.
LEMMA OnlyHostMoves ==
    ASSUME IInv, Next, host'.stage \in {"ended", "stalled"}, host'.stage # host.stage
    PROVE  \/ HostStalled /\ host'.stage = "stalled"
           \/ (HostStatusIn \/ HostStatusOut \/ HostReset) /\ host'.stage = "ended"
<1>1. host \in [setup : SetupPackets, stage : {"data", "status", "ended", "stalled"}, moved : Nat]
  BY DEF IInv, RecordsTyped
<1>2. CASE TaskStep \/ Resume \/ Cancel
  BY <1>2, TaskFrame DEF IInv
<1>3. CASE IsrStep
  BY <1>3
     DEF IsrStep, IsrSetup, IsrOut, IsrOutRepeated, IsrIn, IsrReset, Retire, hostVars
<1>4. CASE HostSetup
  BY <1>4 DEF HostSetup
<1>5. ASSUME NEW acked \in BOOLEAN, HostIn(acked) \/ HostOut(acked)
      PROVE  FALSE
  <2>1. host.stage = "data" /\ (HostMoves \/ UNCHANGED host)
    BY <1>5 DEF HostIn, HostOut
  <2> QED
    BY <2>1, HostMovesTyped
<1>6. CASE HostStatusIn
  BY <1>1, <1>6 DEF HostStatusIn, hostVars
<1>7. CASE HostStatusOut \/ HostReset
  BY <1>1, <1>7 DEF HostStatusOut, HostReset
<1>8. CASE HostStalled
  BY <1>1, <1>8 DEF HostStalled
<1> QED
  BY <1>2, <1>3, <1>4, <1>5, <1>6, <1>7, <1>8 DEF Next

\* Every register and every step of a transfer has its type: in particular what
\* setup() parses is a SETUP packet and no transfer moves more than its length.
THEOREM TypeCorrect == ASSUME NoOvertaking PROVE Spec => []TypeOK
<1>1. IInv => TypeOK
  BY DEF IInv
<1> QED
  BY <1>1, InvariantHolds, PTL

\* The SETUP of the running transfer is in the bank, then in the shadow, then
\* with the task, whatever the transfer it has aborted goes on to do.
THEOREM SetupsAreHeld == ASSUME NoOvertaking PROVE Spec => []SetupIsHeld
<1>1. IInv => SetupIsHeld
  BY DEF IInv
<1> QED
  BY <1>1, InvariantHolds, PTL

\* reject() checks nothing, and still its STALL meets the request it is for: the
\* handler takes it back when a SETUP comes first.
THEOREM StallsAreOwn == ASSUME NoOvertaking PROVE Spec => StallIsOwn
<1>1. IInv /\ [Next]_vars =>
        [host'.stage = "stalled" /\ host.stage # "stalled" =>
           cur = host.setup /\ cur.req.verdict = "reject"]_vars
  <2> SUFFICES ASSUME IInv, Next, host'.stage = "stalled", host.stage # "stalled"
               PROVE  cur = host.setup /\ cur.req.verdict = "reject"
    OBVIOUS
  <2>1. HostStalled
    BY OnlyHostMoves
  <2>2. /\ host.stage \in {"data", "status"} /\ xfer = "none"
        /\ "STALL" \in {ctrl.r, ctrl.t}
    BY <2>1 DEF HostStalled, SieFree
  <2> QED
    BY <2>2 DEF IInv, StallIsCurrent
<1> QED
  BY <1>1, InvariantHolds, PTL DEF Spec, StallIsOwn

\* The host sees a control write end well only when the class code has had all
\* its data and accepted it: a status packet prepared for a transfer that was
\* aborted, cancelled or reset is withdrawn before the host can take it.
THEOREM StatusIsDone == ASSUME NoOvertaking PROVE Spec => StatusMeansDone
<1>1. IInv /\ [Next]_vars =>
        [host.stage = "status" /\ host.setup.req.dir = "out"
         /\ host'.stage = "ended" /\ xfer' = "in" =>
           /\ cur = host.setup /\ done = cur.req.len
           /\ cur.req.verdict # "reject" /\ txEmpty]_vars
  <2> SUFFICES ASSUME IInv, Next, host.stage = "status", host.setup.req.dir = "out",
                      host'.stage = "ended", xfer' = "in"
               PROVE  /\ cur = host.setup /\ done = cur.req.len
                      /\ cur.req.verdict # "reject" /\ txEmpty
    OBVIOUS
  <2>1. HostStatusIn \/ HostReset
    BY OnlyHostMoves DEF HostStatusOut
  <2>2. (ctrl.t = "ACK" /\ xfer # "setup") \/ xfer = "in"
    BY <2>1 DEF HostStatusIn, HostReset, SieFree
  <2> QED
    BY <2>2 DEF IInv, AnswerIsCurrent
<1> QED
  BY <1>1, InvariantHolds, PTL DEF Spec, StatusMeansDone

-----------------------------------------------------------------------------
(* Data stages.                                                            *)

\* The other thing asked of the host, see finding 2 of the README.
OneAtATime == BackToBack = FALSE

\* The task serves the host's transfer.
Serving == host.stage \in {"data", "status"} /\ xfer # "setup" /\ ~setupPending

\* Between the handler and setup() endpoint zero is quiet.
PendingIsQuiet ==
    setupPending =>
        /\ ctrl.r = "NAK" /\ ctrl.t = "NAK" /\ ~inComplete /\ ~outComplete
        /\ xfer \in {"none", "setup"}

\* The host waits for the SETUP that is pending to be served.
HostIsLive ==
    (xfer = "setup" \/ setupPending) /\ ~resetFlag => host.stage \in {"data", "status"}

StallIsIdle == "STALL" \in {ctrl.r, ctrl.t} => pc \in Idle

SnapIsCurrent == Serving => snapGen = resetGen

UnservedIsUnmoved ==
    host.stage \in {"data", "status"} /\ (xfer = "setup" \/ setupPending) => host.moved = 0

\* An IN packet is exposed, or its interrupt is latched.
Exposed == ctrl.t = "ACK" \/ xfer = "in"

\* A control read: what is exposed is the next packet, the host has taken it or
\* not, and the PID has moved on only when its interrupt has been served.
InStage ==
    Serving /\ cur.req.dir = "in" =>
        /\ Exposed =>
            /\ bank = Data(cur.no, "in", done) /\ ~txEmpty
            /\ ctrl.tTog = Pid(done) /\ ~inComplete
            /\ pc \in Waiting \cup {"drop"} \cup Idle
            /\ host.moved \in {done, done + 1}
            /\ xfer = "in" => host.moved = done + 1
        /\ pc = "prepIn" =>
            ~Exposed /\ ctrl.tTog = Pid(done) /\ host.moved = done
        /\ pc \in Waiting /\ inComplete =>
            ~Exposed /\ ctrl.tTog = Pid(done + 1) /\ host.moved = done + 1

\* The task is about to receive a packet of a control write.
Receiving ==
    pc \in Waiting \cup {"armOut", "copy"} /\ cur.req.dir = "out" /\ done < cur.req.len

Received == xfer = "out" \/ outComplete \/ pc = "copy"

\* A control write: the packet received is the next one, and the host, which may
\* not know, is at most one packet behind.
OutStage ==
    Serving /\ Receiving =>
        /\ xfer = "out" => ~outComplete /\ pc # "copy"
        /\ outComplete => pc # "copy"
        /\ ctrl.rTog = Pid(IF outComplete \/ pc = "copy" THEN done + 1 ELSE done)
        /\ host.moved \in IF Received THEN {done, done + 1} ELSE {done - 1, done}
        /\ Received => bank = Data(cur.no, "out", done)

\* Only a reset or a SETUP ends a write while its data are received.
ReceivingIsLive ==
    Receiving /\ StillCurrent /\ ~resetFlag /\ xfer # "setup" =>
        host.stage \in {"data", "status"}

CopyIsOurs ==
    pc = "copy" /\ StillCurrent =>
        bank = Data(cur.no, "out", done) /\ xfer \notin {"setup", "out"}

DataInv ==
    /\ PendingIsQuiet /\ HostIsLive /\ StallIsIdle /\ SnapIsCurrent /\ UnservedIsUnmoved
    /\ InStage /\ OutStage /\ ReceivingIsLive /\ CopyIsOurs

\* PIDs alternate, beginning with DATA1.
LEMMA PidAlternates ==
    ASSUME NEW n \in Nat
    PROVE  Pid(n) \in {0, 1} /\ Pid(n + 1) = 1 - Pid(n) /\ Pid(0) = 1
BY DEF Pid

\* Types of what the data stages are about.
LEMMA DataTyped ==
    ASSUME IInv
    PROVE  /\ ctrl \in [r : Responses, t : Responses, rTog : {0, 1}, tTog : {0, 1}]
           /\ cur \in SetupPackets /\ cur.req \in AnyRequest
           /\ cur.req.dir \in {"in", "out"} /\ cur.req.len \in Nat
           /\ done \in Nat /\ host.moved \in Nat /\ host.setup \in SetupPackets
           /\ shadow \in SetupPackets /\ shadow.req \in AnyRequest
           /\ snapGen \in Nat /\ resetGen \in Nat /\ snapGen <= resetGen
<1>1. /\ ctrl \in [r : Responses, t : Responses, rTog : {0, 1}, tTog : {0, 1}]
      /\ cur \in SetupPackets /\ host.setup \in SetupPackets /\ shadow \in SetupPackets
      /\ done \in 0 .. cur.req.len /\ host.moved \in 0 .. host.setup.req.len
      /\ snapGen \in 0 .. resetGen /\ resetGen \in 0 .. MaxResets
  BY DEF IInv, TypeOK
<1>2. /\ cur.req \in AnyRequest /\ host.setup.req \in AnyRequest /\ shadow.req \in AnyRequest
  BY <1>1, SetupFields
<1>3. /\ cur.req.dir \in {"in", "out"} /\ cur.req.len \in Nat /\ host.setup.req.len \in Nat
  BY <1>2, RequestFields
<1> QED
  BY <1>1, <1>2, <1>3, RequestAssumption

\* There is no data stage yet.
LEMMA InitData == Init => DataInv
<1> SUFFICES ASSUME Init PROVE DataInv
  OBVIOUS
<1>1. ~setupPending /\ ~Serving /\ xfer = "none" /\ pc = "setup" /\ host.stage = "ended"
  BY DEF Init, Serving
<1>2. StallIsIdle
  BY DEF Init, StallIsIdle, Control
<1>3. ~Receiving
  BY <1>1 DEF Receiving, Waiting
<1> QED
  BY <1>1, <1>2, <1>3
     DEF DataInv, PendingIsQuiet, HostIsLive, SnapIsCurrent, UnservedIsUnmoved, InStage,
         OutStage, ReceivingIsLive, CopyIsOurs

-----------------------------------------------------------------------------
(* Data stages: the task.                                                  *)

\* The task never sets a completion bit, and consumes one in wait_ep0.
LEMMA CompletionsKept ==
    ASSUME TypeOK, TaskStep \/ Resume \/ Cancel
    PROVE  /\ inComplete' => inComplete
           /\ outComplete' => outComplete
           /\ PrepareIn \/ PrepareStatus \/ WaitReady \/ inComplete' = inComplete
           /\ WaitReady \/ outComplete' = outComplete
<1>1. ASSUME NEW here, Outdated(here)
      PROVE  inComplete' = inComplete /\ outComplete' = outComplete
  BY <1>1 DEF Outdated, flagVars
<1>2. CASE SetupRegister \/ SetupTake \/ SetupPends \/ ArmOut \/ WaitRegister
           \/ WaitLife \/ WaitPends \/ Resume \/ Cancel
  BY <1>2
     DEF SetupRegister, SetupTake, SetupPends, ArmOut, WaitRegister, WaitLife, WaitPends,
         Resume, Cancel, flagVars
<1>3. CASE FinishIn \/ CopyOut \/ FinishStatus \/ Reject \/ DropGuard
  BY <1>3 DEF FinishIn, CopyOut, FinishStatus, Reject, DropGuard, flagVars
<1>4. CASE PrepareIn \/ PrepareStatus
  BY <1>4 DEF PrepareIn, PrepareStatus
<1>5. CASE WaitReady
  BY <1>5 DEF WaitReady
<1> QED
  BY <1>1, <1>2, <1>3, <1>4, <1>5 DEF TaskStep

\* The PIDs are set by setup() and at the end of a transfer, and once a SETUP is
\* pending only setup() and reject() write to the register.
LEMMA ControlKept ==
    ASSUME TypeOK, TaskStep \/ Resume \/ Cancel
    PROVE  /\ \/ SetupTake \/ FinishIn \/ FinishStatus \/ Reject
              \/ ctrl'.rTog = ctrl.rTog /\ ctrl'.tTog = ctrl.tTog
           /\ setupPending => SetupTake \/ Reject \/ ctrl' = ctrl
<1>1. ctrl \in [r : Responses, t : Responses, rTog : {0, 1}, tTog : {0, 1}]
  BY DEF TypeOK
<1>2. ASSUME NEW here, Outdated(here) PROVE ctrl' = ctrl
  BY <1>2 DEF Outdated, regVars
<1>3. CASE SetupRegister \/ SetupPends \/ WaitRegister \/ WaitLife \/ WaitPends
           \/ WaitReady \/ CopyOut \/ Resume \/ Cancel
  BY <1>3
     DEF SetupRegister, SetupPends, WaitRegister, WaitLife, WaitPends, WaitReady, CopyOut,
         Resume, Cancel, regVars
<1>4. CASE PrepareIn \/ PrepareStatus \/ ArmOut
  BY <1>1, <1>4 DEF PrepareIn, PrepareStatus, ArmOut, StillCurrent
<1>5. CASE FinishIn \/ FinishStatus
  BY <1>5 DEF FinishIn, FinishStatus, StillCurrent
<1>6. CASE DropGuard
  BY <1>1, <1>6 DEF DropGuard, StillCurrent
<1> QED
  BY <1>2, <1>3, <1>4, <1>5, <1>6 DEF TaskStep

\* Where the steps of a data stage come from and lead to.
LEMMA StageMoves ==
    ASSUME TaskStep \/ Resume \/ Cancel
    PROVE  /\ pc' = "copy" => WaitReady
           /\ pc' = "prepIn" => SetupTake \/ WaitReady \/ CopyOut
           /\ pc' = "armOut" => SetupTake \/ CopyOut
           /\ pc' \in Waiting =>
                \/ pc \in Waiting /\ ~WaitReady
                \/ PrepareIn \/ ArmOut \/ PrepareStatus
           /\ pc \in Waiting \cup {"drop"} \cup Idle =>
                SetupTake \/ WaitReady \/ pc' \in Waiting \cup {"drop"} \cup Idle
<1>1. ASSUME NEW here \in Pcs, Outdated(here) PROVE pc' = "drop"
  BY <1>1 DEF Outdated, Goto
<1>2. CASE SetupRegister \/ SetupTake \/ SetupPends \/ Resume \/ Cancel
  BY <1>2
     DEF SetupRegister, SetupTake, SetupPends, Resume, Cancel, WaitReady, Goto, NextCall,
         Idle, Waiting
<1>3. CASE PrepareIn \/ ArmOut \/ PrepareStatus
  BY <1>3 DEF PrepareIn, ArmOut, PrepareStatus, Goto, Idle, Waiting
<1>4. CASE WaitRegister \/ WaitLife
  BY <1>4 DEF WaitRegister, WaitLife, WaitReady, Goto, Idle, Waiting
<1>5. CASE WaitPends
  BY <1>5 DEF WaitPends, WaitReady, Goto, Idle, Waiting
<1>6. CASE WaitReady
  BY <1>6 DEF WaitReady, Goto, Idle, Waiting
<1>7. CASE FinishIn \/ CopyOut \/ FinishStatus \/ Reject \/ DropGuard
  BY <1>7
     DEF FinishIn, CopyOut, FinishStatus, Reject, DropGuard, Goto, NextCall, Idle, Waiting
<1> QED
  BY <1>1, <1>2, <1>3, <1>4, <1>5, <1>6, <1>7 DEF TaskStep, Pcs, Waiting, Idle

\* The conjuncts of DataInv that say who is served.
LEMMA TaskKeepsService ==
    ASSUME IInv, DataInv, TaskStep \/ Resume \/ Cancel
    PROVE  PendingIsQuiet' /\ HostIsLive' /\ StallIsIdle' /\ SnapIsCurrent' /\ UnservedIsUnmoved'
<1>1. /\ TypeOK /\ RejectIsAlone
      /\ PendingIsQuiet /\ HostIsLive /\ StallIsIdle /\ SnapIsCurrent /\ UnservedIsUnmoved
  BY DEF IInv, DataInv
<1>2. UNCHANGED <<xfer, resetFlag, host, hostAddr, resetGen, shadow>>
  BY <1>1, TaskFrame
<1>3. (SetupTake /\ ~setupPending') \/ (~SetupTake /\ setupPending' = setupPending)
  BY PendingKept DEF SetupTake
<1>4. PendingIsQuiet'
  <2> SUFFICES ASSUME setupPending' PROVE PendingIsQuiet'
    BY DEF PendingIsQuiet
  <2>1. setupPending /\ ~SetupTake
    BY <1>3
  <2>2. ~Reject
    BY <1>1, <2>1 DEF Reject, RejectIsAlone, Idle
  <2>3. ctrl' = ctrl
    BY <1>1, <2>1, <2>2, ControlKept
  <2>4. (inComplete' => inComplete) /\ (outComplete' => outComplete)
    BY <1>1, CompletionsKept
  <2> QED
    BY <1>1, <1>2, <2>1, <2>3, <2>4 DEF PendingIsQuiet
<1>5. HostIsLive' /\ UnservedIsUnmoved'
  BY <1>1, <1>2, <1>3 DEF HostIsLive, UnservedIsUnmoved
<1>6. StallIsIdle'
  <2>1. "STALL" \in {ctrl'.r, ctrl'.t} => Reject \/ (pc \in Idle /\ ~SetupTake)
    BY <1>1, AnswersKept DEF StallIsIdle
  <2>2. Reject => pc' \in Idle
    BY DEF Reject, Goto, Idle
  <2> QED
    BY <2>1, <2>2, TaskMoves DEF StallIsIdle
<1>7. SnapIsCurrent'
  <2>1. SetupTake => snapGen' = resetGen
    BY DEF SetupTake
  <2>2. SetupTake \/ snapGen' = snapGen
    BY JobKept DEF WaitReady, CopyOut
  <2> QED
    BY <1>1, <1>2, <1>3, <2>1, <2>2 DEF SnapIsCurrent, Serving
<1> QED
  BY <1>4, <1>5, <1>6, <1>7

\* A control read, while the task serves it.
LEMMA TaskKeepsIn ==
    ASSUME IInv, DataInv, TaskStep \/ Resume \/ Cancel
    PROVE  InStage'
<1>1. /\ TypeOK /\ Progress /\ PendingIsQuiet /\ UnservedIsUnmoved /\ InStage
      /\ SetupIsHeld /\ RejectIsAlone
  BY DEF IInv, DataInv
<1>2. UNCHANGED <<xfer, resetFlag, host, hostAddr, resetGen, shadow>>
  BY <1>1, TaskFrame
<1>3. /\ ctrl \in [r : Responses, t : Responses, rTog : {0, 1}, tTog : {0, 1}]
      /\ cur.req \in AnyRequest /\ done \in Nat /\ shadow.req \in AnyRequest
  BY DataTyped
<1> SUFFICES ASSUME Serving', cur'.req.dir = "in" PROVE InStage'
  BY DEF InStage
<1>4. CASE SetupTake
  <2>1. /\ cur' = shadow /\ done' = 0 /\ pc' = NextCall(shadow.req, 0)
        /\ setupPending /\ ctrl' = Control("NAK", "NAK", 1, 1)
    BY <1>1, <1>4, TakesShadow DEF SetupTake
  <2>2. xfer = "none" /\ host.moved = 0
    BY <1>1, <1>2, <2>1 DEF PendingIsQuiet, UnservedIsUnmoved, Serving
  <2>3. ~Exposed' /\ ctrl'.tTog = Pid(0)
    BY <1>2, <2>1, <2>2, PidAlternates DEF Exposed, Control
  <2>4. pc' \notin Waiting
    BY <2>1 DEF NextCall, Waiting
  <2> QED
    BY <1>2, <2>1, <2>2, <2>3, <2>4 DEF InStage
<1>5. CASE ~SetupTake
  <2>1. setupPending' = setupPending /\ cur' = cur
    BY <1>5, PendingKept, JobKept DEF WaitReady, CopyOut
  <2>2. Serving /\ cur.req.dir = "in"
    BY <1>2, <2>1 DEF Serving
  <2>3. /\ Exposed =>
            /\ bank = Data(cur.no, "in", done) /\ ~txEmpty
            /\ ctrl.tTog = Pid(done) /\ ~inComplete
            /\ pc \in Waiting \cup {"drop"} \cup Idle
            /\ host.moved \in {done, done + 1}
            /\ xfer = "in" => host.moved = done + 1
        /\ pc = "prepIn" => ~Exposed /\ ctrl.tTog = Pid(done) /\ host.moved = done
        /\ pc \in Waiting /\ inComplete =>
            ~Exposed /\ ctrl.tTog = Pid(done + 1) /\ host.moved = done + 1
    BY <1>1, <2>2 DEF InStage
  <2>4. ~CopyOut /\ ~ArmOut /\ ~PrepareStatus
    BY <1>1, <2>2 DEF CopyOut, ArmOut, PrepareStatus, Progress
  <2>5. CASE PrepareIn
    <3>1. /\ pc = "prepIn" /\ pc' = "poll" /\ inComplete' = FALSE /\ txEmpty' = FALSE
          /\ bank' = Data(cur.no, "in", done) /\ done' = done
          /\ ctrl'.tTog = ctrl.tTog
      BY <1>3, <2>5 DEF PrepareIn, Goto, jobVars
    <3>2. xfer # "in" /\ host.moved = done /\ ctrl.tTog = Pid(done)
      BY <2>3, <3>1 DEF Exposed
    <3> QED
      BY <1>2, <2>1, <3>1, <3>2 DEF InStage, Waiting
  <2>6. CASE WaitReady
    <3>1. /\ pc = "done" /\ inComplete /\ inComplete' = FALSE /\ done' = done + 1
          /\ ctrl' = ctrl /\ bank' = bank /\ txEmpty' = txEmpty
          /\ pc' \in {"prepIn", "finIn"}
      BY <2>2, <2>6 DEF WaitReady, WaitsIn, Completed, Goto, regVars
    <3>2. ~Exposed /\ ctrl.tTog = Pid(done + 1) /\ host.moved = done + 1
      BY <2>3, <3>1 DEF Waiting
    <3>3. ~Exposed'
      BY <1>2, <3>1, <3>2 DEF Exposed
    <3> QED
      BY <1>2, <3>1, <3>2, <3>3 DEF InStage, Waiting
  <2>7. CASE FinishIn \/ FinishStatus \/ Reject
    <3>1. /\ pc \in {"finIn", "finStatus", "reject"} /\ pc' = "setup"
          /\ ctrl'.t \in {"NAK", "STALL"}
      BY <2>7 DEF FinishIn, FinishStatus, Reject, Goto, Control
    <3>2. ~Exposed
      BY <2>3, <3>1 DEF Waiting, Idle
    <3>3. ~Exposed'
      BY <1>2, <3>1, <3>2 DEF Exposed
    <3> QED
      BY <3>1, <3>3 DEF InStage, Waiting
  <2>8. CASE ~(PrepareIn \/ WaitReady \/ FinishIn \/ FinishStatus \/ Reject)
    <3>1. ctrl'.tTog = ctrl.tTog /\ (ctrl'.t = "ACK" => ctrl.t = "ACK")
      BY <1>1, <1>5, <2>4, <2>8, ControlKept, AnswersKept
    <3>2. done' = done /\ bank' = bank /\ txEmpty' = txEmpty /\ inComplete' = inComplete
      BY <1>1, <1>5, <2>4, <2>8, JobKept, BankKept, PendingKept, CompletionsKept
    <3>3. /\ pc' # "prepIn"
          /\ pc' \in Waiting => pc \in Waiting
          /\ pc \in Waiting \cup {"drop"} \cup Idle => pc' \in Waiting \cup {"drop"} \cup Idle
      BY <1>5, <2>4, <2>8, StageMoves
    <3>4. Exposed' => Exposed
      BY <1>2, <3>1 DEF Exposed
    <3> QED
      BY <1>2, <2>1, <2>3, <3>1, <3>2, <3>3, <3>4 DEF InStage
  <2> QED
    BY <2>5, <2>6, <2>7, <2>8
<1> QED
  BY <1>4, <1>5

\* A control write, while the task receives its data.
LEMMA TaskKeepsOut ==
    ASSUME IInv, DataInv, TaskStep \/ Resume \/ Cancel
    PROVE  OutStage' /\ ReceivingIsLive' /\ CopyIsOurs'
<1>1. /\ TypeOK /\ Progress /\ PendingIsQuiet /\ UnservedIsUnmoved /\ HostIsLive
      /\ OutStage /\ ReceivingIsLive /\ CopyIsOurs
  BY DEF IInv, DataInv
<1>2. UNCHANGED <<xfer, resetFlag, host, hostAddr, resetGen, shadow>>
  BY <1>1, TaskFrame
<1>3. /\ ctrl \in [r : Responses, t : Responses, rTog : {0, 1}, tTog : {0, 1}]
      /\ cur.req \in AnyRequest /\ done \in Nat /\ shadow.req \in AnyRequest
      /\ cur.req.len \in Nat /\ host.moved \in Nat
  BY DataTyped
<1>4. SetupTake \/ (setupPending' = setupPending /\ cur' = cur /\ snapGen' = snapGen)
  BY PendingKept, JobKept DEF WaitReady, CopyOut
<1>5. Receiving' => SetupTake \/ Receiving
  <2> SUFFICES ASSUME Receiving', ~SetupTake PROVE Receiving
    OBVIOUS
  <2>1. cur.req.dir = "out" /\ done' < cur.req.len /\ pc' \in Waiting \cup {"armOut", "copy"}
    BY <1>4 DEF Receiving
  <2>2. CASE WaitReady
    BY <1>3, <2>1, <2>2 DEF Receiving, WaitReady, Waiting
  <2>3. CASE CopyOut
    BY <1>1, <2>3 DEF Progress, CopyOut, Receiving
  <2>4. CASE ~WaitReady /\ ~CopyOut
    <3>1. done' = done
      BY <2>4, JobKept
    <3>2. ~PrepareIn /\ ~PrepareStatus
      BY <1>1, <1>3, <2>1, <3>1 DEF PrepareIn, PrepareStatus, Progress
    <3>3. pc \in Waiting \/ ArmOut
      BY <2>1, <2>4, <3>2, StageMoves
    <3> QED
      BY <2>1, <3>1, <3>3 DEF Receiving, ArmOut
  <2> QED
    BY <2>2, <2>3, <2>4
<1>6. ReceivingIsLive'
  <2>1. CASE SetupTake
    BY <1>1, <1>2, <2>1 DEF ReceivingIsLive, HostIsLive, SetupTake
  <2>2. CASE ~SetupTake
    BY <1>1, <1>2, <1>4, <1>5, <2>2 DEF ReceivingIsLive, StillCurrent
  <2> QED
    BY <2>1, <2>2
<1>7. OutStage'
  <2> SUFFICES ASSUME Serving', Receiving' PROVE OutStage'
    BY DEF OutStage
  <2>1. CASE SetupTake
    <3>1. /\ cur' = shadow /\ done' = 0 /\ pc' = NextCall(shadow.req, 0)
          /\ setupPending /\ ctrl' = Control("NAK", "NAK", 1, 1) /\ outComplete' = outComplete
      BY <1>1, <2>1, TakesShadow DEF SetupTake
    <3>2. xfer = "none" /\ host.moved = 0 /\ ~outComplete
      BY <1>1, <1>2, <3>1 DEF PendingIsQuiet, UnservedIsUnmoved, Serving
    <3>3. pc' = "armOut"
      BY <3>1 DEF NextCall, Receiving, Waiting
    <3>4. ctrl'.rTog = Pid(0)
      BY <3>1, PidAlternates DEF Control
    <3> QED
      BY <1>2, <3>1, <3>2, <3>3, <3>4 DEF OutStage, Received
  <2>2. CASE ~SetupTake
    <3>1. Serving /\ Receiving /\ cur' = cur
      BY <1>2, <1>4, <1>5, <2>2 DEF Serving
    <3>2. /\ xfer = "out" => ~outComplete /\ pc # "copy"
          /\ outComplete => pc # "copy"
          /\ ctrl.rTog = Pid(IF outComplete \/ pc = "copy" THEN done + 1 ELSE done)
          /\ host.moved \in IF Received THEN {done, done + 1} ELSE {done - 1, done}
          /\ Received => bank = Data(cur.no, "out", done)
      BY <1>1, <3>1 DEF OutStage
    <3>3. /\ ~PrepareIn /\ ~PrepareStatus /\ ~FinishIn /\ ~FinishStatus /\ ~Reject
      BY <1>1, <1>3, <3>1
         DEF PrepareIn, PrepareStatus, FinishIn, FinishStatus, Reject, Receiving, Waiting,
             Progress
    <3>4. bank' = bank /\ ctrl'.rTog = ctrl.rTog
      BY <1>1, <2>2, <3>3, BankKept, ControlKept
    <3>5. CASE WaitReady
      <4>1. /\ pc = "done" /\ outComplete /\ ~WaitsIn /\ pc' = "copy" /\ done' = done
            /\ outComplete' = FALSE /\ xfer = "none"
        <5>1. cur.req.dir = "out" /\ done < cur.req.len
          BY <3>1 DEF Receiving
        <5>2. ~WaitsIn
          BY <1>3, <5>1 DEF WaitsIn
        <5>3. pc = "done" /\ outComplete /\ outComplete' = FALSE
          BY <3>5, <5>2 DEF WaitReady, Completed
        <5>4. pc' = "copy" /\ done' = done
          BY <3>5, <5>1 DEF WaitReady, Goto
        <5>5. xfer = "none"
          BY <3>5 DEF WaitReady, Unmasked, IrqPending
        <5> QED
          BY <5>2, <5>3, <5>4, <5>5
      <4>2. Received /\ Received'
        BY <4>1 DEF Received
      <4> QED
        BY <1>2, <3>1, <3>2, <3>4, <4>1, <4>2 DEF OutStage
    <3>6. CASE CopyOut
      <4>1. /\ pc = "copy" /\ done' = done + 1 /\ pc' = NextCall(cur.req, done + 1)
            /\ outComplete' = outComplete
        BY <3>6 DEF CopyOut, Goto, flagVars
      <4>2. pc' = "armOut"
        BY <4>1 DEF NextCall, Receiving, Waiting
      <4>3. ~outComplete /\ xfer # "out" /\ Received
        BY <3>2, <4>1 DEF Received
      <4>4. ~Received'
        BY <1>2, <4>1, <4>2, <4>3 DEF Received
      <4>5. host.moved \in {done' - 1, done'}
        BY <1>3, <3>2, <4>1, <4>3
      <4>6. ctrl'.rTog = Pid(done')
        BY <3>2, <3>4, <4>1
      <4> QED
        BY <1>2, <4>1, <4>2, <4>3, <4>4, <4>5, <4>6 DEF OutStage
    <3>7. CASE ~WaitReady /\ ~CopyOut
      <4>1. done' = done /\ outComplete' = outComplete
        BY <1>1, <2>2, <3>7, JobKept, CompletionsKept
      <4>2. pc' # "copy" /\ pc # "copy"
        <5>1. pc' # "copy" /\ pc' # "armOut"
          BY <2>2, <3>7, StageMoves
        <5>2. pc' \in Waiting
          BY <5>1 DEF Receiving
        <5>3. pc \in Waiting \/ ArmOut
          BY <3>3, <5>2, StageMoves
        <5> QED
          BY <5>1, <5>3 DEF Waiting, ArmOut
      <4>3. Received' <=> Received
        BY <1>2, <4>1, <4>2 DEF Received
      <4> QED
        BY <1>2, <3>1, <3>2, <3>4, <4>1, <4>2, <4>3 DEF OutStage
    <3> QED
      BY <3>5, <3>6, <3>7
  <2> QED
    BY <2>1, <2>2
<1>8. CopyIsOurs'
  <2> SUFFICES ASSUME pc' = "copy", StillCurrent'
               PROVE  bank' = Data(cur'.no, "out", done') /\ xfer \notin {"setup", "out"}
    BY <1>2 DEF CopyIsOurs
  <2>1. WaitReady
    BY StageMoves
  <2>2. /\ pc = "done" /\ bank' = bank /\ cur' = cur /\ snapGen' = snapGen
        /\ setupPending' = setupPending /\ xfer = "none" /\ ~resetFlag
    BY <2>1 DEF WaitReady, regVars, Unmasked, IrqPending
  <2>3. cur.req.dir # "in" /\ done < cur.req.len
    BY <2>1 DEF WaitReady, Goto
  <2>4. cur.req.dir = "out" /\ done' = done
    BY <2>1, <2>3, DataTyped DEF WaitReady
  <2>5. outComplete
    BY <1>3, <2>1, <2>3 DEF WaitReady, Completed, WaitsIn
  <2>6. Receiving
    BY <2>2, <2>3, <2>4 DEF Receiving, Waiting
  <2>7. StillCurrent
    BY <1>2, <2>2 DEF StillCurrent
  <2>8. Serving
    BY <1>1, <2>2, <2>6, <2>7 DEF ReceivingIsLive, Serving, StillCurrent
  <2>9. bank = Data(cur.no, "out", done)
    BY <1>1, <2>5, <2>6, <2>8 DEF OutStage, Received
  <2> QED
    BY <2>2, <2>4, <2>9
<1> QED
  BY <1>6, <1>7, <1>8

-----------------------------------------------------------------------------
(* Data stages: the handler and the host.                                  *)

\* The handler tells what was latched, of the packet that is in the bank.
LEMMA IsrKeepsData == ASSUME IInv, DataInv, IsrStep PROVE DataInv'
<1>1. /\ TypeOK /\ Progress /\ ResetPending /\ SetupInBank /\ AnswerIsCurrent
      /\ PendingIsQuiet /\ HostIsLive /\ StallIsIdle /\ SnapIsCurrent /\ UnservedIsUnmoved
      /\ InStage /\ OutStage /\ ReceivingIsLive /\ CopyIsOurs
  BY DEF IInv, DataInv
<1>2. /\ ctrl \in [r : Responses, t : Responses, rTog : {0, 1}, tTog : {0, 1}]
      /\ done \in Nat /\ snapGen \in Nat /\ resetGen \in Nat /\ snapGen <= resetGen
  BY DataTyped
<1>3. UNCHANGED <<host, hostAddr, pc, cur, done, snapGen, bank, txEmpty>> /\ xfer' = "none"
  BY <1>1
     DEF IsrStep, IsrSetup, IsrOut, IsrOutRepeated, IsrIn, IsrReset, Retire,
         hostVars, jobVars, regVars
<1>4. CASE IsrSetup
  <2>1. /\ xfer = "setup" /\ resetFlag' = resetFlag /\ setupPending' = TRUE
        /\ inComplete' = FALSE /\ outComplete' = FALSE
        /\ ctrl' = Control("NAK", "NAK", 1, 1)
    BY <1>4 DEF IsrSetup, Retire
  <2>2. ctrl'.r = "NAK" /\ ctrl'.t = "NAK"
    BY <2>1 DEF Control
  <2>3. ~Serving' /\ ~StillCurrent'
    BY <2>1 DEF Serving, StillCurrent
  <2>4. HostIsLive' /\ UnservedIsUnmoved'
    BY <1>1, <1>3, <2>1 DEF HostIsLive, UnservedIsUnmoved
  <2> QED
    BY <1>3, <2>1, <2>2, <2>3, <2>4
       DEF DataInv, PendingIsQuiet, StallIsIdle, SnapIsCurrent, InStage, OutStage,
           ReceivingIsLive, CopyIsOurs
<1>5. CASE IsrReset
  <2>1. /\ resetFlag /\ setupPending' = FALSE /\ resetGen' = resetGen + 1
        /\ ctrl' = Control("ACK", "NAK", 0, 0)
    BY <1>5 DEF IsrReset
  <2>2. ctrl'.r = "ACK" /\ ctrl'.t = "NAK"
    BY <2>1 DEF Control
  <2>3. ~Serving' /\ ~StillCurrent'
    BY <1>1, <1>2, <1>3, <2>1 DEF Serving, StillCurrent, ResetPending
  <2> QED
    BY <1>3, <2>1, <2>2, <2>3
       DEF DataInv, PendingIsQuiet, HostIsLive, StallIsIdle, SnapIsCurrent,
           UnservedIsUnmoved, InStage, OutStage, ReceivingIsLive, CopyIsOurs
<1>6. CASE IsrOut \/ IsrOutRepeated \/ IsrIn
  <2>1. /\ xfer \in {"out", "repeat", "in"} /\ ~setupPending
        /\ UNCHANGED <<resetFlag, resetGen, setupPending>>
    BY <1>1, <1>6
       DEF IsrOut, IsrOutRepeated, IsrIn, Retire, flagVars, PendingIsQuiet
  <2>2. /\ IsrOut => xfer = "out" /\ ctrl' = [ctrl EXCEPT !.rTog = 1 - ctrl.rTog]
                     /\ outComplete' = TRUE /\ inComplete' = inComplete
        /\ IsrIn => xfer = "in" /\ ctrl' = [ctrl EXCEPT !.tTog = 1 - ctrl.tTog, !.t = "NAK"]
                    /\ inComplete' = TRUE /\ outComplete' = outComplete
        /\ IsrOutRepeated => xfer = "repeat" /\ ctrl' = ctrl
                    /\ UNCHANGED <<inComplete, outComplete>>
    BY DEF IsrOut, IsrIn, IsrOutRepeated, Retire, regVars, flagVars
  <2>3. /\ IsrOut => ctrl'.rTog = 1 - ctrl.rTog /\ ctrl'.tTog = ctrl.tTog
                     /\ ctrl'.r = ctrl.r /\ ctrl'.t = ctrl.t
        /\ IsrIn => ctrl'.tTog = 1 - ctrl.tTog /\ ctrl'.rTog = ctrl.rTog
                    /\ ctrl'.r = ctrl.r /\ ctrl'.t = "NAK"
    BY <1>2, <2>2
  <2>4. Serving' => Serving
    BY <1>3, <2>1 DEF Serving
  <2>5. PendingIsQuiet' /\ HostIsLive' /\ UnservedIsUnmoved' /\ SnapIsCurrent'
    BY <1>1, <1>3, <2>1, <2>4
       DEF PendingIsQuiet, HostIsLive, UnservedIsUnmoved, SnapIsCurrent
  <2>6. StallIsIdle'
    BY <1>1, <1>3, <1>6, <2>2, <2>3 DEF StallIsIdle
  <2>7. ReceivingIsLive'
    BY <1>1, <1>3, <2>1 DEF ReceivingIsLive, Receiving, StillCurrent
  <2>8. CopyIsOurs'
    BY <1>1, <1>3, <2>1 DEF CopyIsOurs, StillCurrent
  <2>9. InStage'
    <3> SUFFICES ASSUME Serving', cur.req.dir = "in" PROVE InStage'
      BY <1>3 DEF InStage
    <3>1. /\ Exposed =>
              /\ bank = Data(cur.no, "in", done) /\ ~txEmpty
              /\ ctrl.tTog = Pid(done) /\ ~inComplete
              /\ pc \in Waiting \cup {"drop"} \cup Idle
              /\ host.moved \in {done, done + 1}
              /\ xfer = "in" => host.moved = done + 1
          /\ pc = "prepIn" => ~Exposed /\ ctrl.tTog = Pid(done) /\ host.moved = done
          /\ pc \in Waiting /\ inComplete =>
              ~Exposed /\ ctrl.tTog = Pid(done + 1) /\ host.moved = done + 1
      BY <1>1, <2>4 DEF InStage
    <3>2. CASE IsrIn
      <4>1. Exposed /\ ~Exposed'
        BY <1>3, <2>2, <2>3, <3>2 DEF Exposed
      <4>2. ctrl'.tTog = Pid(done + 1)
        BY <1>2, <2>3, <3>1, <3>2, <4>1, PidAlternates
      <4>3. pc # "prepIn"
        BY <3>1, <4>1
      <4> QED
        BY <1>3, <2>2, <3>1, <3>2, <4>1, <4>2, <4>3 DEF InStage
    <3>3. CASE IsrOut \/ IsrOutRepeated
      <4>1. Exposed' => Exposed
        BY <1>3, <2>2, <2>3, <3>3 DEF Exposed
      <4>2. ctrl'.tTog = ctrl.tTog /\ inComplete' = inComplete
        BY <2>2, <2>3, <3>3
      <4> QED
        BY <1>3, <3>1, <4>1, <4>2 DEF InStage
    <3> QED
      BY <1>6, <3>2, <3>3
  <2>10. OutStage'
    <3> SUFFICES ASSUME Serving', Receiving PROVE OutStage'
      BY <1>3 DEF OutStage, Receiving
    <3>1. /\ xfer = "out" => ~outComplete /\ pc # "copy"
          /\ outComplete => pc # "copy"
          /\ ctrl.rTog = Pid(IF outComplete \/ pc = "copy" THEN done + 1 ELSE done)
          /\ host.moved \in IF Received THEN {done, done + 1} ELSE {done - 1, done}
          /\ Received => bank = Data(cur.no, "out", done)
      BY <1>1, <2>4 DEF OutStage
    <3>2. CASE IsrOut
      <4>1. Received /\ Received'
        BY <2>2, <3>2 DEF Received
      <4>2. ctrl'.rTog = Pid(done + 1)
        BY <1>2, <2>2, <2>3, <3>1, <3>2, PidAlternates
      <4> QED
        BY <1>3, <2>2, <3>1, <3>2, <4>1, <4>2 DEF OutStage
    <3>3. CASE IsrOutRepeated \/ IsrIn
      <4>1. ctrl'.rTog = ctrl.rTog /\ outComplete' = outComplete /\ xfer # "out"
        BY <2>2, <2>3, <3>3
      <4>2. Received' <=> Received
        BY <1>3, <4>1 DEF Received
      <4> QED
        BY <1>3, <3>1, <4>1, <4>2 DEF OutStage
    <3> QED
      BY <1>6, <3>2, <3>3
  <2> QED
    BY <2>5, <2>6, <2>7, <2>8, <2>9, <2>10 DEF DataInv
<1> QED
  BY <1>4, <1>5, <1>6 DEF IsrStep

\* The host sends and takes a packet once, and repeats what it does not know to
\* have arrived.
LEMMA HostKeepsData ==
    ASSUME NoOvertaking, OneAtATime, IInv, DataInv,
           \/ HostSetup \/ (\E acked \in BOOLEAN : HostIn(acked) \/ HostOut(acked))
           \/ HostStatusIn \/ HostStatusOut \/ HostStalled \/ HostReset
    PROVE  DataInv'
<1>1. /\ TypeOK /\ Progress /\ SetupIsHeld /\ AnswerIsCurrent /\ StallIsCurrent
      /\ PendingIsQuiet /\ HostIsLive /\ StallIsIdle /\ SnapIsCurrent /\ UnservedIsUnmoved
      /\ InStage /\ OutStage /\ ReceivingIsLive /\ CopyIsOurs
      /\ host \in [setup : SetupPackets, stage : {"data", "status", "ended", "stalled"},
                   moved : Nat]
  BY DEF IInv, DataInv, RecordsTyped
<1>2. /\ done \in Nat /\ host.moved \in Nat /\ cur.req.len \in Nat
      /\ ctrl \in [r : Responses, t : Responses, rTog : {0, 1}, tTog : {0, 1}]
  BY DataTyped
<1>3. UNCHANGED <<pc, cur, done, snapGen, resetGen, setupPending, inComplete, outComplete,
                  ctrl, txEmpty>>
  BY DEF HostSetup, HostIn, HostOut, HostStatusIn, HostStatusOut, HostStalled, HostReset,
         taskVars, jobVars, flagVars, regVars
<1>4. PendingIsQuiet' /\ StallIsIdle'
  <2>1. setupPending => xfer' \in {"none", "setup"}
    <3> SUFFICES ASSUME setupPending PROVE xfer' \in {"none", "setup"}
      OBVIOUS
    <3>1. ctrl.r = "NAK" /\ ctrl.t = "NAK" /\ xfer \in {"none", "setup"}
      BY <1>1 DEF PendingIsQuiet
    <3> QED
      BY <3>1
         DEF HostSetup, HostIn, HostOut, HostStatusIn, HostStatusOut, HostStalled, HostReset,
             irqVars
  <2> QED
    BY <1>1, <1>3, <2>1 DEF PendingIsQuiet, StallIsIdle
<1>5. CASE HostSetup
  <2>1. PICK request \in Requests :
          host' = [setup |-> Setup(host.setup.no + 1, request), moved |-> 0,
                   stage |-> IF request.len > 0 THEN "data" ELSE "status"]
    BY <1>5 DEF HostSetup
  <2>2. host'.moved = 0 /\ host'.stage \in {"data", "status"}
    BY <2>1
  <2>3. xfer' = "setup" /\ pc # "copy"
    BY <1>5 DEF HostSetup, NoOvertaking, InTheWay
  <2>4. ~Serving'
    BY <2>3 DEF Serving
  <2> QED
    BY <1>3, <1>4, <2>2, <2>3, <2>4
       DEF DataInv, HostIsLive, SnapIsCurrent, UnservedIsUnmoved, InStage, OutStage,
           ReceivingIsLive, CopyIsOurs
<1>6. ASSUME NEW acked \in BOOLEAN, HostIn(acked) PROVE DataInv'
  <2>1. /\ xfer = "none" /\ xfer' \in {"in", "none"} /\ ~resetFlag /\ ctrl.t = "ACK"
        /\ host.stage = "data" /\ host.setup.req.dir = "in"
        /\ IF ctrl.tTog = Pid(host.moved) THEN HostMoves ELSE UNCHANGED host
        /\ xfer' = IF acked THEN "in" ELSE xfer
        /\ bank' = bank /\ resetFlag' = resetFlag
    BY <1>6 DEF HostIn, SieFree, regVars
  <2>2. Serving /\ cur = host.setup
    BY <1>1, <2>1 DEF AnswerIsCurrent, Serving
  <2>3. /\ bank = Data(cur.no, "in", done) /\ ~txEmpty
        /\ ctrl.tTog = Pid(done) /\ ~inComplete
        /\ pc \in Waiting \cup {"drop"} \cup Idle
        /\ host.moved \in {done, done + 1}
    BY <1>1, <2>1, <2>2 DEF InStage, Exposed
  <2>4. host'.stage \in {"data", "status"} /\ host'.moved = done + 1
    <3>1. CASE host.moved = done
      <4>1. HostMoves
        BY <2>1, <2>3, <3>1
      <4> QED
        BY <1>1, <3>1, <4>1, <2>1 DEF HostMoves
    <3>2. CASE host.moved = done + 1
      <4>1. Pid(done + 1) # Pid(done)
        BY <1>2, PidAlternates
      <4> QED
        BY <2>1, <2>3, <3>2, <4>1
    <3> QED
      BY <2>3, <3>1, <3>2
  <2>5. InStage'
    <3>1. pc # "prepIn"
      BY <2>3 DEF Waiting, Idle
    <3> QED
      BY <1>3, <2>1, <2>3, <2>4, <3>1 DEF InStage
  <2>6. OutStage' /\ ReceivingIsLive' /\ CopyIsOurs'
    <3>1. ~Receiving /\ pc # "copy"
      BY <1>1, <2>1, <2>2 DEF Receiving, Progress
    <3> QED
      BY <1>3, <3>1 DEF OutStage, ReceivingIsLive, CopyIsOurs, Receiving
  <2>7. HostIsLive' /\ SnapIsCurrent' /\ UnservedIsUnmoved'
    BY <1>1, <1>3, <2>1, <2>2, <2>4
       DEF HostIsLive, SnapIsCurrent, UnservedIsUnmoved, Serving
  <2> QED
    BY <1>4, <2>5, <2>6, <2>7 DEF DataInv
<1>7. ASSUME NEW acked \in BOOLEAN, HostOut(acked) PROVE DataInv'
  <2> DEFINE good == ctrl.rTog = Pid(host.moved)
  <2>1. /\ xfer = "none" /\ ~resetFlag /\ ctrl.r = "ACK"
        /\ host.stage = "data" /\ host.setup.req.dir = "out"
        /\ ~(good /\ (outComplete \/ pc = "copy"))
        /\ bank' = Data(host.setup.no, "out", host.moved)
        /\ xfer' = IF good THEN "out" ELSE "repeat"
        /\ IF acked THEN HostMoves ELSE UNCHANGED host
        /\ resetFlag' = resetFlag
    BY <1>7 DEF HostOut, SieFree, OneAtATime
  <2>2. Serving /\ cur = host.setup
    <3>1. ~setupPending
      BY <1>1, <2>1 DEF PendingIsQuiet
    <3> QED
      BY <1>1, <2>1, <3>1 DEF SetupIsHeld, Serving
  <2>3. /\ host'.stage \in {"data", "status"}
        /\ host'.moved \in {host.moved, host.moved + 1}
    BY <1>1, <2>1 DEF HostMoves
  <2>4. InStage'
    BY <1>3, <2>1, <2>2 DEF InStage
  <2>5. ReceivingIsLive'
    BY <2>3 DEF ReceivingIsLive
  <2>6. HostIsLive' /\ SnapIsCurrent' /\ UnservedIsUnmoved'
    <3>1. ~setupPending' /\ xfer' # "setup"
      BY <1>3, <2>1, <2>2 DEF Serving
    <3> QED
      BY <1>1, <1>3, <2>1, <2>2, <3>1 DEF HostIsLive, SnapIsCurrent, UnservedIsUnmoved
  <2>7. ASSUME Receiving
        PROVE  /\ Received' <=> (Received \/ good)
               /\ Received' => bank' = Data(cur.no, "out", done)
               /\ host'.moved \in IF Received' THEN {done, done + 1} ELSE {done - 1, done}
               /\ Received => ~good
    <3>1. /\ ctrl.rTog = Pid(IF outComplete \/ pc = "copy" THEN done + 1 ELSE done)
          /\ host.moved \in IF Received THEN {done, done + 1} ELSE {done - 1, done}
      BY <1>1, <2>2, <2>7 DEF OutStage
    <3>2. Received <=> outComplete \/ pc = "copy"
      BY <2>1 DEF Received
    <3>3. Received' <=> (Received \/ good)
      BY <1>3, <2>1, <3>2 DEF Received
    <3>4. Pid(done + 1) # Pid(done)
      BY <1>2, PidAlternates
    <3>5. CASE Received
      <4>1. host.moved = done
        BY <2>1, <3>1, <3>2, <3>5
      <4> QED
        BY <2>1, <2>2, <2>3, <3>2, <3>3, <3>5, <4>1
    <3>6. CASE ~Received
      <4>1. ctrl.rTog = Pid(done) /\ host.moved \in {done - 1, done}
        BY <3>1, <3>2, <3>6
      <4>2. host.moved = done => good
        BY <4>1
      <4>3. host.moved = done - 1 => ~good
        <5> SUFFICES ASSUME host.moved = done - 1 PROVE ~good
          OBVIOUS
        <5>1. host.moved + 1 = done
          BY <1>2
        <5>2. Pid(done) # Pid(host.moved)
          BY <1>2, <5>1, PidAlternates
        <5> QED
          BY <4>1, <5>2
      <4> HIDE DEF good
      <4>4. CASE host.moved = done
        BY <1>2, <2>1, <2>2, <2>3, <3>3, <3>6, <4>2, <4>4
      <4>5. CASE host.moved = done - 1
        BY <1>2, <2>3, <3>3, <3>6, <4>3, <4>5
      <4> QED
        BY <4>1, <4>4, <4>5
    <3> QED
      BY <3>5, <3>6
  <2>8. OutStage'
    <3> SUFFICES ASSUME Receiving PROVE OutStage'
      BY <1>3 DEF OutStage, Receiving
    <3>1. ctrl'.rTog = Pid(IF outComplete' \/ pc' = "copy" THEN done' + 1 ELSE done')
      BY <1>1, <1>3, <2>2 DEF OutStage
    <3>2. xfer' = "out" => ~outComplete' /\ pc' # "copy"
      BY <1>3, <2>1
    <3>3. outComplete' => pc' # "copy"
      BY <1>1, <1>3, <2>2 DEF OutStage
    <3> QED
      BY <1>3, <2>7, <3>1, <3>2, <3>3 DEF OutStage
  <2>9. CopyIsOurs'
    <3> SUFFICES ASSUME pc = "copy" PROVE CopyIsOurs'
      BY <1>3 DEF CopyIsOurs
    <3>1. Receiving /\ Received
      BY <1>1 DEF Progress, Receiving, Received
    <3>2. ~good
      BY <2>1
    <3> QED
      BY <1>3, <2>1, <2>7, <3>1, <3>2 DEF CopyIsOurs
  <2> QED
    BY <1>4, <2>4, <2>5, <2>6, <2>8, <2>9 DEF DataInv
<1>8. CASE HostStatusIn
  <2>1. /\ xfer = "none" /\ xfer' = "in" /\ ~resetFlag /\ ctrl.t = "ACK"
        /\ host.stage = "status" /\ host.setup.req.dir = "out"
        /\ host' = host \/ host' = [host EXCEPT !.stage = "ended"]
        /\ bank' = bank /\ resetFlag' = resetFlag
    BY <1>8 DEF HostStatusIn, SieFree, hostVars, regVars
  <2>2. Serving /\ cur = host.setup /\ done = cur.req.len
    BY <1>1, <2>1 DEF AnswerIsCurrent, Serving
  <2>3. ~Receiving /\ pc # "copy"
    BY <1>1, <1>2, <2>2 DEF Receiving, Progress, SetupIsHeld
  <2>4. OutStage' /\ ReceivingIsLive' /\ CopyIsOurs'
    BY <1>3, <2>3 DEF OutStage, ReceivingIsLive, CopyIsOurs, Receiving
  <2>5. InStage'
    BY <1>3, <2>1, <2>2 DEF InStage
  <2>6. HostIsLive' /\ SnapIsCurrent' /\ UnservedIsUnmoved'
    BY <1>1, <1>3, <2>1, <2>2 DEF HostIsLive, SnapIsCurrent, UnservedIsUnmoved, Serving
  <2> QED
    BY <1>4, <2>4, <2>5, <2>6 DEF DataInv
<1>9. CASE HostStatusOut \/ HostStalled
  <2>1. /\ xfer = "none" /\ xfer' \in {"none", "out", "repeat"} /\ ~resetFlag
        /\ host.stage \in {"data", "status"} /\ host'.stage \in {"ended", "stalled"}
        /\ bank' = bank /\ resetFlag' = resetFlag
    BY <1>1, <1>9 DEF HostStatusOut, HostStalled, SieFree, regVars, irqVars
  <2>2. ctrl.r = "ACK" \/ "STALL" \in {ctrl.r, ctrl.t}
    BY <1>9 DEF HostStatusOut, HostStalled
  <2>3. ~setupPending
    BY <1>1, <2>2 DEF PendingIsQuiet
  <2>4. cur = host.setup
    BY <1>1, <2>1, <2>3 DEF SetupIsHeld
  <2>5. HostStatusOut => cur.req.dir = "in"
    BY <2>4 DEF HostStatusOut
  <2>6. HostStalled => pc \in Idle
    BY <1>1 DEF HostStalled, StallIsIdle
  <2>7. ~Receiving /\ pc # "copy"
    BY <1>1, <1>9, <2>5, <2>6 DEF Receiving, Progress, Idle, Waiting
  <2>8. ~Serving'
    BY <2>1 DEF Serving
  <2> QED
    BY <1>3, <1>4, <2>1, <2>3, <2>7, <2>8
       DEF DataInv, HostIsLive, SnapIsCurrent, UnservedIsUnmoved, InStage, OutStage,
           ReceivingIsLive, CopyIsOurs, Receiving
<1>10. CASE HostReset
  <2>1. /\ resetFlag' = TRUE /\ host'.stage = "ended" /\ xfer' = xfer /\ bank' = bank
    BY <1>1, <1>10 DEF HostReset, regVars
  <2>2. ~Serving'
    BY <2>1 DEF Serving
  <2>3. CopyIsOurs'
    BY <1>1, <1>3, <2>1 DEF CopyIsOurs, StillCurrent
  <2> QED
    BY <1>4, <2>1, <2>2, <2>3
       DEF DataInv, HostIsLive, SnapIsCurrent, UnservedIsUnmoved, InStage, OutStage,
           ReceivingIsLive
<1> QED
  BY <1>5, <1>6, <1>7, <1>8, <1>9, <1>10

\* Every step keeps it.
LEMMA DataStep ==
    NoOvertaking /\ OneAtATime /\ IInv /\ DataInv /\ [Next]_vars => DataInv'
<1> SUFFICES ASSUME NoOvertaking, OneAtATime, IInv, DataInv, [Next]_vars PROVE DataInv'
  OBVIOUS
<1>1. CASE TaskStep \/ Resume \/ Cancel
  BY <1>1, TaskKeepsService, TaskKeepsIn, TaskKeepsOut DEF DataInv
<1>2. CASE IsrStep
  BY <1>2, IsrKeepsData
<1>3. CASE UNCHANGED vars
  BY <1>3
     DEF vars, irqVars, regVars, flagVars, taskVars, jobVars, wakeVars, hostVars,
         DataInv, PendingIsQuiet, HostIsLive, StallIsIdle, SnapIsCurrent, Serving,
         UnservedIsUnmoved, InStage, Exposed, OutStage, Receiving, Received,
         ReceivingIsLive, StillCurrent, CopyIsOurs
<1> QED
  BY <1>1, <1>2, <1>3, HostKeepsData DEF Next

\* So it holds in every reachable state.
LEMMA DataHolds == ASSUME NoOvertaking, OneAtATime PROVE Spec => []DataInv
<1>1. Init => DataInv
  BY InitData
<1>2. IInv /\ DataInv /\ [Next]_vars => DataInv'
  BY DataStep
<1> QED
  BY <1>1, <1>2, InvariantHolds, PTL DEF Spec

\* Only an IN packet that the host takes advances its control read.
LEMMA OnlyInMoves ==
    ASSUME IInv, Next, host'.moved > host.moved, host.setup.req.dir = "in"
    PROVE  \E acked \in BOOLEAN : HostIn(acked)
<1>1. /\ host \in [setup : SetupPackets, stage : {"data", "status", "ended", "stalled"},
                   moved : Nat]
      /\ host.moved \in Nat
  BY DEF IInv, RecordsTyped
<1> SUFFICES ASSUME ~(\E acked \in BOOLEAN : HostIn(acked)) PROVE host'.moved \in {host.moved, 0}
  BY <1>1
<1>2. CASE TaskStep \/ Resume \/ Cancel
  BY <1>1, <1>2, TaskFrame DEF IInv
<1>3. CASE IsrStep
  BY <1>1, <1>3
     DEF IsrStep, IsrSetup, IsrOut, IsrOutRepeated, IsrIn, IsrReset, Retire, hostVars
<1>4. CASE HostSetup
  BY <1>1, <1>4 DEF HostSetup
<1>5. CASE HostStatusIn \/ HostStatusOut \/ HostStalled \/ HostReset
  BY <1>1, <1>5 DEF HostStatusIn, HostStatusOut, HostStalled, HostReset, hostVars
<1>6. ~ \E acked \in BOOLEAN : HostOut(acked)
  BY DEF HostOut
<1> QED
  BY <1>2, <1>3, <1>4, <1>5, <1>6 DEF Next

\* Only data_out counts a packet while it copies one.
LEMMA OnlyCopyCounts ==
    ASSUME Next, pc = "copy", done' # done
    PROVE  CopyOut
<1>1. CASE TaskStep \/ Resume \/ Cancel
  BY <1>1, JobKept DEF SetupTake, WaitReady
<1>2. CASE ~(TaskStep \/ Resume \/ Cancel)
  BY <1>2
     DEF Next, IsrStep, IsrSetup, IsrOut, IsrOutRepeated, IsrIn, IsrReset, Retire, HostSetup,
         HostIn, HostOut, HostStatusIn, HostStatusOut, HostStalled, HostReset, taskVars, jobVars
<1> QED
  BY <1>1, <1>2

\* The packets of a control read reach the host once each and in order, as the
\* class code gave them for this SETUP, whatever handshakes are lost and
\* whichever transfers are abandoned: PIDs kept by software are never skipped.
THEOREM InDataIsIntact == ASSUME NoOvertaking, OneAtATime PROVE Spec => InDataIntact
<1>1. IInv /\ DataInv /\ [Next]_vars =>
        [host'.moved > host.moved /\ host.setup.req.dir = "in" =>
           bank = Data(host.setup.no, "in", host.moved) /\ ~txEmpty]_vars
  <2> SUFFICES ASSUME IInv, DataInv, Next, host'.moved > host.moved, host.setup.req.dir = "in"
               PROVE  bank = Data(host.setup.no, "in", host.moved) /\ ~txEmpty
    OBVIOUS
  <2>1. PICK acked \in BOOLEAN : HostIn(acked)
    BY OnlyInMoves
  <2>2. /\ xfer = "none" /\ ctrl.t = "ACK" /\ host.stage = "data"
        /\ ctrl.tTog = Pid(host.moved)
    BY <2>1, DataTyped DEF HostIn, SieFree
  <2>3. Serving /\ cur = host.setup
    BY <2>2 DEF IInv, AnswerIsCurrent, Serving
  <2>4. /\ bank = Data(cur.no, "in", done) /\ ~txEmpty
        /\ ctrl.tTog = Pid(done) /\ host.moved \in {done, done + 1}
    BY <2>2, <2>3 DEF DataInv, InStage, Exposed
  <2>5. Pid(done + 1) # Pid(done)
    BY DataTyped, PidAlternates
  <2> QED
    BY <2>2, <2>3, <2>4, <2>5
<1> QED
  BY <1>1, InvariantHolds, DataHolds, PTL DEF Spec, InDataIntact

\* data_out returns the packets of its own transfer once each and in order: what
\* it copies under the critical section is what its completion told of.
THEOREM OutDataIsIntact == ASSUME NoOvertaking, OneAtATime PROVE Spec => OutDataIntact
<1>1. IInv /\ DataInv /\ [Next]_vars =>
        [pc = "copy" /\ done' > done => bank = Data(cur.no, "out", done)]_vars
  <2> SUFFICES ASSUME IInv, DataInv, Next, pc = "copy", done' > done
               PROVE  bank = Data(cur.no, "out", done)
    OBVIOUS
  <2>1. done' # done
    BY DataTyped
  <2>2. CopyOut
    BY <2>1, OnlyCopyCounts
  <2> QED
    BY <2>2 DEF CopyOut, DataInv, CopyIsOurs
<1> QED
  BY <1>1, InvariantHolds, DataHolds, PTL DEF Spec, OutDataIntact

-----------------------------------------------------------------------------
(* The address.                                                            *)

\* The application lets the control task run.
NoCancel == Cancels = FALSE

\* The status packet of a write is awaited as long as it is exposed.
AnswerIsWaited ==
    Serving /\ cur.req.dir = "out" /\ ctrl.t = "ACK" => pc \in Waiting /\ ~inComplete

\* A write's one IN packet is its status: DATA1 until it has been taken.
StatusIsFirst ==
    Serving /\ cur.req.dir = "out" /\ pc \in Waiting \cup {"armOut", "copy", "prepStatus"} =>
        /\ inComplete => pc \in Waiting /\ done = cur.req.len
        /\ ctrl.tTog = IF inComplete THEN 0 ELSE 1

\* Its interrupt comes before the task moves on.
InIsWaited == xfer = "in" /\ cur.req.dir = "out" => pc \in Waiting /\ ~inComplete

\* The host has taken the status packet, and the task has yet to act on it.
StatusTaken ==
    /\ cur.req.dir = "out" /\ done = cur.req.len
    /\ \/ pc \in Waiting /\ (xfer = "in" \/ inComplete)
       \/ pc = "finStatus"

\* The task acts on a status packet only when the host has taken the address.
TakenIsKnown ==
    StatusTaken /\ StillCurrent /\ cur.req.verdict = "address" =>
        resetFlag \/ hostAddr = cur.no

\* The addresses differ only between the host's acceptance and the task's, or
\* until the handler of a bus reset has run.
DifferenceIsTold ==
    devAddr # hostAddr =>
        \/ resetFlag
        \/ /\ StatusTaken /\ StillCurrent /\ xfer # "setup"
           /\ cur.req.verdict = "address" /\ hostAddr = cur.no

ResetIsZero == resetFlag => hostAddr = 0

AddressInv ==
    /\ AnswerIsWaited /\ StatusIsFirst /\ InIsWaited
    /\ TakenIsKnown /\ DifferenceIsTold /\ ResetIsZero

\* Both ends begin with address zero.
LEMMA InitAddress == Init => AddressInv
<1> SUFFICES ASSUME Init PROVE AddressInv
  OBVIOUS
<1>1. /\ ~Serving /\ xfer = "none" /\ pc = "setup" /\ ~resetFlag /\ devAddr = hostAddr
  BY DEF Init, Serving
<1>2. ~StatusTaken
  BY <1>1 DEF StatusTaken, Waiting
<1> QED
  BY <1>1, <1>2
     DEF AddressInv, AnswerIsWaited, StatusIsFirst, InIsWaited, TakenIsKnown,
         DifferenceIsTold, ResetIsZero

\* wait_ep0 is left by completion or by the end of the transfer, and only when
\* no interrupt is pending; status_in acts unless the transfer is over.
LEMMA StatusMoves ==
    ASSUME TaskStep \/ Resume
    PROVE  /\ pc \in Waiting =>
                /\ xfer = "none"
                /\ WaitReady \/ pc' \in Waiting \/ ~StillCurrent
           /\ pc = "finStatus" => FinishStatus \/ ~StillCurrent
           /\ pc' = "finStatus" => WaitReady
           /\ pc' = "prepStatus" => SetupTake \/ CopyOut
           /\ FinishStatus \/ devAddr' = devAddr
<1>1. ASSUME NEW here \in Pcs \ Waiting, Outdated(here)
      PROVE  pc \notin Waiting /\ pc' = "drop" /\ ~StillCurrent /\ devAddr' = devAddr
  BY <1>1 DEF Outdated, Goto, regVars
<1>2. CASE SetupRegister \/ SetupTake \/ SetupPends
  BY <1>2 DEF SetupRegister, SetupTake, SetupPends, Goto, NextCall, Waiting, regVars
<1>3. CASE PrepareIn \/ ArmOut \/ PrepareStatus
  BY <1>3 DEF PrepareIn, ArmOut, PrepareStatus, Goto, Waiting
<1>4. CASE WaitRegister \/ WaitLife \/ WaitPends \/ Resume
  BY <1>4
     DEF WaitRegister, WaitLife, WaitPends, Resume, Goto, Waiting, Unmasked, IrqPending, regVars
<1>5. CASE WaitReady
  BY <1>5 DEF WaitReady, Goto, Waiting, Unmasked, IrqPending, regVars
<1>6. CASE FinishIn \/ CopyOut \/ FinishStatus \/ Reject \/ DropGuard
  BY <1>6
     DEF FinishIn, CopyOut, FinishStatus, Reject, DropGuard, Goto, NextCall, Waiting, regVars
<1> QED
  BY <1>1, <1>2, <1>3, <1>4, <1>5, <1>6 DEF TaskStep, Pcs, Waiting

\* The task takes the address over when, and only when, the host has.
LEMMA TaskKeepsAddress ==
    ASSUME IInv, DataInv, AddressInv, TaskStep \/ Resume
    PROVE  AddressInv'
<1>1. /\ TypeOK /\ Progress /\ AnswerIsCurrent /\ PendingIsQuiet /\ SnapIsCurrent
      /\ AnswerIsWaited /\ StatusIsFirst /\ InIsWaited
      /\ TakenIsKnown /\ DifferenceIsTold /\ ResetIsZero
  BY DEF IInv, DataInv, AddressInv
<1>2. UNCHANGED <<xfer, resetFlag, host, hostAddr, resetGen, shadow>>
  BY <1>1, TaskFrame
<1>3. /\ done \in Nat /\ cur.req \in AnyRequest /\ cur.req.len \in Nat
      /\ cur.req.dir \in {"in", "out"}
      /\ ctrl \in [r : Responses, t : Responses, rTog : {0, 1}, tTog : {0, 1}]
  BY DataTyped
<1>4. SetupTake \/ (setupPending' = setupPending /\ cur' = cur /\ snapGen' = snapGen)
  BY PendingKept, JobKept DEF WaitReady, CopyOut
<1>5. SetupTake =>
        /\ setupPending /\ pc' \notin Waiting \cup {"finStatus", "copy"}
        /\ ctrl'.t = "NAK" /\ ctrl'.tTog = 1 /\ inComplete' = inComplete
  BY DEF SetupTake, Goto, NextCall, Waiting, Control
<1>6. /\ pc \in Waiting =>
           /\ xfer = "none"
           /\ WaitReady \/ pc' \in Waiting \/ ~StillCurrent
      /\ pc = "finStatus" => FinishStatus \/ ~StillCurrent
      /\ pc' = "finStatus" => WaitReady
      /\ pc' = "prepStatus" => SetupTake \/ CopyOut
      /\ FinishStatus \/ devAddr' = devAddr
  BY StatusMoves
<1>7. /\ WaitReady => pc = "done" /\ (pc' = "finStatus" => cur.req.dir # "in" /\ ~(done < cur.req.len))
      /\ WaitReady => (pc' = "copy" => cur.req.dir # "in" /\ done < cur.req.len)
      /\ WaitReady /\ cur.req.dir # "in" =>
           /\ done' = done /\ Completed /\ pc' \in {"copy", "finStatus"}
           /\ inComplete' = (inComplete /\ ~WaitsIn)
  BY DEF WaitReady, Goto
<1>8. AnswerIsWaited'
  <2> SUFFICES ASSUME Serving', cur'.req.dir = "out", ctrl'.t = "ACK"
               PROVE  pc' \in Waiting /\ ~inComplete'
    BY DEF AnswerIsWaited
  <2>1. ~SetupTake
    BY <1>5
  <2>2. Serving /\ cur.req.dir = "out" /\ StillCurrent
    BY <1>1, <1>2, <1>4, <2>1 DEF Serving, SnapIsCurrent, StillCurrent
  <2>3. ~PrepareIn
    BY <1>1, <2>2 DEF PrepareIn, Progress
  <2>4. CASE PrepareStatus
    BY <2>4 DEF PrepareStatus, Goto, Waiting
  <2>5. CASE ctrl.t = "ACK"
    <3>1. pc \in Waiting /\ ~inComplete /\ done = cur.req.len
      BY <1>1, <2>2, <2>5 DEF AnswerIsWaited, AnswerIsCurrent, Serving
    <3>2. ~WaitReady
      BY <1>7, <2>2, <3>1 DEF Completed, WaitsIn
    <3> QED
      BY <1>1, <1>6, <2>2, <3>1, <3>2, CompletionsKept
  <2> QED
    BY <1>1, <2>3, <2>4, <2>5, AnswersKept
<1>9. StatusIsFirst'
  <2> SUFFICES ASSUME Serving', cur'.req.dir = "out",
                      pc' \in Waiting \cup {"armOut", "copy", "prepStatus"}
               PROVE  /\ inComplete' => pc' \in Waiting /\ done' = cur'.req.len
                      /\ ctrl'.tTog = IF inComplete' THEN 0 ELSE 1
    BY DEF StatusIsFirst
  <2>1. CASE SetupTake
    BY <1>1, <1>5, <2>1 DEF PendingIsQuiet
  <2>2. CASE ~SetupTake
    <3>1. Serving /\ cur.req.dir = "out" /\ cur' = cur
      BY <1>2, <1>4, <2>2 DEF Serving
    <3>2. /\ ~PrepareIn
      BY <1>1, <3>1 DEF PrepareIn, Progress
    <3>3. ctrl'.tTog = ctrl.tTog
      <4>1. FinishIn \/ FinishStatus \/ Reject => pc' = "setup"
        BY DEF FinishIn, FinishStatus, Reject, Goto
      <4> QED
        BY <1>1, <2>2, <4>1, ControlKept DEF Waiting
    <3>4. CASE WaitReady
      <4>1. pc = "done" /\ done < cur.req.len /\ pc' = "copy" /\ done' = done
        BY <1>7, <3>1, <3>4 DEF Waiting
      <4>2. ~inComplete /\ ctrl.tTog = 1
        BY <1>1, <1>3, <3>1, <4>1 DEF StatusIsFirst, Waiting
      <4>3. ~inComplete'
        BY <1>1, <4>2, CompletionsKept
      <4> QED
        BY <3>3, <4>2, <4>3
    <3>5. CASE ArmOut \/ PrepareStatus \/ CopyOut
      <4>1. pc \in {"armOut", "prepStatus", "copy"}
        BY <3>5 DEF ArmOut, PrepareStatus, CopyOut
      <4>2. ~inComplete /\ ctrl.tTog = 1
        BY <1>1, <3>1, <4>1 DEF StatusIsFirst, Waiting
      <4>3. ~inComplete'
        BY <1>1, <4>2, CompletionsKept
      <4> QED
        BY <3>3, <4>2, <4>3
    <3>6. CASE ~WaitReady /\ ~ArmOut /\ ~PrepareStatus /\ ~CopyOut
      <4>1. pc' \in Waiting /\ pc \in Waiting
        BY <1>6, <2>2, <3>2, <3>6, StageMoves
      <4>2. done' = done /\ inComplete' = inComplete
        BY <1>1, <2>2, <3>2, <3>6, JobKept, CompletionsKept
      <4> QED
        BY <1>1, <3>1, <3>3, <4>1, <4>2 DEF StatusIsFirst
    <3> QED
      BY <3>4, <3>5, <3>6
  <2> QED
    BY <2>1, <2>2
<1>10. InIsWaited'
  BY <1>1, <1>2, <1>4, <1>6 DEF InIsWaited, PendingIsQuiet, SetupTake
<1>11. TakenIsKnown'
  <2> SUFFICES ASSUME StatusTaken', StillCurrent', cur'.req.verdict = "address"
               PROVE  resetFlag \/ hostAddr = cur'.no
    BY <1>2 DEF TakenIsKnown
  <2>1. ~SetupTake
    BY <1>5 DEF StatusTaken, Waiting
  <2>2. cur' = cur /\ StillCurrent /\ cur.req.dir = "out" /\ done' = cur.req.len
    BY <1>2, <1>4, <2>1 DEF StillCurrent, StatusTaken
  <2>3. CASE pc' = "finStatus"
    <3>1. pc = "done" /\ done' = done /\ Completed
      BY <1>6, <1>7, <2>2, <2>3
    <3>2. StatusTaken
      BY <2>2, <3>1 DEF StatusTaken, Completed, WaitsIn, Waiting
    <3> QED
      BY <1>1, <2>2, <3>2 DEF TakenIsKnown
  <2>4. CASE pc' \in Waiting /\ (xfer = "in" \/ inComplete')
    <3>1. xfer # "in"
      BY <1>1, <1>6, <2>2 DEF InIsWaited
    <3>2. inComplete
      BY <1>1, <2>4, <3>1, CompletionsKept
    <3>3. ~PrepareIn /\ ~PrepareStatus
      BY <2>4, <3>1 DEF PrepareIn, PrepareStatus
    <3>4. ~ArmOut
      <4>1. ArmOut => done < cur.req.len /\ done' = done
        BY <1>1 DEF ArmOut, Progress, jobVars
      <4> QED
        BY <1>3, <2>2, <4>1
    <3>5. pc \in Waiting /\ ~WaitReady
      BY <2>4, <3>3, <3>4, StageMoves
    <3>6. done' = done
      BY <2>1, <3>5, JobKept DEF CopyOut, Waiting
    <3>7. StatusTaken
      BY <2>2, <3>2, <3>5, <3>6 DEF StatusTaken
    <3> QED
      BY <1>1, <2>2, <3>7 DEF TakenIsKnown
  <2> QED
    BY <1>2, <2>3, <2>4 DEF StatusTaken
<1>12. DifferenceIsTold'
  <2> SUFFICES ASSUME devAddr' # hostAddr, ~resetFlag
               PROVE  /\ StatusTaken' /\ StillCurrent' /\ xfer # "setup"
                      /\ cur'.req.verdict = "address" /\ hostAddr = cur'.no
    BY <1>2 DEF DifferenceIsTold
  <2>1. CASE FinishStatus
    <3>1. /\ pc = "finStatus" /\ StillCurrent
          /\ devAddr' = IF cur.req.verdict = "address" THEN cur.no ELSE devAddr
      BY <2>1 DEF FinishStatus
    <3>2. cur.req.verdict = "address"
      BY <1>1, <3>1 DEF DifferenceIsTold
    <3>3. cur.req.dir = "out" /\ cur.req.len = 0
      BY <1>3, <3>2, RequestAssumption DEF AnyRequest, NoRequest
    <3>4. done = cur.req.len
      BY <1>1, <3>3 DEF TypeOK
    <3>5. StatusTaken
      BY <3>1, <3>3, <3>4 DEF StatusTaken
    <3> QED
      BY <1>1, <3>1, <3>2, <3>5 DEF TakenIsKnown
  <2>2. CASE ~FinishStatus
    <3>1. /\ StatusTaken /\ StillCurrent /\ xfer # "setup"
          /\ cur.req.verdict = "address" /\ hostAddr = cur.no
      BY <1>1, <1>6, <2>2 DEF DifferenceIsTold
    <3>2. ~SetupTake
      BY <3>1 DEF SetupTake, StillCurrent
    <3>3. cur' = cur /\ StillCurrent'
      BY <1>2, <1>4, <3>1, <3>2 DEF StillCurrent
    <3>4. pc \in Waiting /\ xfer = "none" /\ inComplete
      BY <1>6, <2>2, <3>1 DEF StatusTaken
    <3>5. cur.req.dir = "out" /\ done = cur.req.len
      BY <3>1 DEF StatusTaken
    <3>6. CASE WaitReady
      <4>1. pc' = "finStatus" /\ done' = done
        BY <1>3, <1>7, <3>5, <3>6
      <4> QED
        BY <3>1, <3>3, <3>5, <4>1 DEF StatusTaken
    <3>7. CASE ~WaitReady
      <4>1. pc' \in Waiting
        BY <1>6, <3>1, <3>4, <3>7
      <4>2. ~CopyOut /\ ~PrepareIn /\ ~PrepareStatus
        BY <3>4 DEF CopyOut, PrepareIn, PrepareStatus, Waiting
      <4>3. done' = done /\ inComplete' = inComplete
        BY <1>1, <3>2, <3>7, <4>2, JobKept, CompletionsKept
      <4> QED
        BY <3>1, <3>3, <3>4, <3>5, <4>1, <4>3 DEF StatusTaken
    <3> QED
      BY <3>6, <3>7
  <2> QED
    BY <2>1, <2>2
<1>13. ResetIsZero'
  BY <1>1, <1>2 DEF ResetIsZero
<1> QED
  BY <1>8, <1>9, <1>10, <1>11, <1>12, <1>13 DEF AddressInv

\* The interrupt of the status packet tells the task of it; that of a SETUP or a
\* reset ends the transfer, a reset with both addresses zero.
LEMMA IsrKeepsAddress == ASSUME IInv, DataInv, AddressInv, IsrStep PROVE AddressInv'
<1>1. /\ TypeOK /\ ResetPending /\ AnswerIsCurrent
      /\ AnswerIsWaited /\ StatusIsFirst /\ InIsWaited
      /\ TakenIsKnown /\ DifferenceIsTold /\ ResetIsZero
  BY DEF IInv, DataInv, AddressInv
<1>2. /\ ctrl \in [r : Responses, t : Responses, rTog : {0, 1}, tTog : {0, 1}]
      /\ snapGen \in Nat /\ resetGen \in Nat /\ snapGen <= resetGen
  BY DataTyped
<1>3. UNCHANGED <<host, hostAddr, pc, cur, done, snapGen>> /\ xfer' = "none"
  BY <1>1
     DEF IsrStep, IsrSetup, IsrOut, IsrOutRepeated, IsrIn, IsrReset, Retire,
         hostVars, jobVars
<1>4. InIsWaited'
  BY <1>3 DEF InIsWaited
<1>5. CASE IsrSetup
  <2>1. xfer = "setup" /\ setupPending' = TRUE /\ UNCHANGED <<resetFlag, devAddr>>
    BY <1>5 DEF IsrSetup, Retire
  <2>2. ~Serving' /\ ~StillCurrent'
    BY <2>1 DEF Serving, StillCurrent
  <2> QED
    BY <1>1, <1>3, <1>4, <2>1, <2>2
       DEF AddressInv, AnswerIsWaited, StatusIsFirst, TakenIsKnown, DifferenceIsTold,
           ResetIsZero
<1>6. CASE IsrReset
  <2>1. /\ resetFlag /\ ~resetFlag' /\ resetGen' = resetGen + 1 /\ devAddr' = 0
    BY <1>6 DEF IsrReset
  <2>2. ~Serving' /\ ~StillCurrent'
    BY <1>1, <1>2, <1>3, <2>1 DEF Serving, StillCurrent, ResetPending
  <2> QED
    BY <1>1, <1>3, <1>4, <2>1, <2>2
       DEF AddressInv, AnswerIsWaited, StatusIsFirst, TakenIsKnown, DifferenceIsTold,
           ResetIsZero
<1>7. CASE IsrOut \/ IsrOutRepeated \/ IsrIn
  <2>1. /\ xfer \in {"out", "repeat", "in"}
        /\ UNCHANGED <<resetFlag, resetGen, setupPending, devAddr>>
    BY <1>7 DEF IsrOut, IsrOutRepeated, IsrIn, Retire, flagVars, regVars
  <2>2. /\ StillCurrent' <=> StillCurrent
        /\ Serving' => Serving
    BY <1>3, <2>1 DEF StillCurrent, Serving
  <2>3. CASE IsrOut \/ IsrOutRepeated
    <3>1. /\ xfer # "in" /\ inComplete' = inComplete
          /\ ctrl'.t = ctrl.t /\ ctrl'.tTog = ctrl.tTog
      BY <1>2, <2>3 DEF IsrOut, IsrOutRepeated, Retire, flagVars, regVars
    <3>2. StatusTaken' <=> StatusTaken
      BY <1>3, <3>1 DEF StatusTaken
    <3> QED
      BY <1>1, <1>3, <1>4, <2>1, <2>2, <3>1, <3>2
         DEF AddressInv, AnswerIsWaited, StatusIsFirst, TakenIsKnown, DifferenceIsTold,
             ResetIsZero
  <2>4. CASE IsrIn
    <3>1. xfer = "in" /\ inComplete' = TRUE /\ ctrl'.t = "NAK" /\ ctrl'.tTog = 1 - ctrl.tTog
      BY <1>2, <2>4 DEF IsrIn, Retire
    <3>2. cur.req.dir = "out" => pc \in Waiting /\ ~inComplete
      BY <1>1, <3>1 DEF InIsWaited
    <3>3. Serving /\ cur.req.dir = "out" => done = cur.req.len /\ ctrl.tTog = 1
      BY <1>1, <3>1, <3>2 DEF AnswerIsCurrent, StatusIsFirst, Serving
    <3>4. StatusTaken' <=> StatusTaken
      BY <1>3, <3>1, <3>2 DEF StatusTaken
    <3>5. AnswerIsWaited' /\ StatusIsFirst'
      BY <1>3, <2>2, <3>1, <3>2, <3>3 DEF AnswerIsWaited, StatusIsFirst
    <3> QED
      BY <1>1, <1>3, <1>4, <2>1, <2>2, <3>4, <3>5
         DEF AddressInv, TakenIsKnown, DifferenceIsTold, ResetIsZero
  <2> QED
    BY <1>7, <2>3, <2>4
<1> QED
  BY <1>5, <1>6, <1>7 DEF IsrStep

\* The host takes the address with the status packet that the task awaits, and
\* drops it when it resets the bus.
LEMMA HostKeepsAddress ==
    ASSUME IInv, DataInv, AddressInv,
           \/ HostSetup \/ (\E acked \in BOOLEAN : HostIn(acked) \/ HostOut(acked))
           \/ HostStatusIn \/ HostStatusOut \/ HostStalled \/ HostReset
    PROVE  AddressInv'
<1>1. /\ TypeOK /\ AnswerIsCurrent /\ SnapIsCurrent
      /\ AnswerIsWaited /\ StatusIsFirst /\ InIsWaited
      /\ TakenIsKnown /\ DifferenceIsTold /\ ResetIsZero
      /\ host \in [setup : SetupPackets, stage : {"data", "status", "ended", "stalled"},
                   moved : Nat]
  BY DEF IInv, DataInv, AddressInv, RecordsTyped
<1>2. UNCHANGED <<pc, cur, done, snapGen, resetGen, setupPending, inComplete, ctrl, devAddr>>
  BY DEF HostSetup, HostIn, HostOut, HostStatusIn, HostStatusOut, HostStalled, HostReset,
         taskVars, jobVars, flagVars, regVars
<1>3. StillCurrent' <=> StillCurrent
  BY <1>2 DEF StillCurrent
<1>4. CASE HostSetup \/ (\E acked \in BOOLEAN : HostOut(acked))
           \/ HostStatusOut \/ HostStalled
  <2>1. /\ xfer = "none" /\ xfer' # "in" /\ devAddr = hostAddr
        /\ UNCHANGED <<resetFlag, hostAddr>>
    BY <1>4 DEF HostSetup, HostOut, HostStatusOut, HostStalled, SieFree, irqVars
  <2>2. StatusTaken' <=> StatusTaken
    BY <1>2, <2>1 DEF StatusTaken
  <2>3. Serving' => Serving
    <3>1. HostSetup => ~Serving'
      BY DEF HostSetup, Serving
    <3>2. HostStatusOut \/ HostStalled => ~Serving'
      BY <1>1 DEF HostStatusOut, HostStalled, Serving
    <3>3. (\E acked \in BOOLEAN : HostOut(acked)) => host.stage = "data"
      BY DEF HostOut
    <3> QED
      BY <1>2, <1>4, <2>1, <3>1, <3>2, <3>3 DEF Serving
  <2> QED
    BY <1>1, <1>2, <1>3, <2>1, <2>2, <2>3
       DEF AddressInv, AnswerIsWaited, StatusIsFirst, InIsWaited, TakenIsKnown,
           DifferenceIsTold, ResetIsZero
<1>5. ASSUME NEW acked \in BOOLEAN, HostIn(acked) PROVE AddressInv'
  <2>1. /\ xfer = "none" /\ ctrl.t = "ACK" /\ devAddr = hostAddr
        /\ host.stage = "data" /\ host.setup.req.dir = "in"
        /\ UNCHANGED <<resetFlag, hostAddr>>
    BY <1>5 DEF HostIn, SieFree
  <2>2. cur.req.dir = "in"
    BY <1>1, <2>1 DEF AnswerIsCurrent
  <2>3. ~StatusTaken'
    BY <1>2, <2>2 DEF StatusTaken
  <2> QED
    BY <1>1, <1>2, <2>1, <2>2, <2>3
       DEF AddressInv, AnswerIsWaited, StatusIsFirst, InIsWaited, TakenIsKnown,
           DifferenceIsTold, ResetIsZero
<1>6. CASE HostStatusIn
  <2>1. /\ xfer = "none" /\ xfer' = "in" /\ ctrl.t = "ACK" /\ devAddr = hostAddr
        /\ host.stage = "status" /\ host.setup.req.dir = "out"
        /\ ~resetFlag /\ resetFlag' = resetFlag
    BY <1>6 DEF HostStatusIn, SieFree
  <2>2. Serving /\ cur = host.setup /\ done = cur.req.len
    BY <1>1, <2>1 DEF AnswerIsCurrent, Serving
  <2>3. pc \in Waiting /\ ~inComplete
    BY <1>1, <2>1, <2>2 DEF AnswerIsWaited
  <2>4. ctrl.tTog = 1
    BY <1>1, <2>1, <2>2, <2>3 DEF StatusIsFirst
  <2>5. /\ host' = [host EXCEPT !.stage = "ended"]
        /\ hostAddr' = IF cur.req.verdict = "address" THEN cur.no ELSE hostAddr
    BY <1>6, <2>2, <2>4 DEF HostStatusIn
  <2>6. ~Serving'
    BY <1>1, <2>5 DEF Serving
  <2>7. StillCurrent
    BY <1>1, <2>2 DEF SnapIsCurrent, StillCurrent, Serving
  <2>8. StatusTaken'
    BY <1>2, <2>1, <2>2, <2>3 DEF StatusTaken
  <2> QED
    BY <1>1, <1>2, <1>3, <2>1, <2>3, <2>5, <2>6, <2>7, <2>8
       DEF AddressInv, AnswerIsWaited, StatusIsFirst, InIsWaited, TakenIsKnown,
           DifferenceIsTold, ResetIsZero
<1>7. CASE HostReset
  <2>1. resetFlag' = TRUE /\ hostAddr' = 0 /\ host'.stage = "ended" /\ xfer' = xfer
    BY <1>1, <1>7 DEF HostReset
  <2>2. ~Serving'
    BY <2>1 DEF Serving
  <2> QED
    BY <1>1, <1>2, <2>1, <2>2
       DEF AddressInv, AnswerIsWaited, StatusIsFirst, InIsWaited, TakenIsKnown,
           DifferenceIsTold, ResetIsZero
<1> QED
  BY <1>4, <1>5, <1>6, <1>7

\* Every step keeps it when the application never drops the control task.
LEMMA AddressStep ==
    NoCancel /\ IInv /\ DataInv /\ AddressInv /\ [Next]_vars => AddressInv'
<1> SUFFICES ASSUME NoCancel, IInv, DataInv, AddressInv, [Next]_vars PROVE AddressInv'
  OBVIOUS
<1>1. ~Cancel
  BY DEF Cancel, NoCancel
<1>2. CASE UNCHANGED vars
  BY <1>2
     DEF vars, irqVars, regVars, flagVars, taskVars, jobVars, hostVars, AddressInv,
         AnswerIsWaited, StatusIsFirst, InIsWaited, TakenIsKnown, DifferenceIsTold,
         ResetIsZero, Serving, StatusTaken, StillCurrent
<1> QED
  BY <1>1, <1>2, TaskKeepsAddress, IsrKeepsAddress, HostKeepsAddress DEF Next

\* Device and host agree on the address whenever the task waits for the next
\* SETUP, whatever is aborted, repeated or reset on the way: devAddr follows
\* hostAddr because the status packet is exposed for one transfer only and
\* acted on before the task goes on.
THEOREM AddressesAgree ==
    ASSUME NoOvertaking, OneAtATime, NoCancel PROVE Spec => []AddressAgreed
<1>1. Init => AddressInv
  BY InitAddress
<1>2. IInv /\ DataInv /\ AddressInv /\ [Next]_vars => AddressInv'
  BY AddressStep
<1>3. AddressInv => AddressAgreed
  BY DEF AddressInv, DifferenceIsTold, StatusTaken, Waiting, AddressAgreed, IrqPending
<1> QED
  BY <1>1, <1>2, <1>3, InvariantHolds, DataHolds, PTL DEF Spec

=============================================================================
