# A TLA+ development of embassy-ch58x

`embassy-ch58x` is an Embassy hardware layer for the WCH CH582/CH585
microcontrollers: one RISC-V core, a thread executor that sleeps on the PFIC
event latch, a time driver, GPIO with edge and level waits, an interrupt-driven
UART and a USB full-speed device driver. Everything that is hard in it comes
from one source: asynchronous tasks, dropped at any await, share hardware
registers and atomics with interrupt handlers that preempt them between any two
instructions, while a host on the other end of the wire does as it likes.

This directory holds models of that code, TLC runs that check them on small
instances, and theorems that TLAPS proves for every instance.

## Inventory

| Component | State | Operations | What is hard | Correct when |
|---|---|---|---|---|
| USB IN endpoints (`usb.rs`) | one DMA bank, response and PID bits per endpoint, `ENABLED_IN`, enable/completion/reset generations, a waker | `EndpointIn::write`, `TransferGuard::drop`, `wait_enabled`, `Bus` methods, IN and reset interrupts | cancellation against completion, resets and re-enables under a pending write, 8-bit generations, lost handshakes | the bank is exposed only for a live write; Ok means sent and accepted; every write ends |
| USB OUT endpoints (`usb.rs`) | the same, and `OUT_COMPLETE` | `EndpointOut::read`, guard, `Bus` methods, OUT and reset interrupts | a packet may come before its read, or belong to an earlier instance; one bank only | packets are read once, in order, by their own instance; none is overwritten |
| Control pipe (`usb.rs`) | one bank for three kinds of packet, PIDs kept by software, `SETUP_PENDING`, completion bits, `DEV_AD` | `setup`, `data_in`, `data_out`, `accept`, `accept_set_address`, `reject`, guard, EP0 interrupts | each SETUP aborts what is under way | transfers do not disturb each other; status means done; addresses agree |
| Bus events (`usb.rs`) | `BUS_EVENTS`, `BUS_WAKER` | `Bus::poll`, reset and suspend interrupts, `remote_wakeup` | events reported in bit order | every event is reported; once all are, embassy-usb knows whether the bus is suspended |
| Endpoint allocation (`usb.rs`, `usb/chip`) | allocated masks | `alloc_endpoint_*`, `start`, mode bytes | none: sequential, before any concurrency | modes match the allocation |
| Executor (`executor.rs`) | `WORK_PENDING`, event latch, run queue | `run`, the pender | check-before-sleep race, the pender called only for an empty queue | never sleeps on work |
| Time driver (`time.rs`) | hardware counter, compare register, timer queue, CH585 epoch | `now`, `set_alarm`, SysTick handler, `schedule_wake` | torn reads, deadlines that pass while they are armed, epoch boundary | what is read is the time, no timer is late |
| GPIO (`gpio.rs`) | channel claims, wakers, event bits | `Wait` methods, port interrupts | events before registration, of an earlier waiter, two edges | a wait ends on its own event and only on it |
| UART (`uart.rs`) | `IER` one-shot enables, wakers, FIFOs | `read`, `write`, `flush`, guard, interrupt | the enable register is shared with the handler; cancellation | no lost wake-up, no interrupt left enabled |
| Interrupt bindings, crate root | none | none | none | - |

They interact through the executor (every handler ends in `AtomicWaker::wake`,
which ends in the pender), through the critical section that all drivers use
against their own handler, and, for USB, through the one interrupt handler and
the registers shared by all endpoints. The hazards, each at its line, are in
`PROJECT.json`.

## Modules

* **UsbTransfer** - what both directions of an ordinary endpoint share: bus
  state, the latched transfer and reset flag, generations, the snapshot of a
  transfer future, its guard, the waker, `wait_enabled`, and the parts of `Bus`
  and of the handler that do not depend on the direction. It has no `Next`.
* **UsbInEndpoint**, **UsbOutEndpoint** - extend it with `write` and `read`, the
  DMA bank, the data PIDs of both ends and the host.
* **UsbControlPipe** - endpoint zero, on its own: it shares `RESET_GENERATION`
  and the handler with the others and nothing else. embassy-usb, which calls
  it, is external: `NextCall` says which method follows for which request.
* **TaskScheduling** - what an executor promises: a woken task is ready until it
  is polled, and it is polled. **Executor** - the loop, the pender and the latch;
  it implements TaskScheduling under `ready <- Queued`.
* **Uart** - `read`, `write`, `flush`, their guard and the handler. **UsbBus** -
  `Bus::poll`, `Bus::enable` and the bus branches of the USB handler. Neither has
  a `Next`: **Firmware** extends both and Executor with the tasks that own them,
  the handlers that wake those tasks, and tasks of an application.
* **TimeDriver** - both chips' SysTick: clock reads, `set_alarm`, the handler, and
  `schedule_wake` as embassy-time's `Timer` calls it. The timer queue,
  embassy-time-queue-utils', is external.
* **Gpio** - channel claims, the waits of `Input` and the two port handlers.
* **MC...** - instances for TLC. **...Proofs** - theorems.

### From code to model

One core runs everything. A *task step* is a stretch of code between two points
where an interrupt can make a difference (a load, a store, a critical section);
`Unmasked` says that no interrupt is pending, since a pending handler would run
first. A `critical_section::with` is one step whatever is pending; a flag raised
while it runs is latched and the handler comes right after it (`irqDue`). A
handler entry is one step, except where the hardware may change what it has read:
the suspend branch of the USB handler in UsbBus is three (INT_FG is read; MIS_ST is
read; the event is recorded and the flag cleared), with the host at work between
them and the thread and the other handlers, whose priority is lower, at rest. Tasks on one executor give up the core at an await
only (`TaskFree`).

A pending future is `pc = "await"`. `Resume` polls it, woken or not: another
future of the same task may have caused the poll. `Cancel` drops it; its guard
is dropped in a step of its own, so that an interrupt may come first. The
program counters name the code: `snap` (generations read), `fill` (bank
written), `arm` (critical section), `poll` (waker registered), `life` and `done`
(the two checks), `drop` (guard).

A packet is its number, and a write's number is also in the bank. `sent`,
`hostIn`, `got`, `origin` and `taken` are history: what the wire saw. The host is
free except where a constant says otherwise. Left out: packet lengths and
contents, `endpoint_is_stalled` and `force_reset`, which read or pulse a
register, DMA addresses and `BufferOverflow` on a write, which returns before
it touches anything. Register updates are atomic: see the hazard on the toggle
bits.

The SIE answers NAK while a transfer is latched (the driver sets the BUSY bit in
`Bus::enable`), so at most one transfer is pending and none is lost to a second.
During a bus reset there is no traffic until the handler has run.

*Time* is the counter itself, never wrapped; the registers show it modulo
`Period`. Each step of TimeDriver takes effect when it begins and then takes
`MinStep` to `MaxStep` counts, during which CMP may match: the counter waits
neither for the code nor for a critical section. Pins of Gpio likewise change
between any two steps, in critical sections too, and a handler is one step. In
Uart a change of IER by the task is a load and a store with the handler between
them; by the handler it is one step. In Firmware a step of a driver's task
happens while the executor polls that task, and every wake-up is a step of
Executor: the pender and the event latch are on the path of every property about
UART and bus events.

`Init` of the endpoint models is a driver whose bus is off, of the control pipe
one whose bus has just been enabled, of the executor one whose `init` has spawned
any set of tasks; `Uart::new`, `Driver::start` and the time driver's `init` have
run, and no pin is claimed. TimeDriver may begin at `FirstRead`, when the program
reads the clock for the first time.

## Runs

| Run | Asks | Bounds |
|---|---|---|
| `in_safe` | is the IN bank exposed only for a live write, are completions attributed correctly? | 1 endpoint, 2 resets, 4 enables, 3 writes, generations modulo 2 |
| `in_live` | does Ok mean delivered, does every write and `wait_enabled` end? | 2 resets, 3 enables, 2 writes; no halts, no cancellation in doubt |
| `out` | are packets read once, in order, by their instance, and do reads end? | 2 resets, 3 enables, 3 packets, generations modulo 2 |
| `executor` | does the core sleep on work, is every woken task polled, does every UART operation end and disarm, is every bus event reported? | images {uart, app}, {usb, app}, {app, app2, app3}; FIFO of 2, 3 host events |
| `time` | is the clock ever misread, is a timer early or late? | both chips, words of 32 counts, 2 rollovers, 2 tasks, queue of 1, deadlines 18, 26, 40 |
| `gpio` | do waits end only for their own pin, and do they end; are claims exact? | PB8 (rising), PB22 (any edge), PB23 (low): a shared channel and a shared remap |
| `control` | do abandoned, repeated, cancelled and reset control transfers stay apart? | 3 SETUPs of 5 requests, 1 reset, transfers of up to two packets |
| `control_live` | does every transfer end, do the addresses agree? | 2 SETUPs, 1 reset, no cancellation |
| `out_repeat_enable`, `control_back_to_back`, `control_stale_reject`, `time_first_epoch` | the four divergences below | just enough |

Modulo 2 is the narrowest generation that can work at all: 256 is what the code
has, and every coincidence that takes 256 transfers there takes two here. Three
writes are enough for a stale one, a current one and the next; two packets of a
data stage for a PID to alternate; three SETUPs for a transfer that aborts one
and is aborted. Two resets separate "a reset happened" from "the same number of
resets". One endpoint suffices for TLC since endpoints interact through the
scheduler and the latch only; the theorems about IN endpoints hold for any
set of them. UART and USB do not touch each other's state, so that an image of one of
them beside an application task shows what a third could: a wake-up of another
task between any two steps. Three host events make a reset, a suspension and a
resumption pending in one poll. A register word of 32 counts is long against a
step of 2, as 2^32 is, and short enough for two rollovers; the deadlines fall
within the first epoch, shortly before its rollover and in the second, and a
queue of one makes the second timer evict the first. The ratios 2/1 and 3/2 keep
ticks that begin between counts, as with 312/5. The pins are the only kind that
share anything: two of one channel in different remaps, and two of one remap in
different channels. Deadlock is checked in every run.

Fairness: the core executes the handler and the task it is in (WF on both); a
woken task is polled again and again (SF, which `WokenTasksArePolled` of the
executor justifies); in `in_live` and `control_live` a host that goes on with
its transfer gets one handshake through in the end (SF on the acknowledged
transaction). `ReadEnds` assumes nothing of the host. In Firmware the core executes (WF), a task
that can return at infinitely many polls does (SF), an asserted interrupt is
taken, the transmitter shifts and flush's timer ends (WF); nothing is assumed of
the receiver or the USB host. In Gpio the thread runs (WF), and handlers and polls
of woken tasks, which toggling pins may interrupt again and again, happen (SF).

## What the runs show of the code

Four places where the code and one of its own comments part:

1. *Enabling an enabled OUT endpoint* (`out_repeat_enable`, `usb.rs:534`): ACK is set
   although a packet is held; the next packet overwrites it. The clear-halt path
   has the check that is missing.
2. *Back-to-back packets of a control write* (`control_back_to_back`,
   `usb.rs:1237-1241`): EP0 stays at ACK after an OUT packet.
3. *reject() of an abandoned request* (`control_stale_reject`, `usb.rs:1092`): the
   STALL hits the transfer that replaced it.
4. *A clock nobody reads in its first epoch* (`time_first_epoch`, `time.rs:158`): the
   CH585 rollover handler, enabled so that the epoch survives a whole period
   without timers, compares with a `last_low` that is still zero and misses the
   first rollover. The clock is 68 s behind from then on.

The knobs that passing runs keep at FALSE can be turned to see what they hide:

* `Overtakes` (UsbControlPipe): a SETUP that arrives during `prepare_in`'s or
  `data_out`'s critical section is in the shared bank while that section uses it.
  `SetupIsHeld` and `OutDataIntact` fail.
* `TrafficInDisable` (UsbOutEndpoint): a packet latched while
  `endpoint_set_enabled(.., false)` runs is recorded afterwards and read by the
  next instance. `ReadFromOwnInstance` fails.
* `InDoubtCancels` (UsbInEndpoint): a write cancelled between the host's acceptance
  and a handshake that was lost makes the host drop the next packet as a
  repetition. `OkIsDelivered` fails; the crate's README promises
  "cancellation-safe endpoint transfers", and this is the limit of that promise.
* `Halts` in `in_live`: clearing a halt leaves NAK, and a write that was pending
  when the host halted the endpoint stays pending. `WriteEnds` and
  `PendingWriteIsArmed` fail.
* `Cancels` in `control_live`: dropping `UsbDevice::run` between the status stage
  of SET_ADDRESS and its completion leaves the old address. `AddressAgreed` and
  `TransferEnds` fail.
* `RolloverInArm` (TimeDriver): a CH585 rollover between `set_alarm`'s read and the
  clearing of CNTIF clears the rollover's match with the stale one, and the alarm
  waits for the next. `NoTimerLate`, a half of `TimersOnTime`, fails; the window is a few counts in 68 s.
* `MaxLatency` above `3 * MinStep - 2 * MaxStep` (TimeDriver, CH585 only): a rollover is
  noticed by a low word below the one last read. `time.rs:41` says that the time
  queue "always arms a rollover compare" for a deadline in a later epoch, so that the
  epoch is "refreshed even when the application has no short timers pending". There
  are two ways past it, and `NowIsTrue` fails in both. `ch585_alarm_counter` arms a
  deadline of the next epoch directly when its low word has passed, and its match may
  be almost a period away: then it is enough that the handler is held off for longer
  than `set_alarm` takes from its read to its check (FirstRead = 20, MaxLatency = 4,
  one deadline 18, Horizon = 90). And without any timer the handler of each rollover
  reads a low word as small as its own delay; if the next rollover's handler is held
  off for longer than that delay and the arming together, its low word is not below
  the last one, and the epoch is lost (FirstRead = 20, MaxLatency = 10, no tasks,
  Horizon = 150; up to MaxLatency = 8 it holds). SysTick has the lowest priority and
  the critical sections of an application are as long as it likes, so neither is
  excluded by the code.
* `PulseInArm` (Gpio): a pulse that begins after `wait_for_any_edge` has sampled
  the pin and before its flag is cleared, and ends before the second sample, loses
  both edges. `WaitEnds` fails.

In two cases the last report of `Bus::poll` is wrong, and UsbBus has both. The suspend
branch of the handler reads MIS_ST at `usb.rs:1285` and clears UIF_SUSPEND at
`usb.rs:1296`; a suspension or resumption in between sets a flag that is set already,
is cleared with it and never reported. And a suspension that is recorded while a
resumption is unreported is reported before it, bits being taken in order (a bus is
idle for 3 ms before it is suspended, so a task would have to be that late). The ghost
`missed` is set by `ClearSuspend` in exactly these cases and reset by the next change
that is recorded in neither way; `LastReportTrue` and its theorem say that the report is
true whenever it is not set. Either half taken out of `missed`, TLC finds the report
wrong.

## Proofs

Theorems hold for every value of the constants that the named assumptions of the
modules allow (any set of endpoints, tasks, pins or requests, any generation
modulus of at least two, any word width, any bounds). Some hold of the program as
it is ordinarily used; what that means is a named operator, and the divergences and
knobs above show that none of them can be dropped.

* **ExecutorProofs.** `NeverSleepsOnWork` is not inductive: the pender is skipped
  when the queue is not empty, so one must know where an earlier wake-up is still
  recorded. `WakeupIsRecorded` says it: before the swap in `WORK_PENDING` (or a
  pender is about to store it), at the `wfi` in the event latch. With
  `BatchIsDrained` and the typing it is inductive. `SchedulingImplemented` maps
  every step to a step of TaskScheduling or a stutter.
* **FirmwareProofs.** Every behaviour of an image is one of Executor
  ((`FirmwareIsExecutor`), which carries the above over. `UartQuiet` needs what the
  task has loaded from IER to be covered by its guard as well: the handler only
  takes bits away, and the store brings back at most those. `ReportsAreTrue`, which
  assumes nothing of the host, follows the events that are recorded and not yet
  taken: `Told` is what embassy-usb will believe once it has taken them in bit order,
  and `BusInv` says that this is the state of the bus unless a change is still to be
  handled or was missed by the handler (`missed`, above).
* **UsbTransferProofs.** Typing lemmas for the shared steps, cited by direction, and
  `WakeInv`, from which `WakeupsAreKept` follows for both: the waker is registered from
  before the first check until the future ends, and a change after the check has woken
  the task.
* **UsbInEndpointProofs.** `TypeCorrect`, then one invariant `IInv`, a conjunction
  of named parts per endpoint. The armed endpoint is owned by a valid future
  (`ArmedIsOwned`, inductive with typing); to attribute a completion one follows
  a transfer through the time it is latched and the handler has not run:
  `LatchedIsArmed` and `LatchedIsOurs` say that the latched packet is the armed
  write's, so the handler's one increment after the snapshot belongs to it, and no
  second can follow because the first disarms. That is why two generations are
  enough. `OkWasSent`, `SentIsSeen` and `NoGhostPacket` follow. `PendingWritesAreArmed`
  (without `Halts`) adds that only a halt takes the ACK from a write the host has not
  answered. `OkMeansDelivered` (without `InDoubtCancels`) needs the PIDs of both ends:
  `DeliveryInv` says that they differ only while the host has the bank's packet and
  its write is pending or its instance over, so that what the host drops as a
  repetition is what it has.
* **UsbOutEndpointProofs**, under `OrdinaryUse` (no endpoint is enabled twice, no
  packet is latched while one is disabled). The bank passes from the SIE
  (`ArmedIsFree`) through the latch (`LatchedIsFree`) to `OUT_COMPLETE`
  (`CompleteIsFresh`) and to the read (`HeldIsOurs`), with one owner at a time;
  `TogglesAgree` says that the PIDs differ exactly while the host does not know
  that its packet arrived, so that what the handler ignores is a repetition.
* **UsbControlPipeProofs**, three invariants on top of each other. Under
  `NoOvertaking`, `IInv` follows a SETUP through bank, shadow and task and ties
  every answer of the SIE (`AnswerIsCurrent`, `StallIsCurrent`) to it. Under
  `OneAtATime` too, `DataInv` relates the PID the driver keeps to the packets the
  task has moved and those the host has: they are at most one apart, and which
  way tells whether a packet is exposed, latched or completed (`InStage`,
  `OutStage`). Under `NoCancel` too, `AddressInv` says that the two addresses differ
  only between the host's acceptance of the status packet and the task's
  completion of it, or until the handler of a reset has run.
* **GpioProofs.** Each wait is at a known stage (`Positions`), claims, remap and count
  are those of the waits that are alive (`ClaimsHeld`, `UsersCounted`), a channel
  that is enabled belongs to a wait whose trigger is set (`Armed`), and a flag or
  event of it comes from its own pin since it was armed (`SignalIsOwn`).
* **TimeDriverProofs.** First arithmetic, for any word width and any ratio:
  `DeadlineHasItsCount` (the clock has reached a deadline exactly when the counter has
  reached `ticks_to_counter_ceil` of it) and `AlarmComesFirst` (the compare value
  chosen on CH585 is ahead, not after the deadline, and no count before it has its
  low word). Then what holds with any timing on both chips: the low word of an
  observation is the counter's, and a low word that fell shows a rollover at least, so
  that the CH585 epoch is never ahead (`EpochIsPast`). `ClockIsNeverAhead`,
  `EpochNeverGoesBack` and, with `DeadlineHasItsCount`, `TimersAreNeverEarly` follow. On
  CH582, two equal high words around a low word put all three into one epoch,
  whatever happens between the loads (`ReadInv`, and `ReadsAreWhole`). Finally
  `TimersAreOnTime`, for a build for CH582: a Timer nobody polls is in the queue
  (`TimersQueued`), the alarm is for the queue's first deadline (`NextIsFirst`), its two
  words become CMP (`WordsWritten`), and so a match is latched or ahead and not after
  any deadline whenever the driver leaves off (`Timely`).

That the CH585 clock misses no epoch and forgets no Timer is not a theorem: it needs a
driver that is in time, and the code does not see to that (the two knobs above).
What timing is enough is proved as two lemmas, `ClockIfInTime` and `TimersIfInTime`,
under `InTime`: no rollover between the read of `set_alarm` and the clearing of CNTIF, a
first read two steps and a latency into the epoch or later, an epoch longer than three
steps and a latency, and `2 * MaxStep + MaxLatency <= 3 * MinStep`. `ClockInv` says why it
is enough: outside of the driver a match is ahead in time, or its handler is pending
and not late (`Waiting`); inside, every step is so many counts after the last read
(`Recent`), and the match being set up is ahead, latched, or that of a deadline that
the check before STIE sees pass (`Arming`). Each of the four conditions is needed. The
run `time` satisfies all of them, the last with equality, so that on CH585 `NowIsTrue`
and `NoTimerLate` are claims about such a driver only.

Only model-checked: liveness and what rests on fairness, which the prover cannot
reach (`WriteEnds`, `ReadEnds`, `WaitEnds`, `TransferEnds`, `UartOpsEnd`,
`WokenTasksArePolled`, `BusEventsReported`). Every invariant that a run checks is
stated by a theorem, `NowIsTrue` and `TimersOnTime` for CH582.

## Not modelled

* *Endpoint allocation, mode bytes and `configure_dma`*: sequential, once, before the
  first interrupt; constants are written to registers.
* *Interrupt bindings and crate root*: types, vector tables and re-exports; nothing
  runs.
* *`remote_wakeup` and `force_reset`*: they drive lines of the bus and keep no state
  of the driver. `remote_wakeup` has no guard: dropped at its 2 ms wait it leaves
  the resume signal on.
* *`Bus::disable` and `BUS_EVENTS`*: it leaves recorded events for the next `poll`;
  its effect on endpoints is in UsbTransfer.
* *The toggle bits under read-modify-write*: whether the SIE may update a control
  register between the core's load and store is not said by the code; register
  updates are atomic here.
* *Payloads*: lengths, bytes, UART error kinds, DMA addresses.

What could be added: the control pipe and endpoints of both directions in one
module, to check the order of a reset's effects on all of them, and a mailbox as
the abstract specification of an OUT endpoint.

## Running

`tlc -config MCUsbOut.cfg MCUsbOutEndpoint` and likewise for the others: Gpio takes
about two minutes, the others less than one. `tlapm UsbInEndpointProofs.tla` and
likewise for the other seven proof modules, seconds to a few minutes each.
