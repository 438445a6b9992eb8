------------------------------ MODULE Firmware -----------------------------
(***************************************************************************)
(* An image of this crate: the executor polls the task that owns the Uart, *)
(* the task that owns the USB Bus and tasks of the application, and the    *)
(* handlers of UART and USB wake them.  Every wake-up is one of module     *)
(* Executor, so that a lost one, there or in a driver, stops the task.     *)
(***************************************************************************)
EXTENDS Executor, Uart, UsbBus

CONSTANTS
    UartTask, UsbTask,
    Images,       \* the sets of tasks to check: what is spawned
    NoTask

ASSUME FirmwareAssumption ==
    /\ UartTask \in Tasks /\ UsbTask \in Tasks /\ UartTask # UsbTask
    /\ Images \subseteq SUBSET Tasks /\ NoTask \notin Tasks

VARIABLES
    spawned,      \* the tasks of this image
    current       \* the task that is polled

fwVars == <<vars, uartVars, busVars, spawned, current>>

-----------------------------------------------------------------------------
(* Thread context: not within the USB handler.                             *)

PollAny(t) ==
    /\ ~InHandler /\ PollTask(t)
    /\ current' = t
    /\ IF t = UartTask THEN Resume \/ Cancel ELSE UNCHANGED uartVars
    /\ IF t = UsbTask THEN ResumeBus ELSE UNCHANGED busVars
    /\ UNCHANGED spawned

Running(t) == ~InHandler /\ pc = "task" /\ current = t

UartRuns ==
    /\ Running(UartTask) /\ UartStep
    /\ UNCHANGED <<vars, busVars, spawned, current>>

BusRuns ==
    /\ Running(UsbTask) /\ BusStep
    /\ UNCHANGED <<vars, uartVars, spawned, current>>

AppWakes(t) ==
    /\ ~InHandler /\ current \notin {UartTask, UsbTask}
    /\ TaskWakes(t)
    /\ UNCHANGED <<uartVars, busVars, spawned, current>>

Returns ==
    /\ ~InHandler
    /\ current = UartTask => AtRest
    /\ current = UsbTask => BusAtRest
    /\ TaskReturns
    /\ current' = NoTask
    /\ UNCHANGED <<uartVars, busVars, spawned>>

RunLoop ==
    /\ ~InHandler
    /\ \/ DequeueAll \/ PollReturns \/ PenderStore \/ PenderSetEvent
       \/ Swap \/ WfiEvent
    /\ UNCHANGED <<uartVars, busVars, spawned, current>>

Core == RunLoop \/ (\E t \in spawned : PollAny(t)) \/ UartRuns \/ BusRuns

-----------------------------------------------------------------------------
(* Interrupts.  The USB handler has the highest priority; the others are   *)
(* one step.                                                               *)

Wake(t) == IsrWakes(t) \/ (t \in Queued /\ UNCHANGED vars)

UartInterrupt ==
    /\ ~InHandler /\ Handle
    /\ IF HandlerWakes THEN Wake(UartTask) ELSE UNCHANGED vars
    /\ UNCHANGED <<busVars, spawned, current>>

UsbInterrupt ==
    /\ UsbHandler
    /\ IF busWaker /\ ~busWaker' THEN Wake(UsbTask) ELSE UNCHANGED vars
    /\ UNCHANGED <<uartVars, spawned, current>>

FlushTimer ==
    /\ ~InHandler /\ TimerEnds /\ Wake(UartTask)
    /\ UNCHANGED <<busVars, spawned, current>>

\* Interrupts of the application, and interrupts that wake no task.
OtherInterrupt ==
    /\ ~InHandler
    /\ \/ WfiInterrupted
       \/ \E t \in spawned \ {UartTask, UsbTask} : IsrWakes(t)
    /\ UNCHANGED <<uartVars, busVars, spawned, current>>

\* UART lines and USB host.
Environment ==
    /\ \/ UartTask \in spawned /\ (Receive \/ Shift) /\ UNCHANGED busVars
       \/ /\ HostTransfers \/ HostResets \/ HostSuspends \/ HostResumes
          /\ UNCHANGED uartVars
    /\ UNCHANGED <<vars, spawned, current>>

-----------------------------------------------------------------------------
FirmwareInit ==
    /\ spawned \in Images
    /\ Init /\ runQueue = spawned
    /\ UartInit /\ BusInit
    /\ current = NoTask

FirmwareNext ==
    \/ Core \/ Returns
    \/ \E t \in spawned : AppWakes(t)
    \/ ier # {} /\ UartInterrupt
    \/ UsbInterrupt \/ FlushTimer \/ OtherInterrupt
    \/ Environment

\* The core executes instructions, tasks that can return do, pending interrupts
\* are taken, the transmitter sends and timers end.  Of the receiver, the host
\* and the UART interrupts IIR does not explain nothing is assumed.
FirmwareSpec ==
    /\ FirmwareInit /\ [][FirmwareNext]_fwVars
    /\ WF_fwVars(Core) /\ SF_fwVars(Returns)
    /\ WF_fwVars(Asserted /\ UartInterrupt) /\ WF_fwVars(UsbInterrupt)
    /\ WF_fwVars(Shift /\ Environment) /\ WF_fwVars(FlushTimer)

-----------------------------------------------------------------------------
\* Only the operation under way has interrupts enabled, the ones its guard
\* will disable: whatever the handler does between the load and the store of a
\* change of IER, and wherever the operation is dropped, none is left enabled
\* that nobody waits for.
UartQuiet ==
    /\ ier \subseteq guard
    /\ op \notin {"none", "flush"} => guard = Mask(op)
    /\ at \in {"idle", "check", "sleep"} => guard = {}
    /\ ~alive => ier = {}

\* A read ends once there is something to read, and write and flush end: no
\* interrupt is lost between the look at the FIFO and the enabling, in IER's
\* read-modify-write, in the waker or in the run queue.
UartOpsEnd ==
    /\ op = "read" /\ rxReady ~> op # "read"
    /\ op = "write" ~> op # "write"
    /\ op = "flush" ~> op # "flush"

\* Every bus event is reported.
BusEventsReported ==
    \A e \in Events : UsbTask \in spawned /\ e \in busEvents ~> e \notin busEvents

\* Once suspensions and resumptions are reported, embassy-usb knows whether
\* the bus is suspended, although poll reports them in the order of their bits,
\* a reset comes first, and the bus changes as it likes.  Two things make the
\* last report wrong, and only until the next change is recorded: a change
\* between the reading of MIS_ST and the clearing of its flag, and one that is
\* recorded while a resumption is unreported.
LastReportTrue ==
    /\ "suspend" \notin uif /\ busEvents \cap {"Suspend", "Resume"} = {}
    /\ ~missed
    => (reported = "Suspend" <=> suspended)

=============================================================================
