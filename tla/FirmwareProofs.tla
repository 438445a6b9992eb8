--------------------------- MODULE FirmwareProofs --------------------------
(***************************************************************************)
(* What holds of the executor holds of every image that runs on it, and    *)
(* the UART leaves no interrupt enabled, and what Bus::poll reported last  *)
(* is the state of the bus, for every set of tasks and images, every size  *)
(* of the FIFO and every number of host events.                            *)
(***************************************************************************)
EXTENDS Firmware, ExecutorProofs

\* The image never changes, and its tasks are tasks of the executor.
ImageIsOfTasks == spawned \subseteq Tasks

\* What is spawned stays in the image.
LEMMA ImageStays == FirmwareSpec => []ImageIsOfTasks
<1>1. FirmwareInit => ImageIsOfTasks
  BY FirmwareAssumption DEF FirmwareInit, ImageIsOfTasks
<1>2. ImageIsOfTasks /\ [FirmwareNext]_fwVars => ImageIsOfTasks'
  <2> SUFFICES ASSUME ImageIsOfTasks, [FirmwareNext]_fwVars PROVE spawned' = spawned
    BY DEF ImageIsOfTasks
  <2>1. CASE Core
    BY <2>1 DEF Core, RunLoop, PollAny, UartRuns, BusRuns
  <2>2. CASE Returns \/ UartInterrupt \/ UsbInterrupt \/ FlushTimer
             \/ OtherInterrupt \/ Environment
    BY <2>2 DEF Returns, UartInterrupt, UsbInterrupt, FlushTimer, OtherInterrupt, Environment
  <2>3. ASSUME NEW t \in spawned, AppWakes(t) PROVE spawned' = spawned
    BY <2>3 DEF AppWakes
  <2>4. CASE UNCHANGED fwVars
    BY <2>4 DEF fwVars
  <2>5. QED BY <2>1, <2>2, <2>3, <2>4 DEF FirmwareNext
<1>3. QED BY <1>1, <1>2, PTL DEF FirmwareSpec

\* Whatever a task, a handler or the outside does is a step of the executor, or
\* none of its business.
LEMMA StepIsExecutors ==
    ASSUME ImageIsOfTasks, [FirmwareNext]_fwVars
    PROVE  [Next]_vars
<1>1. ASSUME NEW t \in Tasks, Wake(t) PROVE [Next]_vars
  BY <1>1 DEF Wake, Next
<1>2. CASE RunLoop
  BY <1>2 DEF RunLoop, Next, Loop
<1>3. ASSUME NEW t \in spawned, PollAny(t) PROVE [Next]_vars
  BY <1>3 DEF PollAny, Next, ImageIsOfTasks
<1>4. CASE UartRuns \/ BusRuns \/ Environment
  BY <1>4 DEF UartRuns, BusRuns, Environment
<1>5. CASE Returns
  BY <1>5 DEF Returns, Next, Loop
<1>6. ASSUME NEW t \in spawned, AppWakes(t) PROVE [Next]_vars
  BY <1>6 DEF AppWakes, Next, ImageIsOfTasks
<1>7. CASE UartInterrupt
  BY <1>7, <1>1, FirmwareAssumption DEF UartInterrupt
<1>8. CASE UsbInterrupt
  BY <1>8, <1>1, FirmwareAssumption DEF UsbInterrupt
<1>9. CASE FlushTimer
  BY <1>9, <1>1, FirmwareAssumption DEF FlushTimer
<1>10. CASE OtherInterrupt
  BY <1>10 DEF OtherInterrupt, Next, ImageIsOfTasks
<1>11. CASE UNCHANGED fwVars
  BY <1>11 DEF fwVars
<1>12. QED
  BY <1>2, <1>3, <1>4, <1>5, <1>6, <1>7, <1>8, <1>9, <1>10, <1>11 DEF FirmwareNext, Core

\* An image is an instance of the executor: its drivers wake tasks only by the
\* pender, and only the executor polls them.
THEOREM FirmwareIsExecutor == FirmwareSpec => Spec
<1>1. FirmwareInit => Init
  BY DEF FirmwareInit
<1>2. ImageIsOfTasks /\ [FirmwareNext]_fwVars => [Next]_vars
  BY StepIsExecutors
<1>3. QED BY <1>1, <1>2, ImageStays, PTL DEF FirmwareSpec, Spec

\* No image sleeps on a task that a driver's handler has woken.
THEOREM FirmwareSleepIsSafe == FirmwareSpec => []NeverSleepsOnWork
BY FirmwareIsExecutor, SleepIsSafe, PTL

-----------------------------------------------------------------------------
(* The UART.                                                               *)

\* Between the load and the store of IER nothing is held that the guard would
\* not disable; outside of an operation there is no guard.
GuardHoldsMask ==
    /\ at \in {"try", "register", "load", "store", "retry", "parked"} =>
           op \in {"read", "write", "flush"} /\ guard = Mask(op)
    /\ at \in {"unload", "unstore"} => op \in {"none", "flush"} \/ guard = Mask(op)
    /\ at \in {"idle", "check", "recheck", "sleep"} => guard = {}
    /\ at \in {"check", "recheck", "sleep"} => op = "flush"
    /\ at = "idle" => op = "none"
    /\ at \in {"store", "unstore"} => loaded \subseteq guard
    /\ at \in {"idle", "check", "recheck", "sleep", "try", "register", "load",
               "store", "retry", "parked", "unload", "unstore"}

QuietInv ==
    /\ GuardHoldsMask
    /\ ier \subseteq guard
    /\ ~alive => at = "idle"

\* Every step of the task that runs an operation keeps the invariant.
LEMMA UartStepQuiet ==
    ASSUME QuietInv, UartStep \/ Resume \/ Cancel \/ TimerEnds
    PROVE  QuietInv'
<1> USE DEF QuietInv, GuardHoldsMask, ioVars
<1>1. ASSUME NEW o \in Ops, Begin(o) PROVE QuietInv'
  BY <1>1, UartAssumption DEF Begin
<1>2. CASE FlushCheck
  BY <1>2 DEF FlushCheck
<1>3. CASE Try \/ Retry
  BY <1>3 DEF Try, Retry, Transfer
<1>4. CASE Register
  BY <1>4 DEF Register
<1>5. CASE EnableLoad
  BY <1>5 DEF EnableLoad
<1>6. CASE EnableStore
  BY <1>6 DEF EnableStore
<1>7. CASE DisableLoad
  BY <1>7 DEF DisableLoad
<1>8. CASE DisableStore
  BY <1>8 DEF DisableStore
<1>9. CASE DropUart
  BY <1>9 DEF DropUart
<1>10. CASE Resume
  BY <1>10 DEF Resume
<1>11. CASE Cancel
  BY <1>11 DEF Cancel
<1>12. CASE TimerEnds
  BY <1>12 DEF TimerEnds
<1>13. QED
  BY <1>1, <1>2, <1>3, <1>4, <1>5, <1>6, <1>7, <1>8, <1>9, <1>10, <1>11, <1>12 DEF UartStep

\* So does everything else: the handler only disables.
LEMMA QuietStep ==
    ASSUME QuietInv, [FirmwareNext]_fwVars
    PROVE  QuietInv'
<1>1. ASSUME UNCHANGED uartVars PROVE QuietInv'
  BY <1>1 DEF QuietInv, GuardHoldsMask, uartVars, ioVars
<1>2. CASE UartRuns
  BY <1>2, UartStepQuiet DEF UartRuns
<1>3. ASSUME NEW t \in spawned, PollAny(t) PROVE QuietInv'
  BY <1>3, <1>1, UartStepQuiet DEF PollAny
<1>4. CASE RunLoop \/ BusRuns
  BY <1>4, <1>1 DEF RunLoop, BusRuns
<1>5. CASE Returns \/ UsbInterrupt \/ OtherInterrupt
  BY <1>5, <1>1 DEF Returns, UsbInterrupt, OtherInterrupt
<1>6. ASSUME NEW t \in spawned, AppWakes(t) PROVE QuietInv'
  BY <1>6, <1>1 DEF AppWakes
<1>7. CASE UartInterrupt
  BY <1>7 DEF UartInterrupt, Handle, QuietInv, GuardHoldsMask
<1>8. CASE FlushTimer
  BY <1>8, UartStepQuiet DEF FlushTimer
<1>9. CASE Environment
  <2>1. CASE Receive \/ Shift
    BY <2>1 DEF Receive, Shift, QuietInv, GuardHoldsMask
  <2>2. QED BY <1>9, <2>1, <1>1 DEF Environment
<1>10. CASE UNCHANGED fwVars
  BY <1>10, <1>1 DEF fwVars
<1>11. QED
  BY <1>2, <1>3, <1>4, <1>5, <1>6, <1>7, <1>8, <1>9, <1>10 DEF FirmwareNext, Core

\* Wherever an operation ends or is dropped, and whenever the handler runs
\* between a load and a store of IER, only the operation under way has its
\* interrupts enabled.
THEOREM UartIsQuiet == FirmwareSpec => []UartQuiet
<1>1. FirmwareInit => QuietInv
  BY DEF FirmwareInit, UartInit, QuietInv, GuardHoldsMask
<1>2. QuietInv /\ [FirmwareNext]_fwVars => QuietInv'
  BY QuietStep
<1>3. QuietInv => UartQuiet
  BY DEF QuietInv, GuardHoldsMask, UartQuiet
<1>4. QED BY <1>1, <1>2, <1>3, PTL DEF FirmwareSpec

-----------------------------------------------------------------------------
(* The bus events.                                                         *)

\* What embassy-usb will believe once poll has reported all that is flagged:
\* bits are taken in order, a resumption after a suspension.
Told ==
    CASE "Resume" \in busEvents -> "Resume"
      [] "Resume" \notin busEvents /\ "Suspend" \in busEvents -> "Suspend"
      [] OTHER -> reported

\* A change of the bus state is still with the hardware, or it will be told, or
\* it was missed.
ToldIsTrue == "suspend" \notin uif /\ ~missed => (Told = "Suspend" <=> suspended)

\* No suspension is flagged behind a resumption that poll has loaded, so what it
\* has loaded stays the truth up to the event it takes.
ResumeIsLast ==
    ~missed /\ "Resume" \in seen /\ "Suspend" \in busEvents => "Suspend" \in seen

\* Only poll clears events, one at a time.
SeenIsFlagged ==
    /\ seen \subseteq busEvents /\ busEvents \subseteq Events
    /\ busAt = "take" => seen # {}

\* Nothing happens on the bus until poll has reported the power and the bus is
\* enabled, once: the flags Bus::enable clears are none of this session.
EnabledOnce ==
    /\ ~enabled => uif = {} /\ ~suspended
    /\ busAt = "enable" => ~enabled /\ "PowerDetected" \notin busEvents
    /\ "PowerDetected" \in busEvents => ~enabled

BusInv == ToldIsTrue /\ ResumeIsLast /\ SeenIsFlagged /\ EnabledOnce

\* What the host does to the bus, at any point of the handler and of poll: the
\* flag is raised with every change.
LEMMA HostStepTold ==
    ASSUME BusInv, HostTransfers \/ HostResets \/ HostSuspends \/ HostResumes
    PROVE  BusInv'
<1>1. UNCHANGED <<enabled, isr, busEvents, seen, busAt, reported, missed>> /\ enabled
  BY DEF HostTransfers, HostResets, HostSuspends, HostResumes, Raise
<1>2. Told' = Told
  BY <1>1 DEF Told
<1>3. "suspend" \in uif' \/ (suspended' <=> suspended)
  BY Zenon DEF HostTransfers, HostResets, HostSuspends, HostResumes, Raise
<1>4. uif \subseteq uif'
  BY DEF HostTransfers, HostResets, HostSuspends, HostResumes, Raise
<1>5. ToldIsTrue'
  BY <1>1, <1>2, <1>3, <1>4 DEF BusInv, ToldIsTrue
<1>6. QED
  BY <1>1, <1>5 DEF BusInv, ResumeIsLast, SeenIsFlagged, EnabledOnce

\* The handler: a reset comes before the flag that the bus was suspended, and
\* what it recorded is the last word unless the bus had changed by the time the
\* flag was cleared, or a resumption will be told after it.
LEMMA HandlerTold ==
    ASSUME BusInv, UsbHandler
    PROVE  BusInv'
<1> USE DEF BusInv, ToldIsTrue, ResumeIsLast, SeenIsFlagged, EnabledOnce, Told, Events
<1>1. CASE OnReset
  BY <1>1 DEF UsbHandler, OnReset
<1>2. CASE OnTransfer
  BY <1>2 DEF UsbHandler, OnTransfer
<1>3. CASE EnterSuspend \/ ReadSuspend
  <2>1. UNCHANGED <<uif, suspended, enabled, busEvents, seen, busAt, reported, missed>>
    BY <1>3 DEF EnterSuspend, ReadSuspend
  <2>2. QED BY <2>1
<1>4. CASE ClearSuspend
  BY <1>4 DEF UsbHandler, ClearSuspend
<1>5. QED BY <1>1, <1>2, <1>3, <1>4 DEF UsbHandler

\* Bus::poll and Bus::enable.
LEMMA BusStepTold ==
    ASSUME BusInv, BusStep \/ ResumeBus
    PROVE  BusInv'
<1> USE DEF BusInv, ToldIsTrue, ResumeIsLast, SeenIsFlagged, EnabledOnce
<1>1. CASE RegisterBus \/ ResumeBus
  BY <1>1 DEF RegisterBus, ResumeBus, Told
<1>2. CASE LoadEvents
  BY <1>2 DEF LoadEvents, Told
<1>3. CASE TakeEvent
  <2>1. /\ busEvents' = busEvents \ {First} /\ seen' = {}
        /\ UNCHANGED <<uif, suspended, enabled, missed>>
    BY <1>3 DEF TakeEvent
  <2>2. ~missed => Told' = Told
    BY <1>3 DEF TakeEvent, First, Told, Events
  <2>3. First = "PowerDetected" => "PowerDetected" \in busEvents
    <3>1. seen # {} /\ seen \subseteq busEvents /\ busEvents \subseteq Events
      BY <1>3 DEF TakeEvent
    <3>2. CASE "PowerDetected" \in seen
      BY <3>1, <3>2
    <3>3. CASE "PowerDetected" \notin seen
      <4>1. "Reset" \in seen \/ "Suspend" \in seen \/ seen = {"Resume"}
        BY <3>1, <3>3 DEF Events
      <4>2. QED BY <4>1 DEF First
    <3>4. QED BY <3>2, <3>3
  <2>4. EnabledOnce'
    BY <1>3, <2>1, <2>3 DEF TakeEvent
  <2>5. busAt' # "take"
    BY <1>3 DEF TakeEvent
  <2>6. QED BY <2>1, <2>2, <2>4, <2>5
<1>4. CASE EnableBus
  BY <1>4 DEF EnableBus, Told
<1>5. QED BY <1>1, <1>2, <1>3, <1>4 DEF BusStep

\* Everything else leaves the bus alone.
LEMMA ToldStep ==
    ASSUME BusInv, [FirmwareNext]_fwVars
    PROVE  BusInv'
<1>1. ASSUME UNCHANGED busVars PROVE BusInv'
  BY <1>1
  DEF busVars, BusInv, ToldIsTrue, ResumeIsLast, SeenIsFlagged, EnabledOnce, Told
<1>2. CASE BusRuns
  BY <1>2, BusStepTold DEF BusRuns
<1>3. ASSUME NEW t \in spawned, PollAny(t) PROVE BusInv'
  BY <1>3, <1>1, BusStepTold DEF PollAny
<1>4. CASE RunLoop \/ UartRuns
  BY <1>4, <1>1 DEF RunLoop, UartRuns
<1>5. CASE Returns \/ UartInterrupt \/ FlushTimer \/ OtherInterrupt
  BY <1>5, <1>1 DEF Returns, UartInterrupt, FlushTimer, OtherInterrupt
<1>6. ASSUME NEW t \in spawned, AppWakes(t) PROVE BusInv'
  BY <1>6, <1>1 DEF AppWakes
<1>7. CASE UsbInterrupt
  BY <1>7, HandlerTold DEF UsbInterrupt
<1>8. CASE Environment
  BY <1>8, <1>1, HostStepTold DEF Environment
<1>9. CASE UNCHANGED fwVars
  BY <1>9, <1>1 DEF fwVars
<1>10. QED
  BY <1>2, <1>3, <1>4, <1>5, <1>6, <1>7, <1>8, <1>9 DEF FirmwareNext, Core

\* However suspensions, resumptions, resets and transfers fall between the steps
\* of the handler and of Bus::poll, what poll reported last is the state of the
\* bus, until a change falls between the reading of MIS_ST and the clearing of
\* its flag or is recorded beside an unreported resumption; and it is so again
\* once the next change is.
THEOREM ReportsAreTrue == FirmwareSpec => []LastReportTrue
<1>1. FirmwareInit => BusInv
  BY DEF FirmwareInit, BusInit, BusInv, ToldIsTrue, ResumeIsLast, SeenIsFlagged,
         EnabledOnce, Told, Events
<1>2. BusInv /\ [FirmwareNext]_fwVars => BusInv'
  BY ToldStep
<1>3. BusInv => LastReportTrue
  BY DEF BusInv, ToldIsTrue, Told, LastReportTrue
<1>4. QED BY <1>1, <1>2, <1>3, PTL DEF FirmwareSpec

=============================================================================
