------------------------------ MODULE Executor -----------------------------
(***************************************************************************)
(* The thread executor of src/src/executor.rs: Executor::run, the pender   *)
(* embassy-executor calls, and the PFIC event latch the core sleeps on.    *)
(* The run queue is that of embassy_executor::raw (external): a task is in *)
(* it at most once, poll() takes the whole queue and then polls its tasks, *)
(* and the pender is called when a task enters an empty queue.             *)
(*                                                                         *)
(* An interrupt handler wakes a task in one step, between any two steps of *)
(* the thread; a wake-up made by a running task can be interrupted.        *)
(***************************************************************************)
CONSTANT Tasks

VARIABLES
    workPending, \* WORK_PENDING
    event,       \* the PFIC event latch: SETEVENT sets it, wfi consumes it
    runQueue,    \* tasks enqueued and not yet taken by poll()
    batch,       \* tasks this poll() has taken and not yet polled
    pc           \* where the thread is

vars == <<workPending, event, runQueue, batch, pc>>

\* "poll": at raw::Executor::poll; "batch": between two tasks of it; "task":
\* in a task; "store", "setEvent": in the pender the task called; "swap": at
\* the WORK_PENDING.swap; "wfi": at or in the wfi instruction.
Pcs == {"poll", "batch", "task", "store", "setEvent", "swap", "wfi"}

\* The queue is intrusive: a task has one link, so it is queued at most once.
TypeOK ==
    /\ workPending \in BOOLEAN /\ event \in BOOLEAN
    /\ runQueue \subseteq Tasks /\ batch \subseteq Tasks
    /\ runQueue \cap batch = {}
    /\ pc \in Pcs

\* `init` has spawned tasks; spawning calls the pender like any wake-up.
Init ==
    /\ runQueue \in SUBSET Tasks /\ batch = {}
    /\ workPending = (runQueue # {}) /\ event = (runQueue # {})
    /\ pc = "poll"

Queued == runQueue \cup batch

-----------------------------------------------------------------------------
(* raw::Executor::poll.                                                    *)

\* Mutant: poll() walks the queue without taking it.
DequeueAllKeeps ==
    /\ pc = "poll"
    /\ batch' = runQueue
    /\ pc' = "batch"
    /\ UNCHANGED <<workPending, event, runQueue>>

DequeueAll ==
    /\ pc = "poll"
    /\ batch' = runQueue /\ runQueue' = {}
    /\ pc' = "batch"
    /\ UNCHANGED <<workPending, event>>

\* The task is marked not queued before it runs: it may wake itself.
PollTask(t) ==
    /\ pc = "batch" /\ t \in batch
    /\ batch' = batch \ {t}
    /\ pc' = "task"
    /\ UNCHANGED <<workPending, event, runQueue>>

TaskReturns ==
    /\ pc = "task"
    /\ pc' = "batch"
    /\ UNCHANGED <<workPending, event, runQueue, batch>>

PollReturns ==
    /\ pc = "batch" /\ batch = {}
    /\ pc' = "swap"
    /\ UNCHANGED <<workPending, event, runQueue, batch>>

-----------------------------------------------------------------------------
(* Wake-ups.                                                               *)

\* A running task wakes a task, itself included.
TaskWakes(t) ==
    /\ pc = "task" /\ t \notin Queued
    /\ runQueue' = runQueue \cup {t}
    /\ pc' = IF runQueue = {} THEN "store" ELSE "task"
    /\ UNCHANGED <<workPending, event, batch>>

\* The pender, in thread context: the store ...
PenderStore ==
    /\ pc = "store"
    /\ workPending' = TRUE
    /\ pc' = "setEvent"
    /\ UNCHANGED <<event, runQueue, batch>>

\* ... and the read-modify-write of SCTLR, whose SETEVENT is write-one.
PenderSetEvent ==
    /\ pc = "setEvent"
    /\ event' = TRUE
    /\ pc' = "task"
    /\ UNCHANGED <<workPending, runQueue, batch>>

\* Mutant: the pender only stores the flag.
IsrWakesNoEvent(t) ==
    /\ t \notin Queued
    /\ runQueue' = runQueue \cup {t}
    /\ workPending' = (workPending \/ runQueue = {})
    /\ UNCHANGED <<event, batch, pc>>

\* An interrupt handler wakes a task.
IsrWakes(t) ==
    /\ t \notin Queued
    /\ runQueue' = runQueue \cup {t}
    /\ workPending' = (workPending \/ runQueue = {})
    /\ event' = (event \/ runQueue = {})
    /\ UNCHANGED <<batch, pc>>

-----------------------------------------------------------------------------
(* The rest of the loop of Executor::run.                                  *)

Swap ==
    /\ pc = "swap"
    /\ workPending' = FALSE
    /\ pc' = IF workPending THEN "poll" ELSE "wfi"
    /\ UNCHANGED <<event, runQueue, batch>>

\* wfi as wait-for-event: it completes at once if the event is latched, and
\* otherwise the core sleeps until it is ...
WfiEvent ==
    /\ pc = "wfi" /\ event
    /\ event' = FALSE
    /\ pc' = "poll"
    /\ UNCHANGED <<workPending, runQueue, batch>>

\* ... or until an interrupt is taken that wakes no task.
WfiInterrupted ==
    /\ pc = "wfi" /\ ~event
    /\ pc' = "poll"
    /\ UNCHANGED <<workPending, event, runQueue, batch>>

Loop == DequeueAll \/ TaskReturns \/ PollReturns \/ PenderStore
        \/ PenderSetEvent \/ Swap \/ WfiEvent

Next ==
    \/ Loop \/ WfiInterrupted
    \/ \E t \in Tasks : PollTask(t) \/ TaskWakes(t) \/ IsrWakes(t)

Spec == Init /\ [][Next]_vars

\* The core executes instructions and the polled tasks return; nothing is
\* assumed of interrupts.
FairSpec == Spec /\ WF_vars(Loop \/ \E t \in Tasks : PollTask(t))

-----------------------------------------------------------------------------
\* The core never sleeps while a task waits in the run queue: the swap saw
\* the wake-up, or the event latch ends the wfi that races with it.
NeverSleepsOnWork == pc = "wfi" /\ ~event => Queued = {}

Abstract == INSTANCE TaskScheduling WITH ready <- Queued

\* Every step wakes one task, polls one task, or changes neither: no wake-up
\* is lost or made up, and a task is queued once however often it is woken.
ImplementsScheduling == Abstract!Spec

\* A woken task is polled, even if no further interrupt ever comes.
WokenTasksArePolled == Abstract!FairSpec

=============================================================================
