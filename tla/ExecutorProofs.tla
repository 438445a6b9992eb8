--------------------------- MODULE ExecutorProofs --------------------------
(***************************************************************************)
(* The executor never sleeps on work and implements TaskScheduling, for    *)
(* every set of tasks.  WakeupIsRecorded carries the argument: it says     *)
(* where each wake-up that skipped the pender is still remembered.         *)
(***************************************************************************)
EXTENDS Executor, TLAPS

-----------------------------------------------------------------------------
(* What makes NeverSleepsOnWork inductive.                                 *)

\* Whoever finds the queue non-empty and skips the pender may rely on one that
\* has run or is about to: up to the swap the flag holds the wake-up, after
\* it the event latch does.
WakeupIsRecorded ==
    runQueue # {} =>
        \/ pc \in {"poll", "store"}
        \/ pc \in {"batch", "task", "setEvent", "swap"} /\ workPending
        \/ pc = "wfi" /\ event

\* poll() leaves nothing of its batch behind.
BatchIsDrained == pc \in {"poll", "swap", "wfi"} => batch = {}

\* Variables keep their types and no task is queued twice, whoever wakes it.
THEOREM TypeCorrect == Spec => []TypeOK
<1>1. Init => TypeOK
  BY DEF Init, TypeOK, Pcs
<1>2. TypeOK /\ [Next]_vars => TypeOK'
  <2> SUFFICES ASSUME TypeOK, [Next]_vars PROVE TypeOK'
    OBVIOUS
  <2> USE DEF TypeOK, Pcs
  <2>1. CASE Loop
    BY <2>1 DEF Loop, DequeueAll, TaskReturns, PollReturns, PenderStore,
                PenderSetEvent, Swap, WfiEvent
  <2>2. CASE WfiInterrupted
    BY <2>2 DEF WfiInterrupted
  <2>3. ASSUME NEW t \in Tasks, PollTask(t) \/ TaskWakes(t) \/ IsrWakes(t)
        PROVE  TypeOK'
    BY <2>3 DEF PollTask, TaskWakes, IsrWakes, Queued
  <2>4. CASE UNCHANGED vars
    BY <2>4 DEF vars
  <2>5. QED BY <2>1, <2>2, <2>3, <2>4 DEF Next
<1>3. QED BY <1>1, <1>2, PTL DEF Spec

\* The inductive invariant: a wake-up in the queue is recorded somewhere the
\* thread will look, and poll() has no tasks left when it returns.
IInv == TypeOK /\ WakeupIsRecorded /\ BatchIsDrained

\* It holds initially and every step of the loop or of a wake-up preserves it.
LEMMA InvariantHolds == Spec => []IInv
<1>1. Init => IInv
  BY DEF Init, IInv, TypeOK, Pcs, WakeupIsRecorded, BatchIsDrained
<1>2. TypeOK /\ TypeOK' /\ IInv /\ [Next]_vars => IInv'
  <2> SUFFICES ASSUME TypeOK, TypeOK', IInv, [Next]_vars
               PROVE  WakeupIsRecorded' /\ BatchIsDrained'
    BY DEF IInv
  <2> USE DEF IInv, TypeOK, Pcs, WakeupIsRecorded, BatchIsDrained
  <2>1. CASE DequeueAll
    BY <2>1 DEF DequeueAll
  <2>2. CASE TaskReturns \/ PollReturns
    BY <2>2 DEF TaskReturns, PollReturns
  <2>3. CASE PenderStore \/ PenderSetEvent
    BY <2>3 DEF PenderStore, PenderSetEvent
  <2>4. CASE Swap
    BY <2>4 DEF Swap
  <2>5. CASE WfiEvent \/ WfiInterrupted
    BY <2>5 DEF WfiEvent, WfiInterrupted
  <2>6. ASSUME NEW t \in Tasks, PollTask(t) PROVE WakeupIsRecorded' /\ BatchIsDrained'
    BY <2>6 DEF PollTask
  <2>7. ASSUME NEW t \in Tasks, TaskWakes(t) PROVE WakeupIsRecorded' /\ BatchIsDrained'
    BY <2>7 DEF TaskWakes
  <2>8. ASSUME NEW t \in Tasks, IsrWakes(t) PROVE WakeupIsRecorded' /\ BatchIsDrained'
    BY <2>8 DEF IsrWakes
  <2>9. CASE UNCHANGED vars
    BY <2>9 DEF vars
  <2>10. QED
    BY <2>1, <2>2, <2>3, <2>4, <2>5, <2>6, <2>7, <2>8, <2>9 DEF Next, Loop
<1>3. QED BY <1>1, <1>2, TypeCorrect, PTL DEF Spec

\* A wake-up that races with the last flag check ends the wait for an event:
\* the core does not sleep while the run queue holds a task.
THEOREM SleepIsSafe == Spec => []NeverSleepsOnWork
<1>1. IInv => NeverSleepsOnWork
  BY DEF IInv, TypeOK, Pcs, WakeupIsRecorded, BatchIsDrained, NeverSleepsOnWork, Queued
<1>2. QED BY <1>1, InvariantHolds, PTL

\* Every step of the executor is a wake-up, a poll or a stuttering step of the
\* abstract scheduler: no wake-up is dropped between queue, batch and task.
THEOREM SchedulingImplemented == Spec => ImplementsScheduling
<1>1. Init => Abstract!Init
  BY DEF Init, Abstract!Init, Queued
<1>2. IInv /\ [Next]_vars => [Abstract!Next]_Queued
  <2> SUFFICES ASSUME IInv, [Next]_vars PROVE [Abstract!Next]_Queued
    OBVIOUS
  <2> USE DEF IInv, TypeOK, BatchIsDrained, Queued
  <2>1. CASE DequeueAll
    BY <2>1 DEF DequeueAll
  <2>2. CASE TaskReturns \/ PollReturns \/ PenderStore \/ PenderSetEvent \/ Swap
             \/ WfiEvent \/ WfiInterrupted \/ UNCHANGED vars
    BY <2>2 DEF TaskReturns, PollReturns, PenderStore, PenderSetEvent, Swap,
                WfiEvent, WfiInterrupted, vars
  <2>3. ASSUME NEW t \in Tasks, PollTask(t) PROVE Abstract!Next
    BY <2>3 DEF PollTask, Abstract!Next, Abstract!Run
  <2>4. ASSUME NEW t \in Tasks, TaskWakes(t) \/ IsrWakes(t) PROVE Abstract!Next
    BY <2>4 DEF TaskWakes, IsrWakes, Abstract!Next, Abstract!Wake
  <2>5. QED BY <2>1, <2>2, <2>3, <2>4 DEF Next, Loop
<1>3. QED
  BY <1>1, <1>2, InvariantHolds, PTL DEF Spec, ImplementsScheduling, Abstract!Spec

=============================================================================
