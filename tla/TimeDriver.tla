----------------------------- MODULE TimeDriver ----------------------------
(***************************************************************************)
(* The SysTick time driver of src/src/time.rs: the counter read of each    *)
(* chip, set_alarm, the SysTick handler, and schedule_wake as the Timer    *)
(* futures of embassy-time call it.  The timer queue is that of            *)
(* embassy-time-queue-utils (external).                                    *)
(*                                                                         *)
(* Time is the counter of the hardware.  Every step of the driver has its  *)
(* effect when it begins and then takes MinStep to MaxStep counts, in      *)
(* which the counter may match CMP: the counter does not wait for the      *)
(* code, nor for a critical section.                                       *)
(***************************************************************************)
EXTENDS Integers, FiniteSets, FiniteSetsExt

CONSTANTS
    Chips,         \* the chips to check: a subset of {"ch582", "ch585"}
    Num, Den,      \* counts per tick, by chip: 60 / 1 and 312 / 5 in the code
    Period,        \* one more than the largest value of a register word
    Tasks,
    QueueSize,     \* capacity of the timer queue
    Deadlines,     \* deadlines the tasks ask for, in ticks
    MinStep, MaxStep,
    MaxLatency,    \* counts the handler can be held off by other critical
                   \* sections and handlers
    RolloverInArm, \* TRUE: the CH585 counter may roll over between the read of
                   \* set_alarm and the clearing of the flag
    FirstRead,     \* when the program first reads the clock; 0: not yet
    Horizon        \* bound on the counter, below the largest u64

ASSUME TimeAssumption ==
    /\ Chips \subseteq {"ch582", "ch585"}
    /\ Num \in [Chips -> Nat \ {0}] /\ Den \in [Chips -> Nat \ {0}]
    /\ Period \in Nat \ {0, 1} /\ QueueSize \in Nat \ {0}
    /\ Deadlines \subseteq 0 .. Period * Period - 1
    /\ MinStep \in Nat \ {0} /\ MaxStep \in Nat /\ MinStep <= MaxStep
    /\ MaxLatency \in Nat /\ RolloverInArm \in BOOLEAN
    /\ Horizon \in 0 .. Period * Period - 2
    /\ FirstRead \in 0 .. Period - 1 /\ FirstRead <= Horizon

VARIABLES
    chip,          \* the chip the driver is built for
    cnt,           \* CNT, never wrapped: what the hardware has counted
    cmp,           \* CMP: two words on CH582, one on CH585
    flag,          \* CNTIF
    stie,          \* STIE
    pend,          \* SysTick pending in the PFIC
    late,          \* counts the pending handler has been held off for
    epoch,         \* CH585_COUNTER_EPOCH
    queue,         \* deadline of each task in the timer queue
    timer,         \* deadline of each task that awaits a Timer
    woken,         \* tasks to poll
    rd,            \* the read of the clock a poll has under way
    pc,            \* where the driver is: "thread" is outside of it
    next, compare  \* locals of dispatch and set_alarm

hwVars == <<cnt, cmp, flag, stie, pend>>
driverVars == <<epoch, queue, pc, next, compare>>
taskVars == <<timer, woken, rd>>
vars == <<chip, late, hwVars, driverVars, taskVars>>

Is585 == chip = "ch585"

\* The largest u64, on which the arithmetic saturates.
MaxU64 == Period * Period - 1
Saturate(n) == IF n > MaxU64 THEN MaxU64 ELSE n

-----------------------------------------------------------------------------
(* Conversions and the counter.                                            *)

CounterToTicks(c) ==
    (c \div Num[chip]) * Den[chip] + ((c % Num[chip]) * Den[chip]) \div Num[chip]

TicksToCounterCeil(t) ==
    Saturate((t \div Den[chip]) * Num[chip]
             + ((t % Den[chip]) * Num[chip] + Den[chip] - 1) \div Den[chip])

\* The compare value of a deadline: one count after its tick has begun.
Target(at) == Saturate(TicksToCounterCeil(at) + 1)

\* Ch585CounterEpoch::observe.
Observe(low) ==
    [lastLow |-> low,
     high |-> IF low < epoch.lastLow THEN (epoch.high + 1) % Period ELSE epoch.high]

Value(reading) == reading.high * Period + reading.lastLow

\* What read_counter_stable returns in a critical section.  On CH582 its three
\* loads are one here: NowIsTrue shows of the interruptible read below that it
\* returns the counter at the second load.
Counter == IF Is585 THEN Value(Observe(cnt % Period)) ELSE cnt
ReadCounter == epoch' = IF Is585 THEN Observe(cnt % Period) ELSE epoch
Now == CounterToTicks(Counter)

\* ch585_alarm_counter: the deadline itself, or the next rollover if its low
\* word comes first in this epoch or the one after next.  The shift drops what
\* does not fit a u64.
AlarmCounter(target, now) ==
    LET thisEpoch == now \div Period
        itsEpoch == target \div Period
    IN  IF \/ itsEpoch = thisEpoch
           \/ itsEpoch = thisEpoch + 1 /\ target % Period <= now % Period
        THEN target
        ELSE ((thisEpoch + 1) % Period) * Period

-----------------------------------------------------------------------------
(* Time.                                                                   *)

Matches(n, c) == IF Is585 THEN n % Period = c ELSE n = c

\* d counts pass after CMP, CNTIF, the pending bit and STIE were set to c, f, p
\* and s; a match latches CNTIF, and CNTIF raises the interrupt STIE admits.
Elapse(d, c, f, p, s) ==
    /\ cnt + d <= Horizon
    /\ cnt' = cnt + d
    /\ cmp' = c /\ stie' = s
    /\ flag' = (f \/ \E n \in cnt + 1 .. cnt + d : Matches(n, c))
    /\ pend' = (p \/ (s /\ flag'))

Code(c, f, p, s) == (\E d \in MinStep .. MaxStep : Elapse(d, c, f, p, s)) /\ UNCHANGED chip

\* Code that leaves the SysTick registers alone.
OtherCode == Code(cmp, flag, pend, stie)

NoRollover == RolloverInArm \/ ~Is585 \/ cnt' \div Period = cnt \div Period

\* The thread computes or sleeps, or holds a pending handler off.
Idle ==
    /\ pc = "thread"
    /\ \E d \in {1, MaxStep} :
        /\ pend => late + d <= MaxLatency
        /\ Elapse(d, cmp, flag, pend, stie)
        /\ late' = IF pend THEN late + d ELSE 0
    /\ UNCHANGED <<chip, driverVars, taskVars>>

-----------------------------------------------------------------------------
(* set_alarm and the loop around it, the same in dispatch and in           *)
(* schedule_wake: a critical section from "expire" to "enable".            *)

\* queue.next_expiration(now): expired entries are taken out and woken.
Expire ==
    /\ pc = "expire"
    /\ ReadCounter
    /\ LET due == {t \in DOMAIN queue : queue[t] <= Now}
           rest == DOMAIN queue \ due
       IN  /\ queue' = [t \in rest |-> queue[t]]
           /\ woken' = woken \cup (due \cap DOMAIN timer)
           /\ next' = IF rest = {} THEN MaxU64 ELSE Min({queue[t] : t \in rest})
    /\ OtherCode
    /\ pc' = "off"
    /\ UNCHANGED <<late, timer, rd, compare>>

\* set_alarm: STIE off; a deadline that has come is not armed.
AlarmPassed ==
    /\ pc = "off" /\ next <= Now
    /\ ReadCounter
    /\ Code(cmp, FALSE, FALSE, FALSE)
    /\ pc' = "expire"
    /\ UNCHANGED <<late, queue, taskVars, next, compare>>

AlarmAhead ==
    /\ pc = "off" /\ next > Now
    /\ ReadCounter
    /\ Code(cmp, flag, pend, FALSE)
    /\ pc' = "compute"
    /\ UNCHANGED <<late, queue, taskVars, next, compare>>

\* The compare value.  On CH585 it depends on a third read of the counter.
Compute ==
    /\ pc = "compute"
    /\ ReadCounter
    /\ compare' = IF Is585 THEN AlarmCounter(Target(next), Counter) ELSE Target(next)
    /\ OtherCode /\ NoRollover
    /\ pc' = IF Is585 THEN "low" ELSE "high"
    /\ UNCHANGED <<late, queue, taskVars, next>>

\* write_counter_register: the high word and then the low one ...
WriteHigh ==
    /\ pc = "high"
    /\ Code((compare \div Period) * Period + (cmp % Period), flag, pend, stie)
    /\ pc' = "low"
    /\ UNCHANGED <<late, epoch, queue, taskVars, next, compare>>

\* Mutant: the value is not cut to the word.
WriteLowWide ==
    /\ pc = "low"
    /\ Code(IF Is585 THEN compare
            ELSE (cmp \div Period) * Period + (compare % Period), flag, pend, stie)
    /\ NoRollover
    /\ pc' = "clear"
    /\ UNCHANGED <<late, epoch, queue, taskVars, next, compare>>

\* ... which on CH585 is the only one.
WriteLow ==
    /\ pc = "low"
    /\ Code((IF Is585 THEN 0 ELSE (cmp \div Period) * Period) + (compare % Period),
            flag, pend, stie)
    /\ NoRollover
    /\ pc' = "clear"
    /\ UNCHANGED <<late, epoch, queue, taskVars, next, compare>>

\* clear_systick_pending
Clear ==
    /\ pc = "clear"
    /\ Code(cmp, FALSE, FALSE, stie)
    /\ pc' = "check"
    /\ UNCHANGED <<late, epoch, queue, taskVars, next, compare>>

\* The deadline may have come while it was armed; then the loop goes round.
CheckPassed ==
    /\ pc = "check" /\ next <= Now
    /\ ReadCounter
    /\ OtherCode
    /\ pc' = "expire"
    /\ UNCHANGED <<late, queue, taskVars, next, compare>>

\* Mutant: no second look at the clock.
CheckAheadBlind ==
    /\ pc = "check"
    /\ ReadCounter
    /\ OtherCode
    /\ pc' = "enable"
    /\ UNCHANGED <<late, queue, taskVars, next, compare>>

CheckAhead ==
    /\ pc = "check" /\ next > Now
    /\ ReadCounter
    /\ OtherCode
    /\ pc' = "enable"
    /\ UNCHANGED <<late, queue, taskVars, next, compare>>

Enable ==
    /\ pc = "enable"
    /\ Code(cmp, flag, pend, TRUE)
    /\ pc' = "thread" /\ next' = 0 /\ compare' = 0
    /\ UNCHANGED <<late, epoch, queue, taskVars>>

\* The handler, up to dispatch.
SysTick ==
    /\ pc = "thread" /\ pend
    /\ Code(cmp, FALSE, FALSE, FALSE)
    /\ late' = 0
    /\ pc' = "expire"
    /\ UNCHANGED <<epoch, queue, taskVars, next, compare>>

SetAlarm == AlarmPassed \/ AlarmAhead \/ Compute \/ WriteHigh \/ WriteLow
            \/ Clear \/ CheckPassed \/ CheckAhead \/ Enable

-----------------------------------------------------------------------------
(* Tasks.  A Timer is polled by its task: it reads the clock, and ends or   *)
(* enters the timer queue.                                                 *)

\* Deadlines in which that of task t is at.
Put(deadlines, t, at) ==
    [u \in {t} \cup DOMAIN deadlines |-> IF u = t THEN at ELSE deadlines[u]]
Without(deadlines, t) == [u \in DOMAIN deadlines \ {t} |-> deadlines[u]]

Unmasked == pc = "thread" /\ ~pend
NoRead == [stage |-> "idle", task |-> "none", high |-> 0, lastLow |-> 0, from |-> 0]

\* A task awaits a deadline ahead (one behind would end at its first poll).
StartTimer(t, at) ==
    /\ Unmasked /\ rd = NoRead
    /\ t \notin DOMAIN timer /\ at > CounterToTicks(cnt)
    /\ timer' = Put(timer, t, at)
    /\ woken' = woken \cup {t}
    /\ OtherCode
    /\ UNCHANGED <<late, driverVars, rd>>

\* A Timer is dropped; its entry stays in the queue.
CancelTimer(t) ==
    /\ Unmasked /\ rd = NoRead
    /\ t \in DOMAIN timer
    /\ timer' = Without(timer, t)
    /\ woken' = woken \ {t}
    /\ OtherCode
    /\ UNCHANGED <<late, driverVars, rd>>

\* The poll begins to read the clock: CH585 in a critical section, CH582 in
\* three loads.
PollTimer(t) ==
    /\ Unmasked /\ rd = NoRead
    /\ t \in woken
    /\ LET seen == Observe(cnt % Period)
       IN  rd' = IF Is585
                 THEN [stage |-> "decide", task |-> t, high |-> seen.high,
                       lastLow |-> seen.lastLow, from |-> cnt]
                 ELSE [NoRead EXCEPT !.stage = "high", !.task = t, !.from = cnt]
    /\ ReadCounter
    /\ woken' = woken \ {t}
    /\ OtherCode
    /\ UNCHANGED <<late, timer, queue, pc, next, compare>>

ReadHigh ==
    /\ Unmasked /\ rd.stage = "high"
    /\ rd' = [rd EXCEPT !.stage = "low", !.high = cnt \div Period]
    /\ OtherCode
    /\ UNCHANGED <<late, driverVars, timer, woken>>

ReadLow ==
    /\ Unmasked /\ rd.stage = "low"
    /\ rd' = [rd EXCEPT !.stage = "again", !.lastLow = cnt % Period]
    /\ OtherCode
    /\ UNCHANGED <<late, driverVars, timer, woken>>

\* Mutant: the high word is not compared.
ReadHighAgainBlind ==
    /\ Unmasked /\ rd.stage = "again"
    /\ rd' = [rd EXCEPT !.stage = "decide"]
    /\ OtherCode
    /\ UNCHANGED <<late, driverVars, timer, woken>>

ReadHighAgain ==
    /\ Unmasked /\ rd.stage = "again"
    /\ rd' = [rd EXCEPT !.stage = IF cnt \div Period = rd.high THEN "decide" ELSE "high"]
    /\ OtherCode
    /\ UNCHANGED <<late, driverVars, timer, woken>>

Deciding == Unmasked /\ rd.stage = "decide"
ReadTicks == CounterToTicks(Value(rd))

TimerEnds ==
    /\ Deciding /\ timer[rd.task] <= ReadTicks
    /\ timer' = Without(timer, rd.task)
    /\ woken' = woken \ {rd.task}
    /\ rd' = NoRead
    /\ OtherCode
    /\ UNCHANGED <<late, driverVars>>

\* The queue keeps one entry per task, the earlier one, and when it is full it
\* wakes the task of some entry to make room.
Enqueue(t, at) ==
    \/ /\ t \in DOMAIN queue \/ Cardinality(DOMAIN queue) < QueueSize
       /\ queue' = Put(queue, t, at)
       /\ UNCHANGED woken
    \/ /\ t \notin DOMAIN queue /\ Cardinality(DOMAIN queue) = QueueSize
       /\ \E u \in DOMAIN queue :
            /\ queue' = Put(Without(queue, u), t, at)
            /\ woken' = woken \cup ({u} \cap DOMAIN timer)

\* schedule_wake: the alarm is set again only if the entry is new or earlier.
ScheduleWake ==
    LET t == rd.task
        at == timer[t]
        kept == t \in DOMAIN queue /\ queue[t] <= at
    IN  /\ Deciding /\ at > ReadTicks
        /\ IF kept THEN UNCHANGED <<queue, woken>> ELSE Enqueue(t, at)
        /\ pc' = IF kept THEN "thread" ELSE "expire"
        /\ rd' = NoRead
        /\ OtherCode
        /\ UNCHANGED <<late, epoch, timer, next, compare>>

-----------------------------------------------------------------------------
(* init() has run: the counter started at zero, and a CH585 has its        *)
(* rollover interrupt enabled.                                             *)
Init ==
    /\ chip \in Chips
    /\ cnt = FirstRead /\ cmp = (IF Is585 THEN 0 ELSE MaxU64)
    /\ flag = FALSE /\ stie = Is585 /\ pend = FALSE /\ late = 0
    /\ epoch = [lastLow |-> IF Is585 THEN FirstRead ELSE 0, high |-> 0]
    /\ queue = <<>> /\ timer = <<>> /\ woken = {} /\ rd = NoRead
    /\ pc = "thread" /\ next = 0 /\ compare = 0

Task ==
    \/ \E t \in Tasks : \/ \E at \in Deadlines : StartTimer(t, at)
                        \/ CancelTimer(t) \/ PollTimer(t)
    \/ ReadHigh \/ ReadLow \/ ReadHighAgain \/ TimerEnds \/ ScheduleWake

\* The horizon, and behaviours that RolloverInArm = FALSE leaves out.
Stop ==
    /\ \/ cnt > Horizon - MaxStep
       \/ /\ ~RolloverInArm /\ Is585 /\ pc \in {"compute", "low"}
          /\ cnt % Period >= Period - MaxStep
    /\ UNCHANGED vars

Next == SysTick \/ Expire \/ SetAlarm \/ Task \/ Idle \/ Stop

Spec == Init /\ [][Next]_vars

-----------------------------------------------------------------------------
Readings == [lastLow : 0 .. Period - 1, high : 0 .. Period - 1]

\* Every register holds what fits it, and the queue is within its capacity.
TypeOK ==
    /\ chip \in Chips /\ cnt \in 0 .. Horizon
    /\ cmp \in 0 .. IF Is585 THEN Period - 1 ELSE MaxU64
    /\ flag \in BOOLEAN /\ stie \in BOOLEAN /\ pend \in BOOLEAN
    /\ late \in 0 .. MaxLatency
    /\ epoch \in Readings
    /\ DOMAIN queue \subseteq Tasks /\ Cardinality(DOMAIN queue) <= QueueSize
    /\ DOMAIN timer \subseteq Tasks /\ woken \subseteq DOMAIN timer
    /\ \A t \in DOMAIN queue : queue[t] \in Deadlines
    /\ \A t \in DOMAIN timer : timer[t] \in Deadlines
    /\ rd.stage \in {"idle", "high", "low", "again", "decide"}
    /\ pc \in {"thread", "expire", "off", "compute", "high", "low", "clear", "check", "enable"}
    /\ next \in 0 .. MaxU64 /\ compare \in 0 .. MaxU64

\* What has been read of the clock is never ahead of the counter, and agrees with
\* it in the low word: if the epoch of CH585 errs, it lacks whole periods.
NowNeverAhead ==
    /\ rd.stage = "decide" => Value(rd) <= cnt
    /\ Counter <= cnt /\ Counter % Period = cnt % Period

\* Whenever the clock is read, what is read is the time: on CH582 no read is
\* torn by a carry between its loads; on CH585 the epoch misses no rollover,
\* provided that the handler is held off for no longer than MaxLatency.
NowIsTrue ==
    /\ rd.stage = "decide" => Value(rd) \in rd.from .. cnt
    /\ Is585 => Counter = cnt

\* From the count a deadline falls on: the last check may have come just
\* before it, the check and STIE take two steps, and the handler may be held
\* off.
MaxLateness == 2 * MaxStep + MaxLatency - 2

\* No Timer ends before the count its deadline falls on.
NoTimerEarly ==
    rd.stage = "decide" /\ timer[rd.task] <= ReadTicks =>
        TicksToCounterCeil(timer[rd.task]) <= cnt

\* No Timer is forgotten: outside of the driver, a task whose deadline is more
\* than MaxLateness counts ago has been woken.
NoTimerLate ==
    pc = "thread" =>
        \A t \in DOMAIN timer :
            \/ t \in woken \/ rd.task = t
            \/ cnt <= Target(timer[t]) + MaxLateness

\* A Timer ends on its deadline or after, and its task is polled soon after:
\* however, on CH582, the deadline, other timers and the arming of CMP fall; on
\* CH585 unless the counter rolls over between the read that chooses the compare
\* value and the clearing of the flag, or the handler is held off for longer than
\* MaxLatency.
TimersOnTime == NoTimerEarly /\ NoTimerLate

=============================================================================
