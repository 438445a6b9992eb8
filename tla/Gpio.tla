-------------------------------- MODULE Gpio -------------------------------
(***************************************************************************)
(* GPIO interrupts of src/src/gpio.rs: the futures of Input's wait methods *)
(* (WaitForInterrupt and wait_for_any_edge), the channel claims they share *)
(* and the two port handlers.  One thread runs every task; a pin's future  *)
(* borrows the Input, so a pin has one at a time.                          *)
(*                                                                         *)
(* Pins change whenever they like, also inside critical sections.          *)
(* A handler is one step: the thread is stopped while it runs, and what a  *)
(* pin does meanwhile can only set flags it has just disabled.             *)
(***************************************************************************)
EXTENDS Naturals, FiniteSets

CONSTANTS
    Pins,        \* the pins with an interrupt channel
    Channels,
    Chan,        \* interrupt_mask and channel_index: the channel of a pin
    Port,        \* the port of a channel
    IntxMode,    \* 0; 1 for PB8 and PB9, 2 for PB22 and PB23, which share
                 \* their channels
    Waits,       \* the wait methods used on a pin: triggers, "any" for any edge
    PulseInArm,  \* TRUE: in wait_for_any_edge the pin may leave the level that
                 \* was sampled before its flag is cleared, and be back before
                 \* it is sampled again
    NoPin

Triggers == {"low", "high", "falling", "rising"}

ASSUME GpioAssumption ==
    /\ IsFiniteSet(Pins) /\ NoPin \notin Pins
    /\ Chan \in [Pins -> Channels] /\ IntxMode \in [Pins -> 0 .. 2]
    /\ Waits \in [Pins -> SUBSET (Triggers \cup {"any"})] /\ PulseInArm \in BOOLEAN
    /\ \A p, q \in Pins : p # q /\ Chan[p] = Chan[q] =>
           IntxMode[p] # 0 /\ IntxMode[q] # 0 /\ IntxMode[p] # IntxMode[q]

VARIABLES
    level,      \* of each pin: TRUE is high
    polarity,   \* OUT bit of each pin: the level or edge that is active
    edgeMode,   \* PA_INT_MODE, PB_INT_MODE: channels triggered by edges
    intf, en,   \* flags that are set, interrupts that are enabled
    intx,       \* PIN_ALTERNATE.INTX: PB22 and PB23 drive the channels
    claims,     \* GPIO_CHANNEL_CLAIMS
    pbMode, pbUsers,  \* PB_INTX_MODE, PB_INTX_USERS
    events,     \* GPIO_EVENTS
    wakers,     \* pins with a waker in GPIO_WAKERS
    woken,      \* pins whose task is to be polled
    held,       \* pins whose future is alive
    trigger,    \* the trigger it was made with
    any,        \* pins in wait_for_any_edge
    watched,    \* pins whose transitions count for a wait (ghost)
    fired,      \* pins that did what their wait waits for (ghost)
    cur,        \* what the thread is at, and of which pin
    panicked

hwVars == <<level, polarity, edgeMode, intf, en, intx>>
claimVars == <<claims, pbMode, pbUsers>>
eventVars == <<events, wakers, woken>>
waitVars == <<held, trigger, any, watched, fired>>
vars == <<hwVars, claimVars, eventVars, waitVars, cur, panicked>>

\* "claim" to "enable": WaitForInterrupt::new; "resample": the second look of
\* wait_for_any_edge; "look", "register", "relook": a poll; "ended", "dropped",
\* "release": the drop of a future that was ready, or was not.
Stages == {"claim", "forget", "select", "clear", "enable", "resample", "look",
           "register", "relook", "ended", "dropped", "release"}
Idle == [pin |-> NoPin, at |-> "idle"]
At(p, stage) == cur = [pin |-> p, at |-> stage]
Goto(p, stage) == cur' = [pin |-> p, at |-> stage]
Masked == cur.at \in {"clear", "enable"}

-----------------------------------------------------------------------------
(* Hardware.                                                               *)

\* The pin a channel is connected to (none, if it is not in Pins).
Connected(c, remapped) ==
    {p \in Pins : Chan[p] = c /\ IntxMode[p] # IF remapped THEN 1 ELSE 2}

\* In level mode the flag is set for as long as the level is active.
Latched(lev, pol, edges, remapped) ==
    {c \in Channels : c \notin edges
                      /\ \E p \in Connected(c, remapped) : lev[p] = pol[p]}
Flags(base) == base \cup Latched(level, polarity, edgeMode, intx)

ActiveHigh(trig) == trig \in {"high", "rising"}
IsEdge(trig) == trig \in {"falling", "rising"}

\* The pin has left its sampled level, and only the second sample will show it.
Unlatched(p) ==
    /\ cur.pin = p /\ p \in any \cap fired
    /\ \/ cur.at \in {"claim", "forget", "select", "clear"}
       \/ cur.at \in {"enable", "resample"} /\ Chan[p] \notin intf /\ p \notin events

\* A pin changes.  An edge of the active polarity sets the flag.
Toggle(p) ==
    /\ ~panicked /\ (PulseInArm \/ ~Unlatched(p))
    /\ level' = [level EXCEPT ![p] = ~@]
    /\ intf' = intf \cup {c \in {Chan[p]} : /\ p \in Connected(c, intx)
                                            /\ level'[p] = polarity[p]}
    /\ fired' = IF p \in any \/ (p \in watched /\ level'[p] = ActiveHigh(trigger[p]))
                THEN fired \cup {p} ELSE fired
    /\ UNCHANGED <<polarity, edgeMode, en, intx, claimVars, eventVars, held,
                   trigger, any, watched, cur, panicked>>

-----------------------------------------------------------------------------
(* The wait methods.  wait_for_low and wait_for_high of the Wait trait     *)
(* return at once if the level is there; otherwise they are Input's.       *)

StartWait(p, t) ==
    /\ cur = Idle /\ ~panicked /\ p \notin held
    /\ trigger' = [trigger EXCEPT ![p] = t]
    /\ Goto(p, "claim")
    /\ UNCHANGED <<hwVars, claimVars, eventVars, held, any, watched, fired, panicked>>

\* wait_for_any_edge samples the pin and waits for the edge that leaves it.
StartAnyEdge(p) ==
    /\ cur = Idle /\ ~panicked /\ p \notin held
    /\ trigger' = [trigger EXCEPT ![p] = IF level[p] THEN "falling" ELSE "rising"]
    /\ any' = any \cup {p}
    /\ Goto(p, "claim")
    /\ UNCHANGED <<hwVars, claimVars, eventVars, held, watched, fired, panicked>>

Claimable(p) ==
    Chan[p] \notin claims /\ (IntxMode[p] = 0 \/ pbMode \in {0, IntxMode[p]})

\* claim_channel
Claim(p) ==
    /\ At(p, "claim") /\ ~panicked /\ Claimable(p)
    /\ claims' = claims \cup {Chan[p]}
    /\ pbMode' = IF IntxMode[p] = 0 THEN pbMode ELSE IntxMode[p]
    /\ pbUsers' = IF IntxMode[p] = 0 THEN pbUsers ELSE pbUsers + 1
    /\ held' = held \cup {p}
    /\ Goto(p, "forget")
    /\ UNCHANGED <<hwVars, eventVars, trigger, any, watched, fired, panicked>>

ClaimPanics(p) ==
    /\ At(p, "claim") /\ ~panicked /\ ~Claimable(p)
    /\ panicked' = TRUE
    /\ UNCHANGED <<hwVars, claimVars, eventVars, waitVars, cur>>

\* Mutant: an event of an earlier wait is kept.
ForgetEventNot(p) ==
    /\ At(p, "forget")
    /\ Goto(p, "select")
    /\ UNCHANGED <<hwVars, claimVars, eventVars, waitVars, panicked>>

ForgetEvent(p) ==
    /\ At(p, "forget")
    /\ events' = events \ {p}
    /\ Goto(p, "select")
    /\ UNCHANGED <<hwVars, claimVars, wakers, woken, waitVars, panicked>>

\* configure_interrupt: the remap, polarity and mode; their change may set the
\* flag.
Select(p) ==
    /\ At(p, "select")
    /\ intx' = IF IntxMode[p] = 0 THEN intx ELSE IntxMode[p] = 2
    /\ polarity' = [polarity EXCEPT ![p] = ActiveHigh(trigger[p])]
    /\ edgeMode' = IF IsEdge(trigger[p]) THEN edgeMode \cup {Chan[p]} ELSE edgeMode \ {Chan[p]}
    /\ \E glitch \in SUBSET {Chan[p]} :
           intf' = intf \cup glitch \cup Latched(level, polarity', edgeMode', intx')
    /\ Goto(p, "clear")
    /\ UNCHANGED <<level, en, claimVars, eventVars, waitVars, panicked>>

\* From here on what the pin does counts for the wait.
ClearFlag(p) ==
    /\ At(p, "clear")
    /\ intf' = Flags(intf \ {Chan[p]})
    /\ watched' = watched \cup {p}
    /\ fired' = IF ~IsEdge(trigger[p]) /\ level[p] = ActiveHigh(trigger[p])
                THEN fired \cup {p} ELSE fired
    /\ Goto(p, "enable")
    /\ UNCHANGED <<level, polarity, edgeMode, en, intx, claimVars, eventVars,
                   held, trigger, any, panicked>>

\* The future is there, and is polled unless wait_for_any_edge looks first.
EnableInterrupt(p) ==
    /\ At(p, "enable")
    /\ en' = en \cup {Chan[p]}
    /\ Goto(p, IF p \in any THEN "resample" ELSE "look")
    /\ UNCHANGED <<level, polarity, edgeMode, intf, intx, claimVars, eventVars,
                   waitVars, panicked>>

\* Mutant: wait_for_any_edge does not look again.
ResampleNot(p) ==
    /\ At(p, "resample")
    /\ Goto(p, "look")
    /\ UNCHANGED <<hwVars, claimVars, eventVars, waitVars, panicked>>

Resample(p) ==
    /\ At(p, "resample")
    /\ Goto(p, IF level[p] = ActiveHigh(trigger[p]) THEN "ended" ELSE "look")
    /\ UNCHANGED <<hwVars, claimVars, eventVars, waitVars, panicked>>

-----------------------------------------------------------------------------
(* WaitForInterrupt::poll and drop.                                        *)

Poll(p) ==
    /\ cur = Idle /\ ~panicked /\ p \in woken
    /\ woken' = woken \ {p}
    /\ Goto(p, "look")
    /\ UNCHANGED <<hwVars, claimVars, events, wakers, waitVars, panicked>>

Look(p) ==
    /\ At(p, "look")
    /\ events' = events \ {p}
    /\ Goto(p, IF p \in events THEN "ended" ELSE "register")
    /\ UNCHANGED <<hwVars, claimVars, wakers, woken, waitVars, panicked>>

Register(p) ==
    /\ At(p, "register")
    /\ wakers' = wakers \cup {p}
    /\ Goto(p, "relook")
    /\ UNCHANGED <<hwVars, claimVars, events, woken, waitVars, panicked>>

Relook(p) ==
    /\ At(p, "relook")
    /\ events' = events \ {p}
    /\ IF p \in events THEN Goto(p, "ended") ELSE cur' = Idle
    /\ UNCHANGED <<hwVars, claimVars, wakers, woken, waitVars, panicked>>

\* The future is dropped while it is pending; its task may be polled for other
\* reasons later, which is nothing of this module's.
Cancel(p) ==
    /\ cur = Idle /\ ~panicked /\ p \in held
    /\ woken' = woken \ {p}
    /\ Goto(p, "dropped")
    /\ UNCHANGED <<hwVars, claimVars, events, wakers, waitVars, panicked>>

\* Mutant: the interrupt stays enabled.
DisableInterruptNot(p) ==
    /\ At(p, "ended") \/ At(p, "dropped")
    /\ woken' = woken \ {p}
    /\ Goto(p, "release")
    /\ UNCHANGED <<hwVars, claimVars, events, wakers, waitVars, panicked>>

\* disable_interrupt
DisableInterrupt(p) ==
    /\ At(p, "ended") \/ At(p, "dropped")
    /\ en' = en \ {Chan[p]}
    /\ intf' = Flags(intf \ {Chan[p]})
    /\ woken' = woken \ {p}
    /\ Goto(p, "release")
    /\ UNCHANGED <<level, polarity, edgeMode, intx, claimVars, events, wakers,
                   waitVars, panicked>>

\* release_channel
Freed(p) ==
    /\ held' = held \ {p} /\ any' = any \ {p}
    /\ watched' = watched \ {p} /\ fired' = fired \ {p}
    /\ UNCHANGED trigger

\* Mutant: the remap is free as soon as one of its users is gone.
ReleaseModeEarly(p) ==
    /\ At(p, "release") /\ ~panicked /\ (IntxMode[p] = 0 \/ pbUsers # 0)
    /\ claims' = claims \ {Chan[p]}
    /\ pbUsers' = IF IntxMode[p] = 0 THEN pbUsers ELSE pbUsers - 1
    /\ pbMode' = IF IntxMode[p] # 0 THEN 0 ELSE pbMode
    /\ Freed(p) /\ cur' = Idle
    /\ UNCHANGED <<hwVars, eventVars, panicked>>

Release(p) ==
    /\ At(p, "release") /\ ~panicked /\ (IntxMode[p] = 0 \/ pbUsers # 0)
    /\ claims' = claims \ {Chan[p]}
    /\ pbUsers' = IF IntxMode[p] = 0 THEN pbUsers ELSE pbUsers - 1
    /\ pbMode' = IF IntxMode[p] # 0 /\ pbUsers' = 0 THEN 0 ELSE pbMode
    /\ Freed(p) /\ cur' = Idle
    /\ UNCHANGED <<hwVars, eventVars, panicked>>

-----------------------------------------------------------------------------
(* handle_gpioa_interrupt and handle_gpiob_interrupt: flags that are set    *)
(* and enabled are cleared and disabled, and the pin INTX selects is        *)
(* signalled for each.                                                      *)

Pending(port) == {c \in intf \cap en : Port[c] = port}

Handler(port) ==
    LET flags == Pending(port)
        signalled == UNION {Connected(c, intx) : c \in flags}
    IN  /\ ~panicked /\ ~Masked /\ flags # {}
        /\ intf' = Flags(intf \ flags)
        /\ en' = en \ flags
        /\ events' = events \cup signalled
        /\ wakers' = wakers \ signalled
        /\ woken' = woken \cup (signalled \cap wakers)
        /\ UNCHANGED <<level, polarity, edgeMode, intx, claimVars, waitVars, cur, panicked>>

-----------------------------------------------------------------------------
Init ==
    /\ level \in [Pins -> BOOLEAN] /\ polarity = [p \in Pins |-> FALSE]
    /\ edgeMode = {} /\ en = {} /\ intx = FALSE
    /\ intf = Latched(level, polarity, edgeMode, intx)
    /\ claims = {} /\ pbMode = 0 /\ pbUsers = 0
    /\ events = {} /\ wakers = {} /\ woken = {}
    /\ held = {} /\ any = {} /\ watched = {} /\ fired = {}
    /\ trigger = [p \in Pins |-> "low"]
    /\ cur = Idle /\ panicked = FALSE

New(p) == Claim(p) \/ ClaimPanics(p) \/ ForgetEvent(p) \/ Select(p) \/ ClearFlag(p)
          \/ EnableInterrupt(p) \/ Resample(p)
Drop(p) == DisableInterrupt(p) \/ Release(p)
Thread(p) == New(p) \/ Look(p) \/ Register(p) \/ Relook(p) \/ Drop(p)

\* The program ends in a panic.
Halt == panicked /\ UNCHANGED vars

Ports == {Port[c] : c \in Channels}

Next ==
    \/ \E p \in Pins :
        \/ Toggle(p) \/ Thread(p) \/ Poll(p) \/ Cancel(p)
        \/ \E t \in Waits[p] \ {"any"} : StartWait(p, t)
        \/ "any" \in Waits[p] /\ StartAnyEdge(p)
    \/ \E port \in Ports : Handler(port)
    \/ Halt

\* The thread goes on, a pending interrupt is taken when no critical section
\* holds it off, and the executor polls every woken task.
Fairness ==
    /\ WF_vars(\E p \in Pins : Thread(p))
    /\ \A p \in Pins : SF_vars(Poll(p))
    /\ \A port \in Ports : SF_vars(Handler(port))

Spec == Init /\ [][Next]_vars /\ Fairness

-----------------------------------------------------------------------------
\* A poll is only due to a future that is alive, and the flags of the channels
\* in level mode agree with their pins.
TypeOK ==
    /\ level \in [Pins -> BOOLEAN] /\ polarity \in [Pins -> BOOLEAN]
    /\ edgeMode \subseteq Channels /\ en \subseteq claims
    /\ intf \subseteq Channels /\ Flags(intf) = intf /\ intx \in BOOLEAN
    /\ claims \subseteq Channels /\ pbMode \in 0 .. 2 /\ pbUsers \in Nat
    /\ events \subseteq Pins /\ wakers \subseteq Pins
    /\ woken \subseteq held /\ held \subseteq Pins
    /\ trigger \in [Pins -> Triggers] /\ any \subseteq Pins
    /\ watched \subseteq held /\ fired \subseteq watched \cup any
    /\ cur \in {Idle} \cup [pin : Pins, at : Stages]
    /\ panicked \in BOOLEAN

Remapped == {p \in held : IntxMode[p] # 0}

\* A channel serves one future, every user of the remap wants it as it is, and
\* the counts say so, however futures are made, end and are dropped: the
\* handler cannot signal another pin's future, and the underflow assertion of
\* release_channel does not fire.
ClaimsExact ==
    /\ claims = {Chan[p] : p \in held}
    /\ \A p, q \in held : Chan[p] = Chan[q] => p = q
    /\ pbUsers = Cardinality(Remapped)
    /\ Remapped = {} => pbMode = 0
    /\ \A p \in Remapped :
        /\ pbMode = IntxMode[p]
        /\ p \in watched => intx = (IntxMode[p] = 2)

\* A wait ends only for what its pin did since it was armed (or sampled):
\* never for an event of an earlier wait, an old flag, or the other pin.
EndsOnTrigger == \A p \in Pins : At(p, "ended") => p \in fired

\* A wait whose pin did what it waits for ends, whatever the pin does next:
\* no event falls between the sample, the flag, the event and the waker.
WaitEnds == \A p \in Pins : p \in fired \cap held ~> p \notin held \/ panicked

=============================================================================
