----------------------------- MODULE GpioProofs ----------------------------
(***************************************************************************)
(* For every set of pins and channels: a channel serves one wait, the      *)
(* handler signals the pin that wait is for, and a wait ends only for what *)
(* its own pin did.                                                        *)
(***************************************************************************)
EXTENDS Gpio, FiniteSetTheorems, TLAPS

-----------------------------------------------------------------------------
(* The inductive invariant.                                                *)

\* What of TypeOK is about one variable at a time.
Typed ==
    /\ level \in [Pins -> BOOLEAN] /\ polarity \in [Pins -> BOOLEAN]
    /\ edgeMode \subseteq Channels
    /\ intf \subseteq Channels /\ intx \in BOOLEAN
    /\ claims \subseteq Channels /\ pbMode \in 0 .. 2 /\ pbUsers \in Nat
    /\ events \subseteq Pins /\ wakers \subseteq Pins /\ held \subseteq Pins
    /\ trigger \in [Pins -> Triggers] /\ any \subseteq Pins
    /\ cur \in {Idle} \cup [pin : Pins, at : Stages]
    /\ panicked \in BOOLEAN

\* The steps of WaitForInterrupt::new before the flag is cleared.
Starting == {"forget", "select", "clear"}

\* Whose future the thread is at, and how far it has come.
Positions ==
    /\ \A p \in Pins : cur.pin = p => (p \in held <=> cur.at # "claim")
    /\ watched = {p \in held : cur.pin = p => cur.at \notin Starting}
    /\ any \subseteq held \cup {cur.pin}
    /\ \A p \in Pins : At(p, "resample") => p \in any

\* The claims, without what they say of the remap register.
ClaimsHeld ==
    /\ claims = {Chan[p] : p \in held}
    /\ \A p, q \in held : Chan[p] = Chan[q] => p = q

\* The count of the users of the remap.
UsersCounted ==
    /\ pbUsers = Cardinality(Remapped)
    /\ Remapped = {} => pbMode = 0
    /\ \A p \in Remapped : pbMode = IntxMode[p]

\* The registers are as a wait wants them from the moment it has set them.
RemapSelected ==
    \A p \in Remapped : p \in watched \/ At(p, "clear") => intx = (IntxMode[p] = 2)

Armed ==
    \A p \in Pins : p \in watched \/ At(p, "clear") =>
        /\ polarity[p] = ActiveHigh(trigger[p])
        /\ Chan[p] \in edgeMode <=> IsEdge(trigger[p])

\* Only the channels of futures that are alive are enabled.
EnabledIsWatched ==
    /\ \A c \in en : \E p \in watched : Chan[p] = c
    /\ \A p \in Pins : At(p, "release") => Chan[p] \notin en /\ p \notin woken

\* A flag or an event of a wait is one of its pin's since it was armed.
SignalIsOwn ==
    /\ \A p \in watched : Chan[p] \in intf \/ p \in events => p \in fired
    /\ \A p \in Pins : At(p, "select") \/ At(p, "clear") => p \notin events

\* A level that is active, or that has changed since it was sampled, counts.
LevelIsSeen ==
    /\ \A p \in watched :
           ~IsEdge(trigger[p]) /\ level[p] = ActiveHigh(trigger[p]) => p \in fired
    /\ \A p \in any :
           IsEdge(trigger[p]) /\ (level[p] = ActiveHigh(trigger[p]) => p \in fired)

\* Who is to be polled, what counts, and flags of active levels.
Related ==
    /\ woken \subseteq held /\ fired \subseteq watched \cup any
    /\ Flags(intf) = intf

IInv ==
    /\ Typed /\ Positions /\ ClaimsHeld /\ UsersCounted /\ RemapSelected /\ Armed
    /\ EnabledIsWatched /\ SignalIsOwn /\ LevelIsSeen /\ Related /\ EndsOnTrigger


-----------------------------------------------------------------------------
(* Lemmas about a state.                                                   *)

\* The thread is at one stage of one pin.
LEMMA OneStage ==
    ASSUME NEW p \in Pins, NEW stage, At(p, stage)
    PROVE  cur.pin = p /\ cur.at = stage /\ p # NoPin
BY GpioAssumption DEF At, GpioAssumption

\* The polarity of a trigger is a bit.
LEMMA PolarityBit == ASSUME NEW trig PROVE ActiveHigh(trig) \in BOOLEAN
<1>1. ActiveHigh(trig) = TRUE \/ ActiveHigh(trig) = FALSE
  BY DEF ActiveHigh
<1>2. QED BY <1>1

\* A held pin that is watched is the one its channel is connected to.
LEMMA ConnectedIsWatched ==
    ASSUME IInv, NEW p \in Pins, p \in watched \/ At(p, "clear")
    PROVE  Connected(Chan[p], intx) = {p}
<1>1. p \in held
  BY OneStage DEF IInv, Positions
<1>2. IntxMode[p] # 0 => p \in Remapped /\ intx = (IntxMode[p] = 2)
  BY <1>1 DEF IInv, RemapSelected, Remapped
<1>3. IntxMode[p] \in 0 .. 2 /\ intx \in BOOLEAN
  BY GpioAssumption DEF GpioAssumption, IInv, Typed
<1>4. p \in Connected(Chan[p], intx)
  <2>1. IntxMode[p] # IF intx THEN 1 ELSE 2
    BY <1>2, <1>3
  <2>2. QED BY <2>1 DEF Connected
<1>5. ASSUME NEW q \in Pins, q # p, Chan[q] = Chan[p]
      PROVE  q \notin Connected(Chan[p], intx)
  <2>1. IntxMode[q] \in {1, 2} /\ IntxMode[p] \in {1, 2} /\ IntxMode[q] # IntxMode[p]
    BY <1>3, <1>5, GpioAssumption DEF GpioAssumption
  <2>2. IntxMode[q] = IF intx THEN 1 ELSE 2
    BY <2>1, <1>2, <1>3
  <2>3. QED BY <2>2 DEF Connected
<1>6. QED BY <1>4, <1>5 DEF Connected

\* What a port's handler signals are pins that are watched, with their flags.
LEMMA SignalledAreWatched ==
    ASSUME IInv, NEW port, NEW q \in UNION {Connected(c, intx) : c \in Pending(port)}
    PROVE  q \in watched /\ Chan[q] \in intf \cap en
<1>1. PICK c \in Pending(port) : q \in Connected(c, intx)
  OBVIOUS
<1>2. c \in intf /\ c \in en
  BY <1>1 DEF Pending
<1>3. PICK p \in watched : Chan[p] = c
  BY <1>2 DEF IInv, EnabledIsWatched
<1>4. p \in Pins
  BY <1>3 DEF IInv, Typed, Positions
<1>5. q = p
  BY <1>1, <1>3, <1>4, ConnectedIsWatched
<1>6. QED BY <1>2, <1>3, <1>5

-----------------------------------------------------------------------------
(* Every part is kept by every step.                                       *)

\* Before the first claim every part holds.
LEMMA InitInv == Init => IInv
<1> SUFFICES ASSUME Init PROVE IInv
  OBVIOUS
<1>1. Typed
  <2>1. level \in [Pins -> BOOLEAN] /\ polarity \in [Pins -> BOOLEAN]
    BY Zenon DEF Init
  <2>2. trigger \in [Pins -> Triggers] /\ cur \in {Idle} /\ intf \subseteq Channels
    BY DEF Init, Triggers, Latched
  <2>3. /\ edgeMode = {} /\ claims = {} /\ events = {} /\ wakers = {} /\ held = {}
        /\ any = {} /\ pbMode = 0 /\ pbUsers = 0 /\ intx = FALSE /\ panicked = FALSE
    BY DEF Init
  <2>4. intx \in BOOLEAN /\ panicked \in BOOLEAN
    BY <2>3, Zenon
  <2>5. pbMode \in 0 .. 2 /\ pbUsers \in Nat
    BY <2>3
  <2>6. /\ edgeMode \subseteq Channels /\ claims \subseteq Channels
        /\ events \subseteq Pins /\ wakers \subseteq Pins /\ held \subseteq Pins
        /\ any \subseteq Pins
    BY <2>3
  <2>7. QED BY <2>1, <2>2, <2>4, <2>5, <2>6, Zenon DEF Typed
<1>2. Positions /\ EndsOnTrigger
  BY GpioAssumption DEF GpioAssumption, Init, Positions, EndsOnTrigger, At, Idle
<1>3. Remapped = {}
  BY DEF Init, Remapped
<1>4. ClaimsHeld /\ UsersCounted /\ RemapSelected
  BY <1>3, FS_EmptySet DEF Init, ClaimsHeld, UsersCounted, RemapSelected
<1>5. Armed /\ EnabledIsWatched /\ SignalIsOwn /\ LevelIsSeen
  BY GpioAssumption
     DEF GpioAssumption, Init, Armed, EnabledIsWatched, SignalIsOwn, LevelIsSeen, At, Idle
<1>6. Related
  BY DEF Init, Related, Flags
<1>7. QED BY <1>1, <1>2, <1>4, <1>5, <1>6 DEF IInv

\* Every step of a task, a handler or a pin keeps the types.
LEMMA TypedKept == ASSUME IInv, [Next]_vars PROVE Typed'
<1> USE GpioAssumption DEF GpioAssumption, IInv, Typed, Goto, Stages, hwVars, claimVars,
        eventVars, waitVars
<1>1. ASSUME NEW p \in Pins, Toggle(p) PROVE Typed'
  BY <1>1 DEF Toggle
<1>2. ASSUME NEW p \in Pins, NEW t \in Waits[p] \ {"any"}, StartWait(p, t) PROVE Typed'
  BY <1>2 DEF StartWait
<1>3. ASSUME NEW p \in Pins, StartAnyEdge(p) PROVE Typed'
  BY <1>3 DEF StartAnyEdge, Triggers
<1>4. ASSUME NEW p \in Pins, Claim(p) \/ ClaimPanics(p) PROVE Typed'
  <2>1. Chan[p] \in Channels /\ IntxMode[p] \in 0 .. 2
    OBVIOUS
  <2>2. pbMode' \in 0 .. 2 /\ pbUsers' \in Nat
    BY <1>4, <2>1 DEF Claim, ClaimPanics
  <2>3. CASE Claim(p)
    BY <2>1, <2>2, <2>3 DEF Claim
  <2>4. CASE ClaimPanics(p)
    BY <2>4 DEF ClaimPanics
  <2>5. QED BY <1>4, <2>3, <2>4
<1>5. ASSUME NEW p \in Pins, Select(p) PROVE Typed'
  <2>1. polarity' = [polarity EXCEPT ![p] = ActiveHigh(trigger[p])]
    BY <1>5 DEF Select
  <2>2. ActiveHigh(trigger[p]) \in BOOLEAN
    BY PolarityBit
  <2>3. polarity' \in [Pins -> BOOLEAN]
    BY <2>1, <2>2, Zenon
  <2>4. intf' \subseteq Channels /\ edgeMode' \subseteq Channels
    BY <1>5 DEF Select, Latched
  <2>5. intx' \in BOOLEAN
    BY <1>5 DEF Select
  <2>6. QED BY <1>5, <2>3, <2>4, <2>5 DEF Select
<1>6. ASSUME NEW p \in Pins, ForgetEvent(p) \/ ClearFlag(p) \/ EnableInterrupt(p) \/ Resample(p)
      PROVE  Typed'
  BY <1>6 DEF ForgetEvent, ClearFlag, EnableInterrupt, Resample, Flags, Latched
<1>7. ASSUME NEW p \in Pins, Poll(p) \/ Look(p) \/ Register(p) \/ Relook(p) \/ Cancel(p)
      PROVE  Typed'
  BY <1>7 DEF Poll, Look, Register, Relook, Cancel
<1>8. ASSUME NEW p \in Pins, DisableInterrupt(p) PROVE Typed'
  BY <1>8 DEF DisableInterrupt, Flags, Latched
<1>9. ASSUME NEW p \in Pins, Release(p) PROVE Typed'
  BY <1>9 DEF Release, Freed
<1>10. ASSUME NEW port \in Ports, Handler(port) PROVE Typed'
  BY <1>10 DEF Handler, Flags, Latched, Connected
<1>11. CASE Halt \/ UNCHANGED vars
  BY <1>11 DEF Halt, vars
<1>12. QED
  BY <1>1, <1>2, <1>3, <1>4, <1>5, <1>6, <1>7, <1>8, <1>9, <1>10, <1>11
     DEF Next, Thread, New, Drop

\* The thread moves between the stages of one pin only.
LEMMA PositionsKept == ASSUME IInv, [Next]_vars PROVE Positions'
<1> USE GpioAssumption DEF GpioAssumption, IInv, Typed, Positions, At, Goto, Idle,
        Starting, waitVars
<1>1. ASSUME NEW p \in Pins, Toggle(p) PROVE Positions'
  BY <1>1 DEF Toggle
<1>2. ASSUME NEW p \in Pins, NEW t \in Waits[p] \ {"any"}, StartWait(p, t) PROVE Positions'
  BY <1>2 DEF StartWait
<1>3. ASSUME NEW p \in Pins, StartAnyEdge(p) PROVE Positions'
  BY <1>3 DEF StartAnyEdge
<1>4. ASSUME NEW p \in Pins, Claim(p) \/ ClaimPanics(p) PROVE Positions'
  BY <1>4 DEF Claim, ClaimPanics
<1>5. ASSUME NEW p \in Pins, ForgetEvent(p) \/ Select(p) PROVE Positions'
  BY <1>5 DEF ForgetEvent, Select
<1>6. ASSUME NEW p \in Pins, ClearFlag(p) PROVE Positions'
  BY <1>6 DEF ClearFlag
<1>7. ASSUME NEW p \in Pins, EnableInterrupt(p) \/ Resample(p) PROVE Positions'
  BY <1>7 DEF EnableInterrupt, Resample
<1>8. ASSUME NEW p \in Pins, Poll(p) \/ Look(p) \/ Register(p) \/ Relook(p) \/ Cancel(p)
      PROVE  Positions'
  BY <1>8 DEF Related, Poll, Look, Register, Relook, Cancel
<1>9. ASSUME NEW p \in Pins, DisableInterrupt(p) PROVE Positions'
  BY <1>9 DEF DisableInterrupt
<1>10. ASSUME NEW p \in Pins, Release(p) PROVE Positions'
  BY <1>10 DEF Release, Freed
<1>11. ASSUME NEW port \in Ports, Handler(port) PROVE Positions'
  BY <1>11 DEF Handler
<1>12. CASE Halt \/ UNCHANGED vars
  BY <1>12 DEF Halt, vars
<1>13. QED
  BY <1>1, <1>2, <1>3, <1>4, <1>5, <1>6, <1>7, <1>8, <1>9, <1>10, <1>11, <1>12
     DEF Next, Thread, New, Drop

\* Claims change with the futures, and so does the count of the remap's users.
LEMMA ClaimsKept == ASSUME IInv, [Next]_vars PROVE ClaimsHeld' /\ UsersCounted'
<1> USE DEF IInv, ClaimsHeld, UsersCounted
<1>a. IsFiniteSet(Remapped) /\ Remapped \subseteq Pins
  BY FS_Subset, GpioAssumption DEF GpioAssumption, Remapped, Typed
<1>b. Cardinality(Remapped) \in Nat
  BY <1>a, FS_CardinalityType
<1>1. ASSUME NEW p \in Pins, Claim(p) PROVE ClaimsHeld' /\ UsersCounted'
  <2>1. p \notin held /\ Chan[p] \notin claims
    BY <1>1, OneStage DEF Claim, Claimable, Positions
  <2>2. held' = held \cup {p} /\ claims' = claims \cup {Chan[p]}
    BY <1>1 DEF Claim
  <2>3. ClaimsHeld'
    BY <2>1, <2>2
  <2>4. CASE IntxMode[p] = 0
    <3>1. Remapped' = Remapped
      BY <2>2, <2>4 DEF Remapped
    <3>2. pbMode' = pbMode /\ pbUsers' = pbUsers
      BY <1>1, <2>4 DEF Claim
    <3>3. QED BY <2>3, <3>1, <3>2
  <2>5. CASE IntxMode[p] # 0
    <3>1. Remapped' = Remapped \cup {p} /\ p \notin Remapped
      BY <2>1, <2>2, <2>5 DEF Remapped
    <3>2. Cardinality(Remapped') = Cardinality(Remapped) + 1
      BY <3>1, <1>a, FS_AddElement
    <3>3. \A q \in Remapped : IntxMode[q] = IntxMode[p]
      BY <1>1, <2>5 DEF Claim, Claimable, Remapped
    <3>4. QED BY <1>1, <2>3, <2>5, <3>1, <3>2, <3>3 DEF Claim
  <2>6. QED BY <2>3, <2>4, <2>5
<1>2. ASSUME NEW p \in Pins, Release(p) PROVE ClaimsHeld' /\ UsersCounted'
  <2>1. p \in held
    BY <1>2, OneStage DEF Release, Positions
  <2>2. held' = held \ {p} /\ claims' = claims \ {Chan[p]}
    BY <1>2 DEF Release, Freed
  <2>3. ClaimsHeld'
    BY <2>1, <2>2
  <2>4. CASE IntxMode[p] = 0
    BY <1>2, <2>2, <2>3, <2>4 DEF Release, Remapped
  <2>5. CASE IntxMode[p] # 0
    <3>1. Remapped' = Remapped \ {p} /\ p \in Remapped
      BY <2>1, <2>2, <2>5 DEF Remapped
    <3>2. IsFiniteSet(Remapped') /\ Cardinality(Remapped') = Cardinality(Remapped) - 1
      BY <3>1, <1>a, FS_RemoveElement
    <3>3. pbUsers' = Cardinality(Remapped') /\ pbMode' = IF pbUsers' = 0 THEN 0 ELSE pbMode
      BY <1>2, <2>5, <3>2 DEF Release
    <3>4. pbUsers' = 0 <=> Remapped' = {}
      BY <3>2, <3>3, FS_EmptySet
    <3>5. QED BY <2>3, <3>1, <3>3, <3>4
  <2>6. QED BY <2>4, <2>5
<1>3. ASSUME UNCHANGED <<claimVars, held>> PROVE ClaimsHeld' /\ UsersCounted'
  BY <1>3 DEF claimVars, Remapped
<1>4. ASSUME NEW p \in Pins,
             Toggle(p) \/ Poll(p) \/ Cancel(p) \/ ForgetEvent(p) \/ Select(p) \/ ClearFlag(p)
             \/ EnableInterrupt(p) \/ Resample(p) \/ ClaimPanics(p)
             \/ (\E t \in Waits[p] \ {"any"} : StartWait(p, t)) \/ StartAnyEdge(p)
      PROVE  UNCHANGED <<claimVars, held>>
  BY <1>4 DEF Toggle, Poll, Cancel, ForgetEvent, Select, ClearFlag, EnableInterrupt,
              Resample, ClaimPanics, StartWait, StartAnyEdge, waitVars
<1>5. ASSUME NEW p \in Pins, Look(p) \/ Register(p) \/ Relook(p) \/ DisableInterrupt(p)
      PROVE  UNCHANGED <<claimVars, held>>
  BY <1>5 DEF Look, Register, Relook, DisableInterrupt, waitVars
<1>6. ASSUME NEW port \in Ports, Handler(port) PROVE UNCHANGED <<claimVars, held>>
  BY <1>6 DEF Handler, waitVars
<1>7. CASE Halt \/ UNCHANGED vars
  BY <1>3, <1>7 DEF Halt, vars, waitVars
<1>8. QED
  BY <1>1, <1>2, <1>3, <1>4, <1>5, <1>6, <1>7 DEF Next, Thread, New, Drop

\* The registers of a wait stay as it has set them: no other wait has its
\* channel, and all waits on the remap want it the same.
LEMMA RegistersKept == ASSUME IInv, [Next]_vars PROVE RemapSelected' /\ Armed'
<1> USE DEF IInv, RemapSelected, Armed, Remapped
<1>a. watched \subseteq held /\ held \subseteq Pins
  BY DEF Typed, Positions
<1>b. \A p \in Pins : ActiveHigh(trigger[p]) \in BOOLEAN
  BY PolarityBit
<1>1. ASSUME NEW p \in Pins, Select(p) PROVE RemapSelected' /\ Armed'
  <2>1. p \in held /\ p \notin watched
    BY <1>1, OneStage DEF Select, Positions, Starting
  <2>2. \A q \in Pins : At(q, "clear")' => q = p
    BY <1>1 DEF Select, At, Goto
  <2>3. \A q \in watched : Chan[q] # Chan[p]
    BY <2>1, <1>a DEF ClaimsHeld
  <2>4. /\ held' = held /\ watched' = watched /\ trigger' = trigger
        /\ polarity' = [polarity EXCEPT ![p] = ActiveHigh(trigger[p])]
        /\ edgeMode' = IF IsEdge(trigger[p]) THEN edgeMode \cup {Chan[p]}
                       ELSE edgeMode \ {Chan[p]}
        /\ intx' = IF IntxMode[p] = 0 THEN intx ELSE IntxMode[p] = 2
    BY <1>1 DEF Select, waitVars
  <2>5. Armed'
    <3>1. polarity'[p] = ActiveHigh(trigger[p]) /\ (Chan[p] \in edgeMode' <=> IsEdge(trigger[p]))
      BY <2>4 DEF Typed
    <3>2. \A q \in watched : /\ polarity'[q] = polarity[q]
                             /\ Chan[q] \in edgeMode' <=> Chan[q] \in edgeMode
      BY <2>1, <2>3, <2>4, <1>a DEF Typed
    <3>3. QED BY <2>2, <2>4, <3>1, <3>2, <1>a
  <2>6. RemapSelected'
    <3>1. \A q \in held : IntxMode[q] # 0 /\ IntxMode[p] # 0 => IntxMode[q] = IntxMode[p]
      BY <2>1 DEF UsersCounted
    <3>2. CASE IntxMode[p] = 0
      <4>1. intx' = intx
        BY <2>4, <3>2
      <4>2. \A q \in Remapped : q # p
        BY <3>2
      <4>3. \A q \in Remapped : q \in watched' \/ At(q, "clear")' => q \in watched
        BY <2>2, <2>4, <4>2, <1>a
      <4>4. QED BY <2>4, <4>1, <4>3
    <3>3. CASE IntxMode[p] # 0
      <4>1. \A q \in Remapped : IntxMode[q] = IntxMode[p]
        BY <3>1, <3>3
      <4>2. intx' = (IntxMode[p] = 2) /\ Remapped' = Remapped
        BY <2>4, <3>3
      <4>3. QED BY <4>1, <4>2
    <3>4. QED BY <3>2, <3>3
  <2>7. QED BY <2>5, <2>6
<1>2. ASSUME NEW p \in Pins, ClearFlag(p) PROVE RemapSelected' /\ Armed'
  BY <1>2 DEF ClearFlag, At, Goto
<1>3. ASSUME NEW p \in Pins, Claim(p) PROVE RemapSelected' /\ Armed'
  <2>1. p \notin watched
    BY <1>3, <1>a, OneStage DEF Claim, Positions
  <2>2. QED BY <1>3, <2>1 DEF Claim, hwVars, At, Goto
<1>4. ASSUME NEW p \in Pins, Release(p) PROVE RemapSelected' /\ Armed'
  BY <1>4 DEF Release, Freed, hwVars, At, Idle
<1>5. ASSUME NEW p \in Pins, NEW t, StartWait(p, t) PROVE RemapSelected' /\ Armed'
  <2>1. p \notin watched
    BY <1>5, <1>a DEF StartWait
  <2>2. \A q \in watched : trigger'[q] = trigger[q]
    BY <1>5, <2>1, <1>a DEF StartWait, Typed
  <2>3. /\ UNCHANGED <<held, watched, polarity, edgeMode, intx>>
        /\ \A q \in Pins : ~At(q, "clear")'
    BY <1>5 DEF StartWait, hwVars, At, Goto
  <2>4. QED BY <2>2, <2>3, <1>a
<1>6. ASSUME NEW p \in Pins, StartAnyEdge(p) PROVE RemapSelected' /\ Armed'
  <2>1. p \notin watched
    BY <1>6, <1>a DEF StartAnyEdge
  <2>2. \A q \in watched : trigger'[q] = trigger[q]
    BY <1>6, <2>1, <1>a DEF StartAnyEdge, Typed
  <2>3. /\ UNCHANGED <<held, watched, polarity, edgeMode, intx>>
        /\ \A q \in Pins : ~At(q, "clear")'
    BY <1>6 DEF StartAnyEdge, hwVars, At, Goto
  <2>4. QED BY <2>2, <2>3, <1>a
<1>7. ASSUME UNCHANGED <<polarity, edgeMode, intx, held, watched, trigger>>,
             \A p \in Pins : At(p, "clear")' => At(p, "clear")
      PROVE  RemapSelected' /\ Armed'
  <2>1. \A p \in Remapped : p \in watched' \/ At(p, "clear")' => intx' = (IntxMode[p] = 2)
    BY <1>7, <1>a
  <2>2. RemapSelected'
    <3>1. Remapped' = Remapped
      BY <1>7
    <3>2. \A p \in Remapped' : p \in watched' \/ At(p, "clear")' => intx' = (IntxMode[p] = 2)
      BY <2>1, <3>1
    <3>3. QED BY <3>2, Zenon
  <2>3. \A p \in Pins : p \in watched' \/ At(p, "clear")' => p \in watched \/ At(p, "clear")
    BY <1>7
  <2>4. Armed'
    BY <2>3, <1>7
  <2>5. QED BY <2>2, <2>4
<1>8. ASSUME NEW p \in Pins, Toggle(p) \/ ClaimPanics(p) \/ ForgetEvent(p)
             \/ EnableInterrupt(p) \/ Resample(p) \/ DisableInterrupt(p)
      PROVE  RemapSelected' /\ Armed'
  BY <1>7, <1>8 DEF Toggle, ClaimPanics, ForgetEvent, EnableInterrupt, Resample,
              DisableInterrupt, hwVars, waitVars, At, Goto
<1>9. ASSUME NEW p \in Pins, Poll(p) \/ Look(p) \/ Register(p) \/ Relook(p) \/ Cancel(p)
      PROVE  RemapSelected' /\ Armed'
  BY <1>7, <1>9 DEF Poll, Look, Register, Relook, Cancel, hwVars, waitVars, At, Goto, Idle
<1>10. ASSUME NEW port \in Ports, Handler(port) PROVE RemapSelected' /\ Armed'
  BY <1>10, <1>7 DEF Handler, waitVars, At
<1>11. CASE Halt \/ UNCHANGED vars
  BY <1>11 DEF Halt, vars, hwVars, waitVars, At
<1>12. QED
  BY <1>1, <1>2, <1>3, <1>4, <1>5, <1>6, <1>8, <1>9, <1>10, <1>11 DEF Next, Thread, New, Drop

\* The interrupt of a channel is enabled while its wait is watched only.
LEMMA EnabledKept == ASSUME IInv, [Next]_vars PROVE EnabledIsWatched'
<1> USE DEF IInv, EnabledIsWatched
<1>a. watched \subseteq held /\ held \subseteq Pins
  BY DEF Typed, Positions
<1>1. ASSUME NEW p \in Pins, ClearFlag(p) PROVE EnabledIsWatched'
  BY <1>1 DEF ClearFlag, At, Goto
<1>2. ASSUME NEW p \in Pins, EnableInterrupt(p) PROVE EnabledIsWatched'
  <2>1. p \in watched
    BY <1>2, OneStage DEF EnableInterrupt, Positions, Starting
  <2>2. QED BY <1>2, <2>1 DEF EnableInterrupt, waitVars, At, Goto
<1>3. ASSUME NEW p \in Pins, DisableInterrupt(p) PROVE EnabledIsWatched'
  BY <1>3 DEF DisableInterrupt, waitVars, At, Goto
<1>4. ASSUME NEW p \in Pins, Release(p) PROVE EnabledIsWatched'
  <2>1. \A c \in en : c # Chan[p]
    BY <1>4 DEF Release
  <2>2. en' = en /\ watched' = watched \ {p}
    BY <1>4 DEF Release, hwVars, Freed
  <2>3. \A q \in Pins : ~At(q, "release")'
    BY <1>4, GpioAssumption DEF GpioAssumption, Release, At, Idle
  <2>4. QED BY <2>1, <2>2, <2>3
<1>5. ASSUME NEW port \in Ports, Handler(port) PROVE EnabledIsWatched'
  <2>1. \A p \in Pins : At(p, "release") => p \notin woken'
    BY <1>5, SignalledAreWatched DEF Handler
  <2>2. QED BY <1>5, <2>1 DEF Handler, waitVars, At
<1>6. ASSUME UNCHANGED <<en, watched>>, woken' \subseteq woken, \A p \in Pins : ~At(p, "release")' \/ cur' = cur
      PROVE  EnabledIsWatched'
  BY <1>6 DEF At
<1>7. ASSUME NEW p \in Pins, Toggle(p) \/ ClaimPanics(p) \/ ForgetEvent(p) \/ Claim(p)
             \/ Select(p) \/ Resample(p)
             \/ (\E t \in Waits[p] \ {"any"} : StartWait(p, t)) \/ StartAnyEdge(p)
      PROVE  EnabledIsWatched'
  BY <1>6, <1>7 DEF Toggle, ClaimPanics, ForgetEvent, Claim, Select, Resample, StartWait,
              StartAnyEdge, hwVars, eventVars, waitVars, At, Goto
<1>8. ASSUME NEW p \in Pins, Poll(p) \/ Look(p) \/ Register(p) \/ Relook(p) \/ Cancel(p)
      PROVE  EnabledIsWatched'
  BY <1>6, <1>8 DEF Poll, Look, Register, Relook, Cancel, hwVars, waitVars, At, Goto, Idle
<1>9. CASE Halt \/ UNCHANGED vars
  BY <1>6, <1>9 DEF Halt, vars, hwVars, eventVars, waitVars
<1>10. QED
  BY <1>1, <1>2, <1>3, <1>4, <1>5, <1>7, <1>8, <1>9 DEF Next, Thread, New, Drop

\* Who is polled is held, and the flag of an active level is set.
LEMMA RelatedKept == ASSUME IInv, [Next]_vars PROVE Related'
<1> USE DEF IInv, Related
<1>a. watched \subseteq held /\ held \subseteq Pins
  BY DEF Typed, Positions
<1>1. ASSUME NEW p \in Pins, Toggle(p) PROVE Related'
  <2>1. ASSUME NEW c \in Latched(level, polarity, edgeMode, intx)' PROVE c \in intf'
    <3>1. PICK q \in Connected(c, intx) : c \in Channels \ edgeMode /\ level'[q] = polarity[q]
      BY <1>1, <2>1 DEF Toggle, Latched, Connected
    <3>2. CASE q = p
      BY <1>1, <3>1, <3>2 DEF Toggle, Connected
    <3>3. CASE q # p
      <4>1. level'[q] = level[q]
        BY <1>1, <3>3, <3>1 DEF Toggle, Typed, Connected
      <4>2. c \in Flags(intf)
        BY <3>1, <4>1 DEF Flags, Latched
      <4>3. QED BY <1>1, <4>2 DEF Toggle
    <3>4. QED BY <3>2, <3>3
  <2>2. Flags(intf)' = intf'
    BY <2>1 DEF Flags
  <2>3. fired' \subseteq watched' \cup any' /\ woken' \subseteq held'
    BY <1>1 DEF Toggle, eventVars
  <2>4. QED BY <2>2, <2>3
<1>2. ASSUME NEW p \in Pins, Select(p) PROVE Related'
  BY <1>2 DEF Select, Flags, eventVars, waitVars
<1>3. ASSUME NEW p \in Pins, ClearFlag(p) PROVE Related'
  BY <1>3 DEF ClearFlag, Flags, eventVars
<1>4. ASSUME NEW p \in Pins, DisableInterrupt(p) PROVE Related'
  BY <1>4 DEF DisableInterrupt, Flags, waitVars
<1>5. ASSUME NEW port \in Ports, Handler(port) PROVE Related'
  <2>1. woken' \subseteq held'
    BY <1>5, <1>a, SignalledAreWatched DEF Handler, waitVars
  <2>2. Flags(intf)' = intf'
    BY <1>5 DEF Handler, Flags
  <2>3. QED BY <1>5, <2>1, <2>2 DEF Handler, waitVars
<1>6. ASSUME NEW p \in Pins, Release(p) PROVE Related'
  <2>1. p \notin woken
    BY <1>6 DEF Release, EnabledIsWatched
  <2>2. QED BY <1>6, <2>1 DEF Release, Freed, Flags, hwVars, eventVars
<1>7. ASSUME UNCHANGED <<hwVars, watched, fired>>, any \subseteq any', held \subseteq held',
             woken' \subseteq woken
      PROVE  Related'
  BY <1>7 DEF Flags, hwVars
<1>8. ASSUME NEW p \in Pins, ClaimPanics(p) \/ ForgetEvent(p) \/ Claim(p) \/ Resample(p)
             \/ (\E t \in Waits[p] \ {"any"} : StartWait(p, t)) \/ StartAnyEdge(p)
      PROVE  Related'
  BY <1>7, <1>8 DEF ClaimPanics, ForgetEvent, Claim, Resample, StartWait, StartAnyEdge,
              eventVars, waitVars
<1>9. ASSUME NEW p \in Pins, EnableInterrupt(p) PROVE Related'
  BY <1>9 DEF EnableInterrupt, Flags, eventVars, waitVars
<1>10. ASSUME NEW p \in Pins, Poll(p) \/ Look(p) \/ Register(p) \/ Relook(p) \/ Cancel(p)
      PROVE  Related'
  BY <1>7, <1>10 DEF Poll, Look, Register, Relook, Cancel, waitVars
<1>11. CASE Halt \/ UNCHANGED vars
  BY <1>11, <1>7 DEF Halt, vars, eventVars, waitVars
<1>12. QED
  BY <1>1, <1>2, <1>3, <1>4, <1>5, <1>6, <1>8, <1>9, <1>10, <1>11 DEF Next, Thread, New, Drop

\* A flag that is set, an event and a level that counts are the wait's own.
LEMMA SignalsKept == ASSUME IInv, [Next]_vars PROVE SignalIsOwn' /\ LevelIsSeen'
<1> USE DEF IInv, SignalIsOwn, LevelIsSeen
<1>a. watched \subseteq held /\ held \subseteq Pins /\ any \subseteq Pins
  BY DEF Typed, Positions
<1>1. ASSUME NEW p \in Pins, Toggle(p) PROVE SignalIsOwn' /\ LevelIsSeen'
  <2>1. /\ fired \subseteq fired'
        /\ \A q \in watched \cup any : level'[q] = ActiveHigh(trigger[q]) /\ level'[q] # level[q]
                                          => q \in fired'
    BY <1>1, <1>a DEF Toggle, Typed
  <2>2. \A q \in Pins : q # p => level'[q] = level[q]
    BY <1>1 DEF Toggle, Typed
  <2>3. UNCHANGED <<watched, any, trigger, events, cur>>
    BY <1>1 DEF Toggle, eventVars
  <2>4. LevelIsSeen'
    BY <2>1, <2>3
  <2>5. ASSUME NEW q \in watched, Chan[q] \in intf' PROVE q \in fired'
    <3>1. CASE Chan[q] \in intf
      BY <2>1, <3>1
    <3>2. CASE Chan[q] \notin intf
      <4>1. p \in Connected(Chan[q], intx) /\ level'[p] = polarity[p]
        BY <1>1, <2>5, <3>2 DEF Toggle
      <4>2. p = q /\ polarity[p] = ActiveHigh(trigger[p])
        BY <4>1, <1>a, ConnectedIsWatched DEF Armed
      <4>3. QED BY <1>1, <4>1, <4>2 DEF Toggle
    <3>3. QED BY <3>1, <3>2
  <2>6. SignalIsOwn'
    BY <2>1, <2>3, <2>5 DEF At
  <2>7. QED BY <2>4, <2>6
<1>2. ASSUME NEW p \in Pins, Select(p) PROVE SignalIsOwn' /\ LevelIsSeen'
  <2>1. p \in held /\ p \notin watched
    BY <1>2, OneStage DEF Select, Positions, Starting
  <2>2. UNCHANGED <<watched, any, trigger, events, fired, level>>
    BY <1>2 DEF Select, eventVars, waitVars
  <2>3. ASSUME NEW q \in watched, Chan[q] \in intf' PROVE q \in fired
    <3>1. Chan[q] # Chan[p]
      BY <2>1, <1>a DEF ClaimsHeld
    <3>2. Chan[q] \in intf \/ Chan[q] \in Latched(level, polarity', edgeMode', intx')
      BY <1>2, <2>3, <3>1 DEF Select
    <3>3. CASE Chan[q] \in Latched(level, polarity', edgeMode', intx')
      <4>1. PICK r \in Connected(Chan[q], intx') : level[r] = polarity'[r]
        BY <3>3 DEF Latched
      <4>2. r = q
        <5>1. RemapSelected'
          BY RegistersKept
        <5>2. /\ r \in Pins /\ Chan[r] = Chan[q]
              /\ IF intx' THEN IntxMode[r] # 1 ELSE IntxMode[r] # 2
          BY <4>1 DEF Connected
        <5>3. IntxMode[q] # 0 => IF intx' THEN IntxMode[q] = 2 ELSE IntxMode[q] # 2
          BY <5>1, <2>2, <1>a, <1>2 DEF RemapSelected, Remapped, Select, waitVars
        <5>4. q \in Pins /\ IntxMode[q] \in 0 .. 2 /\ IntxMode[r] \in 0 .. 2
          BY <5>2, <1>a, GpioAssumption DEF GpioAssumption
        <5>5. r # q => IntxMode[q] # 0 /\ IntxMode[r] # 0 /\ IntxMode[q] # IntxMode[r]
          BY <5>2, <5>4, GpioAssumption DEF GpioAssumption
        <5>6. QED BY <5>2, <5>3, <5>4, <5>5
      <4>3. level[q] = ActiveHigh(trigger[q]) /\ ~IsEdge(trigger[q])
        BY <4>1, <4>2, <3>3, <2>2, <1>a, RegistersKept DEF Armed, Latched
      <4>4. QED BY <4>3
    <3>4. QED BY <3>2, <3>3
  <2>4. \A q \in Pins : At(q, "select")' \/ At(q, "clear")' => q = p
    BY <1>2 DEF Select, At, Goto
  <2>5. QED BY <1>2, <2>2, <2>3, <2>4 DEF Select
<1>3. ASSUME NEW p \in Pins, ClearFlag(p) PROVE SignalIsOwn' /\ LevelIsSeen'
  <2>1. /\ fired \subseteq fired' /\ UNCHANGED <<any, trigger, events, level>>
        /\ watched' = watched \cup {p} /\ p \notin events
        /\ ~IsEdge(trigger[p]) /\ level[p] = ActiveHigh(trigger[p]) => p \in fired'
    BY <1>3 DEF ClearFlag, eventVars
  <2>2. LevelIsSeen'
    BY <2>1
  <2>3. Chan[p] \in intf' => p \in fired'
    <3>1. SUFFICES ASSUME Chan[p] \in Latched(level, polarity, edgeMode, intx)
                   PROVE  p \in fired'
      BY <1>3 DEF ClearFlag, Flags
    <3>2. level[p] = polarity[p] /\ Chan[p] \notin edgeMode
      BY <1>3, <3>1, ConnectedIsWatched DEF Latched, ClearFlag
    <3>3. QED BY <1>3, <2>1, <3>2 DEF Armed, ClearFlag
  <2>4. \A q \in watched : Chan[q] \in intf' => Chan[q] \in intf
    BY <1>3 DEF ClearFlag, Flags, Related
  <2>5. SignalIsOwn'
    BY <1>3, <2>1, <2>3, <2>4 DEF ClearFlag, At, Goto
  <2>6. QED BY <2>2, <2>5
<1>4. ASSUME NEW port \in Ports, Handler(port) PROVE SignalIsOwn' /\ LevelIsSeen'
  <2>1. intf' \subseteq intf /\ UNCHANGED <<watched, any, trigger, fired, level, cur>>
    BY <1>4 DEF Handler, waitVars, Flags, Related
  <2>2. \A q \in events' : q \in events \/ (q \in watched /\ Chan[q] \in intf)
    BY <1>4, SignalledAreWatched DEF Handler
  <2>3. \A q \in Pins : At(q, "select") \/ At(q, "clear") => q \notin watched
    BY OneStage DEF Positions, Starting
  <2>4. QED BY <2>1, <2>2, <2>3 DEF At
<1>5. ASSUME NEW p \in Pins, ForgetEvent(p) PROVE SignalIsOwn' /\ LevelIsSeen'
  BY <1>5 DEF ForgetEvent, hwVars, waitVars, At, Goto
<1>6. ASSUME NEW p \in Pins, DisableInterrupt(p) PROVE SignalIsOwn' /\ LevelIsSeen'
  <2>1. intf' \subseteq intf
    BY <1>6 DEF DisableInterrupt, Flags, Related
  <2>2. QED BY <1>6, <2>1 DEF DisableInterrupt, waitVars, At, Goto
<1>7. ASSUME NEW p \in Pins, Release(p) PROVE SignalIsOwn' /\ LevelIsSeen'
  BY <1>7, GpioAssumption
     DEF GpioAssumption, Release, Freed, hwVars, eventVars, At, Idle
<1>8. ASSUME NEW p \in Pins, NEW t, StartWait(p, t) PROVE SignalIsOwn' /\ LevelIsSeen'
  <2>1. p \notin watched /\ p \notin any
    BY <1>8, <1>a, GpioAssumption DEF GpioAssumption, StartWait, Positions, Idle
  <2>2. \A q \in watched \cup any : trigger'[q] = trigger[q]
    BY <1>8, <2>1, <1>a DEF StartWait, Typed
  <2>3. UNCHANGED <<watched, any, fired, level, intf, events>>
    BY <1>8 DEF StartWait, hwVars, eventVars
  <2>4. \A q \in Pins : ~At(q, "select")' /\ ~At(q, "clear")'
    BY <1>8 DEF StartWait, At, Goto
  <2>5. QED BY <2>2, <2>3, <2>4
<1>9. ASSUME NEW p \in Pins, StartAnyEdge(p) PROVE SignalIsOwn' /\ LevelIsSeen'
  <2>1. p \notin watched /\ p \notin any
    BY <1>9, <1>a, GpioAssumption DEF GpioAssumption, StartAnyEdge, Positions, Idle
  <2>2. \A q \in watched \cup any : trigger'[q] = trigger[q]
    BY <1>9, <2>1, <1>a DEF StartAnyEdge, Typed
  <2>3. UNCHANGED <<watched, fired, level, intf, events>> /\ any' = any \cup {p}
    BY <1>9 DEF StartAnyEdge, hwVars, eventVars
  <2>4. \A q \in Pins : ~At(q, "select")' /\ ~At(q, "clear")'
    BY <1>9 DEF StartAnyEdge, At, Goto
  <2>5. IsEdge(trigger'[p]) /\ level[p] # ActiveHigh(trigger'[p])
    BY <1>9 DEF StartAnyEdge, Typed, IsEdge, ActiveHigh
  <2>6. QED BY <2>2, <2>3, <2>4, <2>5
<1>10. ASSUME UNCHANGED <<level, intf, watched, any, trigger, fired>>, events' \subseteq events,
              \A p \in Pins : At(p, "select")' \/ At(p, "clear")' => cur' = cur
       PROVE  SignalIsOwn' /\ LevelIsSeen'
  BY <1>10 DEF At
<1>11. ASSUME NEW p \in Pins, Claim(p) \/ ClaimPanics(p) \/ EnableInterrupt(p) \/ Resample(p)
       PROVE  SignalIsOwn' /\ LevelIsSeen'
  BY <1>10, <1>11 DEF Claim, ClaimPanics, EnableInterrupt, Resample, hwVars, eventVars,
                      waitVars, At, Goto
<1>12. ASSUME NEW p \in Pins, Poll(p) \/ Look(p) \/ Register(p) \/ Relook(p) \/ Cancel(p)
       PROVE  SignalIsOwn' /\ LevelIsSeen'
  BY <1>10, <1>12 DEF Poll, Look, Register, Relook, Cancel, hwVars, waitVars, At, Goto, Idle
<1>13. CASE Halt \/ UNCHANGED vars
  BY <1>10, <1>13 DEF Halt, vars, hwVars, eventVars, waitVars
<1>14. QED
  BY <1>1, <1>2, <1>3, <1>4, <1>5, <1>6, <1>7, <1>8, <1>9, <1>11, <1>12, <1>13
     DEF Next, Thread, New, Drop

\* A wait gets ready by an event or a second sample, both of them its own.
LEMMA EndsKept == ASSUME IInv, [Next]_vars PROVE EndsOnTrigger'
<1> USE DEF IInv, EndsOnTrigger
<1>1. ASSUME NEW p \in Pins, Look(p) \/ Relook(p) PROVE EndsOnTrigger'
  <2>1. p \in watched
    BY <1>1, OneStage DEF Look, Relook, Positions, Starting
  <2>2. p \in events => p \in fired
    BY <2>1 DEF SignalIsOwn
  <2>3. QED BY <1>1, <2>2 DEF Look, Relook, waitVars, At, Goto, Idle
<1>2. ASSUME NEW p \in Pins, Resample(p) PROVE EndsOnTrigger'
  <2>1. level[p] = ActiveHigh(trigger[p]) => p \in fired
    BY <1>2 DEF Resample, Positions, LevelIsSeen
  <2>2. QED BY <1>2, <2>1 DEF Resample, waitVars, At, Goto
<1>3. ASSUME NEW p \in Pins, Release(p) PROVE EndsOnTrigger'
  BY <1>3 DEF Release, At, Idle
<1>4. ASSUME fired \subseteq fired', \A p \in Pins : At(p, "ended")' => cur' = cur
      PROVE  EndsOnTrigger'
  BY <1>4 DEF At
<1>5. ASSUME NEW p \in Pins, Toggle(p) \/ ClaimPanics(p) \/ ForgetEvent(p) \/ Claim(p)
             \/ Select(p) \/ ClearFlag(p) \/ EnableInterrupt(p)
             \/ (\E t \in Waits[p] \ {"any"} : StartWait(p, t)) \/ StartAnyEdge(p)
      PROVE  EndsOnTrigger'
  BY <1>4, <1>5 DEF Toggle, ClaimPanics, ForgetEvent, Claim, Select, ClearFlag,
              EnableInterrupt, StartWait, StartAnyEdge, waitVars, At, Goto
<1>6. ASSUME NEW p \in Pins, Poll(p) \/ Register(p) \/ Cancel(p) \/ DisableInterrupt(p)
      PROVE  EndsOnTrigger'
  BY <1>4, <1>6 DEF Poll, Register, Cancel, DisableInterrupt, waitVars, At, Goto
<1>7. ASSUME NEW port \in Ports, Handler(port) PROVE EndsOnTrigger'
  BY <1>4, <1>7 DEF Handler, waitVars
<1>8. CASE Halt \/ UNCHANGED vars
  BY <1>4, <1>8 DEF Halt, vars, waitVars
<1>9. QED
  BY <1>1, <1>2, <1>3, <1>5, <1>6, <1>7, <1>8 DEF Next, Thread, New, Drop

-----------------------------------------------------------------------------
(* The theorems.                                                           *)

\* The invariant holds in every reachable state.
LEMMA InvariantHolds == Spec => []IInv
<1>1. IInv /\ [Next]_vars => IInv'
  BY TypedKept, PositionsKept, ClaimsKept, RegistersKept, EnabledKept, SignalsKept,
     RelatedKept, EndsKept DEF IInv
<1>2. QED BY <1>1, InitInv, PTL DEF Spec

\* Only claimed channels are enabled, and only futures that are alive polled.
THEOREM TypeCorrect == Spec => []TypeOK
<1>1. IInv => TypeOK
  BY DEF IInv, Typed, Positions, ClaimsHeld, EnabledIsWatched, Related, TypeOK
<1>2. QED BY <1>1, InvariantHolds, PTL

\* However futures are made, end and are dropped, a channel serves one of them
\* and the remap has the users that are counted.
THEOREM ClaimsAreExact == Spec => []ClaimsExact
<1>1. IInv => ClaimsExact
  BY DEF IInv, ClaimsHeld, UsersCounted, RemapSelected, ClaimsExact
<1>2. QED BY <1>1, InvariantHolds, PTL

\* A wait ends only for what its pin did after the wait began.
THEOREM WaitsEndOnTrigger == Spec => []EndsOnTrigger
<1>1. IInv => EndsOnTrigger
  BY DEF IInv
<1>2. QED BY <1>1, InvariantHolds, PTL

=============================================================================
