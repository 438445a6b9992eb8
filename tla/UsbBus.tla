------------------------------- MODULE UsbBus ------------------------------
(***************************************************************************)
(* The bus events of src/src/usb.rs: BUS_EVENTS, Bus::poll and Bus::enable *)
(* as the steps of the task of embassy-usb that owns the Bus, and the      *)
(* reset and suspend branches of the USB handler.  Their effect on the     *)
(* endpoints is in the endpoint modules; a transfer is here for its order  *)
(* with the other flags.  The bus does not wait for the handler: it may    *)
(* change between the reading of its state and the clearing of the flag    *)
(* that said so.  Module Firmware adds the executor.                       *)
(***************************************************************************)
EXTENDS Naturals

CONSTANT MaxHostEvents  \* bound on what the host does

VARIABLES
    host,        \* what the host has done, up to MaxHostEvents
    uif,         \* INT_FG: "reset", "transfer", "suspend" (a change of it)
    suspended,   \* MIS_ST: the bus is suspended
    enabled,     \* Bus::enable has run
    isr,         \* the suspend branch of the handler: "idle", "entered", or the
                 \* event it has read
    busEvents,   \* BUS_EVENTS
    busWaker,    \* BUS_WAKER is registered
    seen,        \* the BUS_EVENTS a poll has loaded
    busAt,       \* where the task is
    reported,    \* the last of "Suspend" and "Resume" poll returned (ghost)
    missed       \* the change recorded last need not be the last word: the bus
                 \* had changed again, or a resumption was unreported (ghost)

busVars == <<host, uif, suspended, enabled, isr, busEvents, busWaker, seen, busAt,
             reported, missed>>

Events == {"Reset", "Suspend", "Resume", "PowerDetected"}

-----------------------------------------------------------------------------
(* The host.                                                               *)

Raise(flags) ==
    /\ enabled /\ host < MaxHostEvents /\ host' = host + 1
    /\ uif' = uif \cup flags
    /\ UNCHANGED <<enabled, isr, busEvents, busWaker, seen, busAt, reported, missed>>

HostTransfers == ~suspended /\ Raise({"transfer"}) /\ UNCHANGED suspended

HostResets ==
    /\ Raise(IF suspended THEN {"reset", "suspend"} ELSE {"reset"})
    /\ suspended' = FALSE

HostSuspends == ~suspended /\ Raise({"suspend"}) /\ suspended' = TRUE

HostResumes == suspended /\ Raise({"suspend"}) /\ suspended' = FALSE

-----------------------------------------------------------------------------
(* usb_interrupt.  A flag raised while it handles another stays for the    *)
(* next entry, so that its reset and transfer branches are one step each.  *)

InHandler == isr # "idle"

\* Mutant: the task is not woken.
OnResetNoWake ==
    /\ ~InHandler /\ uif \cap {"reset", "transfer"} = {"reset"}
    /\ uif' = uif \ {"reset"}
    /\ busEvents' = busEvents \cup {"Reset"}
    /\ UNCHANGED <<host, busWaker, suspended, enabled, isr, seen, busAt, reported, missed>>

OnReset ==
    /\ ~InHandler /\ uif \cap {"reset", "transfer"} = {"reset"}
    /\ uif' = uif \ {"reset"}
    /\ busEvents' = busEvents \cup {"Reset"}
    /\ busWaker' = FALSE
    /\ UNCHANGED <<host, suspended, enabled, isr, seen, busAt, reported, missed>>

\* A reset latched with the transfer is left to the next entry.
OnTransfer ==
    /\ ~InHandler /\ "transfer" \in uif
    /\ uif' = uif \ {"transfer"}
    /\ UNCHANGED <<host, suspended, enabled, isr, busEvents, busWaker, seen, busAt,
                   reported, missed>>

\* INT_FG is read: neither transfer nor reset is handled in this entry.
EnterSuspend ==
    /\ isr = "idle" /\ uif = {"suspend"}
    /\ isr' = "entered"
    /\ UNCHANGED <<host, uif, suspended, enabled, busEvents, busWaker, seen, busAt,
                   reported, missed>>

\* MIS_ST is read ...
ReadSuspend ==
    /\ isr = "entered"
    /\ isr' = IF suspended THEN "Suspend" ELSE "Resume"
    /\ UNCHANGED <<host, uif, suspended, enabled, busEvents, busWaker, seen, busAt,
                   reported, missed>>

\* ... and what was read is recorded, and the flag cleared whatever it says now.
ClearSuspend ==
    /\ isr \in {"Suspend", "Resume"}
    /\ busEvents' = busEvents \cup {isr}
    /\ uif' = uif \ {"suspend"}
    /\ busWaker' = FALSE
    /\ isr' = "idle"
    /\ missed' = (suspended # (isr = "Suspend") \/ "Resume" \in busEvents)
    /\ UNCHANGED <<host, suspended, enabled, seen, busAt, reported>>

UsbHandler ==
    enabled /\ (OnReset \/ OnTransfer \/ EnterSuspend \/ ReadSuspend \/ ClearSuspend)

-----------------------------------------------------------------------------
(* Bus::poll.                                                              *)

RegisterBus ==
    /\ busAt = "register"
    /\ busWaker' = TRUE
    /\ busAt' = "load"
    /\ UNCHANGED <<host, uif, suspended, enabled, isr, busEvents, seen, reported, missed>>

LoadEvents ==
    /\ busAt = "load"
    /\ seen' = busEvents
    /\ busAt' = IF busEvents = {} THEN "parked" ELSE "take"
    /\ UNCHANGED <<host, uif, suspended, enabled, isr, busEvents, busWaker, reported, missed>>

\* The order of the bits.
First ==
    CASE "Reset" \in seen -> "Reset"
      [] "Reset" \notin seen /\ "Suspend" \in seen -> "Suspend"
      [] seen \in {{"Resume"}, {"Resume", "PowerDetected"}} -> "Resume"
      [] OTHER -> "PowerDetected"

\* Mutant: every event is cleared with the one that is returned.
TakeEventAll ==
    /\ busAt = "take"
    /\ busEvents' = {} /\ seen' = {}
    /\ reported' = IF First \in {"Suspend", "Resume"} THEN First ELSE reported
    /\ busAt' = IF First = "PowerDetected" THEN "enable" ELSE "register"
    /\ UNCHANGED <<host, uif, suspended, enabled, isr, busWaker, missed>>

\* embassy-usb enables the bus when power is detected, and polls again.
TakeEvent ==
    /\ busAt = "take"
    /\ busEvents' = busEvents \ {First} /\ seen' = {}
    /\ reported' = IF First \in {"Suspend", "Resume"} THEN First ELSE reported
    /\ busAt' = IF First = "PowerDetected" THEN "enable" ELSE "register"
    /\ UNCHANGED <<host, uif, suspended, enabled, isr, busWaker, missed>>

\* Bus::enable.  The D+ pull-up makes the host see the device.
EnableBus ==
    /\ busAt = "enable"
    /\ uif' = {} /\ enabled' = TRUE
    /\ busAt' = "register"
    /\ UNCHANGED <<host, suspended, isr, busEvents, busWaker, seen, reported, missed>>

BusStep == RegisterBus \/ LoadEvents \/ TakeEvent \/ EnableBus

BusAtRest == busAt = "parked"

ResumeBus ==
    /\ busAt' = IF busAt = "parked" THEN "register" ELSE busAt
    /\ UNCHANGED <<host, uif, suspended, enabled, isr, busEvents, busWaker, seen, reported, missed>>

-----------------------------------------------------------------------------
\* Driver::start has run; nothing is reported unless it happened.
BusInit ==
    /\ host = 0 /\ uif = {} /\ suspended = FALSE /\ enabled = FALSE
    /\ busEvents = {"PowerDetected"} /\ busWaker = FALSE
    /\ seen = {} /\ busAt = "register" /\ reported = "Resume"
    /\ isr = "idle" /\ missed = FALSE

=============================================================================
