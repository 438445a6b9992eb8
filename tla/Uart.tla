-------------------------------- MODULE Uart -------------------------------
(***************************************************************************)
(* The UART adapter of src/src/uart.rs: read, write and flush as the steps *)
(* of the task that owns the Uart, their InterruptGuard, and the handler.  *)
(* The methods borrow the Uart mutably, so there is one at a time.  The    *)
(* FIFOs are the hardware's and those of ch58x-hal (external): of the      *)
(* receiver only whether it has something to read, bytes or an error.      *)
(*                                                                         *)
(* The task's changes of IER are a load and a store, and the handler may   *)
(* run between them.  Module Firmware adds the executor that polls the     *)
(* task and is woken by the handler.                                       *)
(***************************************************************************)
EXTENDS Naturals

CONSTANTS
    TxDepth,  \* capacity of the transmit FIFO
    Ops       \* the operations the task calls

ASSUME UartAssumption == TxDepth \in Nat \ {0} /\ Ops \subseteq {"read", "write", "flush"}

VARIABLES
    ier,        \* sources enabled in IER: "rx", "tx"
    loaded,     \* the value of IER a read-modify-write has loaded
    rxReady,    \* the receiver has something to read
    txFifo,     \* bytes in the transmit FIFO
    shifting,   \* the shift register is sending
    wakers,     \* STATES: registered wakers, "rx", "tx"
    guard,      \* mask of the InterruptGuard, {} when there is none
    op, at,     \* the operation of the task, and where it is
    alive       \* the Uart exists, and its interrupt is enabled in the PFIC

ioVars == <<rxReady, txFifo, shifting>>
uartVars == <<ier, loaded, wakers, guard, op, at, alive, ioVars>>

\* RX_INTERRUPT_BITS and TX_INTERRUPT_BIT.
Mask(o) == IF o = "read" THEN {"rx"} ELSE {"tx"}
TxIdle == txFifo = 0 /\ ~shifting

\* try_read, try_write and the TX_FIFO_EMP bit.
Ready ==
    CASE op = "read" -> rxReady
      [] op = "write" -> txFifo < TxDepth
      [] op = "flush" -> txFifo = 0
Transfer ==
    /\ rxReady' = (rxReady /\ op # "read")
    /\ txFifo' = IF op = "write" THEN txFifo + 1 ELSE txFifo
    /\ UNCHANGED shifting

-----------------------------------------------------------------------------
(* The hardware.                                                           *)

Receive ==
    /\ rxReady' = TRUE
    /\ UNCHANGED <<alive, ier, loaded, wakers, guard, op, at, txFifo, shifting>>

Shift ==
    /\ \/ ~shifting /\ txFifo > 0 /\ txFifo' = txFifo - 1 /\ shifting' = TRUE
       \/ shifting /\ shifting' = FALSE /\ UNCHANGED txFifo
    /\ UNCHANGED <<alive, ier, loaded, wakers, guard, op, at, rxReady>>

-----------------------------------------------------------------------------
(* The operations.                                                         *)

Begin(o) ==
    /\ at = "idle" /\ alive /\ o \in Ops
    /\ op' = o
    /\ at' = IF o = "flush" THEN "check" ELSE "try"
    /\ guard' = IF o = "flush" THEN {} ELSE Mask(o)
    /\ UNCHANGED <<alive, ier, loaded, wakers, ioVars>>

\* flush: is_tx_idle before and after the wait for the FIFO.
FlushCheck ==
    /\ at \in {"check", "recheck"}
    /\ IF TxIdle
       THEN op' = "none" /\ at' = "idle" /\ UNCHANGED guard
       ELSE /\ at' = IF at = "check" THEN "try" ELSE "sleep"
            /\ guard' = IF at = "check" THEN Mask(op) ELSE guard
            /\ UNCHANGED op
    /\ UNCHANGED <<alive, ier, loaded, wakers, ioVars>>

\* The closures of poll_fn, for all three: try, register, enable, try again.
Try ==
    /\ at = "try"
    /\ IF Ready THEN Transfer /\ at' = "unload"
                ELSE at' = "register" /\ UNCHANGED ioVars
    /\ UNCHANGED <<alive, ier, loaded, wakers, guard, op>>

Register ==
    /\ at = "register"
    /\ wakers' = wakers \cup Mask(op)
    /\ at' = "load"
    /\ UNCHANGED <<alive, ier, loaded, guard, op, ioVars>>

EnableLoad ==
    /\ at = "load"
    /\ loaded' = ier /\ at' = "store"
    /\ UNCHANGED <<alive, ier, wakers, guard, op, ioVars>>

\* Mutant: the enable bits of another operation are written.
EnableStoreOther ==
    /\ at = "store"
    /\ ier' = loaded \cup Mask("read") /\ at' = "retry"
    /\ UNCHANGED <<alive, loaded, wakers, guard, op, ioVars>>

EnableStore ==
    /\ at = "store"
    /\ ier' = loaded \cup Mask(op) /\ at' = "retry"
    /\ UNCHANGED <<alive, loaded, wakers, guard, op, ioVars>>

Retry ==
    /\ at = "retry"
    /\ IF Ready THEN Transfer /\ at' = "unload"
                ELSE at' = "parked" /\ UNCHANGED ioVars
    /\ UNCHANGED <<alive, ier, loaded, wakers, guard, op>>

\* Mutant: an operation that ends leaves its interrupts enabled.
DisableStoreNot ==
    /\ at = "unstore"
    /\ guard' = {} /\ loaded' = {}
    /\ IF op = "flush" THEN at' = "recheck" /\ UNCHANGED op
                       ELSE at' = "idle" /\ op' = "none"
    /\ UNCHANGED <<alive, ier, wakers, ioVars>>

\* The guard is dropped, and flush goes on.
DisableLoad ==
    /\ at = "unload"
    /\ loaded' = ier /\ at' = "unstore"
    /\ UNCHANGED <<alive, ier, wakers, guard, op, ioVars>>

DisableStore ==
    /\ at = "unstore"
    /\ ier' = loaded \ guard /\ guard' = {} /\ loaded' = {}
    /\ IF op = "flush" THEN at' = "recheck" /\ UNCHANGED op
                       ELSE at' = "idle" /\ op' = "none"
    /\ UNCHANGED <<alive, wakers, ioVars>>

\* The Uart is dropped.
DropUart ==
    /\ at = "idle" /\ alive
    /\ ier' = ier \ {"rx", "tx"} /\ alive' = FALSE
    /\ UNCHANGED <<loaded, wakers, guard, op, at, ioVars>>

UartStep ==
    \/ \E o \in Ops : Begin(o)
    \/ FlushCheck \/ Try \/ Register \/ EnableLoad \/ EnableStore \/ Retry
    \/ DisableLoad \/ DisableStore \/ DropUart

\* Where a poll of the task may end.
AtRest == at \in {"idle", "parked", "sleep"}

\* A poll of the task goes on where the last one ended ...
Resume ==
    /\ at' = IF at = "parked" THEN "try" ELSE at
    /\ UNCHANGED <<alive, ier, loaded, wakers, guard, op, ioVars>>

\* ... or drops the operation it waits for.
Cancel ==
    /\ at \in {"parked", "sleep"}
    /\ op' = "none"
    /\ at' = IF at = "parked" THEN "unload" ELSE "idle"
    /\ UNCHANGED <<alive, ier, loaded, wakers, guard, ioVars>>

\* The Timer of flush ends; the time driver wakes the task.
TimerEnds ==
    /\ at = "sleep"
    /\ at' = "check"
    /\ UNCHANGED <<alive, ier, loaded, wakers, guard, op, ioVars>>

-----------------------------------------------------------------------------
(* on_interrupt.  IIR tells the receiver first; the interrupts are level    *)
(* sensitive.                                                              *)

RxAsserted == "rx" \in ier /\ rxReady
TxAsserted == "tx" \in ier /\ txFifo = 0

\* What the handler disables and wakes; an identifier it does not expect
\* stands for both.
Quiesced == CASE RxAsserted -> {"rx"} [] ~RxAsserted /\ TxAsserted -> {"tx"}
              [] OTHER -> {"rx", "tx"}
HandlerWakes == Quiesced \cap wakers # {}

Handle ==
    /\ alive
    /\ ier' = ier \ Quiesced
    /\ wakers' = wakers \ Quiesced
    /\ UNCHANGED <<alive, loaded, guard, op, at, ioVars>>

Asserted == RxAsserted \/ TxAsserted

-----------------------------------------------------------------------------
\* Uart::new has run.
UartInit ==
    /\ ier = {} /\ loaded = {} /\ wakers = {} /\ guard = {}
    /\ rxReady = FALSE /\ txFifo = 0 /\ shifting = FALSE
    /\ op = "none" /\ at = "idle" /\ alive = TRUE

=============================================================================
