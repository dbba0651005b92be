----------------------------- MODULE Interrupts -----------------------------
(***************************************************************************)
(* How the Nios V takes interrupts: the enables of the core, trap_vector   *)
(* (machine_trap.S), handle_trap and alt_irq_handler (alt_irq_handler.c),  *)
(* and the table of handlers.  The program runs while trap = "off".        *)
(***************************************************************************)
EXTENDS Integers

CONSTANT MaxRaises         \* bound: interrupts raised in a behaviour

JTAG_UART_0_IRQ == 0
I2C_0_IRQ == 1
TIMER == 2                 \* NIOSV_TIMER_IRQ, which is not a line of a device
Irq == {JTAG_UART_0_IRQ, I2C_0_IRQ}
Source == Irq \cup {TIMER}

VARIABLES mstatus_mie,     \* mstatus.MIE: may the program be interrupted
          mie, mip,        \* sources enabled, sources raised
          handlers,        \* sources whose handler is registered: alt_irq[] and
                           \* alt_niosv_timer_interrupt_handler
          trap, active,    \* place in handle_trap; active of alt_irq_handler
          raises           \* history: interrupts raised so far

csrs == <<mstatus_mie, mie, mip>>
trapping == <<trap, active>>
cpu == <<csrs, handlers, trapping, raises>>

Pending == mip \cap mie \cap Irq

Raise ==
  /\ raises < MaxRaises /\ raises' = raises + 1
  /\ \E s \in Source \ mip : mip' = mip \cup {s}
  /\ UNCHANGED <<mstatus_mie, mie, handlers, trapping>>

\* The core interrupts the program and clears MIE; which of several sources it
\* announces is left open.
Trap ==
  /\ trap = "off" /\ mstatus_mie
  /\ \E s \in mip \cap mie : trap' = IF s = TIMER THEN "timer" ELSE "enter"
  /\ mstatus_mie' = FALSE
  /\ UNCHANGED <<mie, mip, handlers, active, raises>>

\* alt_niosv_timer_sc_isr moves mtimecmp past the time, which lowers the source;
\* without a handler nothing does.
TimerIsr ==
  /\ trap = "timer"
  /\ mip' = IF TIMER \in handlers THEN mip \ {TIMER} ELSE mip
  /\ trap' = "mret"
  /\ UNCHANGED <<mstatus_mie, mie, handlers, active, raises>>

\* Mutant: the lines are read once, on entry.
PendingOnce ==
  /\ trap \in {"enter", "again"}
  /\ IF trap = "enter" THEN active' = Pending /\ trap' = "scan"
     ELSE trap' = (IF active = {} THEN "mret" ELSE "scan") /\ UNCHANGED active
  /\ UNCHANGED <<csrs, handlers, raises>>

\* active = alt_irq_pending(), before the loop and at its end; only the end tests
\* that there is something.
ReadPending ==
  /\ trap \in {"enter", "again"}
  /\ active' = Pending
  /\ trap' = IF trap = "again" /\ Pending = {} THEN "mret" ELSE "scan"
  /\ UNCHANGED <<csrs, handlers, raises>>

\* The lowest line is served; a search among none does not end, and a handler
\* that was not registered is a jump to address zero.
Serve ==
  /\ trap = "scan"
  /\ \E line \in active :
       /\ \A other \in active : line <= other
       /\ IF line \in handlers THEN mip' = mip \ {line} /\ trap' = "again"
                               ELSE trap' = "lost" /\ UNCHANGED mip
  /\ UNCHANGED <<mstatus_mie, mie, handlers, active, raises>>

Mret ==
  /\ trap = "mret"
  /\ trap' = "off" /\ mstatus_mie' = TRUE /\ active' = {}
  /\ UNCHANGED <<mie, mip, handlers, raises>>

TrapStep == Trap \/ TimerIsr \/ ReadPending \/ Serve \/ Mret

InitCpu == /\ mstatus_mie = FALSE /\ mie = {} /\ mip \in SUBSET Source
           /\ handlers = {} /\ trap = "off" /\ active = {} /\ raises = 0
=============================================================================
