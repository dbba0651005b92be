-------------------------------- MODULE Boot --------------------------------
(***************************************************************************)
(* From _start (crt0.S) through alt_main (alt_main.c) and alt_sys_init     *)
(* (alt_sys_init.c) to main: the steps that prepare interrupts, in their   *)
(* order, each of them interruptible.  A debugger may start the program    *)
(* again at any moment: memory is loaded anew, the core and the devices    *)
(* keep what they had.                                                     *)
(***************************************************************************)
EXTENDS Interrupts, Sequences

CONSTANT MaxRestarts       \* bound: restarts in a behaviour

VARIABLES step,            \* next step of Script; Len(Script) + 1 in main
          context,         \* status, the local of alt_iic_isr_register
          alt_tick_rate,   \* _alt_tick_rate is set
          alarm_started,   \* is the alarm of the JTAG UART in alt_alarm_list
          restarts

boot == <<step, context, alt_tick_rate, alarm_started, restarts>>

Step(name, irq) == [name |-> name, irq |-> irq]
Core(name) == Step(name, TIMER)

\* Mutant: the source is enabled before its handler is there, without locking.
ScriptEnablesFirst ==
  <<Core("clear_mstatus"), Core("clear_mie"), Core("bss"), Core("clear_mie"),
    Core("enable_interrupts"),
    Step("enable", I2C_0_IRQ), Step("handler", I2C_0_IRQ),
    Step("enable", JTAG_UART_0_IRQ), Step("handler", JTAG_UART_0_IRQ),
    Core("alarm_start"), Core("sysclk_init"), Core("handler"), Core("mtimecmp_set"),
    Core("enable")>>

\* _start; alt_irq_init; alt_iic_isr_register for the I2C controller and for the
\* JTAG UART, with its alarm; INTEL_NIOSV_M_INIT.
Script ==
  <<Core("clear_mstatus"), Core("clear_mie"), Core("bss"), Core("clear_mie"),
    Core("enable_interrupts"),
    Step("disable_all", I2C_0_IRQ), Step("handler", I2C_0_IRQ),
    Step("enable", I2C_0_IRQ), Step("enable_all", I2C_0_IRQ),
    Step("disable_all", JTAG_UART_0_IRQ), Step("handler", JTAG_UART_0_IRQ),
    Step("enable", JTAG_UART_0_IRQ), Step("enable_all", JTAG_UART_0_IRQ),
    Core("alarm_start"), Core("sysclk_init"), Core("handler"), Core("mtimecmp_set"),
    Core("enable")>>

InMain == step = Len(Script) + 1

Do(name) == step <= Len(Script) /\ Script[step].name = name /\ trap = "off"
            /\ step' = step + 1
This == Script[step].irq

ClearMstatus == /\ Do("clear_mstatus") /\ mstatus_mie' = FALSE
                /\ UNCHANGED <<mie, mip, handlers, trapping, raises, context,
                               alt_tick_rate, alarm_started, restarts>>

ClearMie == /\ Do("clear_mie") /\ mie' = {}
            /\ UNCHANGED <<mstatus_mie, mip, handlers, trapping, raises, context,
                           alt_tick_rate, alarm_started, restarts>>

ClearBss == /\ Do("bss") /\ handlers' = {} /\ alt_tick_rate' = FALSE
            /\ UNCHANGED <<csrs, trapping, raises, context, alarm_started, restarts>>

EnableInterrupts == /\ Do("enable_interrupts") /\ mstatus_mie' = TRUE
                    /\ UNCHANGED <<mie, mip, handlers, trapping, raises, context,
                                   alt_tick_rate, alarm_started, restarts>>

DisableAll == /\ Do("disable_all") /\ context' = mstatus_mie /\ mstatus_mie' = FALSE
              /\ UNCHANGED <<mie, mip, handlers, trapping, raises, alt_tick_rate,
                             alarm_started, restarts>>

SetHandler == /\ Do("handler") /\ handlers' = handlers \cup {This}
              /\ UNCHANGED <<csrs, trapping, raises, context, alt_tick_rate,
                             alarm_started, restarts>>

EnableSource == /\ Do("enable") /\ mie' = mie \cup {This}
                /\ UNCHANGED <<mstatus_mie, mip, handlers, trapping, raises, context,
                               alt_tick_rate, alarm_started, restarts>>

\* Mutant: interrupts stay as they are.
EnableAllNever == /\ Do("enable_all")
                  /\ UNCHANGED <<csrs, handlers, trapping, raises, context,
                                 alt_tick_rate, alarm_started, restarts>>

EnableAll == /\ Do("enable_all") /\ mstatus_mie' = (mstatus_mie \/ context)
             /\ UNCHANGED <<mie, mip, handlers, trapping, raises, context,
                            alt_tick_rate, alarm_started, restarts>>

\* alt_alarm_start refuses as long as there is no system clock.
AlarmStart == /\ Do("alarm_start") /\ alarm_started' = alt_tick_rate
              /\ UNCHANGED <<cpu, context, alt_tick_rate, restarts>>

SysclkInit == /\ Do("sysclk_init") /\ alt_tick_rate' = TRUE
              /\ UNCHANGED <<cpu, context, alarm_started, restarts>>

MtimecmpSet == /\ Do("mtimecmp_set") /\ mip' = mip \ {TIMER}
               /\ UNCHANGED <<mstatus_mie, mie, handlers, trapping, raises, context,
                              alt_tick_rate, alarm_started, restarts>>

BootStep == ClearMstatus \/ ClearMie \/ ClearBss \/ EnableInterrupts \/ DisableAll
            \/ SetHandler \/ EnableSource \/ EnableAll \/ AlarmStart \/ SysclkInit
            \/ MtimecmpSet

\* Loading the image empties alt_alarm_list, which is initialised data; the rest
\* is in the BSS, which only _start clears.
Restart ==
  /\ restarts < MaxRestarts /\ restarts' = restarts + 1
  /\ step' = 1 /\ alarm_started' = FALSE
  /\ trap' = "off" /\ active' = {}
  /\ UNCHANGED <<csrs, handlers, raises, context, alt_tick_rate>>

InitBoot == InitCpu /\ step = 1 /\ context = FALSE /\ alt_tick_rate = FALSE
            /\ alarm_started = FALSE /\ restarts = 0
=============================================================================
