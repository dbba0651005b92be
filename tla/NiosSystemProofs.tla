-------------------------- MODULE NiosSystemProofs --------------------------
(***************************************************************************)
(* Start-up, interrupts and application, for every set of samples and any  *)
(* number of interrupts and restarts.                                      *)
(***************************************************************************)
EXTENDS NiosSystem, TLAPS

-----------------------------------------------------------------------------
(* Where the steps of the script are. *)

LEMMA ScriptLength == Len(Script) = 18
  BY DEF Script, Core, Step

LEMMA ScriptPlaces ==
  ASSUME NEW s \in 1..18
  PROVE  /\ Script[s].name = "clear_mstatus" => s = 1
         /\ Script[s].name = "clear_mie" => s \in {2, 4}
         /\ Script[s].name = "bss" => s = 3
         /\ Script[s].name = "enable_interrupts" => s = 5
         /\ Script[s].name = "disable_all" => s \in {6, 10}
         /\ Script[s].name = "handler" => s \in {7, 11, 16}
         /\ Script[s].name = "enable" => s \in {8, 12, 18}
         /\ Script[s].name = "enable_all" => s \in {9, 13}
         /\ Script[s].name = "alarm_start" => s = 14
         /\ Script[s].name = "sysclk_init" => s = 15
         /\ Script[s].name = "mtimecmp_set" => s = 17
  BY DEF Script, Core, Step

LEMMA ScriptIrqs ==
  ASSUME NEW s \in 1..18
  PROVE  /\ s \in {7, 8} => Script[s].irq = I2C_0_IRQ
         /\ s \in {11, 12} => Script[s].irq = JTAG_UART_0_IRQ
         /\ s \in {16, 18} => Script[s].irq = TIMER
  BY DEF Script, Core, Step

-----------------------------------------------------------------------------
(* Handlers: a source is enabled only while its handler is there. *)

CpuOK == /\ mie \subseteq handlers /\ handlers \subseteq Source
         /\ active \subseteq handlers
         /\ trap = "off" => active = {}
         /\ NoStrayCall

\* What the places of the start-up have made true: bss empties the table of
\* handlers once nothing is enabled, and an enable follows its handler.
BootOK == /\ step \in 1..19
          /\ step = 3 => mie = {}
          /\ step \in 8..19 => I2C_0_IRQ \in handlers
          /\ step \in 12..19 => JTAG_UART_0_IRQ \in handlers
          /\ step \in 17..19 => TIMER \in handlers
          /\ step \in 9..19 => I2C_0_IRQ \in mie
          /\ step \in 13..19 => JTAG_UART_0_IRQ \in mie
          /\ step = 19 => TIMER \in mie

\* Interrupts are on from enable_interrupts, but in a trap and between
\* disable_all and enable_all, where no trap begins.
LockOK == /\ step \in {2, 3, 4, 5} => ~mstatus_mie /\ trap = "off"
          /\ step \in {6, 10} \cup 14..19 => (trap = "off" => mstatus_mie)
          /\ step \in {7, 8, 9, 11, 12, 13} => ~mstatus_mie /\ context /\ trap = "off"

IInv == CpuOK /\ BootOK /\ LockOK

LEMMA StartsOK == Init => IInv
  BY DEF Init, InitBoot, InitCpu, IInv, CpuOK, BootOK, LockOK, NoStrayCall

\* The steps of the start-up.
LEMMA BootStepKeeps ==
  ASSUME IInv, BootStep
  PROVE  IInv'
<1> USE DEF IInv
<1>s. UNCHANGED trapping
  BY DEF BootStep, ClearMstatus, ClearMie, ClearBss, EnableInterrupts, DisableAll,
         SetHandler, EnableSource, EnableAll, AlarmStart, SysclkInit, MtimecmpSet, cpu
<1>d. step <= Len(Script) /\ trap = "off" /\ step' = step + 1
  BY DEF BootStep, ClearMstatus, ClearMie, ClearBss, EnableInterrupts, DisableAll,
         SetHandler, EnableSource, EnableAll, AlarmStart, SysclkInit, MtimecmpSet, Do
<1>p. step \in 1..18 /\ step \in Int /\ trap = "off" /\ step' = step + 1 /\ UNCHANGED trapping
  BY <1>s, <1>d, ScriptLength DEF BootOK
<1>1. CASE ClearMstatus
  <2>1. step = 1  BY <1>1, <1>p, ScriptPlaces DEF ClearMstatus, Do
  <2>2. CpuOK' /\ BootOK'  BY <1>1, <1>p, <2>1 DEF ClearMstatus, CpuOK, BootOK, NoStrayCall, trapping
  <2>3. trap' = "off"  BY <1>p DEF trapping
  <2>4. ~mstatus_mie'  BY <1>1 DEF ClearMstatus
  <2>5. LockOK'  BY <1>p, <2>1, <2>3, <2>4 DEF LockOK
  <2> QED  BY <2>2, <2>5
<1>2. CASE ClearMie
  <2>1. step \in {2, 4}  BY <1>2, <1>p, ScriptPlaces DEF ClearMie, Do
  <2> QED  BY <1>2, <1>p, <2>1 DEF ClearMie, CpuOK, BootOK, LockOK, NoStrayCall, trapping
<1>3. CASE ClearBss
  <2>1. step = 3  BY <1>3, <1>p, ScriptPlaces DEF ClearBss, Do
  <2> QED  BY <1>3, <1>p, <2>1 DEF ClearBss, CpuOK, BootOK, LockOK, NoStrayCall, trapping, csrs
<1>4. CASE EnableInterrupts
  <2>1. step = 5  BY <1>4, <1>p, ScriptPlaces DEF EnableInterrupts, Do
  <2> QED  BY <1>4, <1>p, <2>1 DEF EnableInterrupts, CpuOK, BootOK, LockOK, NoStrayCall, trapping
<1>5. CASE DisableAll
  <2>1. step \in {6, 10}  BY <1>5, <1>p, ScriptPlaces DEF DisableAll, Do
  <2>2. CpuOK' /\ BootOK'  BY <1>5, <1>p, <2>1 DEF DisableAll, CpuOK, BootOK, NoStrayCall, trapping
  <2>3. trap' = "off"  BY <1>p DEF trapping
  <2>4. mstatus_mie  BY <1>p, <2>1 DEF LockOK
  <2>5. ~mstatus_mie' /\ context'  BY <1>5, <2>4 DEF DisableAll
  <2>6. LockOK'  BY <1>p, <2>1, <2>3, <2>5 DEF LockOK
  <2> QED  BY <2>2, <2>6
<1>6. CASE SetHandler
  <2>1. step \in {7, 11, 16}  BY <1>6, <1>p, ScriptPlaces DEF SetHandler, Do
  <2>2. /\ step = 7 => This = I2C_0_IRQ
        /\ step = 11 => This = JTAG_UART_0_IRQ
        /\ step = 16 => This = TIMER
    BY <1>p, ScriptIrqs DEF This
  <2>3. This \in Source  BY <2>1, <2>2 DEF Source, Irq
  <2> QED  BY <1>6, <1>p, <2>1, <2>2, <2>3
             DEF SetHandler, CpuOK, BootOK, LockOK, NoStrayCall, trapping, csrs
<1>7. CASE EnableSource
  <2>1. step \in {8, 12, 18}  BY <1>7, <1>p, ScriptPlaces DEF EnableSource, Do
  <2>2. /\ step = 8 => This = I2C_0_IRQ
        /\ step = 12 => This = JTAG_UART_0_IRQ
        /\ step = 18 => This = TIMER
    BY <1>p, ScriptIrqs DEF This
  <2>3. This \in handlers  BY <2>1, <2>2 DEF BootOK
  <2> QED  BY <1>7, <1>p, <2>1, <2>2, <2>3
             DEF EnableSource, CpuOK, BootOK, LockOK, NoStrayCall, trapping
<1>8. CASE EnableAll
  <2>1. step \in {9, 13}  BY <1>8, <1>p, ScriptPlaces DEF EnableAll, Do
  <2>2. CpuOK' /\ BootOK'  BY <1>8, <1>p, <2>1 DEF EnableAll, CpuOK, BootOK, NoStrayCall, trapping
  <2>3. trap' = "off"  BY <1>p DEF trapping
  <2>4. context  BY <1>p, <2>1 DEF LockOK
  <2>5. mstatus_mie'  BY <1>8, <2>4 DEF EnableAll
  <2>6. LockOK'  BY <1>p, <2>1, <2>3, <2>5 DEF LockOK
  <2> QED  BY <2>2, <2>6
<1>9. CASE AlarmStart
  <2>1. step = 14  BY <1>9, <1>p, ScriptPlaces DEF AlarmStart, Do
  <2> QED  BY <1>9, <1>p, <2>1 DEF AlarmStart, CpuOK, BootOK, LockOK, NoStrayCall, cpu, csrs, trapping
<1>10. CASE SysclkInit
  <2>1. step = 15  BY <1>10, <1>p, ScriptPlaces DEF SysclkInit, Do
  <2> QED  BY <1>10, <1>p, <2>1 DEF SysclkInit, CpuOK, BootOK, LockOK, NoStrayCall, cpu, csrs, trapping
<1>11. CASE MtimecmpSet
  <2>1. step = 17  BY <1>11, <1>p, ScriptPlaces DEF MtimecmpSet, Do
  <2> QED  BY <1>11, <1>p, <2>1 DEF MtimecmpSet, CpuOK, BootOK, LockOK, NoStrayCall, trapping
<1> QED  BY <1>1, <1>2, <1>3, <1>4, <1>5, <1>6, <1>7, <1>8, <1>9, <1>10, <1>11 DEF BootStep

\* The steps of a trap, and an interrupt that is raised.
LEMMA TrapStepKeeps ==
  ASSUME IInv, Raise \/ TrapStep, UNCHANGED boot
  PROVE  IInv'
<1> USE DEF IInv, boot
<1>1. CASE Raise
  BY <1>1 DEF Raise, CpuOK, BootOK, LockOK, NoStrayCall, trapping
<1>2. CASE Trap
  BY <1>2 DEF Trap, CpuOK, BootOK, LockOK, NoStrayCall
<1>3. CASE TimerIsr
  BY <1>3 DEF TimerIsr, CpuOK, BootOK, LockOK, NoStrayCall
<1>4. CASE ReadPending
  BY <1>4 DEF ReadPending, Pending, CpuOK, BootOK, LockOK, NoStrayCall, csrs
<1>5. CASE Serve
  BY <1>5 DEF Serve, CpuOK, BootOK, LockOK, NoStrayCall
<1>6. CASE Mret
  BY <1>6 DEF Mret, CpuOK, BootOK, LockOK, NoStrayCall
<1> QED  BY <1>1, <1>2, <1>3, <1>4, <1>5, <1>6 DEF TrapStep

LEMMA NextKeeps == IInv /\ [Next]_vars => IInv'
<1> SUFFICES ASSUME IInv, [Next]_vars PROVE IInv'
  OBVIOUS
<1>1. CASE BootStep
  BY <1>1, BootStepKeeps
<1>2. CASE UNCHANGED <<cpu, boot>>
  BY <1>2 DEF IInv, CpuOK, BootOK, LockOK, NoStrayCall, cpu, csrs, trapping, boot
<1>3. CASE SystemRestart
  BY <1>3 DEF SystemRestart, Restart, IInv, CpuOK, BootOK, LockOK, NoStrayCall, csrs
<1>4. CASE (Raise \/ TrapStep) /\ UNCHANGED boot
  BY <1>4, TrapStepKeeps
<1> QED  BY <1>1, <1>2, <1>3, <1>4 DEF Next, Program, vars

THEOREM HandlersTheorem == Spec => []IInv
  BY StartsOK, NextKeeps, PTL DEF Spec

\* No interrupt finds its handler missing (alt_iic_isr_register, alt_irq_handler),
\* whatever was interrupted or started again.
THEOREM NoStrayCallTheorem == Spec => []NoStrayCall
<1>1. IInv => NoStrayCall  BY DEF IInv, CpuOK
<1> QED  BY <1>1, HandlersTheorem, PTL

\* main runs with every source enabled and handled, and interrupts on.
THEOREM ReadyTheorem == Spec => []ReadyInMain
<1>1. IInv => ReadyInMain
  BY ScriptLength DEF IInv, CpuOK, BootOK, LockOK, ReadyInMain, InMain, Source, Irq
<1> QED  BY <1>1, HandlersTheorem, PTL

-----------------------------------------------------------------------------
(* The application: one wipe for each turn of the board. *)

LEMMA Word ==
  ASSUME NEW hi \in 0..255, NEW lo \in 0..255
  PROVE  256 * hi + lo \in Int
  OBVIOUS

LEMMA SampleType ==
  ASSUME NEW s \in Samples
  PROVE  Int16(s.z) \in Int
<1> DEFINE v == 256 * s.z[1] + s.z[2]
<1>1. s.z \in Byte \X Byte  BY AppAssumption
<1>2. s.z[1] \in 0..255 /\ s.z[2] \in 0..255  BY <1>1 DEF Byte
<1>3. v \in Int  BY <1>2, Word
<1>4. Int16(s.z) = IF v >= 32768 THEN v - 65536 ELSE v  BY DEF Int16
<1> HIDE DEF v
<1> QED  BY <1>3, <1>4

\* The program's is_flipped and the side the samples showed agree but between a
\* sample and its decision, where the sample tells how they differ.
Settled == (is_flipped <=> face = "down") /\ wipes = turns

Undecided ==
  /\ g_z \in Int
  /\ g_z < Z_FLIP_NEG_TH => face = "down"
  /\ g_z > Z_FLIP_POS_TH => face = "up"
  /\ g_z \in Z_FLIP_NEG_TH..Z_FLIP_POS_TH => (is_flipped <=> face = "down")
  /\ turns = IF ~is_flipped /\ face = "down" THEN (wipes + 1) % MaxTurns ELSE wipes

FlipInv == /\ face \in {"up", "down"}
           /\ app \in {"open", "identify", "configure"} => face = "up"
           /\ app # "decide" => Settled
           /\ app = "decide" => Undecided

LEMMA FlipStarts == Init => FlipInv
  BY DEF Init, InitApp, FlipInv, Settled

LEMMA AppStepKeeps ==
  ASSUME FlipInv, AppStep
  PROVE  FlipInv'
<1> USE DEF FlipInv, Go
<1>1. CASE Open \/ Identify \/ Blink
  BY <1>1 DEF Open, Identify, Blink, Settled
<1>2. CASE Configure
  BY <1>2 DEF Configure, Settled
<1>3. CASE ReadSample
  <2>1. PICK s \in Samples :
          /\ g_z' = Int16(s.z) /\ face' = Side(Int16(s.z))
          /\ turns' = IF face' = "down" /\ face = "up" THEN (turns + 1) % MaxTurns
                                                       ELSE turns
    BY <1>3 DEF ReadSample
  <2>2. g_z' \in Int  BY <2>1, SampleType
  <2>3. app = "read" /\ app' = "decide" /\ UNCHANGED <<is_flipped, wipes>>
    BY <1>3 DEF ReadSample
  <2>4. Settled  BY <2>3
  <2>5. face' = Side(g_z')  BY <2>1
  <2>6. face' \in {"up", "down"}  BY <2>5 DEF Side
  <2>7. Undecided'
    BY <2>1, <2>2, <2>3, <2>4, <2>5
       DEF Undecided, Settled, Side, Z_FLIP_NEG_TH, Z_FLIP_POS_TH
  <2> QED  BY <2>3, <2>6, <2>7
<1>4. CASE Decide
  <2>1. Undecided /\ app' # "decide" /\ UNCHANGED <<face, turns>>
    BY <1>4 DEF Decide
  <2>2. CASE ~is_flipped /\ g_z < Z_FLIP_NEG_TH
    BY <1>4, <2>1, <2>2 DEF Decide, Undecided, Settled, Z_FLIP_NEG_TH, Z_FLIP_POS_TH
  <2>3. CASE is_flipped /\ g_z > Z_FLIP_POS_TH
    <3>1. face = "up" /\ turns = wipes
      BY <2>1, <2>3 DEF Undecided, Z_FLIP_POS_TH
    <3>2. /\ ~(g_z < Z_FLIP_NEG_TH)
          /\ ~(g_z <= Z_FLIP_POS_TH)
      BY <2>1, <2>3 DEF Undecided, Z_FLIP_NEG_TH, Z_FLIP_POS_TH
    <3>3. ~is_flipped' /\ wipes' = wipes
      BY <1>4, <2>3, <3>2, Zenon DEF Decide
    <3> QED  BY <2>1, <3>1, <3>3 DEF Settled
  <2>4. CASE IF is_flipped THEN g_z <= Z_FLIP_POS_TH ELSE g_z >= Z_FLIP_NEG_TH
    BY <1>4, <2>1, <2>4 DEF Decide, Undecided, Settled, Z_FLIP_NEG_TH, Z_FLIP_POS_TH
  <2> QED  BY <1>4, <2>2, <2>3, <2>4 DEF Decide
<1>5. CASE ReadFails \/ Wipe \/ Show \/ Sleep
  BY <1>5 DEF ReadFails, Wipe, Show, Sleep, Settled
<1> QED  BY <1>1, <1>2, <1>3, <1>4, <1>5 DEF AppStep

LEMMA FlipKeeps == FlipInv /\ [Next]_vars => FlipInv'
<1> SUFFICES ASSUME FlipInv, [Next]_vars PROVE FlipInv'
  OBVIOUS
<1>1. CASE AppStep
  BY <1>1, AppStepKeeps
<1>2. CASE UNCHANGED application
  BY <1>2 DEF application, FlipInv, Settled, Undecided
<1>3. CASE SystemRestart
  <2>1. app' = "open" /\ face' = "up" /\ turns' = wipes'  BY <1>3 DEF SystemRestart
  <2>2. ~is_flipped'  BY <1>3 DEF SystemRestart
  <2>3. Settled'  BY <2>1, <2>2 DEF Settled
  <2> QED  BY <2>1, <2>3 DEF FlipInv
<1> QED  BY <1>1, <1>2, <1>3 DEF Next, Program, vars

\* The wipe_animation runs once for each time the samples show the board turned
\* over (main), whatever the samples in between and the reads that failed.
THEOREM OneWipeTheorem == Spec => []OneWipePerTurn
<1>1. FlipInv => OneWipePerTurn  BY DEF FlipInv, Settled, OneWipePerTurn
<1> QED  BY <1>1, FlipStarts, FlipKeeps, PTL DEF Spec

-----------------------------------------------------------------------------
LEMMA Eighths ==
  ASSUME NEW n \in 0..4599
  PROVE  n \div 512 \in 0..8
<1>1. n \div 512 \in Int  OBVIOUS
<1>2. n \div 512 <= 8  OBVIOUS
<1>3. n \div 512 >= 0  OBVIOUS
<1> QED  BY <1>1, <1>2, <1>3

int16_t == -32768..32767

LEMMA Level ==
  ASSUME NEW y \in int16_t
  PROVE  y_to_led_index(y) \in 0..9
<1> y \in Int  BY DEF int16_t
<1>1. CASE y <= -256
  BY <1>1 DEF y_to_led_index
<1>2. CASE y > -256 /\ y >= 256
  BY <1>2 DEF y_to_led_index, NLEDS
<1>3. CASE y > -256 /\ y < 256
  <2>1. (y + 256) * 9 \in 0..4599  BY <1>3
  <2>2. y_to_led_index(y) = ((y + 256) * 9) \div 512
    BY <1>3 DEF y_to_led_index, NLEDS
  <2>3. ((y + 256) * 9) \div 512 \in 0..8  BY <2>1, Eighths
  <2> QED  BY <2>2, <2>3
<1> QED  BY <1>1, <1>2, <1>3

\* The level is always one of the ten lamps: a write outside the lamps' register
\* would light none (y_to_led_index, leds_write).
THEOREM LevelInRange == \A y \in int16_t : y_to_led_index(y) \in All
<1>1. All = 0..9  BY DEF All, NLEDS
<1>2. ASSUME NEW y \in int16_t PROVE y_to_led_index(y) \in 0..9
  BY Level
<1> QED  BY <1>1, <1>2
=============================================================================
