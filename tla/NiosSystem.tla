----------------------------- MODULE NiosSystem -----------------------------
(***************************************************************************)
(* The Nios V system as built: start-up, interrupts of the JTAG UART, the  *)
(* I2C controller and the timer between any two steps, and the             *)
(* application.  The lamps belong to a device and survive a restart.       *)
(***************************************************************************)
EXTENDS Boot, AccelerometerApp

vars == <<cpu, boot, application>>

\* main never returns, so nothing of alt_main after it is reached.
Program == \/ BootStep /\ UNCHANGED application
           \/ InMain /\ trap = "off" /\ AppStep /\ UNCHANGED <<cpu, boot>>

SystemRestart ==
  /\ Restart
  /\ app' = "open" /\ is_flipped' = FALSE /\ g_y' = 0 /\ g_z' = 0 /\ i' = 0
  /\ face' = "up" /\ turns' = 0 /\ wipes' = 0 /\ UNCHANGED leds

Init == InitBoot /\ InitApp

Next == \/ Program \/ SystemRestart
        \/ (Raise \/ TrapStep) /\ UNCHANGED <<boot, application>>

\* The core runs: it takes interrupts it may take, and the program otherwise.
Spec == Init /\ [][Next]_vars /\ WF_vars(Program)
             /\ WF_vars(TrapStep /\ UNCHANGED <<boot, application>>)

-----------------------------------------------------------------------------
(* Properties *)

\* No line of a device finds its entry in alt_irq[] empty, at no step of the start-up;
\* the timer's handler is tested before it is called (TimerIsr).
NoStrayCall == trap # "lost"

\* When main runs, every source is enabled, has its handler, and interrupts are
\* on, whatever was interrupted or started again before.
ReadyInMain ==
  InMain /\ trap = "off" => mstatus_mie /\ mie = Source /\ handlers = Source

\* A trap ends once the devices stop raising their lines, in whatever order they did:
\* the loop of alt_irq_handler does not go round for ever on what it read before.
TrapEnds == trap # "off" ~> trap = "off"
=============================================================================
