----------------------------- MODULE I2cDriver -----------------------------
(***************************************************************************)
(* The HAL driver of the I2C master (altera_avalon_i2c.c): one thread      *)
(* sends, receives, or sends and receives with a repeated start, waiting   *)
(* in loops with a timeout, or leaves the end of the transfer to           *)
(* optional_irq_callback and asks for its outcome.                         *)
(***************************************************************************)
EXTENDS I2cController

CONSTANTS Calls,        \* [op, irq, n, m]: what the program may ask: n bytes
                        \* to send, m to receive
          MaxRetry      \* bound: attempts after the first (retry = 10000)

ASSUME CallsAssumption ==
  /\ \A c \in Calls : c.op \in {"tx", "rx", "tx_rx"} /\ c.irq \in BOOLEAN
                      /\ c.n \in Nat /\ c.m \in Nat
  /\ MaxRetry \in Nat

VARIABLES registered,             \* is optional_irq_callback the callback
          irq_busy, irq_size,     \* IRQ_DATA_t
          isr,                    \* place in the handler; "off": not there
          call, pc, stage,        \* the program's call, its place, and the
                                  \* function master_transmit or _receive
          status, retry,
          written, got,           \* commands queued, bytes stored
          stale,                  \* history: a byte stored that was not asked
          saveints                \* for by this call

irqdata == <<registered, irq_busy, irq_size>>
transfer == <<stage, status, retry, written, got, stale>>
vars == <<controller, irqdata, isr, call, pc, transfer, saveints>>

Retried == {"ARB_LOST_ERR", "NACK_ERR", "BUSY"}

-----------------------------------------------------------------------------
(* What a call asks of the bus. *)

Sent(n) == <<START, ADDR_W>> \o [i \in 1..n |-> i]
Received(m) == <<START, ADDR_R>> \o [i \in 1..m |-> READ]

Plan(c) ==
  CASE c.op = "tx"    -> Sent(c.n) \o <<STOP>>
    [] c.op = "rx"    -> Received(c.m) \o <<STOP>>
    [] c.op = "tx_rx" -> Sent(c.n) \o Received(c.m) \o <<STOP>>

Size == IF stage = "transmit" THEN call.n ELSE call.m
IssueRestart == call.op = "tx_rx" /\ stage = "receive"
IssueStop == ~(call.op = "tx_rx" /\ stage = "transmit")

\* Command number written + 1: the address, then Size bytes or read requests.
NextCommand ==
  IF written = 0
    THEN Command(IF stage = "transmit" THEN ADDR_W ELSE ADDR_R, IssueRestart, FALSE)
    ELSE Command(IF stage = "transmit" THEN written ELSE 0, FALSE,
                 IssueStop /\ written = Size)

ErrorSeen(otherwise) ==
  IF "ARB" \in det THEN "ARB_LOST_ERR"
  ELSE IF "NACK" \in det THEN "NACK_ERR" ELSE otherwise

-----------------------------------------------------------------------------
(* Calls, attempts and retries. *)

Rest == pc \in {"done", "told"}
AtRest == Rest /\ isr = "off"

FirstStage(c) == IF c.op = "rx" THEN "receive" ELSE "transmit"

Clean == fsm = "IDLE" /\ txf = <<>> /\ rxf = <<>>

Call ==
  /\ AtRest
  /\ \E c \in Calls : call' = c /\ plan' = Plan(c) /\ stage' = FirstStage(c)
  /\ pc' = "attempt" /\ retry' = MaxRetry
  /\ seen' = IF fsm = "IDLE" THEN 0 ELSE -1
  /\ mishap' = IF Clean THEN mishap \ {"LATE"} ELSE mishap
  /\ status' = "SUCCESS" /\ written' = 0 /\ got' = 0 /\ stale' = FALSE
  /\ UNCHANGED <<registers, det, txf, rxf, machine, irqdata, isr, saveints>>

Leave(s) == pc' = "staged" /\ status' = s

\* The head of master_transmit and master_receive, up to alt_avalon_i2c_enable.
Attempt ==
  /\ pc = "attempt"
  /\ written' = 0 /\ got' = 0 /\ stale' = FALSE
  /\ \/ Size = 0 /\ Leave("SUCCESS")
        /\ UNCHANGED <<en, fsm, rxf, mishap, irq_busy>>
     \/ Size > 0 /\ call.irq /\ ~registered /\ Leave("BAD_ARG")
        /\ UNCHANGED <<en, fsm, rxf, mishap, irq_busy>>
     \/ Size > 0 /\ (call.irq => registered) /\ IssueRestart
        /\ pc' = "write" /\ status' = "SUCCESS"
        /\ UNCHANGED <<en, fsm, rxf, mishap, irq_busy>>
     \/ Size > 0 /\ (call.irq => registered) /\ ~IssueRestart
        /\ IF en THEN Leave("BUSY") /\ UNCHANGED <<en, fsm, rxf, mishap, irq_busy>>
           ELSE /\ Enable /\ pc' = "clear" /\ status' = "SUCCESS"
                /\ irq_busy' = IF registered THEN 0 ELSE irq_busy
  /\ UNCHANGED <<txthd, rxthd, iser, det, txf, cmd, rw, plan, seen, registered,
                 irq_size, isr, call, stage, retry, saveints>>

\* alt_avalon_i2c_int_clear: before the first command, and before the interrupt.
Clear ==
  /\ pc \in {"clear", "arm"}
  /\ pc' = IF pc = "clear" THEN "write" ELSE "armed"
  /\ det' = {}
  /\ UNCHANGED <<registers, txf, rxf, machine, plan, seen, mishap, irqdata, isr,
                 call, transfer, saveints>>

\* The end of one call of master_transmit or master_receive, in the loops of
\* master_tx, master_rx and master_tx_rx.
Staged ==
  /\ pc = "staged"
  /\ \/ status \in Retried /\ retry > 0
        /\ retry' = retry - 1 /\ stage' = FirstStage(call) /\ pc' = "attempt"
     \/ status \in Retried /\ retry = 0
        /\ pc' = "done" /\ retry' = 0 /\ UNCHANGED stage
     \/ status \notin Retried /\ ~IssueStop
        /\ stage' = "receive" /\ pc' = "attempt" /\ UNCHANGED retry
     \/ status \notin Retried /\ IssueStop
        /\ pc' = "done" /\ retry' = 0 /\ UNCHANGED stage
  /\ written' = 0
  /\ UNCHANGED <<controller, irqdata, isr, call, status, got, stale, saveints>>

-----------------------------------------------------------------------------
(* One attempt. *)

\* A loop that waits gives up after its timeout, whatever it waits for.
GiveUp == mishap' = IF Busy THEN mishap \cup {"LATE"} ELSE mishap

\* alt_avalon_i2c_cmd_write, up to the write.
Write ==
  /\ pc = "write" /\ TxReady
  /\ WriteCommand(NextCommand) /\ written' = written + 1 /\ pc' = "check"
  /\ UNCHANGED <<registers, det, rxf, cmd, rw, plan, seen, mishap, irqdata, isr,
                 call, stage, status, retry, got, stale, saveints>>

WriteTimeout ==
  /\ pc = "write" /\ ~TxReady
  /\ status' = "TIMEOUT" /\ pc' = "finish" /\ GiveUp
  /\ UNCHANGED <<registers, det, txf, rxf, machine, plan, seen, irqdata, isr, call,
                 stage, retry, written, got, stale, saveints>>

\* Where the code goes after its last command.
AfterLast ==
  CASE call.irq /\ IssueStop                    -> "arm"
    [] call.irq /\ ~IssueStop                   -> "staged"
    [] ~call.irq /\ stage = "receive"           -> "read"
    [] ~call.irq /\ stage = "transmit"          -> IF IssueStop THEN "finish" ELSE "staged"

\* The checks at the end of alt_avalon_i2c_cmd_write.
Check ==
  /\ pc = "check"
  /\ status' = ErrorSeen("SUCCESS")
  /\ pc' = CASE status' # "SUCCESS" -> "finish"
             [] status' = "SUCCESS" /\ written > Size -> AfterLast
             [] status' = "SUCCESS" /\ ~call.irq /\ stage = "receive"
                /\ written \in 2..Size -> "drain"
             [] OTHER -> "write"
  /\ UNCHANGED <<controller, irqdata, isr, call, stage, retry, written, got, stale,
                 saveints>>

\* alt_avalon_i2c_rx_read_available of k bytes, to the caller's buffer.
Take(k) ==
  /\ got' = got + k
  /\ stale' = (stale \/ \E i \in 1..k : ~rxf[i])
  /\ rxf' = SubSeq(rxf, k + 1, Len(rxf))

\* Mutant: the count of this drain replaces the count of the earlier ones.
DrainForgets ==
  /\ pc = "drain"
  /\ got' = Len(rxf) /\ rxf' = <<>> /\ pc' = "write"
  /\ UNCHANGED <<registers, det, txf, machine, plan, seen, mishap, irqdata, isr,
                 call, stage, status, retry, written, stale, saveints>>

\* After each read request but the last, whatever has come.
Drain ==
  /\ pc = "drain"
  /\ Take(Len(rxf)) /\ pc' = "write"
  /\ UNCHANGED <<registers, det, txf, machine, plan, seen, mishap, irqdata, isr,
                 call, stage, status, retry, written, saveints>>

\* The loop on alt_avalon_i2c_rx_read.
Read ==
  /\ pc = "read"
  /\ \/ got < call.m /\ rxf # <<>> /\ Take(1) /\ UNCHANGED <<pc, status, mishap>>
     \/ got < call.m /\ rxf = <<>> /\ GiveUp /\ status' = "TIMEOUT"
        /\ pc' = "finish" /\ UNCHANGED <<got, stale, rxf>>
     \/ got >= call.m /\ pc' = "finish"
        /\ UNCHANGED <<got, stale, rxf, status, mishap>>
  /\ UNCHANGED <<registers, det, txf, machine, plan, seen, irqdata, isr, call, stage,
                 retry, written, saveints>>

\* The wait until the machine is idle.
Finish ==
  /\ pc = "finish"
  /\ \/ ~Busy /\ UNCHANGED <<status, mishap>>
     \/ Busy /\ GiveUp /\ status' = "TIMEOUT"
  /\ pc' = "end"
  /\ UNCHANGED <<registers, det, txf, rxf, machine, plan, seen, irqdata, isr, call,
                 stage, retry, written, got, stale, saveints>>

\* Mutant: the acknowledge of the last byte is not checked again.
EndUnchecked ==
  /\ pc = "end"
  /\ Disable /\ pc' = "staged"
  /\ UNCHANGED <<txthd, rxthd, iser, det, txf, rxf, cmd, rw, plan, seen, mishap,
                 irqdata, isr, call, transfer, saveints>>

\* Mutant: the IP is left enabled.
EndEnabled ==
  /\ pc = "end"
  /\ status' = IF ~call.irq /\ "NACK" \in det THEN "NACK_ERR" ELSE status
  /\ pc' = "staged"
  /\ UNCHANGED <<controller, irqdata, isr, call, stage, retry, written, got, stale,
                 saveints>>

\* Only the acknowledge is checked again, and only by the polling functions.
End ==
  /\ pc = "end"
  /\ status' = IF ~call.irq /\ "NACK" \in det THEN "NACK_ERR" ELSE status
  /\ Disable /\ pc' = "staged"
  /\ UNCHANGED <<txthd, rxthd, iser, det, txf, rxf, cmd, rw, plan, seen, mishap,
                 irqdata, isr, call, stage, retry, written, got, stale, saveints>>

-----------------------------------------------------------------------------
(* Interrupts. *)

\* The end of master_transmit_using_interrupts and its receiving sister.
Arm ==
  /\ pc = "armed"
  /\ IF stage = "transmit"
       THEN txthd' = 0 /\ irq_busy' = 1 /\ iser' = iser \cup {"TX"}
            /\ UNCHANGED <<rxthd, irq_size>>
       ELSE rxthd' = 1 /\ irq_busy' = 2 /\ iser' = iser \cup {"RX"}
            /\ irq_size' = call.m /\ UNCHANGED txthd
  /\ pc' = "staged"
  /\ UNCHANGED <<en, det, txf, rxf, machine, plan, seen, mishap, registered, isr,
                 call, transfer, saveints>>

\* The CPU takes the interrupt between two steps of the program, and
\* alt_avalon_i2c_irq disables the interrupts of the IP.
Interrupt ==
  /\ isr = "off" /\ Intr
  /\ isr' = "clear" /\ iser' = {}
  /\ UNCHANGED <<en, txthd, rxthd, det, txf, rxf, machine, plan, seen, mishap,
                 irqdata, call, pc, transfer, saveints>>

IsrClear ==
  /\ isr = "clear"
  /\ det' = {} /\ isr' = IF registered THEN "callback" ELSE "off"
  /\ UNCHANGED <<registers, txf, rxf, machine, plan, seen, mishap, irqdata, call, pc,
                 transfer, saveints>>

Least(a, b) == IF a < b THEN a ELSE b

\* optional_irq_callback: irq->size bytes at most, all when it is zero.
IsrRead ==
  /\ isr = "callback"
  /\ IF irq_busy = 2
       THEN LET k == IF irq_size = 0 THEN Len(rxf) ELSE Least(Len(rxf), irq_size)
            IN /\ Take(k) /\ irq_size' = irq_size - k
               /\ isr' = IF irq_size' > 0 THEN "again" ELSE "wait"
       ELSE isr' = "wait" /\ UNCHANGED <<got, stale, rxf, irq_size>>
  /\ UNCHANGED <<registers, det, txf, machine, plan, seen, mishap, registered,
                 irq_busy, call, pc, stage, status, retry, written, saveints>>

\* Mutant: the handler waits for the rest without its interrupt.
IsrForgets ==
  /\ isr = "again"
  /\ det' = {} /\ isr' = "off"
  /\ UNCHANGED <<registers, txf, rxf, machine, plan, seen, mishap, irqdata, call, pc,
                 transfer, saveints>>

IsrAgain ==
  /\ isr = "again"
  /\ det' = {} /\ iser' = iser \cup {"RX"} /\ isr' = "off"
  /\ UNCHANGED <<en, txthd, rxthd, txf, rxf, machine, plan, seen, mishap, irqdata,
                 call, pc, transfer, saveints>>

\* Mutant: the handler does not wait for the end of the transfer.
IsrHurries ==
  /\ isr = "wait" /\ isr' = "disable"
  /\ UNCHANGED <<controller, irqdata, call, pc, transfer, saveints>>

IsrWait ==
  /\ isr = "wait"
  /\ (~Busy /\ UNCHANGED mishap) \/ (Busy /\ GiveUp)
  /\ isr' = "disable"
  /\ UNCHANGED <<registers, det, txf, rxf, machine, plan, seen, irqdata, call, pc,
                 transfer, saveints>>

IsrDisable ==
  /\ isr = "disable"
  /\ Disable /\ irq_busy' = 0 /\ isr' = "off"
  /\ UNCHANGED <<txthd, rxthd, iser, det, txf, rxf, cmd, rw, plan, seen, mishap,
                 registered, irq_size, call, pc, transfer, saveints>>

Isr == IsrClear \/ IsrRead \/ IsrAgain \/ IsrWait \/ IsrDisable

(* alt_avalon_i2c_interrupt_transaction_status, about the last transfer. *)

StatusCall ==
  /\ AtRest /\ call.irq /\ registered
  /\ (pc = "done" /\ status = "SUCCESS" /\ Size > 0) \/ (pc = "told" /\ status = "BUSY")
  /\ saveints' = iser /\ iser' = {} /\ pc' = "status"
  /\ UNCHANGED <<en, txthd, rxthd, det, txf, rxf, machine, plan, seen, mishap,
                 irqdata, isr, call, transfer>>

StatusCheck ==
  /\ pc = "status"
  /\ IF "NACK" \in det
       THEN /\ status' = "NACK_ERR" /\ UNCHANGED iser
            /\ pc' = IF irq_busy # 0 THEN "abort" ELSE "told"
       ELSE /\ status' = IF irq_busy # 0 THEN "BUSY" ELSE "SUCCESS"
            /\ iser' = IF irq_busy # 0 THEN iser \cup saveints ELSE iser
            /\ pc' = "told"
  /\ saveints' = {}
  /\ UNCHANGED <<en, txthd, rxthd, det, txf, rxf, machine, plan, seen, mishap,
                 irqdata, isr, call, stage, retry, written, got, stale>>

StatusWait ==
  /\ pc = "abort"
  /\ \/ ~Busy /\ UNCHANGED <<status, mishap>>
     \/ Busy /\ GiveUp /\ status' = "TIMEOUT"
  /\ pc' = "aborted"
  /\ UNCHANGED <<registers, det, txf, rxf, machine, plan, seen, irqdata, isr, call,
                 stage, retry, written, got, stale, saveints>>

StatusAbort ==
  /\ pc = "aborted"
  /\ Take(Len(rxf)) /\ Disable /\ irq_busy' = 0 /\ pc' = "told"
  /\ UNCHANGED <<txthd, rxthd, iser, det, txf, cmd, rw, plan, seen, mishap,
                 registered, irq_size, isr, call, stage, status, retry, written,
                 saveints>>

-----------------------------------------------------------------------------

\* A handler that runs keeps the program from running.
Program ==
  /\ isr = "off"
  /\ \/ Attempt \/ Clear \/ Staged \/ Write \/ WriteTimeout \/ Check \/ Drain
     \/ Read \/ Finish \/ End \/ Arm \/ StatusCheck \/ StatusWait \/ StatusAbort

Bus == Controller /\ UNCHANGED <<irqdata, isr, call, pc, transfer, saveints>>

Init ==
  /\ InitController
  /\ registered \in BOOLEAN /\ irq_busy = 0 /\ irq_size = 0 /\ isr = "off"
  /\ call = [op |-> "tx", irq |-> FALSE, n |-> 0, m |-> 0]
  /\ pc = "done" /\ stage = "transmit" /\ status = "SUCCESS" /\ retry = 0
  /\ written = 0 /\ got = 0 /\ stale = FALSE /\ saveints = {}

Next == Call \/ StatusCall \/ Program \/ Interrupt \/ Isr \/ Bus

\* The program runs, the handler runs to its end, the controller is clocked and no
\* target stretches a byte for ever; an interrupt that keeps coming back is taken
\* even when status calls keep switching it off.
Spec == Init /\ [][Next]_vars
             /\ WF_vars(Program) /\ WF_vars(Isr) /\ WF_vars(Bus) /\ SF_vars(Interrupt)

-----------------------------------------------------------------------------
(* Properties *)

TypeOK ==
  /\ ControllerOK
  /\ irq_busy \in 0..2 /\ registered \in BOOLEAN
  /\ pc \in {"done", "told", "attempt", "clear", "write", "check", "drain", "read",
             "finish", "end", "staged", "arm", "armed", "status", "abort", "aborted"}
  /\ written \in Nat /\ got \in Nat

\* The transfer the program asked for was seen on the bus, whole and in order,
\* and the caller's buffer holds its bytes and no others.
Carried == seen = Len(plan) /\ ~stale /\ (stage = "receive" => got = Size)

\* A polled call returns success only for a transfer that took place; after a
\* wait that was given up while the machine was at work nothing is promised, nor
\* when arbitration is lost after the last command, which is not checked.
HonestSuccess ==
  pc = "done" /\ ~call.irq /\ status = "SUCCESS" /\ Size > 0
    => Carried \/ mishap \cap {"LATE", "ARB"} # {}

\* A transfer under interrupts is reported complete only when it is, unless the
\* handler erased the refusal of the target, which the driver does.
HonestStatus ==
  pc = "told" /\ status = "SUCCESS" => Carried \/ mishap \cap {"LATE", "NACK", "ARB"} # {}

\* Between calls, with no transfer left to the handler, the controller is idle
\* and disabled with empty FIFOs, ready for the next call.
RestsClean ==
  AtRest /\ irq_busy = 0 /\ "LATE" \notin mishap => Clean /\ ~en

\* A polled call gives up only because the bus did: never because of its own
\* use of the FIFOs.
TimeoutHasCause ==
  pc = "done" /\ ~call.irq /\ status = "TIMEOUT"
    => mishap \cap {"LATE", "ARB", "OVER"} # {}

\* A transfer left to the handler ends, unless it met a mishap.
IrqEnds == irq_busy # 0 ~> irq_busy = 0 \/ mishap # {}
=============================================================================
