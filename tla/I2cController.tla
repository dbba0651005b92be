--------------------------- MODULE I2cController ---------------------------
(***************************************************************************)
(* The Avalon I2C master (altera_avalon_i2c*.v): the command and the       *)
(* receive FIFO, the registers the driver uses, and the state machine that *)
(* pops commands and puts bytes on the bus.  A byte on the bus is one      *)
(* step, which the target acknowledges, refuses or stretches for ever, or  *)
(* which loses arbitration.  A monitor of the bus compares what it sees    *)
(* with the transfer the program asked for.                                *)
(***************************************************************************)
EXTENDS Integers, Sequences

CONSTANT Depth                    \* FIFO_DEPTH: entries of each FIFO

ASSUME DepthAssumption == Depth \in Nat /\ Depth >= 2

VARIABLES en,                     \* CTRL.EN
          txthd, rxthd,           \* CTRL: levels at which a FIFO is ready
          iser, det,              \* ISER, and the sticky bits of ISR
          txf, rxf,               \* the FIFOs: commands, and received bytes
                                  \* (TRUE: one the present transfer reads)
          fsm, cmd, rw,           \* mst_fsm_state, tfr_cmd, rw_cmd
          plan, seen,             \* monitor: the bus symbols asked for, how
                                  \* many were seen since START; -1: others
          mishap                  \* history: what went wrong in this attempt

registers == <<en, txthd, rxthd, iser>>
machine == <<fsm, cmd, rw>>
controller == <<registers, det, txf, rxf, machine, plan, seen, mishap>>

\* Bus symbols and command values; a data byte is its place in the buffer.
START  == -1
ADDR_W == -2
ADDR_R == -3
READ   == -4
STOP   == -5

Command(val, sta, sto) == [val |-> val, sta |-> sta, sto |-> sto]

Match(n, symbol) ==
  IF n \in 0..(Len(plan) - 1) /\ plan[n + 1] = symbol THEN n + 1 ELSE -1

-----------------------------------------------------------------------------
(* What the driver reads. *)

Busy == fsm \notin {"IDLE", "PRE_IDLE"}
TxReady == en /\ Len(txf) <= txthd
RxReady == Len(rxf) >= rxthd
Flush == det # {}
Intr == ("TX" \in iser /\ TxReady) \/ ("RX" \in iser /\ RxReady)

(* What the driver writes.  PRE_IDLE lasts one cycle once the FIFO has a   *)
(* command or EN is low, so the write that causes it includes that step.   *)

WriteCommand(c) ==
  LET stored == ~Flush /\ Len(txf) < Depth
  IN /\ txf' = IF stored THEN Append(txf, c) ELSE txf
     /\ fsm' = IF stored /\ fsm = "PRE_IDLE" THEN "PRE_START" ELSE fsm

\* A rising EN starts an idle machine; a machine still at work misses it.
Enable ==
  /\ en' = TRUE
  /\ fsm' = IF fsm = "IDLE" THEN "PRE_START" ELSE fsm
  /\ rxf' = [i \in DOMAIN rxf |-> FALSE]
  /\ mishap' = mishap \cap {"LATE"}

Disable ==
  /\ en' = FALSE
  /\ fsm' = IF fsm = "PRE_IDLE" THEN "IDLE" ELSE fsm

-----------------------------------------------------------------------------
(* The state machine. *)

Start ==
  /\ fsm = "PRE_START" /\ txf # <<>> /\ ~Flush
  /\ fsm' = "GEN_7BIT_ADDR" /\ cmd' = Head(txf) /\ txf' = Tail(txf)
  /\ seen' = Match(0, START) /\ rw' = "W"
  /\ UNCHANGED <<registers, det, rxf, plan, mishap>>

\* POP_TX_FIFO, with n symbols of the transfer seen and direction d.
Pop(n, d) ==
  /\ txf # <<>>
  /\ cmd' = Head(txf) /\ txf' = Tail(txf)
  /\ fsm' = IF Head(txf).sta THEN "GEN_7BIT_ADDR"
            ELSE IF d = "R" THEN "RX_BYTE" ELSE "TX_BYTE"
  /\ seen' = IF Head(txf).sta THEN Match(n, START) ELSE n

\* No command at hand: nothing looks at tfr_cmd before the next POP_TX_FIFO.
NoCommand == Command(0, FALSE, FALSE)

Stay(next, n) == fsm' = next /\ seen' = n /\ cmd' = NoCommand /\ UNCHANGED txf

\* What follows a byte that went well; the first one never stops.
Proceed(n, d) ==
  IF cmd.sto /\ fsm # "GEN_7BIT_ADDR"
    THEN Stay("GEN_STOP", n)
    ELSE Pop(n, d) \/ (txf = <<>> /\ Stay("BUS_HOLD", n))

\* The low bit of the first byte is the direction, also of one that was meant
\* as data.
AddressAcked ==
  /\ fsm = "GEN_7BIT_ADDR"
  /\ \E d \in IF cmd.val = ADDR_R THEN {"R"}
              ELSE IF cmd.val > 0 THEN {"R", "W"} ELSE {"W"} :
       rw' = d /\ Proceed(Match(seen, cmd.val), d)
  /\ UNCHANGED <<registers, det, rxf, plan, mishap>>

ByteSent ==
  /\ fsm = "TX_BYTE"
  /\ Proceed(Match(seen, cmd.val), rw)
  /\ UNCHANGED <<registers, det, rxf, rw, plan, mishap>>

\* push_rxfifo: a byte that finds the FIFO full is lost.
ByteReceived ==
  /\ fsm = "RX_BYTE"
  /\ Proceed(Match(seen, READ), rw)
  /\ IF Len(rxf) < Depth
       THEN rxf' = Append(rxf, Match(seen, READ) # -1) /\ UNCHANGED mishap
       ELSE mishap' = mishap \cup {"OVER"} /\ UNCHANGED rxf
  /\ UNCHANGED <<registers, det, rw, plan>>

\* Both detections flush both FIFOs, until the driver clears them.
Abort(why, next) ==
  /\ fsm' = next
  /\ det' = det \cup {why} /\ mishap' = mishap \cup {why}
  /\ txf' = <<>> /\ rxf' = <<>> /\ seen' = -1
  /\ cmd' = NoCommand /\ UNCHANGED <<registers, rw, plan>>

ByteRefused == fsm \in {"GEN_7BIT_ADDR", "TX_BYTE"} /\ Abort("NACK", "GEN_STOP")

ArbitrationLost ==
  /\ fsm \in {"GEN_7BIT_ADDR", "TX_BYTE", "RX_BYTE"}
  /\ Abort("ARB", IF en THEN "PRE_IDLE" ELSE "IDLE")

Hold ==
  /\ fsm = "BUS_HOLD" /\ Pop(seen, rw)
  /\ UNCHANGED <<registers, det, rxf, rw, plan, mishap>>

Stop ==
  /\ fsm = "GEN_STOP"
  /\ fsm' = IF txf # <<>> THEN "PRE_START" ELSE IF en THEN "PRE_IDLE" ELSE "IDLE"
  /\ seen' = Match(seen, STOP)
  /\ UNCHANGED <<registers, det, txf, rxf, cmd, rw, plan, mishap>>

Controller == Start \/ AddressAcked \/ ByteSent \/ ByteReceived \/ ByteRefused
              \/ ArbitrationLost \/ Hold \/ Stop

InitController ==
  /\ en = FALSE /\ txthd = Depth - 1 /\ rxthd = Depth
  /\ iser = {} /\ det = {} /\ txf = <<>> /\ rxf = <<>>
  /\ fsm = "IDLE" /\ cmd = NoCommand /\ rw = "W"
  /\ plan = <<>> /\ seen = 0 /\ mishap = {}

ControllerOK ==
  /\ en \in BOOLEAN /\ txthd \in {0, Depth - 1} /\ rxthd \in {1, Depth}
  /\ iser \subseteq {"TX", "RX"} /\ det \subseteq {"NACK", "ARB"}
  /\ Len(txf) <= Depth /\ Len(rxf) <= Depth
  /\ rw \in {"R", "W"} /\ seen \in -1..Len(plan)
  /\ mishap \subseteq {"NACK", "ARB", "OVER", "LATE"}
=============================================================================
