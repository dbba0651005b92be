------------------------------ MODULE JtagUart ------------------------------
(***************************************************************************)
(* The interrupt-driven JTAG UART driver of the Nios V system              *)
(* (altera_avalon_jtag_uart_{init,read,write,ioctl,fd}.c), as built: no    *)
(* operating system, so the semaphores and event flags are empty and       *)
(* read(), write() and close() spin.                                       *)
(*                                                                         *)
(* Three threads of control share the state structure: the application,    *)
(* which steps between any two accesses to it, the interrupt handler and   *)
(* the one-second alarm, which the application never interrupts.  The      *)
(* device (altera_avalon_jtag_uart.sv) and the host run beside all three.  *)
(*                                                                         *)
(* Bytes are 0 and 1, sent alternately: enough to tell a byte from its     *)
(* neighbours in a ring of an odd length.                                  *)
(***************************************************************************)
EXTENDS Naturals, Sequences

CONSTANTS BUF_LEN,        \* length of rx_buf and of tx_buf
          WriteDepth,     \* device: bytes of the FIFO to the host
          ReadDepth,      \* device: bytes of the FIFO from the host
          WriteThreshold, \* device: WI when at most this many bytes are left
          ReadThreshold,  \* device: RI when at most this much room is left
          InactiveMax,    \* INT_MAX - 2, where host_inactive stops
          Timeouts,       \* for each direction a program uses, "out" or "in",
                          \* the values TIOCSTIMEOUT may set, among which the first
                          \* one; InactiveMax + 1 (INT_MAX - 1) is for ever
          MaxCount        \* bound: bytes asked for in one call

ASSUME JtagUartAssumption ==
  /\ BUF_LEN \in Nat /\ BUF_LEN > 1
  /\ {WriteDepth, ReadDepth} \subseteq Nat \ {0}
  /\ WriteThreshold \in 0..(WriteDepth - 1) /\ ReadThreshold \in 0..(ReadDepth - 1)
  /\ InactiveMax \in Nat
  /\ \A way \in DOMAIN Timeouts : Timeouts[way] \subseteq 2..(InactiveMax + 1)
  /\ MaxCount \in Nat \ {0}

VARIABLES
  tx_buf, tx_in, tx_out, rx_buf, rx_in, rx_out,   \* the rings
  irq_enable,                \* {"RE", "WE"}: also what the device was told last
  host_inactive, timeout,
  use,                       \* the direction this program uses
  tfifo, rfifo, ac, pause,   \* the device
  connected,                 \* is the host there
  pc, arg,                   \* the application: where it is, its locals
  isr, ctl,                  \* the handler: where it is, the control it read
  sent, typed,               \* history: next byte write() and the host send
  delivered, fetched         \* history: bytes read() and the host got last

ring == <<tx_buf, tx_in, tx_out, rx_buf, rx_in, rx_out>>
txring == <<tx_buf, tx_in, tx_out>>
rxring == <<rx_buf, rx_in, rx_out>>
device == <<tfifo, rfifo, ac, pause>>
host == <<connected, typed, fetched>>
hosttime == <<host_inactive, timeout, use>>
app == <<pc, arg, sent, delivered>>
handler == <<isr, ctl>>
vars == <<ring, irq_enable, hosttime, device, host, app, handler>>

Byte == {0, 1}
Index == 0..(BUF_LEN - 1)

\* The contents of a ring, oldest byte first.
Held(in, out) == (in + BUF_LEN - out) % BUF_LEN
Contents(buf, in, out) == [i \in 1..Held(in, out) |-> buf[(out + i - 1) % BUF_LEN]]

-----------------------------------------------------------------------------
(* The device. *)

WSpace == WriteDepth - Len(tfifo)
WI == "WE" \in irq_enable /\ Len(tfifo) <= WriteThreshold
RI == "RE" \in irq_enable /\ (pause \/ ReadDepth - Len(rfifo) <= ReadThreshold)
Irq == WI \/ RI

\* Bytes the host takes are no activity, only those it sends and its pauses.
HostFetch == /\ connected /\ tfifo # <<>>
             /\ tfifo' = Tail(tfifo)
             /\ fetched' = <<Head(tfifo)>>
             /\ UNCHANGED <<ring, irq_enable, hosttime, rfifo, ac, pause, connected, typed,
                            app, handler>>

HostType == /\ use = "in" /\ connected /\ Len(rfifo) < ReadDepth
            /\ rfifo' = Append(rfifo, typed) /\ typed' = 1 - typed /\ ac' = TRUE
            /\ UNCHANGED <<ring, irq_enable, hosttime, tfifo, pause, connected, fetched,
                           app, handler>>

\* A connected host with nothing more to send pauses; bytes left in the FIFO
\* then raise RI whatever the threshold.
HostPause == /\ connected
             /\ ac' = TRUE /\ pause' = (pause \/ rfifo # <<>>)
             /\ UNCHANGED <<ring, irq_enable, hosttime, tfifo, rfifo, host, app, handler>>

HostPlug == /\ connected' = ~connected
            /\ UNCHANGED <<ring, irq_enable, hosttime, device, typed, fetched, app, handler>>

-----------------------------------------------------------------------------
(* The interrupt handler, altera_avalon_jtag_uart_irq. *)

IsrEnter == /\ isr = "idle" /\ Irq
            /\ isr' = "control"
            /\ UNCHANGED <<ring, irq_enable, hosttime, device, host, app, ctl>>

NoCtl == [wi |-> FALSE, space |-> 0, avail |-> FALSE]

\* Reads the control register; data starts as "some data available".
IsrControl ==
  /\ isr = "control"
  /\ ctl' = IF RI \/ WI THEN [wi |-> WI, space |-> IF WI THEN WSpace ELSE 0,
                            avail |-> RI] ELSE NoCtl
  /\ isr' = IF RI THEN "rx" ELSE IF WI THEN "tx" ELSE "idle"
  /\ UNCHANGED <<ring, irq_enable, hosttime, device, host, app>>

\* Mutant: the index after the last one is not wrapped.
RxFullNoWrap == rx_in + 1 = rx_out

RxFull == (rx_in + 1) % BUF_LEN = rx_out

\* Takes a byte from the device if there is room for it.
IsrRxByte ==
  /\ isr = "rx" /\ ~RxFull /\ rfifo # <<>>
  /\ rx_buf' = [rx_buf EXCEPT ![rx_in] = Head(rfifo)]
  /\ rx_in' = (rx_in + 1) % BUF_LEN
  /\ rfifo' = Tail(rfifo) /\ pause' = FALSE
  /\ ctl' = [ctl EXCEPT !.avail = rfifo' # <<>>]
  /\ UNCHANGED <<txring, rx_out, irq_enable, hosttime, tfifo, ac, host, app, isr>>

\* Reads an empty FIFO.  RVALID is sampled one clock before RAVAIL is shown
\* (altera_avalon_jtag_uart.sv:232, 242): a byte that comes in between leaves
\* RVALID at 0 and RAVAIL at 1.
IsrRxEmpty ==
  /\ isr = "rx" /\ ~RxFull /\ rfifo = <<>>
  /\ \/ UNCHANGED <<rfifo, ac, typed>>
     \/ use = "in" /\ connected /\ rfifo' = <<typed>> /\ typed' = 1 - typed /\ ac' = TRUE
  /\ pause' = FALSE
  /\ ctl' = [ctl EXCEPT !.avail = rfifo' # <<>>]
  /\ isr' = "rxend"
  /\ UNCHANGED <<ring, irq_enable, hosttime, tfifo, connected, fetched, app>>

IsrRxFull == /\ isr = "rx" /\ RxFull
             /\ isr' = "rxend"
             /\ UNCHANGED <<ring, irq_enable, hosttime, device, host, app, ctl>>

\* Mutant: receive interrupts are turned off when the FIFO is empty instead.
RxOffInverted == IF ctl.avail THEN irq_enable ELSE irq_enable \ {"RE"}

RxOff == IF ctl.avail THEN irq_enable \ {"RE"} ELSE irq_enable

IsrRxEnd == /\ isr = "rxend"
            /\ irq_enable' = RxOff
            /\ isr' = IF ctl.wi THEN "tx" ELSE "control"
            /\ ctl' = IF ctl.wi THEN [ctl EXCEPT !.avail = FALSE] ELSE NoCtl
            /\ UNCHANGED <<ring, hosttime, device, host, app>>

MoreToSend == ctl.space > 0 /\ tx_out # tx_in

IsrTxByte ==
  /\ isr = "tx" /\ MoreToSend
  /\ tfifo' = Append(tfifo, tx_buf[tx_out])
  /\ tx_out' = (tx_out + 1) % BUF_LEN
  /\ ctl' = [ctl EXCEPT !.space = @ - 1]
  /\ UNCHANGED <<tx_buf, tx_in, rxring, irq_enable, hosttime, rfifo, ac, pause, host, app, isr>>

\* Mutant: transmit interrupts are turned off even with the FIFO filled up.
TxOffAlways == irq_enable \ {"WE"}

TxOff == IF ctl.space > 0 THEN irq_enable \ {"WE"} ELSE irq_enable

IsrTxEnd == /\ isr = "tx" /\ ~MoreToSend
            /\ irq_enable' = TxOff
            /\ isr' = "control" /\ ctl' = NoCtl
            /\ UNCHANGED <<ring, hosttime, device, host, app>>

Isr == \/ IsrEnter \/ IsrControl
       \/ IsrRxByte \/ IsrRxEmpty \/ IsrRxFull \/ IsrRxEnd
       \/ IsrTxByte \/ IsrTxEnd

\* The driver was refused its alarm: then, and only then, this is the timeout, and
\* it stays so.
INT_MAX == InactiveMax + 2
Refused == timeout = INT_MAX

\* Mutant: the seconds are counted without an end.
InactiveUnbounded(n) == n + 1

InactiveNext(n) == IF n < InactiveMax THEN n + 1 ELSE n

\* altera_avalon_jtag_uart_timeout: once a second, in the timer interrupt.
Alarm == /\ isr = "idle" /\ ~Refused
         /\ ac' = FALSE
         /\ host_inactive' = IF ac THEN 0 ELSE InactiveNext(host_inactive)
         /\ UNCHANGED <<ring, irq_enable, timeout, use, tfifo, rfifo, pause, host, app, handler>>

-----------------------------------------------------------------------------
(* The application.  It runs while no handler does. *)

At(label) == isr = "idle" /\ pc = label
Goto(label) == pc' = label
HostGone == host_inactive >= timeout

NoArg == [left |-> 0, n |-> 0, seen |-> 0, done |-> 0, got |-> <<>>, nonblock |-> FALSE]

Call(op, label) ==
  /\ At("idle") /\ use = (IF op = "read" THEN "in" ELSE "out")
  /\ \E count \in 1..MaxCount, nb \in BOOLEAN :
        arg' = [NoArg EXCEPT !.left = IF op = "close" THEN 0 ELSE count, !.nonblock = nb]
  /\ Goto(label)
  /\ UNCHANGED <<ring, irq_enable, hosttime, device, host, sent, delivered, handler>>

\* What the caller gets, a count or an error code, is read by nothing here.
Return == Goto("idle") /\ arg' = NoArg

\* Mutant: with tx_out at 0 the ring is filled to its last place.
WriteRoomToEnd(in, out) == IF in < out THEN out - 1 - in ELSE BUF_LEN - in

\* write(): room left in one piece of the ring, from the indexes read together.
WriteRoom(in, out) == IF in < out THEN out - 1 - in
                      ELSE IF out > 0 THEN BUF_LEN - in
                      ELSE BUF_LEN - 1 - in

Smaller(a, b) == IF a < b THEN a ELSE b

WriteMeasure ==
  /\ At("w_loop")
  /\ IF arg.left > 0
     THEN LET n == Smaller(WriteRoom(tx_in, tx_out), arg.left) IN
          /\ arg' = [arg EXCEPT !.seen = tx_out, !.n = n]
          /\ Goto(IF n = 0 THEN "w_kick" ELSE "w_copy")
     ELSE Goto("w_kick") /\ UNCHANGED arg
  /\ UNCHANGED <<ring, irq_enable, hosttime, device, host, sent, delivered, handler>>

WriteCopy ==
  /\ At("w_copy")
  /\ tx_buf' = [i \in Index |-> IF i >= tx_in /\ i < tx_in + arg.n
                                THEN (sent + i - tx_in) % 2 ELSE tx_buf[i]]
  /\ Goto("w_publish")
  /\ UNCHANGED <<tx_in, tx_out, rxring, irq_enable, hosttime, device, host,
                 arg, sent, delivered, handler>>

WritePublish ==
  /\ At("w_publish")
  /\ tx_in' = (tx_in + arg.n) % BUF_LEN
  /\ sent' = (sent + arg.n) % 2
  /\ arg' = [arg EXCEPT !.left = @ - arg.n, !.n = 0]
  /\ Goto("w_loop")
  /\ UNCHANGED <<tx_buf, tx_out, rxring, irq_enable, hosttime, device, host,
                 delivered, handler>>

\* Interrupts are off around the update of irq_enable, so it is one step.
WriteKick ==
  /\ At("w_kick")
  /\ irq_enable' = irq_enable \cup {"WE"}
  /\ Goto(IF arg.left = 0 \/ arg.nonblock THEN "w_ret" ELSE "w_spin")
  /\ UNCHANGED <<ring, hosttime, device, host, arg, sent, delivered, handler>>

WriteSpin ==
  /\ At("w_spin") /\ (arg.seen # tx_out \/ HostGone)
  /\ Goto("w_check")
  /\ UNCHANGED <<ring, irq_enable, hosttime, device, host, arg, sent, delivered, handler>>

WriteCheck ==
  /\ At("w_check")
  /\ Goto(IF host_inactive > 0 THEN "w_ret" ELSE "w_loop")
  /\ UNCHANGED <<ring, irq_enable, hosttime, device, host, arg, sent, delivered, handler>>

WriteReturn ==
  /\ At("w_ret")
  /\ Return
  /\ UNCHANGED <<ring, irq_enable, hosttime, device, host, sent, delivered, handler>>

\* read(): bytes held in one piece of the ring.
ReadRun(in, out) == IF in >= out THEN in - out ELSE BUF_LEN - out

ReadMeasure ==
  /\ At("r_loop")
  /\ LET n == Smaller(ReadRun(rx_in, rx_out), arg.left) IN
     /\ arg' = [arg EXCEPT !.seen = rx_in, !.n = n]
     /\ Goto(IF n = 0 THEN "r_test" ELSE "r_copy")
  /\ UNCHANGED <<ring, irq_enable, hosttime, device, host, sent, delivered, handler>>

ReadCopy ==
  /\ At("r_copy")
  /\ arg' = [arg EXCEPT !.got = [i \in 1..arg.n |-> rx_buf[rx_out + i - 1]]]
  /\ Goto("r_publish")
  /\ UNCHANGED <<ring, irq_enable, hosttime, device, host, sent, delivered, handler>>

ReadPublish ==
  /\ At("r_publish")
  /\ rx_out' = (rx_out + arg.n) % BUF_LEN
  /\ delivered' = arg.got
  /\ arg' = [arg EXCEPT !.left = @ - arg.n, !.n = 0, !.done = @ + arg.n, !.got = <<>>]
  /\ Goto(IF arg.left > arg.n THEN "r_loop" ELSE "r_test")
  /\ UNCHANGED <<rx_buf, rx_in, txring, irq_enable, hosttime, device, host, sent, handler>>

ReadTest ==
  /\ At("r_test")
  /\ IF arg.done > 0 THEN Goto("r_kick")
     ELSE Goto(IF arg.nonblock THEN "r_ret" ELSE "r_spin")
  /\ UNCHANGED <<ring, irq_enable, hosttime, device, host, arg, sent, delivered, handler>>

ReadSpin ==
  /\ At("r_spin") /\ (arg.seen # rx_in \/ HostGone)
  /\ Goto("r_check")
  /\ UNCHANGED <<ring, irq_enable, hosttime, device, host, arg, sent, delivered, handler>>

ReadCheck ==
  /\ At("r_check")
  /\ Goto(IF arg.seen = rx_in THEN "r_ret" ELSE "r_loop")
  /\ UNCHANGED <<ring, irq_enable, hosttime, device, host, arg, sent, delivered, handler>>

Kick == irq_enable \cup {"RE"}

ReadKick ==
  /\ At("r_kick")
  /\ irq_enable' = Kick
  /\ Goto("r_ret")
  /\ UNCHANGED <<ring, hosttime, device, host, arg, sent, delivered, handler>>

ReadReturn ==
  /\ At("r_ret")
  /\ Return
  /\ UNCHANGED <<ring, irq_enable, hosttime, device, host, sent, delivered, handler>>

\* close(): waits for the ring to drain, unless the host is gone.
CloseWait ==
  /\ At("c_spin")
  /\ IF tx_out # tx_in /\ ~HostGone
     THEN arg.nonblock /\ Return
     ELSE Return
  /\ UNCHANGED <<ring, irq_enable, hosttime, device, host, sent, delivered, handler>>

\* ioctl(TIOCSTIMEOUT), which a driver without its alarm does not know.
SetTimeout ==
  /\ At("idle") /\ ~Refused
  /\ timeout' \in Timeouts[use]
  /\ UNCHANGED <<ring, irq_enable, host_inactive, use, device, host, app, handler>>

WriteSteps == \/ WriteMeasure \/ WriteCopy \/ WritePublish \/ WriteKick
              \/ WriteSpin \/ WriteCheck \/ WriteReturn
ReadSteps == \/ ReadMeasure \/ ReadCopy \/ ReadPublish \/ ReadTest
             \/ ReadSpin \/ ReadCheck \/ ReadKick \/ ReadReturn
AppSteps == WriteSteps \/ ReadSteps \/ CloseWait

-----------------------------------------------------------------------------

\* altera_avalon_jtag_uart_init, after which interrupts are enabled.  The alarm is
\* granted or, as alt_alarm_start does before there is a system clock, refused.
Init == /\ tx_buf = [i \in Index |-> 0] /\ tx_in = 0 /\ tx_out = 0
        /\ rx_buf = [i \in Index |-> 0] /\ rx_in = 0 /\ rx_out = 0
        /\ irq_enable = {"RE"}
        /\ host_inactive = 0 /\ use \in DOMAIN Timeouts
        /\ timeout \in Timeouts[use] \cup {INT_MAX}
        /\ tfifo = <<>> /\ rfifo = <<>> /\ ac = FALSE /\ pause = FALSE
        /\ connected \in BOOLEAN
        /\ pc = "idle" /\ arg = NoArg
        /\ isr = "idle" /\ ctl = NoCtl
        /\ sent = 0 /\ typed = 0 /\ delivered = <<>> /\ fetched = <<>>

Next == \/ HostFetch \/ HostType \/ HostPause \/ HostPlug
        \/ Isr \/ Alarm
        \/ Call("write", "w_loop") \/ Call("read", "r_loop") \/ Call("close", "c_spin")
        \/ AppSteps \/ SetTimeout

\* The processor serves pending interrupts and the alarm, and runs the call in
\* progress; a connected host fetches what is there and keeps polling.
Fairness == /\ WF_vars(Isr) /\ WF_vars(Alarm) /\ WF_vars(AppSteps)
            /\ WF_vars(HostFetch) /\ WF_vars(HostPause)

Spec == Init /\ [][Next]_vars /\ Fairness
=============================================================================
