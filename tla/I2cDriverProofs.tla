--------------------------- MODULE I2cDriverProofs ---------------------------
(***************************************************************************)
(* For every depth of the FIFOs and every set of calls: the I2C driver     *)
(* reports a transfer complete only when it is, gives up only because the  *)
(* bus did, and leaves the controller ready for the next call.             *)
(***************************************************************************)
EXTENDS I2cDriver, SequenceTheorems, TLAPS

(* Types. *)

Nothing == [op |-> "tx", irq |-> FALSE, n |-> 0, m |-> 0]

Commands == [val : Int, sta : BOOLEAN, sto : BOOLEAN]
Machine == {"IDLE", "PRE_IDLE", "PRE_START", "GEN_7BIT_ADDR", "TX_BYTE", "RX_BYTE",
            "BUS_HOLD", "GEN_STOP"}

ControllerTypes ==
  /\ en \in BOOLEAN /\ txthd \in {0, Depth - 1} /\ iser \subseteq {"TX", "RX"}
  /\ det \subseteq {"NACK", "ARB"} /\ txf \in Seq(Commands) /\ rxf \in Seq(BOOLEAN)
  /\ fsm \in Machine /\ cmd \in Commands /\ rw \in {"R", "W"}
  /\ plan \in Seq(Int) /\ seen \in Int

\* The program calls tx_rx only with bytes to send and bytes to receive.
CallTypes ==
  /\ call \in Calls \cup {Nothing}
  /\ call.op = "tx_rx" => call.n > 0 /\ call.m > 0
  /\ stage \in {"transmit", "receive"}
  /\ call.op = "tx" => stage = "transmit"
  /\ call.op = "rx" => stage = "receive"

DriverTypes ==
  /\ registered \in BOOLEAN /\ irq_busy \in 0..2 /\ irq_size \in Int
  /\ isr \in {"off", "clear", "callback", "again", "wait", "disable"}
  /\ pc \in {"done", "told", "attempt", "clear", "write", "check", "drain", "read",
             "finish", "end", "staged", "arm", "armed", "status", "abort", "aborted"}
  /\ status \in {"SUCCESS", "BAD_ARG", "TIMEOUT"} \cup Retried
  /\ written \in Nat /\ got \in Nat /\ stale \in BOOLEAN
  /\ saveints \subseteq {"TX", "RX"}

\* The handler asks for a number of bytes only while it waits for some.
SizeType ==
  irq_busy = 2 /\ isr \notin {"wait", "disable"} => irq_size > 0

Types == ControllerTypes /\ CallTypes /\ DriverTypes /\ SizeType

\* A call that sends and receives has bytes for both, as those of main.c: with none
\* to receive master_tx_rx leaves the bus held, with none to send it never takes it.
BothSizes == \A c \in Calls : c.op = "tx_rx" => c.n > 0 /\ c.m > 0

LEMMA CallIs ==
  ASSUME NEW c \in Calls \cup {Nothing}
  PROVE  c.op \in {"tx", "rx", "tx_rx"} /\ c.irq \in BOOLEAN /\ c.n \in Nat /\ c.m \in Nat
<1>1. CASE c \in Calls
  BY <1>1, CallsAssumption
<1>2. CASE c = Nothing
  BY <1>2 DEF Nothing
<1> QED
  BY <1>1, <1>2

LEMMA SizeIs ==
  ASSUME CallTypes
  PROVE  /\ call.op \in {"tx", "rx", "tx_rx"} /\ call.irq \in BOOLEAN
         /\ call.n \in Nat /\ call.m \in Nat /\ Size \in Nat
         /\ ~IssueStop => call.op = "tx_rx" /\ stage = "transmit" /\ Size > 0
         /\ IssueRestart => call.op = "tx_rx" /\ stage = "receive" /\ Size > 0
         /\ IssueStop /\ stage = "transmit" => call.op = "tx"
  BY CallIs DEF CallTypes, Size, IssueStop, IssueRestart

\* What is left of the received bytes once k are taken.
LEMMA Taken ==
  ASSUME rxf \in Seq(BOOLEAN), NEW k \in 0..Len(rxf), rxf' = SubSeq(rxf, k + 1, Len(rxf))
  PROVE  /\ rxf' \in Seq(BOOLEAN) /\ Len(rxf') = Len(rxf) - k
         /\ \A i \in 1..Len(rxf') : rxf'[i] = rxf[i + k]
         /\ k = Len(rxf) => rxf' = <<>>
<1>1. Len(rxf) \in Nat /\ \A i \in k + 1 .. Len(rxf) : rxf[i] \in BOOLEAN
  BY LenProperties, ElementOfSeq
<1>2. /\ rxf' \in Seq(BOOLEAN)
      /\ Len(rxf') = IF k + 1 <= Len(rxf) THEN Len(rxf) - (k + 1) + 1 ELSE 0
      /\ \A i \in 1 .. Len(rxf) - (k + 1) + 1 : rxf'[i] = rxf[(k + 1) + i - 1]
  BY <1>1, SubSeqProperties
<1>3. Len(rxf') = Len(rxf) - k
  BY <1>1, <1>2
<1>4. k = Len(rxf) => rxf' = <<>>
  BY <1>1, SubSeqEmpty
<1> QED
  BY <1>1, <1>2, <1>3, <1>4

LEMMA Popped ==
  ASSUME txf \in Seq(Commands), txf # <<>>
  PROVE  /\ Head(txf) \in Commands /\ Head(txf) = txf[1]
         /\ Tail(txf) \in Seq(Commands) /\ Len(Tail(txf)) = Len(txf) - 1
         /\ \A i \in 1..Len(Tail(txf)) : Tail(txf)[i] = txf[i + 1]
         /\ Len(txf) \in Nat /\ Len(txf) > 0
  BY HeadTailProperties, LenProperties, EmptySeq

LEMMA CommandTypes ==
  /\ \A v \in Int : \A s, t \in BOOLEAN : Command(v, s, t) \in Commands
  /\ NoCommand \in Commands
  /\ \A c \in Commands : c.val \in Int /\ c.sta \in BOOLEAN /\ c.sto \in BOOLEAN
  BY DEF Command, NoCommand, Commands

LEMMA InitTypes == Init => Types
<1> SUFFICES ASSUME Init PROVE Types
  OBVIOUS
<1>1. txf \in Seq(Commands) /\ rxf \in Seq(BOOLEAN) /\ plan \in Seq(Int)
  BY EmptySeq DEF Init, InitController
<1>2. ControllerTypes
  <2>1. cmd \in Commands
    BY CommandTypes DEF Init, InitController
  <2>2. en \in BOOLEAN /\ txthd \in {0, Depth - 1} /\ fsm \in Machine /\ rw \in {"R", "W"}
    BY DEF Init, InitController, Machine
  <2>3. iser \subseteq {"TX", "RX"} /\ det \subseteq {"NACK", "ARB"} /\ seen \in Int
    BY DEF Init, InitController
  <2> QED
    BY <1>1, <2>1, <2>2, <2>3 DEF ControllerTypes
<1>3. call = Nothing /\ call.op = "tx" /\ CallTypes
  BY DEF Init, CallTypes, Nothing
<1>4. DriverTypes
  <2>1. registered \in BOOLEAN /\ stale \in BOOLEAN
    BY DEF Init
  <2>2. irq_busy \in 0..2 /\ irq_size \in Int /\ written \in Nat /\ got \in Nat
        /\ saveints \subseteq {"TX", "RX"}
    BY DEF Init
  <2> QED
    BY <2>1, <2>2 DEF Init, DriverTypes
<1>5. SizeType
  BY DEF Init, SizeType
<1> QED
  BY <1>2, <1>3, <1>4, <1>5 DEF Types

-----------------------------------------------------------------------------
(* The controller keeps the types. *)

LEMMA MatchType ==
  ASSUME ControllerTypes
  PROVE  \A n, s \in Int : Match(n, s) \in Int
  BY DEF Match

LEMMA PopTypes ==
  ASSUME ControllerTypes, NEW n \in Int, NEW d \in {"R", "W"}, Pop(n, d)
  PROVE  /\ fsm' \in Machine /\ cmd' \in Commands /\ txf' \in Seq(Commands)
         /\ seen' \in Int
  BY Popped, MatchType DEF Pop, ControllerTypes, Machine, START

LEMMA ProceedTypes ==
  ASSUME ControllerTypes, NEW n \in Int, NEW d \in {"R", "W"}, Proceed(n, d)
  PROVE  /\ fsm' \in Machine /\ cmd' \in Commands /\ txf' \in Seq(Commands)
         /\ seen' \in Int
<1>1. CASE Pop(n, d)
  BY <1>1, PopTypes
<1>2. ASSUME NEW next \in {"GEN_STOP", "BUS_HOLD"}, Stay(next, n)
      PROVE  /\ fsm' \in Machine /\ cmd' \in Commands /\ txf' \in Seq(Commands)
             /\ seen' \in Int
  BY <1>2, CommandTypes DEF Stay, ControllerTypes, Machine
<1> QED
  BY <1>1, <1>2 DEF Proceed

LEMMA ControllerKeepsTypes ==
  ASSUME ControllerTypes, Controller
  PROVE  ControllerTypes'
<1> USE DEF Machine
<1>1. Len(rxf) \in Nat /\ cmd.val \in Int
  BY LenProperties, CommandTypes DEF ControllerTypes
<1>2. CASE Start
  <2>1. seen' \in Int
    BY <1>2, MatchType DEF Start, START
  <2>2. cmd' \in Commands /\ txf' \in Seq(Commands)
    BY <1>2, Popped DEF Start, ControllerTypes
  <2>3. fsm' \in Machine /\ rw' \in {"R", "W"} /\ UNCHANGED <<registers, det, rxf, plan>>
    BY <1>2 DEF Start
  <2> QED
    BY <2>1, <2>2, <2>3 DEF ControllerTypes, registers
<1>3. CASE AddressAcked
  BY <1>3, <1>1, ProceedTypes, MatchType DEF AddressAcked, ControllerTypes, registers
<1>4. CASE ByteSent
  BY <1>4, <1>1, ProceedTypes, MatchType DEF ByteSent, ControllerTypes, registers
<1>5. CASE ByteReceived
  <2>1. rxf' \in Seq(BOOLEAN)
    <3>1. (Match(seen, READ) # -1) \in BOOLEAN /\ rxf \in Seq(BOOLEAN)
      BY DEF ControllerTypes
    <3>2. Append(rxf, Match(seen, READ) # -1) \in Seq(BOOLEAN)
      BY <3>1, AppendProperties
    <3> QED
      BY <1>5, <3>1, <3>2 DEF ByteReceived
  <2>2. Match(seen, READ) \in Int
    BY MatchType DEF ControllerTypes, READ
  <2>3. /\ fsm' \in Machine /\ cmd' \in Commands /\ txf' \in Seq(Commands)
        /\ seen' \in Int
    BY <1>5, <2>2, ProceedTypes DEF ByteReceived, ControllerTypes
  <2> QED
    BY <1>5, <2>1, <2>3 DEF ByteReceived, ControllerTypes, registers
<1>6. CASE ByteRefused \/ ArbitrationLost
  <2>1. PICK why \in {"NACK", "ARB"}, next \in Machine : Abort(why, next)
    BY <1>6 DEF ByteRefused, ArbitrationLost
  <2>2. txf' \in Seq(Commands) /\ rxf' \in Seq(BOOLEAN)
    BY <2>1, EmptySeq DEF Abort
  <2>3. fsm' \in Machine /\ cmd' \in Commands /\ seen' \in Int
        /\ UNCHANGED <<registers, rw, plan>>
    BY <2>1, CommandTypes DEF Abort
  <2>4. det' \subseteq {"NACK", "ARB"}
    BY <2>1 DEF Abort, ControllerTypes
  <2> QED
    BY <2>2, <2>3, <2>4 DEF ControllerTypes, registers
<1>7. CASE Hold
  <2>1. /\ fsm' \in Machine /\ cmd' \in Commands /\ txf' \in Seq(Commands)
        /\ seen' \in Int
    BY <1>7, PopTypes DEF Hold, ControllerTypes
  <2> QED
    BY <1>7, <2>1 DEF Hold, ControllerTypes, registers
<1>8. CASE Stop
  <2>1. seen' \in Int
    BY <1>8, MatchType DEF Stop, ControllerTypes, STOP
  <2>2. fsm' \in Machine
    BY <1>8 DEF Stop
  <2>3. UNCHANGED <<registers, det, txf, rxf, cmd, rw, plan, mishap>>
    BY <1>8 DEF Stop
  <2> QED
    BY <2>1, <2>2, <2>3 DEF ControllerTypes, registers
<1> QED
  BY <1>2, <1>3, <1>4, <1>5, <1>6, <1>7, <1>8 DEF Controller

(* The driver keeps the types. *)

LEMMA WriteTypes ==
  ASSUME ControllerTypes, NEW c \in Commands, WriteCommand(c)
  PROVE  txf' \in Seq(Commands) /\ fsm' \in Machine
  BY AppendProperties DEF WriteCommand, ControllerTypes, Machine

LEMMA NextCommandType ==
  ASSUME CallTypes, DriverTypes
  PROVE  NextCommand \in Commands
<1>1. written \in Nat /\ IssueRestart \in BOOLEAN
      /\ (IssueStop /\ written = Size) \in BOOLEAN
  BY DEF DriverTypes, IssueRestart, IssueStop
<1>2. /\ Command(ADDR_W, IssueRestart, FALSE) \in Commands
      /\ Command(ADDR_R, IssueRestart, FALSE) \in Commands
      /\ Command(written, FALSE, IssueStop /\ written = Size) \in Commands
      /\ Command(0, FALSE, IssueStop /\ written = Size) \in Commands
  <2>1. ADDR_W \in Int /\ ADDR_R \in Int /\ 0 \in Int /\ written \in Int
    BY <1>1 DEF ADDR_W, ADDR_R
  <2> QED
    BY <1>1, <2>1, CommandTypes, Zenon
<1> QED
  BY <1>2 DEF NextCommand

LEMMA TakeTypes ==
  ASSUME ControllerTypes, DriverTypes, NEW k \in 0..Len(rxf), Take(k)
  PROVE  rxf' \in Seq(BOOLEAN) /\ got' \in Nat /\ stale' \in BOOLEAN
<1>1. rxf' \in Seq(BOOLEAN)
  BY Taken DEF Take, ControllerTypes
<1>2. got' \in Nat
  BY LenProperties DEF Take, DriverTypes, ControllerTypes
<1>3. stale' \in BOOLEAN
  BY DEF Take
<1> QED
  BY <1>1, <1>2, <1>3

\* What the handler reads: all there is, but no more than it waits for.
ReadCount == Least(Len(rxf), irq_size)

LEMMA ReadCountIs ==
  ASSUME ControllerTypes, DriverTypes, SizeType, IsrRead, irq_busy = 2
  PROVE  /\ ReadCount \in 0..Len(rxf) /\ ReadCount <= irq_size
         /\ ReadCount = Len(rxf) \/ ReadCount = irq_size
         /\ Take(ReadCount) /\ irq_size' = irq_size - ReadCount
         /\ isr' = IF irq_size' > 0 THEN "again" ELSE "wait"
<1>1. irq_size > 0 /\ irq_size \in Int /\ Len(rxf) \in Nat
  BY LenProperties DEF IsrRead, ControllerTypes, DriverTypes, SizeType
<1> QED
  BY <1>1 DEF IsrRead, ReadCount, Least

LEMMA ProgramTypes ==
  ASSUME Types, Next, ~Call, ~Bus
  PROVE  ControllerTypes'
<1> USE DEF Types, ControllerTypes, controller, machine, registers
<1>1. CASE Clear
  BY <1>1 DEF Clear
<1>2. CASE Staged
  BY <1>2 DEF Staged
<1>3. CASE WriteTimeout
  BY <1>3 DEF WriteTimeout
<1>4. CASE Check
  BY <1>4 DEF Check
<1>5. CASE Finish
  BY <1>5 DEF Finish
<1>6. CASE Arm
  BY <1>6 DEF Arm
<1>7. CASE Interrupt
  BY <1>7 DEF Interrupt
<1>8. CASE IsrClear
  BY <1>8 DEF IsrClear
<1>9. CASE IsrAgain
  BY <1>9 DEF IsrAgain
<1>10. CASE IsrWait
  BY <1>10 DEF IsrWait
<1>11. CASE StatusCall
  BY <1>11 DEF StatusCall
<1>12. CASE StatusCheck
  BY <1>12 DEF StatusCheck, DriverTypes
<1>13. CASE StatusWait
  BY <1>13 DEF StatusWait
<1>14. CASE IsrDisable
  BY <1>14 DEF IsrDisable, Enable, Disable, Machine
<1>15. CASE End
  BY <1>15 DEF End, Enable, Disable, Machine
<1>16. CASE Attempt
  <2>1. CASE Enable
    <3>1. rxf' \in Seq(BOOLEAN)
      <4>1. Len(rxf) \in Nat /\ DOMAIN rxf = 1..Len(rxf)
        BY LenProperties
      <4>2. \A i \in 1..Len(rxf) : FALSE \in BOOLEAN
        OBVIOUS
      <4>3. [i \in 1..Len(rxf) |-> FALSE] \in Seq(BOOLEAN)
        BY <4>1, <4>2, IsASeq
      <4> QED
        BY <2>1, <4>1, <4>3 DEF Enable
    <3>2. en' \in BOOLEAN /\ fsm' \in Machine
      BY <2>1 DEF Enable, Machine
    <3> QED
      BY <1>16, <3>1, <3>2 DEF Attempt
  <2>2. CASE ~Enable
    BY <1>16, <2>2 DEF Attempt
  <2> QED
    BY <2>1, <2>2
<1>17. CASE Write
  BY <1>17, WriteTypes, NextCommandType DEF Write
<1>18. CASE Drain \/ StatusAbort
  <2>1. Len(rxf) \in 0..Len(rxf)
    BY LenProperties
  <2>2. rxf' \in Seq(BOOLEAN)
    BY <1>18, <2>1, TakeTypes DEF Drain, StatusAbort
  <2>3. CASE Drain
    BY <2>2, <2>3 DEF Drain
  <2>4. CASE StatusAbort
    BY <2>2, <2>4 DEF StatusAbort, Disable, Machine
  <2> QED
    BY <1>18, <2>3, <2>4
<1>19. CASE Read
  <2>1. rxf # <<>> => 1 \in 0..Len(rxf)
    BY LenProperties, EmptySeq
  <2>2. rxf' \in Seq(BOOLEAN)
    BY <1>19, <2>1, TakeTypes DEF Read
  <2> QED
    BY <1>19, <2>2 DEF Read
<1>20. CASE IsrRead
  <2>1. CASE irq_busy = 2
    <3>1. ReadCount \in 0..Len(rxf) /\ Take(ReadCount)
      BY <1>20, <2>1, ReadCountIs
    <3>2. rxf' \in Seq(BOOLEAN)
      BY <3>1, TakeTypes
    <3> QED
      BY <1>20, <3>2 DEF IsrRead
  <2>2. CASE irq_busy # 2
    BY <1>20, <2>2 DEF IsrRead
  <2> QED
    BY <2>1, <2>2
<1> QED
  BY <1>1, <1>2, <1>3, <1>4, <1>5, <1>6, <1>7, <1>8, <1>9, <1>10, <1>11, <1>12, <1>13, <1>14, <1>15, <1>16, <1>17, <1>18, <1>19, <1>20 DEF Next, Program, Isr

LEMMA CallTypesKept ==
  ASSUME Types, Next, BothSizes
  PROVE  CallTypes'
<1>1. CASE Call
  <2>1. PICK c \in Calls : call' = c /\ stage' = FirstStage(c)
    BY <1>1 DEF Call
  <2>2. c.op \in {"tx", "rx", "tx_rx"}
    BY CallsAssumption
  <2> QED
    BY <2>1, <2>2 DEF CallTypes, BothSizes, FirstStage
<1>2. CASE Staged
  BY <1>2, SizeIs DEF Staged, Types, CallTypes, FirstStage
<1>3. CASE ~Call /\ ~Staged
  <2>1. UNCHANGED <<call, stage>>
    <3>1. CASE StatusCall
      BY <3>1 DEF StatusCall, transfer
    <3>2. CASE Program
      BY <1>3, <3>2 DEF Program, Attempt, Clear, Write, WriteTimeout, Check, Drain, Read,
         Finish, End, Arm, StatusCheck, StatusWait, StatusAbort, transfer
    <3>3. CASE Interrupt \/ Isr
      BY <3>3 DEF Interrupt, Isr, IsrClear, IsrRead, IsrAgain, IsrWait, IsrDisable,
         transfer
    <3>4. CASE Bus
      BY <3>4 DEF Bus, transfer
    <3> QED
      BY <1>3, <3>1, <3>2, <3>3, <3>4 DEF Next
  <2> QED
    BY <2>1 DEF Types, CallTypes
<1> QED
  BY <1>1, <1>2, <1>3

\* The program goes on only when no error is flagged.
LEMMA CheckIs ==
  ASSUME Types, Check
  PROVE  /\ UNCHANGED <<controller, irqdata, isr, call, stage, retry, written, got, stale,
                        saveints>>
         /\ det # {} => /\ pc' = "finish" /\ status' \in {"ARB_LOST_ERR", "NACK_ERR"}
         /\ det = {} =>
              /\ status' = "SUCCESS"
              /\ pc' = IF written > Size
                         THEN IF call.irq THEN IF IssueStop THEN "arm" ELSE "staged"
                              ELSE IF stage = "receive" THEN "read"
                              ELSE IF IssueStop THEN "finish" ELSE "staged"
                       ELSE IF ~call.irq /\ stage = "receive" /\ written \in 2..Size
                              THEN "drain" ELSE "write"
<1>1. /\ UNCHANGED <<controller, irqdata, isr, call, stage, retry, written, got, stale,
                     saveints>>
      /\ status' = ErrorSeen("SUCCESS")
  BY DEF Check
<1>2. Size \in Nat /\ written \in Nat /\ stage \in {"transmit", "receive"}
      /\ det \subseteq {"NACK", "ARB"}
  BY SizeIs DEF Types, CallTypes, DriverTypes, ControllerTypes
<1>3. CASE det # {}
  <2>1. status' \in {"ARB_LOST_ERR", "NACK_ERR"}
    BY <1>1, <1>2, <1>3 DEF ErrorSeen
  <2> QED
    BY <1>1, <1>3, <2>1 DEF Check
<1>4. CASE det = {}
  <2>1. status' = "SUCCESS"
    BY <1>1, <1>4 DEF ErrorSeen
  <2>2. CASE written > Size
    <3>1. pc' = AfterLast
      BY <1>2, <2>1, <2>2 DEF Check
    <3>2. CASE call.irq
      BY <1>1, <1>4, <2>1, <2>2, <3>1, <3>2 DEF AfterLast
    <3>3. CASE ~call.irq
      BY <1>1, <1>2, <1>4, <2>1, <2>2, <3>1, <3>3 DEF AfterLast
    <3> QED
      BY <3>2, <3>3
  <2>3. CASE ~(written > Size)
    <3>1. CASE ~call.irq /\ stage = "receive" /\ written \in 2..Size
      BY <1>1, <1>2, <1>4, <2>1, <2>3, <3>1 DEF Check
    <3>2. CASE ~(~call.irq /\ stage = "receive" /\ written \in 2..Size)
      BY <1>1, <1>2, <1>4, <2>1, <2>3, <3>2 DEF Check
    <3> QED
      BY <3>1, <3>2
  <2> QED
    BY <2>2, <2>3
<1> QED
  BY <1>1, <1>3, <1>4

\* An attempt: nothing to do, refused, the second stage, or a new transfer.
LEMMA AttemptIs ==
  ASSUME Attempt
  PROVE  /\ pc = "attempt" /\ written' = 0 /\ got' = 0 /\ stale' = FALSE
         /\ UNCHANGED <<txthd, rxthd, iser, det, txf, cmd, rw, plan, seen, registered,
                        irq_size, isr, call, stage, retry, saveints>>
         /\ \/ /\ \/ Size = 0 /\ status' = "SUCCESS"
                  \/ Size > 0 /\ call.irq /\ ~registered /\ status' = "BAD_ARG"
                  \/ Size > 0 /\ (call.irq => registered) /\ ~IssueRestart /\ en
                     /\ status' = "BUSY"
               /\ pc' = "staged" /\ UNCHANGED <<en, fsm, rxf, mishap, irq_busy>>
            \/ /\ Size > 0 /\ (call.irq => registered) /\ IssueRestart
               /\ pc' = "write" /\ status' = "SUCCESS"
               /\ UNCHANGED <<en, fsm, rxf, mishap, irq_busy>>
            \/ /\ Size > 0 /\ (call.irq => registered) /\ ~IssueRestart /\ ~en
               /\ Enable /\ pc' = "clear" /\ status' = "SUCCESS"
               /\ irq_busy' = IF registered THEN 0 ELSE irq_busy
  BY DEF Attempt, Leave

LEMMA DriverTypesKept ==
  ASSUME Types, Next
  PROVE  DriverTypes'
<1> USE DEF Types, DriverTypes, Retried, irqdata, transfer
<1>1. CASE Call
  BY <1>1 DEF Call
<1>2. CASE Clear
  BY <1>2 DEF Clear
<1>3. CASE Staged
  BY <1>3 DEF Staged
<1>4. CASE WriteTimeout
  BY <1>4 DEF WriteTimeout
<1>5. CASE Check
  <2>1. /\ pc' \in {"finish", "arm", "staged", "read", "drain", "write"}
        /\ status' \in {"SUCCESS", "ARB_LOST_ERR", "NACK_ERR"}
    BY <1>5, CheckIs
  <2> QED
    BY <1>5, <2>1 DEF Check
<1>6. CASE Finish
  BY <1>6 DEF Finish
<1>7. CASE Arm
  BY <1>7, SizeIs DEF Arm
<1>8. CASE Interrupt
  BY <1>8 DEF Interrupt
<1>9. CASE IsrClear
  BY <1>9 DEF IsrClear
<1>10. CASE IsrAgain
  BY <1>10 DEF IsrAgain
<1>11. CASE IsrWait
  BY <1>11 DEF IsrWait
<1>12. CASE StatusCall
  BY <1>12 DEF StatusCall, ControllerTypes
<1>13. CASE StatusCheck
  BY <1>13 DEF StatusCheck
<1>14. CASE StatusWait
  BY <1>14 DEF StatusWait
<1>15. CASE IsrDisable
  BY <1>15 DEF IsrDisable
<1>16. CASE End
  BY <1>16 DEF End
<1>17. CASE Attempt
  <2>1. /\ pc' \in {"staged", "write", "clear"} /\ irq_busy' \in 0..2
        /\ status' \in {"SUCCESS", "BAD_ARG", "BUSY"}
    BY <1>17, AttemptIs
  <2> QED
    BY <1>17, <2>1 DEF Attempt
<1>18. CASE Write
  BY <1>18 DEF Write
<1>19. CASE Bus
  BY <1>19 DEF Bus
<1>20. CASE Drain \/ StatusAbort
  <2>1. Len(rxf) \in 0..Len(rxf)
    BY LenProperties DEF ControllerTypes
  <2>2. got' \in Nat /\ stale' \in BOOLEAN
    BY <1>20, <2>1, TakeTypes DEF Drain, StatusAbort
  <2>3. CASE Drain
    BY <2>2, <2>3 DEF Drain
  <2>4. CASE StatusAbort
    BY <2>2, <2>4 DEF StatusAbort
  <2> QED
    BY <1>20, <2>3, <2>4
<1>21. CASE Read
  <2>1. rxf # <<>> => 1 \in 0..Len(rxf)
    BY LenProperties, EmptySeq DEF ControllerTypes
  <2>2. got' \in Nat /\ stale' \in BOOLEAN
    BY <1>21, <2>1, TakeTypes DEF Read
  <2> QED
    BY <1>21, <2>2 DEF Read
<1>22. CASE IsrRead
  <2>1. CASE irq_busy = 2
    <3>1. ReadCount \in 0..Len(rxf) /\ Take(ReadCount) /\ irq_size' = irq_size - ReadCount
      BY <1>22, <2>1, ReadCountIs
    <3>2. got' \in Nat /\ stale' \in BOOLEAN
      BY <3>1, TakeTypes
    <3>3. irq_size' \in Int
      BY <3>1, LenProperties DEF ControllerTypes
    <3> QED
      BY <1>22, <2>1, <3>2, <3>3 DEF IsrRead
  <2>2. CASE irq_busy # 2
    BY <1>22, <2>2 DEF IsrRead
  <2> QED
    BY <2>1, <2>2
<1> QED
  BY <1>1, <1>2, <1>3, <1>4, <1>5, <1>6, <1>7, <1>8, <1>9, <1>10, <1>11, <1>12, <1>13, <1>14, <1>15, <1>16, <1>17, <1>18, <1>19, <1>20, <1>21, <1>22 DEF Next, Program, Isr

-----------------------------------------------------------------------------
(* A transfer as commands: addresses, bytes to send, requests to read. *)

\* The place of the address that asks to receive, and the number of commands.
Turn(c) == IF c.op = "rx" THEN 1 ELSE c.n + 2
Total(c) == IF c.op = "tx" THEN c.n + 1 ELSE Turn(c) + c.m

CommandOf(c, j) ==
  IF j < Turn(c)
    THEN Command(IF j = 1 THEN ADDR_W ELSE j - 1, FALSE, c.op = "tx" /\ j = Total(c))
    ELSE Command(IF j = Turn(c) THEN ADDR_R ELSE 0, j = Turn(c) /\ c.op = "tx_rx",
                 j = Total(c))

\* The place on the bus of the byte of command j: a repeated START has one of its own.
Symbol(c, j) == IF c.op = "tx_rx" /\ j >= Turn(c) THEN j + 2 ELSE j + 1

\* Calls that move bytes.
Moves(c) == /\ c \in Calls \cup {Nothing}
            /\ c.op # "rx" => c.n > 0
            /\ c.op # "tx" => c.m > 0

LEMMA MovesIs ==
  ASSUME NEW c, Moves(c)
  PROVE  /\ c.op \in {"tx", "rx", "tx_rx"} /\ c.n \in Nat /\ c.m \in Nat
         /\ Turn(c) \in Nat /\ Total(c) \in Nat /\ Turn(c) >= 1 /\ Total(c) >= 2
         /\ c.op = "tx" => Turn(c) = Total(c) + 1
         /\ c.op # "tx" => Turn(c) < Total(c)
         /\ c.op # "rx" => Turn(c) >= 3
         /\ c.op = "rx" => Turn(c) = 1
<1>1. c.op \in {"tx", "rx", "tx_rx"} /\ c.n \in Nat /\ c.m \in Nat
  BY CallIs DEF Moves
<1> QED
  BY <1>1 DEF Moves, Turn, Total

\* What the fields of a command say of its place.
LEMMA CommandIs ==
  ASSUME NEW c, Moves(c), NEW j \in 1..Total(c)
  PROVE  /\ CommandOf(c, j).sta <=> j = Turn(c) /\ c.op = "tx_rx"
         /\ CommandOf(c, j).sto <=> j = Total(c)
         /\ CommandOf(c, j).val =
              IF j < Turn(c) THEN IF j = 1 THEN ADDR_W ELSE j - 1
              ELSE IF j = Turn(c) THEN ADDR_R ELSE 0
         /\ CommandOf(c, j) \in Commands
<1>1. /\ c.op \in {"tx", "rx", "tx_rx"} /\ Turn(c) \in Nat /\ Total(c) \in Nat
      /\ c.op = "tx" => Turn(c) = Total(c) + 1
      /\ c.op # "tx" => Turn(c) < Total(c)
  BY MovesIs
<1>2. CASE j < Turn(c)
  <2>1. CommandOf(c, j) = Command(IF j = 1 THEN ADDR_W ELSE j - 1, FALSE,
                                  c.op = "tx" /\ j = Total(c))
    BY <1>2 DEF CommandOf
  <2>2. (c.op = "tx" /\ j = Total(c)) <=> j = Total(c)
    BY <1>1, <1>2
  <2>3. /\ CommandOf(c, j).sta = FALSE
        /\ CommandOf(c, j).sto = (c.op = "tx" /\ j = Total(c))
        /\ CommandOf(c, j).val = IF j = 1 THEN ADDR_W ELSE j - 1
    BY <2>1 DEF Command
  <2>4. (IF j = 1 THEN ADDR_W ELSE j - 1) \in Int
    BY <1>1 DEF ADDR_W
  <2>5. CommandOf(c, j) \in Commands
    BY <2>1, <2>4, CommandTypes, Zenon
  <2>6. ~(j = Turn(c))
    BY <1>1, <1>2
  <2>7. CommandOf(c, j).sto <=> j = Total(c)
    BY <2>2, <2>3, Zenon
  <2> QED
    BY <1>2, <2>3, <2>5, <2>6, <2>7
<1>3. CASE ~(j < Turn(c))
  <2>1. CommandOf(c, j) = Command(IF j = Turn(c) THEN ADDR_R ELSE 0,
                                  j = Turn(c) /\ c.op = "tx_rx", j = Total(c))
    BY <1>3 DEF CommandOf
  <2>2. /\ CommandOf(c, j).sta = (j = Turn(c) /\ c.op = "tx_rx")
        /\ CommandOf(c, j).sto = (j = Total(c))
        /\ CommandOf(c, j).val = IF j = Turn(c) THEN ADDR_R ELSE 0
    BY <2>1 DEF Command
  <2>3. (IF j = Turn(c) THEN ADDR_R ELSE 0) \in Int
    BY DEF ADDR_R
  <2>4. CommandOf(c, j) \in Commands
    BY <2>1, <2>3, CommandTypes, Zenon
  <2> QED
    BY <1>1, <1>3, <2>2, <2>4
<1> QED
  BY <1>2, <1>3

\* The symbol a byte shows the monitor: READ for one the target sends.
Shown(v) == IF v = 0 THEN READ ELSE v

\* A plan is the commands with a START before each address and a STOP at the end.
IsPlan(c, s) ==
  /\ s \in Seq(Int) /\ Len(s) = Symbol(c, Total(c)) + 1
  /\ s[1] = START /\ s[Len(s)] = STOP
  /\ c.op = "tx_rx" => s[Turn(c) + 1] = START
  /\ \A j \in 1..Total(c) : s[Symbol(c, j)] = Shown(CommandOf(c, j).val)

LEMMA SentIs ==
  ASSUME NEW n \in Nat
  PROVE  /\ Sent(n) \in Seq(Int) /\ Len(Sent(n)) = n + 2
         /\ Sent(n)[1] = START /\ Sent(n)[2] = ADDR_W
         /\ \A i \in 1..n : Sent(n)[i + 2] = i
<1> DEFINE a == <<START, ADDR_W>>
           b == [i \in 1..n |-> i]
<1>1. a \in Seq(Int) /\ Len(a) = 2 /\ a[1] = START /\ a[2] = ADDR_W
  BY DEF START, ADDR_W
<1>2. b \in Seq(Int) /\ Len(b) = n /\ \A i \in 1..n : b[i] = i
  <2>1. \A i \in 1..n : i \in Int
    OBVIOUS
  <2>2. b \in Seq(Int) /\ Len(b) = n
    BY <2>1, IsASeq
  <2> QED
    BY <2>2
<1>3. Sent(n) = a \o b
  BY DEF Sent
<1> HIDE DEF a, b
<1>4. /\ a \o b \in Seq(Int) /\ Len(a \o b) = Len(a) + Len(b)
      /\ \A i \in 1..Len(a) + Len(b) : (a \o b)[i] = IF i <= Len(a) THEN a[i] ELSE b[i - Len(a)]
  BY <1>1, <1>2, ConcatProperties
<1>5. \A i \in 1..n : i + 2 \in 1..n + 2 /\ ~(i + 2 <= 2) /\ i + 2 - 2 = i
  OBVIOUS
<1>6. 1 \in 1..n + 2 /\ 2 \in 1..n + 2
  OBVIOUS
<1> QED
  BY <1>1, <1>2, <1>3, <1>4, <1>5, <1>6

LEMMA ReceivedIs ==
  ASSUME NEW m \in Nat
  PROVE  /\ Received(m) \in Seq(Int) /\ Len(Received(m)) = m + 2
         /\ Received(m)[1] = START /\ Received(m)[2] = ADDR_R
         /\ \A i \in 1..m : Received(m)[i + 2] = READ
<1> DEFINE a == <<START, ADDR_R>>
           b == [i \in 1..m |-> READ]
<1>1. a \in Seq(Int) /\ Len(a) = 2 /\ a[1] = START /\ a[2] = ADDR_R
  BY DEF START, ADDR_R
<1>2. b \in Seq(Int) /\ Len(b) = m /\ \A i \in 1..m : b[i] = READ
  <2>1. \A i \in 1..m : READ \in Int
    BY DEF READ
  <2>2. b \in Seq(Int) /\ Len(b) = m
    BY <2>1, IsASeq
  <2> QED
    BY <2>2
<1>3. Received(m) = a \o b
  BY DEF Received
<1> HIDE DEF a, b
<1>4. /\ a \o b \in Seq(Int) /\ Len(a \o b) = Len(a) + Len(b)
      /\ \A i \in 1..Len(a) + Len(b) : (a \o b)[i] = IF i <= Len(a) THEN a[i] ELSE b[i - Len(a)]
  BY <1>1, <1>2, ConcatProperties
<1>5. \A i \in 1..m : i + 2 \in 1..m + 2 /\ ~(i + 2 <= 2) /\ i + 2 - 2 = i
  OBVIOUS
<1>6. 1 \in 1..m + 2 /\ 2 \in 1..m + 2
  OBVIOUS
<1> QED
  BY <1>1, <1>2, <1>3, <1>4, <1>5, <1>6

\* u is s, of length a, and then t, of length b.
IsJoin(u, s, a, t, b) ==
  /\ u \in Seq(Int) /\ Len(u) = a + b
  /\ \A i \in 1..a : u[i] = s[i]
  /\ \A i \in 1..b : u[a + i] = t[i]

LEMMA Joined ==
  ASSUME NEW s \in Seq(Int), NEW t \in Seq(Int), NEW a \in Nat, NEW b \in Nat,
         Len(s) = a, Len(t) = b
  PROVE  IsJoin(s \o t, s, a, t, b)
<1>1. /\ s \o t \in Seq(Int) /\ Len(s \o t) = Len(s) + Len(t)
      /\ \A i \in 1..Len(s) + Len(t) :
           (s \o t)[i] = IF i <= Len(s) THEN s[i] ELSE t[i - Len(s)]
  BY ConcatProperties
<1>2. \A i \in 1..a + b : (s \o t)[i] = IF i <= a THEN s[i] ELSE t[i - a]
  BY <1>1
<1>3. ASSUME NEW i \in 1..a PROVE (s \o t)[i] = s[i]
  <2>1. i \in 1..a + b /\ i <= a
    OBVIOUS
  <2> QED
    BY <1>2, <2>1
<1>4. ASSUME NEW i \in 1..b PROVE (s \o t)[a + i] = t[i]
  <2>1. a + i \in 1..a + b /\ ~(a + i <= a) /\ (a + i) - a = i
    OBVIOUS
  <2>2. (s \o t)[a + i] = t[(a + i) - a]
    BY <1>2, <2>1
  <2> QED
    BY <2>1, <2>2
<1> QED
  BY <1>1, <1>3, <1>4 DEF IsJoin

\* The plan of a call is the bytes of its commands.
LEMMA PlanIs ==
  ASSUME NEW c, Moves(c)
  PROVE  IsPlan(c, Plan(c))
<1>0. PICK n \in Nat, m \in Nat : n = c.n /\ m = c.m
  BY MovesIs
<1> DEFINE z == <<STOP>>
<1>1. /\ c.op \in {"tx", "rx", "tx_rx"} /\ Turn(c) \in Nat /\ Total(c) \in Nat
      /\ Turn(c) >= 1 /\ Total(c) >= 2
  BY MovesIs
<1>2. z \in Seq(Int) /\ Len(z) = 1 /\ z[1] = STOP
  BY DEF STOP
<1>3. \A j \in 1..Total(c) : Shown(CommandOf(c, j).val) =
        IF j < Turn(c) THEN IF j = 1 THEN ADDR_W ELSE j - 1
        ELSE IF j = Turn(c) THEN ADDR_R ELSE READ
  <2> TAKE j \in 1..Total(c)
  <2>1. CommandOf(c, j).val = IF j < Turn(c) THEN IF j = 1 THEN ADDR_W ELSE j - 1
                              ELSE IF j = Turn(c) THEN ADDR_R ELSE 0
    BY CommandIs
  <2> QED
    BY <1>1, <2>1 DEF Shown, ADDR_R, ADDR_W
<1> HIDE DEF z
<1>4. CASE c.op = "tx"
  <2> DEFINE s == Sent(n) \o z
  <2>1. Plan(c) = s
    BY <1>0, <1>4 DEF Plan, z
  <2>2. /\ s \in Seq(Int) /\ Len(s) = (n + 2) + 1
        /\ \A i \in 1..n + 2 : s[i] = Sent(n)[i]
        /\ \A i \in 1..1 : s[(n + 2) + i] = z[i]
    <3>1. n + 2 \in Nat /\ 1 \in Nat /\ Sent(n) \in Seq(Int) /\ Len(Sent(n)) = n + 2
      BY SentIs
    <3>2. IsJoin(s, Sent(n), n + 2, z, 1)
      BY <1>2, <3>1, Joined
    <3> QED
      BY <3>2 DEF IsJoin
  <2> HIDE DEF s
  <2>3. Turn(c) = n + 2 /\ Total(c) = n + 1 /\ \A j \in 1..Total(c) : Symbol(c, j) = j + 1
    BY <1>0, <1>4 DEF Turn, Total, Symbol
  <2>4. s[1] = START /\ s[2] = ADDR_W /\ s[n + 3] = STOP
    <3>1. 1 \in 1..n + 2 /\ 2 \in 1..n + 2 /\ 1 \in 1..1 /\ (n + 2) + 1 = n + 3
      OBVIOUS
    <3> QED
      BY <1>2, <2>2, <3>1, SentIs
  <2>5. ASSUME NEW i \in 1..n PROVE s[i + 2] = i
    <3>1. i + 2 \in 1..n + 2
      OBVIOUS
    <3> QED
      BY <2>2, <3>1, SentIs
  <2>6. ASSUME NEW j \in 1..Total(c) PROVE s[Symbol(c, j)] = Shown(CommandOf(c, j).val)
    <3>1. CASE j = 1
      BY <1>1, <1>3, <2>3, <2>4, <3>1
    <3>2. CASE j # 1
      <4>1. j - 1 \in 1..n /\ (j - 1) + 2 = j + 1 /\ j < Turn(c)
        BY <1>1, <2>3, <3>2
      <4>2. s[(j - 1) + 2] = j - 1
        BY <2>5, <4>1
      <4> QED
        BY <1>3, <2>3, <3>2, <4>1, <4>2
    <3> QED
      BY <3>1, <3>2
  <2>7. Len(s) = Symbol(c, Total(c)) + 1 /\ Len(s) = n + 3
    BY <1>1, <2>2, <2>3
  <2> QED
    BY <1>4, <2>1, <2>2, <2>4, <2>6, <2>7 DEF IsPlan
<1>5. CASE c.op = "rx"
  <2> DEFINE s == Received(m) \o z
  <2>1. Plan(c) = s
    BY <1>0, <1>5 DEF Plan, z
  <2>2. /\ s \in Seq(Int) /\ Len(s) = (m + 2) + 1
        /\ \A i \in 1..m + 2 : s[i] = Received(m)[i]
        /\ \A i \in 1..1 : s[(m + 2) + i] = z[i]
    <3>1. m + 2 \in Nat /\ 1 \in Nat /\ Received(m) \in Seq(Int) /\ Len(Received(m)) = m + 2
      BY ReceivedIs
    <3>2. IsJoin(s, Received(m), m + 2, z, 1)
      BY <1>2, <3>1, Joined
    <3> QED
      BY <3>2 DEF IsJoin
  <2> HIDE DEF s
  <2>3. Turn(c) = 1 /\ Total(c) = m + 1 /\ \A j \in 1..Total(c) : Symbol(c, j) = j + 1
    BY <1>0, <1>5 DEF Turn, Total, Symbol
  <2>4. s[1] = START /\ s[2] = ADDR_R /\ s[m + 3] = STOP
    <3>1. 1 \in 1..m + 2 /\ 2 \in 1..m + 2 /\ 1 \in 1..1 /\ (m + 2) + 1 = m + 3
      OBVIOUS
    <3> QED
      BY <1>2, <2>2, <3>1, ReceivedIs
  <2>5. ASSUME NEW i \in 1..m PROVE s[i + 2] = READ
    <3>1. i + 2 \in 1..m + 2
      OBVIOUS
    <3> QED
      BY <2>2, <3>1, ReceivedIs
  <2>6. ASSUME NEW j \in 1..Total(c) PROVE s[Symbol(c, j)] = Shown(CommandOf(c, j).val)
    <3>1. CASE j = 1
      BY <1>1, <1>3, <2>3, <2>4, <3>1
    <3>2. CASE j # 1
      <4>1. j - 1 \in 1..m /\ (j - 1) + 2 = j + 1 /\ ~(j < Turn(c)) /\ j # Turn(c)
        BY <1>1, <2>3, <3>2
      <4>2. s[(j - 1) + 2] = READ
        BY <2>5, <4>1
      <4> QED
        BY <1>3, <2>3, <4>1, <4>2
    <3> QED
      BY <3>1, <3>2
  <2>7. Len(s) = Symbol(c, Total(c)) + 1 /\ Len(s) = m + 3
    <3>1. Total(c) \in 1..Total(c)
      BY <1>1
    <3>2. Symbol(c, Total(c)) = Total(c) + 1
      BY <2>3, <3>1
    <3> QED
      BY <2>2, <2>3, <3>2
  <2> QED
    BY <1>5, <2>1, <2>2, <2>4, <2>6, <2>7 DEF IsPlan
<1>6. CASE c.op = "tx_rx"
  <2> DEFINE a == Sent(n)
             b == Received(m)
             s == (a \o b) \o z
  <2>1. Plan(c) = s
    <3>1. Plan(c) = a \o b \o z
      BY <1>0, <1>6 DEF Plan, z
    <3> QED
      BY <3>1
  <2>2. /\ a \in Seq(Int) /\ Len(a) = n + 2 /\ a[1] = START /\ a[2] = ADDR_W
        /\ \A i \in 1..n : a[i + 2] = i
    BY SentIs
  <2>3. /\ b \in Seq(Int) /\ Len(b) = m + 2 /\ b[1] = START /\ b[2] = ADDR_R
        /\ \A i \in 1..m : b[i + 2] = READ
    BY ReceivedIs
  <2> DEFINE ab == a \o b
  <2> HIDE DEF a, b
  <2>4. /\ ab \in Seq(Int) /\ Len(ab) = (n + 2) + (m + 2)
        /\ \A i \in 1..n + 2 : ab[i] = a[i]
        /\ \A i \in 1..m + 2 : ab[(n + 2) + i] = b[i]
    <3>1. n + 2 \in Nat /\ m + 2 \in Nat
      OBVIOUS
    <3>2. IsJoin(ab, a, n + 2, b, m + 2)
      BY <2>2, <2>3, <3>1, Joined
    <3> QED
      BY <3>2 DEF IsJoin
  <2>5. s = ab \o z
    OBVIOUS
  <2> HIDE DEF s, ab
  <2>6. /\ s \in Seq(Int) /\ Len(s) = ((n + 2) + (m + 2)) + 1
        /\ \A i \in 1..(n + 2) + (m + 2) : s[i] = ab[i]
        /\ \A i \in 1..1 : s[((n + 2) + (m + 2)) + i] = z[i]
    <3>1. (n + 2) + (m + 2) \in Nat /\ 1 \in Nat
      OBVIOUS
    <3>2. IsJoin(s, ab, (n + 2) + (m + 2), z, 1)
      BY <1>2, <2>4, <2>5, <3>1, Joined
    <3> QED
      BY <3>2 DEF IsJoin
  <2>7. /\ Turn(c) = n + 2 /\ Total(c) = n + m + 2
        /\ \A j \in 1..Total(c) : Symbol(c, j) = IF j >= n + 2 THEN j + 2 ELSE j + 1
        /\ Symbol(c, Total(c)) = n + m + 4
    BY <1>0, <1>6 DEF Turn, Total, Symbol
  <2>8. ASSUME NEW i \in 1..n + 2 PROVE s[i] = a[i]
    <3>1. i \in 1..(n + 2) + (m + 2)
      OBVIOUS
    <3> QED
      BY <2>4, <2>6, <3>1
  <2>9. ASSUME NEW i \in 1..m + 2 PROVE s[(n + 2) + i] = b[i]
    <3>1. (n + 2) + i \in 1..(n + 2) + (m + 2)
      OBVIOUS
    <3> QED
      BY <2>4, <2>6, <3>1
  <2>10. /\ s[1] = START /\ s[2] = ADDR_W /\ s[n + 3] = START /\ s[n + 4] = ADDR_R
         /\ s[n + m + 5] = STOP
    <3>1. /\ 1 \in 1..n + 2 /\ 2 \in 1..n + 2 /\ 1 \in 1..m + 2 /\ 2 \in 1..m + 2
          /\ (n + 2) + 1 = n + 3 /\ (n + 2) + 2 = n + 4
          /\ ((n + 2) + (m + 2)) + 1 = n + m + 5 /\ 1 \in 1..1
      OBVIOUS
    <3>2. s[1] = START /\ s[2] = ADDR_W
      BY <2>2, <2>8, <3>1
    <3>3. s[(n + 2) + 1] = START /\ s[(n + 2) + 2] = ADDR_R
      BY <2>3, <2>9, <3>1
    <3>4. s[((n + 2) + (m + 2)) + 1] = STOP
      BY <1>2, <2>6, <3>1
    <3> QED
      BY <3>1, <3>2, <3>3, <3>4
  <2>11. ASSUME NEW j \in 1..Total(c) PROVE s[Symbol(c, j)] = Shown(CommandOf(c, j).val)
    <3>1. CASE j = 1
      BY <1>1, <1>3, <2>7, <2>10, <3>1
    <3>2. CASE 1 < j /\ j < n + 2
      <4>1. j - 1 \in 1..n /\ (j - 1) + 2 = j + 1 /\ j < Turn(c) /\ ~(j >= n + 2) /\ j # 1
            /\ j + 1 \in 1..n + 2
        BY <1>1, <2>7, <3>2
      <4>2. a[(j - 1) + 2] = j - 1
        BY <2>2, <4>1
      <4>3. s[j + 1] = j - 1
        BY <2>8, <4>1, <4>2
      <4> QED
        BY <1>3, <2>7, <4>1, <4>3
    <3>3. CASE j = n + 2
      <4>1. Symbol(c, j) = n + 4 /\ ~(j < Turn(c)) /\ j = Turn(c)
        BY <2>7, <3>3
      <4> QED
        BY <1>3, <2>10, <4>1
    <3>4. CASE j > n + 2
      <4>1. j - (n + 2) \in 1..m /\ (n + 2) + ((j - (n + 2)) + 2) = j + 2 /\ ~(j < Turn(c))
            /\ j # Turn(c) /\ j >= n + 2 /\ (j - (n + 2)) + 2 \in 1..m + 2
        BY <1>1, <2>7, <3>4
      <4>2. b[(j - (n + 2)) + 2] = READ
        BY <2>3, <4>1
      <4>3. s[(n + 2) + ((j - (n + 2)) + 2)] = READ
        BY <2>9, <4>1, <4>2
      <4>4. Symbol(c, j) = j + 2
        BY <2>7, <4>1
      <4> QED
        BY <1>3, <4>1, <4>3, <4>4
    <3> QED
      BY <3>1, <3>2, <3>3, <3>4
  <2>12. Len(s) = n + m + 5 /\ Len(s) = Symbol(c, Total(c)) + 1 /\ Turn(c) + 1 = n + 3
    BY <2>6, <2>7
  <2> QED
    BY <2>1, <2>6, <2>10, <2>11, <2>12 DEF IsPlan
<1> QED
  BY <1>1, <1>4, <1>5, <1>6

-----------------------------------------------------------------------------
(* The controller carries out the commands of a call. *)

Bytes == {"GEN_7BIT_ADDR", "TX_BYTE", "RX_BYTE"}

\* Of w commands written, those that have left the queue.
Place(w) == w - Len(txf)

\* The queue holds the next commands of call c.
Queue(c, w) ==
  /\ Moves(c) /\ w \in Nat /\ w <= Total(c) /\ Place(w) >= 0
  /\ \A i \in 1..Len(txf) : txf[i] = CommandOf(c, Place(w) + i)

Direction(c, p) == IF p < Turn(c) THEN "W" ELSE "R"

\* The state machine is at command p, or behind it.
MachineAt(c, p) ==
  /\ fsm \notin {"IDLE"}
  /\ fsm = "PRE_START" <=> p = 0
  /\ fsm \in Bytes => cmd = CommandOf(c, p)
  /\ fsm = "GEN_7BIT_ADDR" => p = 1 \/ p = Turn(c)
  /\ fsm = "TX_BYTE" => rw = "W" /\ 1 < p /\ p < Turn(c)
  /\ fsm = "RX_BYTE" => rw = "R" /\ Turn(c) < p
  /\ fsm = "BUS_HOLD" => p < Total(c) /\ rw = Direction(c, p)
  /\ fsm \in {"GEN_STOP", "PRE_IDLE"} => p = Total(c)

Flow(c, w) == Queue(c, w) /\ MachineAt(c, Place(w))

\* The monitor has seen the symbols up to there.
SeenAt(c, p) ==
  fsm # "PRE_START" =>
    seen = IF fsm \in Bytes THEN Symbol(c, p) - 1
           ELSE IF fsm = "PRE_IDLE" THEN Symbol(c, p) + 1 ELSE Symbol(c, p)

\* The bytes that have come.
Completed(w) == IF fsm \in Bytes THEN Place(w) - 1 ELSE Place(w)
Arrived(c, w) == IF Completed(w) > Turn(c) THEN Completed(w) - Turn(c) ELSE 0

LEMMA FlowIs ==
  ASSUME ControllerTypes, NEW c, NEW w, Flow(c, w)
  PROVE  /\ Moves(c) /\ w \in Nat /\ Len(txf) \in Nat /\ Place(w) \in 0..Total(c)
         /\ Turn(c) \in Nat /\ Total(c) \in Nat /\ Turn(c) >= 1 /\ Total(c) >= 2
         /\ c.op = "tx" => Turn(c) = Total(c) + 1
         /\ c.op # "tx" => Turn(c) < Total(c)
         /\ c.op # "rx" => Turn(c) >= 3
         /\ c.op = "rx" => Turn(c) = 1
<1>1. Moves(c) /\ w \in Nat /\ w <= Total(c) /\ Place(w) >= 0
  BY DEF Flow, Queue
<1>2. Len(txf) \in Nat
  BY LenProperties DEF ControllerTypes
<1> QED
  BY <1>1, <1>2, MovesIs DEF Place

LEMMA SymbolIs ==
  ASSUME NEW c, Moves(c), NEW j \in 1..Total(c)
  PROVE  /\ Symbol(c, j) \in Nat /\ Symbol(c, j) >= 2
         /\ Symbol(c, j) + 1 <= Len(Plan(c))
         /\ Symbol(c, j + 1) = IF c.op = "tx_rx" /\ j + 1 = Turn(c) THEN Symbol(c, j) + 2
                                                                    ELSE Symbol(c, j) + 1
<1>1. /\ Turn(c) \in Nat /\ Total(c) \in Nat /\ c.op \in {"tx", "rx", "tx_rx"}
      /\ c.op # "tx" => Turn(c) < Total(c)
  BY MovesIs
<1>2. Len(Plan(c)) = Symbol(c, Total(c)) + 1
  BY PlanIs DEF IsPlan
<1> QED
  BY <1>1, <1>2 DEF Symbol

LEMMA MatchIs ==
  ASSUME NEW c, Moves(c), plan = Plan(c)
  PROVE  /\ Match(0, START) = 1
         /\ \A j \in 1..Total(c) :
              Match(Symbol(c, j) - 1, Shown(CommandOf(c, j).val)) = Symbol(c, j)
         /\ c.op = "tx_rx" => Match(Turn(c), START) = Turn(c) + 1
         /\ Match(Symbol(c, Total(c)), STOP) = Symbol(c, Total(c)) + 1
<1>1. /\ plan \in Seq(Int) /\ Len(plan) = Symbol(c, Total(c)) + 1
      /\ plan[1] = START /\ plan[Len(plan)] = STOP
      /\ c.op = "tx_rx" => plan[Turn(c) + 1] = START
      /\ \A j \in 1..Total(c) : plan[Symbol(c, j)] = Shown(CommandOf(c, j).val)
  BY PlanIs DEF IsPlan
<1>2. /\ Turn(c) \in Nat /\ Total(c) \in Nat /\ Total(c) >= 2
      /\ c.op # "tx" => Turn(c) < Total(c)
  BY MovesIs
<1>3. Symbol(c, Total(c)) \in Nat /\ Symbol(c, Total(c)) >= Total(c) + 1
  BY <1>2 DEF Symbol
<1>4. Match(0, START) = 1
  BY <1>1, <1>3 DEF Match
<1>5. ASSUME NEW j \in 1..Total(c)
      PROVE  Match(Symbol(c, j) - 1, Shown(CommandOf(c, j).val)) = Symbol(c, j)
  <2>1. Symbol(c, j) \in Nat /\ Symbol(c, j) >= 2 /\ Symbol(c, j) + 1 <= Len(plan)
    BY SymbolIs
  <2>3. Len(plan) \in Nat
    BY <1>1, <1>3
  <2>2. Symbol(c, j) - 1 \in 0..Len(plan) - 1 /\ (Symbol(c, j) - 1) + 1 = Symbol(c, j)
    BY <2>1, <2>3
  <2> QED
    BY <1>1, <2>2 DEF Match
<1>6. c.op = "tx_rx" => Match(Turn(c), START) = Turn(c) + 1
  <2>1. c.op = "tx_rx" => Turn(c) \in 0..Len(plan) - 1
    BY <1>1, <1>2, <1>3
  <2> QED
    BY <1>1, <2>1 DEF Match
<1>7. Match(Symbol(c, Total(c)), STOP) = Symbol(c, Total(c)) + 1
  <2>1. Symbol(c, Total(c)) \in 0..Len(plan) - 1
    BY <1>1, <1>3
  <2> QED
    BY <1>1, <2>1 DEF Match
<1> QED
  BY <1>4, <1>5, <1>6, <1>7

\* The next command leaves the queue behind a byte that is done, number p.
LEMMA PopFlow ==
  ASSUME ControllerTypes, NEW c, NEW w, Queue(c, w), NEW p, p = Place(w),
         1 <= p, p < Total(c), rw' = Direction(c, p), NEW n \in Int, Pop(n, rw')
  PROVE  /\ Flow(c, w)' /\ Place(w)' = p + 1 /\ fsm' \in Bytes
         /\ plan = Plan(c) /\ n = Symbol(c, p) => SeenAt(c, Place(w))'
<1>1. /\ Moves(c) /\ w \in Nat /\ w <= Total(c) /\ p \in Nat
      /\ Turn(c) \in Nat /\ Total(c) \in Nat /\ c.op \in {"tx", "rx", "tx_rx"}
      /\ c.op = "tx" => Turn(c) = Total(c) + 1
      /\ c.op = "rx" => Turn(c) = 1
      /\ c.op # "tx" => Turn(c) < Total(c)
  <2>1. Len(txf) \in Nat
    BY LenProperties DEF ControllerTypes
  <2> QED
    BY <2>1, MovesIs DEF Queue, Place
<1>2. txf # <<>> /\ txf' = Tail(txf) /\ cmd' = Head(txf)
  BY DEF Pop
<1>3. /\ Head(txf) = txf[1] /\ Len(txf') = Len(txf) - 1 /\ Len(txf) \in Nat /\ Len(txf) > 0
      /\ \A i \in 1..Len(txf') : txf'[i] = txf[i + 1]
  BY <1>2, Popped DEF ControllerTypes
<1>4. Place(w)' = p + 1 /\ p + 1 \in 1..Total(c)
  BY <1>1, <1>3 DEF Place
<1>5. cmd' = CommandOf(c, p + 1)
  <2>1. txf[1] = CommandOf(c, p + 1)
    BY <1>3 DEF Queue
  <2> QED
    BY <1>2, <1>3, <2>1
<1>6. Queue(c, w)'
  <2>1. ASSUME NEW i \in 1..Len(txf') PROVE txf'[i] = CommandOf(c, (p + 1) + i)
    <3>1. i + 1 \in 1..Len(txf) /\ p + (i + 1) = (p + 1) + i
      BY <1>1, <1>3
    <3> QED
      BY <1>3, <3>1 DEF Queue
  <2> QED
    BY <1>1, <1>4, <2>1 DEF Queue
<1>7. /\ CommandOf(c, p + 1).sta <=> p + 1 = Turn(c) /\ c.op = "tx_rx"
      /\ p + 1 = Turn(c) => c.op = "tx_rx"
  BY <1>1, <1>4, CommandIs
<1>8. fsm' = IF p + 1 = Turn(c) THEN "GEN_7BIT_ADDR"
             ELSE IF rw' = "R" THEN "RX_BYTE" ELSE "TX_BYTE"
  BY <1>2, <1>3, <1>5, <1>7 DEF Pop
<1>9. MachineAt(c, p + 1)'
  BY <1>1, <1>5, <1>8 DEF MachineAt, Direction, Bytes
<1>10. ASSUME plan = Plan(c), n = Symbol(c, p) PROVE SeenAt(c, Place(w))'
  <2>1. seen' = Symbol(c, p + 1) - 1
    <3>1. CASE p + 1 = Turn(c)
      <4>1. c.op = "tx_rx" /\ Symbol(c, p) = Turn(c) /\ Symbol(c, p + 1) = Turn(c) + 2
        BY <1>1, <1>7, <3>1 DEF Symbol
      <4>2. seen' = Match(Turn(c), START)
        BY <1>2, <1>5, <1>7, <1>10, <3>1, <4>1 DEF Pop
      <4> QED
        BY <1>1, <1>10, <4>1, <4>2, MatchIs
    <3>2. CASE p + 1 # Turn(c)
      <4>1. p \in 1..Total(c)
        BY <1>1
      <4>2. Symbol(c, p + 1) = Symbol(c, p) + 1 /\ Symbol(c, p) \in Nat
        BY <1>1, <3>2, <4>1, SymbolIs
      <4>3. seen' = n
        BY <1>2, <1>5, <1>7, <3>2 DEF Pop
      <4> QED
        BY <1>10, <4>2, <4>3
    <3> QED
      BY <3>1, <3>2
  <2> QED
    BY <1>4, <1>8, <2>1 DEF SeenAt, Bytes
<1>11. fsm' \in Bytes
  BY <1>8 DEF Bytes
<1> QED
  BY <1>4, <1>6, <1>9, <1>10, <1>11 DEF Flow

\* A byte is done: the STOP, the next command, or a wait for one.
LEMMA ByteDone ==
  ASSUME ControllerTypes, NEW c, NEW w, Flow(c, w), fsm \in Bytes, NEW n \in Int,
         rw' = Direction(c, Place(w)), Proceed(n, rw')
  PROVE  /\ Flow(c, w)' /\ Completed(w)' = Place(w)
         /\ plan = Plan(c) /\ n = Symbol(c, Place(w)) => SeenAt(c, Place(w))'
<1> DEFINE p == Place(w)
<1>1. /\ Moves(c) /\ w \in Nat /\ Len(txf) \in Nat /\ p \in 0..Total(c)
      /\ Turn(c) \in Nat /\ Total(c) \in Nat /\ Total(c) >= 2
      /\ c.op = "tx" => Turn(c) = Total(c) + 1
      /\ c.op # "tx" => Turn(c) < Total(c)
      /\ w <= Total(c)
  BY FlowIs DEF Flow, Queue
<1>2. p >= 1 /\ cmd = CommandOf(c, p) /\ (fsm = "GEN_7BIT_ADDR" => p = 1 \/ p = Turn(c))
  BY <1>1 DEF Flow, MachineAt, Bytes
<1>3. cmd.sto <=> p = Total(c)
  BY <1>1, <1>2, CommandIs
<1>4. fsm = "GEN_7BIT_ADDR" => p < Total(c)
  BY <1>1, <1>2
<1>5. CASE cmd.sto /\ fsm # "GEN_7BIT_ADDR"
  <2>1. fsm' = "GEN_STOP" /\ seen' = n /\ txf' = txf
    BY <1>5 DEF Proceed, Stay
  <2>2. p = Total(c) /\ Place(w)' = p
    BY <1>3, <1>5, <2>1 DEF Place
  <2>3. Queue(c, w)'
    BY <2>1 DEF Flow, Queue, Place
  <2>4. MachineAt(c, p)'
    BY <1>1, <2>1, <2>2 DEF MachineAt, Bytes
  <2>5. Completed(w)' = p
    BY <2>1, <2>2 DEF Completed, Bytes
  <2>6. plan = Plan(c) /\ n = Symbol(c, p) => SeenAt(c, Place(w))'
    BY <2>1, <2>2 DEF SeenAt, Bytes
  <2> QED
    BY <2>2, <2>3, <2>4, <2>5, <2>6 DEF Flow
<1>6. CASE ~(cmd.sto /\ fsm # "GEN_7BIT_ADDR")
  <2>1. 1 <= p /\ p < Total(c)
    BY <1>1, <1>2, <1>3, <1>4, <1>6
  <2>2. CASE Pop(n, rw')
    <3>1. /\ Flow(c, w)' /\ Place(w)' = p + 1 /\ fsm' \in Bytes
          /\ plan = Plan(c) /\ n = Symbol(c, p) => SeenAt(c, Place(w))'
      BY <2>1, <2>2, PopFlow DEF Flow
    <3>2. Completed(w)' = p
      BY <1>1, <3>1 DEF Completed
    <3> QED
      BY <3>1, <3>2
  <2>3. CASE txf = <<>> /\ Stay("BUS_HOLD", n)
    <3>1. fsm' = "BUS_HOLD" /\ seen' = n /\ txf' = txf
      BY <2>3 DEF Stay
    <3>2. Place(w)' = p
      BY <3>1 DEF Place
    <3>3. Queue(c, w)'
      BY <3>1 DEF Flow, Queue, Place
    <3>4. MachineAt(c, p)'
      BY <1>1, <2>1, <3>1, <3>2 DEF MachineAt, Bytes
    <3>5. Completed(w)' = p
      BY <3>1, <3>2 DEF Completed, Bytes
    <3>6. plan = Plan(c) /\ n = Symbol(c, p) => SeenAt(c, Place(w))'
      BY <3>1, <3>2 DEF SeenAt, Bytes
    <3> QED
      BY <3>2, <3>3, <3>4, <3>5, <3>6 DEF Flow
  <2> QED
    BY <1>6, <2>2, <2>3 DEF Proceed
<1> QED
  BY <1>5, <1>6

\* A step of the controller in which nothing goes wrong.
Goes == Start \/ AddressAcked \/ ByteSent \/ ByteReceived \/ Hold \/ Stop

LEMMA FlowStep ==
  ASSUME ControllerTypes, NEW c, NEW w, Flow(c, w), en, Goes
  PROVE  /\ Flow(c, w)'
         /\ Arrived(c, w)' = IF fsm = "RX_BYTE" THEN Arrived(c, w) + 1 ELSE Arrived(c, w)
         /\ Arrived(c, w) \in Nat
         /\ plan = Plan(c) /\ SeenAt(c, Place(w)) =>
              SeenAt(c, Place(w))' /\ (fsm = "RX_BYTE" => Match(seen, READ) # -1)
<1> DEFINE p == Place(w)
<1>1. /\ Moves(c) /\ w \in Nat /\ Len(txf) \in Nat /\ p \in 0..Total(c)
      /\ Turn(c) \in Nat /\ Total(c) \in Nat /\ Turn(c) >= 1 /\ Total(c) >= 2
      /\ c.op = "tx" => Turn(c) = Total(c) + 1
      /\ c.op # "tx" => Turn(c) < Total(c)
      /\ c.op # "rx" => Turn(c) >= 3
      /\ c.op = "rx" => Turn(c) = 1
  BY FlowIs
<1>2. MachineAt(c, p) /\ Queue(c, w)
  BY DEF Flow
<1>3. Arrived(c, w) \in Nat
  BY <1>1 DEF Arrived, Completed
<1>4. CASE fsm \in Bytes
  <2>1. p \in 1..Total(c) /\ cmd = CommandOf(c, p)
    BY <1>1, <1>2, <1>4 DEF MachineAt, Bytes
  <2>2. cmd.val = IF p < Turn(c) THEN IF p = 1 THEN ADDR_W ELSE p - 1
                  ELSE IF p = Turn(c) THEN ADDR_R ELSE 0
    BY <1>1, <2>1, CommandIs
  <2>3. PICK n \in Int : /\ n = Match(seen, Shown(cmd.val)) /\ rw' = Direction(c, p)
                         /\ Proceed(n, rw') /\ UNCHANGED plan
    <3>1. \A s \in Int : Match(seen, s) \in Int
      BY MatchType DEF ControllerTypes
    <3>2. CASE fsm = "GEN_7BIT_ADDR"
      <4>1. p = 1 \/ p = Turn(c)
        BY <1>2, <3>2 DEF MachineAt
      <4>2. cmd.val = (IF p < Turn(c) THEN ADDR_W ELSE ADDR_R) /\ Shown(cmd.val) = cmd.val
        BY <1>1, <2>2, <4>1 DEF Shown, ADDR_W, ADDR_R
      <4>3. AddressAcked
        BY <3>2 DEF Goes, Start, ByteSent, ByteReceived, Hold, Stop
      <4>4. rw' = Direction(c, p)
        BY <4>2, <4>3 DEF AddressAcked, ADDR_W, ADDR_R, Direction
      <4>5. Proceed(Match(seen, cmd.val), rw') /\ UNCHANGED plan
        BY <4>3 DEF AddressAcked
      <4>6. Match(seen, cmd.val) \in Int
        BY <3>1, <4>2 DEF ADDR_W, ADDR_R
      <4> QED
        BY <4>2, <4>4, <4>5, <4>6
    <3>3. CASE fsm = "TX_BYTE"
      <4>1. rw = "W" /\ 1 < p /\ p < Turn(c)
        BY <1>2, <3>3 DEF MachineAt
      <4>2. cmd.val = p - 1 /\ Shown(cmd.val) = cmd.val /\ cmd.val \in Int
        BY <1>1, <2>2, <4>1 DEF Shown
      <4>3. ByteSent
        BY <3>3 DEF Goes, Start, AddressAcked, ByteReceived, Hold, Stop
      <4>4. rw' = rw /\ Proceed(Match(seen, cmd.val), rw) /\ UNCHANGED plan
        BY <4>3 DEF ByteSent
      <4>5. rw' = Direction(c, p) /\ Proceed(Match(seen, cmd.val), rw')
        BY <4>1, <4>4 DEF Direction
      <4> QED
        BY <3>1, <4>2, <4>4, <4>5
    <3>4. CASE fsm = "RX_BYTE"
      <4>1. rw = "R" /\ Turn(c) < p
        BY <1>2, <3>4 DEF MachineAt
      <4>2. Shown(cmd.val) = READ /\ READ \in Int
        BY <1>1, <2>2, <4>1 DEF Shown, READ
      <4>3. ByteReceived
        BY <3>4 DEF Goes, Start, AddressAcked, ByteSent, Hold, Stop
      <4>4. rw' = rw /\ Proceed(Match(seen, READ), rw) /\ UNCHANGED plan
        BY <4>3 DEF ByteReceived
      <4>5. rw' = Direction(c, p) /\ Proceed(Match(seen, READ), rw')
        BY <1>1, <4>1, <4>4 DEF Direction
      <4> QED
        BY <3>1, <4>2, <4>4, <4>5
    <3> QED
      BY <1>4, <3>2, <3>3, <3>4 DEF Bytes
  <2>4. /\ Flow(c, w)' /\ Completed(w)' = p
        /\ plan = Plan(c) /\ n = Symbol(c, p) => SeenAt(c, Place(w))'
    BY <1>4, <2>3, ByteDone
  <2>5. Arrived(c, w)' = IF fsm = "RX_BYTE" THEN Arrived(c, w) + 1 ELSE Arrived(c, w)
    <3>1. Arrived(c, w)' = IF p > Turn(c) THEN p - Turn(c) ELSE 0
      BY <2>4 DEF Arrived
    <3>2. Arrived(c, w) = IF p - 1 > Turn(c) THEN (p - 1) - Turn(c) ELSE 0
      BY <1>4 DEF Arrived, Completed
    <3>3. (fsm = "RX_BYTE" => Turn(c) < p) /\ (fsm # "RX_BYTE" => p <= Turn(c))
      BY <1>1, <1>2, <1>4 DEF MachineAt, Bytes
    <3> QED
      BY <1>1, <3>1, <3>2, <3>3
  <2>6. ASSUME plan = Plan(c), SeenAt(c, p)
        PROVE  SeenAt(c, Place(w))' /\ (fsm = "RX_BYTE" => Match(seen, READ) # -1)
    <3>1. seen = Symbol(c, p) - 1
      BY <1>4, <2>6 DEF SeenAt, Bytes
    <3>2. n = Symbol(c, p)
      BY <1>1, <2>1, <2>3, <2>6, <3>1, MatchIs
    <3>3. fsm = "RX_BYTE" => Shown(cmd.val) = READ
      BY <1>1, <1>2, <2>2 DEF Shown, MachineAt
    <3>4. Symbol(c, p) \in Nat
      BY <1>1, <2>1, SymbolIs
    <3>5. SeenAt(c, Place(w))'
      BY <2>4, <2>6, <3>2
    <3>6. fsm = "RX_BYTE" => Match(seen, READ) = Symbol(c, p)
      BY <2>3, <3>2, <3>3
    <3> QED
      BY <3>4, <3>5, <3>6
  <2> QED
    BY <1>3, <2>4, <2>5, <2>6
<1>5. CASE Start
  <2>1. fsm = "PRE_START" /\ txf # <<>> /\ fsm' = "GEN_7BIT_ADDR" /\ cmd' = Head(txf)
        /\ txf' = Tail(txf) /\ seen' = Match(0, START)
    BY <1>5 DEF Start
  <2>2. p = 0
    BY <1>2, <2>1 DEF MachineAt
  <2>3. /\ Head(txf) = txf[1] /\ Len(txf') = Len(txf) - 1 /\ Len(txf) > 0
        /\ \A i \in 1..Len(txf') : txf'[i] = txf[i + 1]
    BY <2>1, Popped DEF ControllerTypes
  <2>4. Place(w)' = 1 /\ cmd' = CommandOf(c, 1)
    <3>1. txf[1] = CommandOf(c, 0 + 1)
      BY <1>1, <1>2, <2>2, <2>3 DEF Queue
    <3> QED
      BY <1>1, <2>1, <2>2, <2>3, <3>1 DEF Place
  <2>5. Queue(c, w)'
    <3>1. ASSUME NEW i \in 1..Len(txf') PROVE txf'[i] = CommandOf(c, 1 + i)
      <4>1. i + 1 \in 1..Len(txf) /\ 0 + (i + 1) = 1 + i
        BY <1>1, <2>3
      <4> QED
        BY <1>2, <2>2, <2>3, <4>1 DEF Queue
    <3> QED
      BY <1>1, <1>2, <2>4, <3>1 DEF Queue
  <2>6. MachineAt(c, Place(w))'
    BY <2>1, <2>4 DEF MachineAt, Bytes
  <2>7. Arrived(c, w)' = 0 /\ Arrived(c, w) = 0
    BY <1>1, <2>1, <2>2, <2>4 DEF Arrived, Completed, Bytes
  <2>8. plan = Plan(c) => SeenAt(c, Place(w))'
    <3>1. plan = Plan(c) => seen' = 1
      BY <1>1, <2>1, MatchIs
    <3>2. Symbol(c, 1) = 2
      BY <1>1 DEF Symbol
    <3> QED
      BY <2>1, <2>4, <3>1, <3>2 DEF SeenAt, Bytes
  <2> QED
    BY <1>3, <2>1, <2>5, <2>6, <2>7, <2>8 DEF Flow
<1>6. CASE Hold
  <2>1. fsm = "BUS_HOLD" /\ Pop(seen, rw) /\ rw' = rw
    BY <1>6 DEF Hold
  <2>2. p >= 1 /\ p < Total(c) /\ rw = Direction(c, p)
    BY <1>1, <1>2, <2>1 DEF MachineAt
  <2>3. seen \in Int /\ rw' = Direction(c, p) /\ Pop(seen, rw')
    BY <2>1, <2>2 DEF ControllerTypes
  <2>4. /\ Flow(c, w)' /\ Place(w)' = p + 1 /\ fsm' \in Bytes
        /\ plan = Plan(c) /\ seen = Symbol(c, p) => SeenAt(c, Place(w))'
    BY <1>2, <2>2, <2>3, PopFlow
  <2>5. Arrived(c, w)' = Arrived(c, w)
    BY <1>1, <2>1, <2>4 DEF Arrived, Completed, Bytes
  <2>6. SeenAt(c, p) => seen = Symbol(c, p)
    BY <2>1 DEF SeenAt, Bytes
  <2> QED
    BY <1>3, <2>1, <2>4, <2>5, <2>6
<1>7. CASE Stop
  <2>1. fsm = "GEN_STOP" /\ UNCHANGED txf /\ seen' = Match(seen, STOP)
    BY <1>7 DEF Stop
  <2>2. p = Total(c)
    BY <1>2, <2>1 DEF MachineAt
  <2>3. txf = <<>>
    <3>1. Len(txf) = 0
      BY <1>1, <1>2, <2>2 DEF Queue, Place
    <3> QED
      BY <3>1, EmptySeq DEF ControllerTypes
  <2>4. fsm' = "PRE_IDLE" /\ Place(w)' = p
    BY <1>7, <2>1, <2>3 DEF Stop, Place
  <2>5. Queue(c, w)' /\ MachineAt(c, Place(w))'
    <3>1. Queue(c, w)'
      BY <1>2, <2>1 DEF Queue, Place
    <3>2. MachineAt(c, Place(w))'
      BY <1>1, <2>2, <2>4 DEF MachineAt, Bytes
    <3> QED
      BY <3>1, <3>2
  <2>6. Arrived(c, w)' = Arrived(c, w)
    BY <2>1, <2>4 DEF Arrived, Completed, Bytes
  <2>7. plan = Plan(c) /\ SeenAt(c, p) => SeenAt(c, Place(w))'
    <3>1. SeenAt(c, p) => seen = Symbol(c, Total(c))
      BY <2>1, <2>2 DEF SeenAt, Bytes
    <3>2. plan = Plan(c) /\ SeenAt(c, p) => seen' = Symbol(c, Total(c)) + 1
      BY <1>1, <2>1, <3>1, MatchIs
    <3> QED
      BY <2>2, <2>4, <3>2 DEF SeenAt, Bytes
  <2> QED
    BY <1>3, <2>1, <2>5, <2>6, <2>7 DEF Flow
<1> QED
  BY <1>4, <1>5, <1>6, <1>7 DEF Goes, AddressAcked, ByteSent, ByteReceived, Bytes

-----------------------------------------------------------------------------
(* The driver writes the commands of its call. *)

\* Commands of the call written so far, those of its first stage included.
Written == IF IssueRestart THEN call.n + 1 + written ELSE written

LEMMA Numbers ==
  ASSUME CallTypes, DriverTypes, Size > 0
  PROVE  /\ Moves(call) /\ Written \in Nat
         /\ stage = "transmit" =>
              /\ Written = written /\ Turn(call) = Size + 2 /\ call.op # "rx"
              /\ Total(call) = IF IssueStop THEN Size + 1 ELSE Turn(call) + call.m
              /\ IssueStop <=> call.op = "tx"
         /\ stage = "receive" =>
              /\ Written = Turn(call) - 1 + written /\ Total(call) = Turn(call) + Size
              /\ IssueStop /\ call.op # "tx" /\ (IssueRestart <=> call.op = "tx_rx")
<1>1. /\ call.op \in {"tx", "rx", "tx_rx"} /\ call.n \in Nat /\ call.m \in Nat
      /\ written \in Nat
  BY SizeIs DEF DriverTypes
<1>2. Moves(call)
  BY <1>1 DEF CallTypes, Moves, Size
<1>3. CASE stage = "transmit"
  BY <1>1, <1>2, <1>3 DEF CallTypes, Size, Written, IssueRestart, IssueStop, Turn, Total
<1>4. CASE stage = "receive"
  BY <1>1, <1>2, <1>4 DEF CallTypes, Size, Written, IssueRestart, IssueStop, Turn, Total
<1> QED
  BY <1>3, <1>4 DEF CallTypes

\* What alt_avalon_i2c_cmd_write is given is the next command of the call.
LEMMA NextIs ==
  ASSUME CallTypes, DriverTypes, Size > 0, written <= Size
  PROVE  NextCommand = CommandOf(call, Written + 1) /\ Written + 1 <= Total(call)
<1>1. /\ Moves(call) /\ Written \in Nat /\ written \in Nat /\ Size \in Nat
      /\ Turn(call) \in Nat /\ Total(call) \in Nat /\ Turn(call) >= 1 /\ Total(call) >= 2
      /\ call.op \in {"tx", "rx", "tx_rx"} /\ call.m \in Nat
  BY Numbers, MovesIs, SizeIs DEF DriverTypes
<1>2. CASE stage = "transmit"
  <2>1. /\ Written = written /\ Turn(call) = Size + 2 /\ ~IssueRestart
        /\ Total(call) = IF IssueStop THEN Size + 1 ELSE Turn(call) + call.m
        /\ IssueStop <=> call.op = "tx"
    BY <1>2, Numbers DEF IssueRestart
  <2>2. Written + 1 < Turn(call) /\ Written + 1 <= Total(call)
    BY <1>1, <2>1
  <2>3. CommandOf(call, Written + 1)
          = Command(IF written = 0 THEN ADDR_W ELSE written, FALSE,
                    call.op = "tx" /\ written + 1 = Total(call))
    <3>1. (Written + 1 = 1 <=> written = 0) /\ (Written + 1) - 1 = written
          /\ Written + 1 = written + 1
      BY <1>1, <2>1
    <3> QED
      BY <2>2, <3>1 DEF CommandOf
  <2>4. NextCommand = IF written = 0 THEN Command(ADDR_W, IssueRestart, FALSE)
                      ELSE Command(written, FALSE, IssueStop /\ written = Size)
    BY <1>2 DEF NextCommand
  <2>5. IssueRestart = FALSE
    BY <2>1 DEF IssueRestart
  <2>6. CASE written = 0
    <3>1. (call.op = "tx" /\ written + 1 = Total(call)) = FALSE
      BY <1>1, <2>6
    <3> QED
      BY <2>2, <2>3, <2>4, <2>5, <2>6, <3>1
  <2>7. CASE written # 0
    <3>1. (call.op = "tx" /\ written + 1 = Total(call)) = (IssueStop /\ written = Size)
      BY <1>1, <2>1
    <3> QED
      BY <2>2, <2>3, <2>4, <2>7, <3>1
  <2> QED
    BY <2>6, <2>7
<1>3. CASE stage = "receive"
  <2>1. /\ Written = Turn(call) - 1 + written /\ Total(call) = Turn(call) + Size
        /\ IssueStop /\ call.op # "tx" /\ (IssueRestart <=> call.op = "tx_rx")
    BY <1>3, Numbers
  <2>2. Written + 1 = Turn(call) + written /\ Written + 1 <= Total(call)
        /\ ~(Written + 1 < Turn(call))
    BY <1>1, <2>1
  <2>3. CommandOf(call, Written + 1)
          = Command(IF written = 0 THEN ADDR_R ELSE 0,
                    written = 0 /\ call.op = "tx_rx", written = Size)
    <3>1. (Written + 1 = Turn(call) <=> written = 0) /\ (Written + 1 = Total(call) <=> written = Size)
      BY <1>1, <2>1, <2>2
    <3>2. /\ (Written + 1 = Turn(call) /\ call.op = "tx_rx") = (written = 0 /\ call.op = "tx_rx")
          /\ (Written + 1 = Total(call)) = (written = Size)
      BY <3>1
    <3> QED
      BY <2>2, <3>1, <3>2 DEF CommandOf
  <2>4. NextCommand = IF written = 0 THEN Command(ADDR_R, IssueRestart, FALSE)
                      ELSE Command(0, FALSE, IssueStop /\ written = Size)
    BY <1>3 DEF NextCommand
  <2>5. CASE written = 0
    <3>1. IssueRestart = (written = 0 /\ call.op = "tx_rx") /\ (written = Size) = FALSE
      BY <1>1, <2>1, <2>5 DEF IssueRestart
    <3> QED
      BY <2>2, <2>3, <2>4, <2>5, <3>1
  <2>6. CASE written # 0
    <3>1. (written = 0 /\ call.op = "tx_rx") = FALSE
          /\ (IssueStop /\ written = Size) = (written = Size)
      BY <2>1, <2>6
    <3> QED
      BY <2>2, <2>3, <2>4, <2>6, <3>1
  <2> QED
    BY <2>5, <2>6
<1> QED
  BY <1>2, <1>3 DEF CallTypes

\* A command written while the IP is ready and shows no error is queued.
LEMMA WriteFlow ==
  ASSUME ControllerTypes, NEW c, NEW w, Flow(c, w), w < Total(c), TxReady, det = {},
         WriteCommand(CommandOf(c, w + 1)), UNCHANGED <<cmd, rw, seen>>
  PROVE  /\ Flow(c, w + 1)' /\ Arrived(c, w + 1)' = Arrived(c, w)
         /\ SeenAt(c, Place(w)) => SeenAt(c, Place(w + 1))'
<1>1. /\ Moves(c) /\ w \in Nat /\ Len(txf) \in Nat /\ Place(w) \in 0..Total(c)
      /\ Total(c) \in Nat
  BY FlowIs
<1>2. CommandOf(c, w + 1) \in Commands
  BY <1>1, CommandIs
<1>3. Len(txf) < Depth /\ ~Flush
  BY <1>1, DepthAssumption DEF TxReady, ControllerTypes, Flush
<1>4. fsm # "PRE_IDLE"
  BY <1>1 DEF Flow, MachineAt, Place
<1>5. txf' = Append(txf, CommandOf(c, w + 1)) /\ fsm' = fsm
  BY <1>3, <1>4 DEF WriteCommand
<1>6. /\ Len(txf') = Len(txf) + 1 /\ \A i \in 1..Len(txf) : txf'[i] = txf[i]
      /\ txf'[Len(txf) + 1] = CommandOf(c, w + 1)
  BY <1>2, <1>5, AppendProperties DEF ControllerTypes
<1>7. Place(w + 1)' = Place(w)
  BY <1>1, <1>6 DEF Place
<1>8. Queue(c, w + 1)'
  <2>1. ASSUME NEW i \in 1..Len(txf') PROVE txf'[i] = CommandOf(c, Place(w) + i)
    <3>1. CASE i = Len(txf) + 1
      <4>1. Place(w) + i = w + 1
        BY <1>1, <3>1 DEF Place
      <4> QED
        BY <1>6, <3>1, <4>1
    <3>2. CASE i # Len(txf) + 1
      <4>1. i \in 1..Len(txf)
        BY <1>1, <1>6, <3>2
      <4> QED
        BY <1>6, <4>1 DEF Flow, Queue
    <3> QED
      BY <3>1, <3>2
  <2> QED
    BY <1>1, <1>7, <2>1 DEF Queue
<1>9. MachineAt(c, Place(w + 1))'
  BY <1>5, <1>7 DEF Flow, MachineAt
<1>10. Arrived(c, w + 1)' = Arrived(c, w)
  BY <1>5, <1>7 DEF Arrived, Completed
<1>11. SeenAt(c, Place(w)) => SeenAt(c, Place(w + 1))'
  BY <1>5, <1>7 DEF SeenAt
<1> QED
  BY <1>8, <1>9, <1>10, <1>11 DEF Flow

-----------------------------------------------------------------------------
(* The inductive invariant. *)

\* The program is about its transfer: in an attempt, or between the two stages of one.
Mine == \/ pc \in {"clear", "write", "check", "drain", "read", "finish", "end", "arm",
                   "armed"}
        \/ pc = "attempt" /\ IssueRestart /\ (call.irq => registered)
        \/ pc = "staged" /\ ~IssueStop /\ status \notin Retried
           /\ (call.irq => registered)

(* What holds even after a wait that was given up. *)

Idle == /\ fsm = "IDLE" => ~en
        /\ fsm = "PRE_IDLE" => en
        /\ ~Busy => txf = <<>>

Flagged == det # {} => /\ txf = <<>> /\ rxf = <<>>
                       /\ fsm \in {"GEN_STOP", "PRE_IDLE", "IDLE", "PRE_START"}

\* Transfers left to the handler: interrupts are enabled for no others.
Left ==
  /\ irq_busy # 0 => en /\ registered
  /\ irq_busy = 0 => iser = {} /\ isr = "off"
  /\ isr # "off" => iser = {}
  /\ saveints # {} => irq_busy # 0 /\ pc = "status"
  /\ pc \in {"status", "abort", "aborted"} => iser = {} /\ isr = "off"
  /\ pc \in {"abort", "aborted"} => irq_busy # 0

\* The program begins no transfer while another is left to the handler.
Apart ==
  /\ Mine => irq_busy = 0 /\ (call.irq => registered) /\ Size > 0
  /\ pc \in {"arm", "armed"} => call.irq /\ IssueStop
  /\ pc \in {"clear", "check", "arm", "armed"} => en

Always == Types /\ Idle /\ Flagged /\ Left /\ Apart

-----------------------------------------------------------------------------
(* Each action keeps what always holds. *)

LEMMA InitAlways == Init => Always
<1> SUFFICES ASSUME Init PROVE Always
  OBVIOUS
<1>1. Types
  BY InitTypes
<1>2. Idle /\ Flagged /\ Left
  BY DEF Init, InitController, Idle, Flagged, Left, Busy
<1>3. Apart
  BY DEF Init, InitController, Apart, Mine
<1> QED
  BY <1>1, <1>2, <1>3 DEF Always

LEMMA IdleKept ==
  ASSUME Always, Next
  PROVE  Idle'
<1> USE DEF Always, Idle, Busy
<1>1. CASE UNCHANGED <<en, fsm, txf>>
  BY <1>1
<1>2. CASE Attempt
  <2>1. UNCHANGED <<en, fsm>> \/ Enable
    BY <1>2, AttemptIs
  <2>2. UNCHANGED txf
    BY <1>2, AttemptIs
  <2>3. CASE Enable
    BY <2>2, <2>3 DEF Enable
  <2> QED
    BY <1>1, <2>1, <2>2, <2>3
<1>3. CASE Write
  <2>1. en /\ WriteCommand(NextCommand) /\ UNCHANGED en
    BY <1>3 DEF Write, TxReady, registers
  <2> QED
    BY <2>1 DEF WriteCommand
<1>4. CASE End
  BY <1>4 DEF End, Disable
<1>5. CASE IsrDisable
  BY <1>5 DEF IsrDisable, Disable
<1>6. CASE StatusAbort
  BY <1>6 DEF StatusAbort, Disable
<1>7. CASE Bus
  <2>1. UNCHANGED en
    BY <1>7 DEF Bus, Controller, Start, AddressAcked, ByteSent, ByteReceived, ByteRefused,
       ArbitrationLost, Abort, Hold, Stop, registers
  <2>2. CASE Start
    BY <2>1, <2>2 DEF Start
  <2>3. CASE AddressAcked \/ ByteSent \/ ByteReceived
    <3>1. fsm' \in Bytes \cup {"GEN_STOP", "BUS_HOLD"}
      BY <2>3 DEF AddressAcked, ByteSent, ByteReceived, Proceed, Pop, Stay, Bytes
    <3> QED
      BY <2>1, <3>1 DEF Bytes
  <2>4. CASE ByteRefused
    BY <2>1, <2>4 DEF ByteRefused, Abort
  <2>5. CASE ArbitrationLost
    BY <2>1, <2>5 DEF ArbitrationLost, Abort
  <2>6. CASE Hold
    BY <2>1, <2>6 DEF Hold, Pop
  <2>7. CASE Stop
    BY <2>1, <2>7 DEF Stop
  <2> QED
    BY <1>7, <2>2, <2>3, <2>4, <2>5, <2>6, <2>7 DEF Bus, Controller
<1>8. CASE Call \/ StatusCall \/ Interrupt \/ Clear \/ Staged \/ WriteTimeout \/ Check
           \/ Drain \/ Read \/ Finish \/ Arm \/ StatusCheck \/ StatusWait
  <2>1. UNCHANGED <<en, fsm, txf>>
    BY <1>8 DEF Call, StatusCall, Interrupt, Clear, Staged, WriteTimeout, Check, Drain,
       Read, Finish, Arm, StatusCheck, StatusWait, controller, registers, machine
  <2> QED
    BY <1>1, <2>1
<1>9. CASE IsrClear \/ IsrRead \/ IsrAgain \/ IsrWait
  <2>1. UNCHANGED <<en, fsm, txf>>
    BY <1>9 DEF IsrClear, IsrRead, IsrAgain, IsrWait, registers, machine
  <2> QED
    BY <1>1, <2>1
<1> QED
  BY <1>2, <1>3, <1>4, <1>5, <1>6, <1>7, <1>8, <1>9 DEF Next, Program, Isr

LEMMA FlaggedKept ==
  ASSUME Always, Next
  PROVE  Flagged'
<1> USE DEF Always, Flagged
<1>1. CASE UNCHANGED <<det, fsm, txf, rxf>>
  BY <1>1
<1>2. CASE Attempt
  <2>1. UNCHANGED <<fsm, rxf>> \/ Enable
    BY <1>2, AttemptIs
  <2>2. UNCHANGED <<txf, det>>
    BY <1>2, AttemptIs
  <2>3. CASE Enable
    <3>1. rxf = <<>> => rxf' = <<>>
      <4>1. rxf' = [i \in DOMAIN rxf |-> FALSE]
        BY <2>3 DEF Enable
      <4>2. CASE rxf = <<>>
        <5>1. DOMAIN rxf = {}
          BY <4>2
        <5>2. [i \in {} |-> FALSE] = <<>>
          OBVIOUS
        <5> QED
          BY <4>1, <5>1, <5>2
      <4> QED
        BY <4>2
    <3> QED
      BY <2>2, <2>3, <3>1 DEF Enable
  <2> QED
    BY <1>1, <2>1, <2>2, <2>3
<1>3. CASE Write
  BY <1>3 DEF Write, WriteCommand, Flush
<1>4. CASE End
  BY <1>4 DEF End, Disable
<1>5. CASE IsrDisable
  BY <1>5 DEF IsrDisable, Disable
<1>6. CASE StatusAbort \/ Drain
  <2>1. rxf' = <<>> /\ UNCHANGED <<det, txf>>
    <3>1. Take(Len(rxf)) /\ UNCHANGED <<det, txf>>
      BY <1>6 DEF StatusAbort, Drain
    <3>2. Len(rxf) \in 0..Len(rxf)
      BY LenProperties DEF Types, ControllerTypes
    <3> QED
      BY <3>1, <3>2, Taken DEF Take, Types, ControllerTypes
  <2>2. fsm' = fsm \/ fsm' = "IDLE"
    BY <1>6 DEF StatusAbort, Drain, Disable, machine
  <2> QED
    BY <2>1, <2>2
<1>7. CASE Read
  <2>1. UNCHANGED <<det, txf, fsm>> /\ (rxf = <<>> => UNCHANGED rxf)
    BY <1>7 DEF Read, machine
  <2> QED
    BY <2>1
<1>8. CASE IsrRead
  <2>1. UNCHANGED <<det, txf, fsm>>
    BY <1>8 DEF IsrRead, machine
  <2>2. det # {} => rxf' = <<>>
    <3>1. CASE irq_busy = 2
      <4>1. ReadCount \in 0..Len(rxf) /\ Take(ReadCount)
        BY <1>8, <3>1, ReadCountIs DEF Types
      <4>2. det # {} => ReadCount = Len(rxf)
        BY <4>1
      <4> QED
        BY <4>1, <4>2, Taken DEF Take, Types, ControllerTypes
    <3>2. CASE irq_busy # 2
      BY <1>8, <3>2 DEF IsrRead
    <3> QED
      BY <3>1, <3>2
  <2> QED
    BY <2>1, <2>2
<1>9. CASE Bus
  <2>1. CASE Start
    BY <2>1 DEF Start, Flush
  <2>2. CASE AddressAcked \/ ByteSent \/ ByteReceived \/ Hold
    BY <2>2 DEF AddressAcked, ByteSent, ByteReceived, Hold
  <2>3. CASE ByteRefused
    BY <2>3 DEF ByteRefused, Abort
  <2>4. CASE ArbitrationLost
    BY <2>4 DEF ArbitrationLost, Abort
  <2>5. CASE Stop
    BY <2>5 DEF Stop
  <2> QED
    BY <1>9, <2>1, <2>2, <2>3, <2>4, <2>5 DEF Bus, Controller
<1>10. CASE Clear \/ IsrClear \/ IsrAgain
  BY <1>10 DEF Clear, IsrClear, IsrAgain
<1>11. CASE Call \/ StatusCall \/ Interrupt \/ Staged \/ WriteTimeout \/ Check
           \/ Finish \/ Arm \/ StatusCheck \/ StatusWait \/ IsrWait
  <2>1. UNCHANGED <<det, fsm, txf, rxf>>
    BY <1>11 DEF Call, StatusCall, Interrupt, Staged, WriteTimeout, Check,
       Finish, Arm, StatusCheck, StatusWait, IsrWait, controller, registers, machine
  <2> QED
    BY <1>1, <2>1
<1> QED
  BY <1>2, <1>3, <1>4, <1>5, <1>6, <1>7, <1>8, <1>9, <1>10, <1>11 DEF Next, Program, Isr

LEMMA LeftKept ==
  ASSUME Always, Next
  PROVE  Left'
<1> USE DEF Always, Left, Types, ControllerTypes, DriverTypes
<1>1. CASE Call
  BY <1>1 DEF Call, AtRest, Rest, registers, irqdata
<1>2. CASE StatusCall
  BY <1>2 DEF StatusCall, AtRest, Rest, irqdata
<1>3. CASE Attempt
  BY <1>3, AttemptIs DEF Enable
<1>4. CASE Clear
  BY <1>4 DEF Clear, registers, irqdata
<1>5. CASE Staged
  BY <1>5 DEF Staged, controller, registers, irqdata
<1>6. CASE Write
  BY <1>6 DEF Write, registers, irqdata
<1>7. CASE WriteTimeout
  BY <1>7 DEF WriteTimeout, registers, irqdata
<1>8. CASE Check
  <2>1. pc' \in {"finish", "arm", "staged", "read", "drain", "write"} /\ pc = "check"
    BY <1>8, CheckIs DEF Check
  <2> QED
    BY <1>8, <2>1 DEF Check, controller, registers, irqdata
<1>9. CASE Drain
  BY <1>9 DEF Drain, registers, irqdata
<1>10. CASE Read
  BY <1>10 DEF Read, registers, irqdata
<1>11. CASE Finish
  BY <1>11 DEF Finish, registers, irqdata
<1>12. CASE End
  BY <1>12 DEF End, Disable, Apart, Mine, registers, irqdata
<1>13. CASE Arm
  <2>1. en /\ registered /\ irq_busy = 0 /\ saveints = {} /\ isr = "off" /\ pc = "armed"
    BY <1>13 DEF Arm, Apart, Mine
  <2>2. irq_busy' \in {1, 2} /\ pc' = "staged" /\ UNCHANGED <<en, registered, isr, saveints>>
    BY <1>13 DEF Arm
  <2> QED
    BY <2>1, <2>2
<1>14. CASE StatusCheck
  BY <1>14 DEF StatusCheck, irqdata
<1>15. CASE StatusWait
  BY <1>15 DEF StatusWait, registers, irqdata
<1>16. CASE StatusAbort
  BY <1>16 DEF StatusAbort, Disable
<1>17. CASE Interrupt
  BY <1>17 DEF Interrupt, irqdata, Intr
<1>18. CASE IsrClear
  BY <1>18 DEF IsrClear, registers, irqdata
<1>19. CASE IsrRead
  <2>1. isr = "callback" /\ isr' \in {"again", "wait"}
    BY <1>19 DEF IsrRead
  <2>2. UNCHANGED <<en, iser, registered, irq_busy, pc, saveints>>
    BY <1>19 DEF IsrRead, registers
  <2>3. irq_busy # 0 /\ iser = {} /\ pc \notin {"status", "abort", "aborted"}
    BY <2>1
  <2> QED
    BY <2>1, <2>2, <2>3
<1>20. CASE IsrAgain
  BY <1>20 DEF IsrAgain, irqdata
<1>21. CASE IsrWait
  BY <1>21 DEF IsrWait, registers, irqdata
<1>22. CASE IsrDisable
  BY <1>22 DEF IsrDisable, Disable
<1>23. CASE Bus
  <2>1. UNCHANGED <<en, iser>> /\ UNCHANGED <<irqdata, isr, pc, saveints>>
    BY <1>23 DEF Bus, Controller, Start, AddressAcked, ByteSent, ByteReceived, ByteRefused,
       ArbitrationLost, Abort, Hold, Stop, registers
  <2> QED
    BY <2>1 DEF irqdata
<1> QED
  BY <1>1, <1>2, <1>3, <1>4, <1>5, <1>6, <1>7, <1>8, <1>9, <1>10, <1>11, <1>12, <1>13,
     <1>14, <1>15, <1>16, <1>17, <1>18, <1>19, <1>20, <1>21, <1>22, <1>23
  DEF Next, Program, Isr

LEMMA ApartKept ==
  ASSUME Always, Next
  PROVE  Apart'
<1> USE DEF Always, Apart, Mine, Types, DriverTypes, Size, IssueStop, IssueRestart
<1>1. CASE Clear
  BY <1>1 DEF Clear, registers, irqdata, transfer
<1>2. CASE WriteTimeout
  BY <1>2 DEF WriteTimeout, registers, irqdata
<1>3. CASE Drain
  BY <1>3 DEF Drain, registers, irqdata
<1>4. CASE Read
  BY <1>4 DEF Read, registers, irqdata
<1>5. CASE Finish
  BY <1>5 DEF Finish, registers, irqdata
<1>6. CASE End
  BY <1>6 DEF End, Disable, irqdata
<1>7. CASE StatusCheck
  BY <1>7 DEF StatusCheck, irqdata
<1>8. CASE StatusWait
  BY <1>8 DEF StatusWait, registers, irqdata
<1>9. CASE StatusAbort
  BY <1>9 DEF StatusAbort, Disable
<1>10. CASE Interrupt
  BY <1>10 DEF Interrupt, irqdata, transfer
<1>11. CASE IsrClear
  BY <1>11 DEF IsrClear, registers, irqdata, transfer
<1>12. CASE IsrAgain
  BY <1>12 DEF IsrAgain, irqdata, transfer
<1>13. CASE IsrWait
  BY <1>13 DEF IsrWait, registers, irqdata, transfer
<1>14. CASE IsrDisable
  BY <1>14 DEF IsrDisable, Disable, transfer, Left
<1>15. CASE StatusCall
  BY <1>15 DEF StatusCall, irqdata, transfer, AtRest, Rest
<1>16. CASE Call
  <2>1. PICK c \in Calls : /\ call' = c /\ stage' = FirstStage(c) /\ pc' = "attempt"
    BY <1>16 DEF Call
  <2>2. ~IssueRestart'
    BY <2>1 DEF FirstStage
  <2> QED
    BY <2>1, <2>2
<1>17. CASE Attempt
  <2>1. CASE pc' = "staged"
    <3>1. Size = 0 \/ (call.irq /\ ~registered) \/ status' = "BUSY"
      BY <1>17, <2>1, AttemptIs
    <3>2. UNCHANGED <<call, stage, registered>>
      BY <1>17, AttemptIs
    <3>3. Size = 0 => IssueStop
      BY SizeIs
    <3> QED
      BY <2>1, <3>1, <3>2, <3>3 DEF Retried
  <2>2. CASE pc' = "write"
    BY <1>17, <2>2, AttemptIs
  <2>3. CASE pc' = "clear"
    <3>1. ~en /\ Enable /\ Size > 0 /\ (call.irq => registered)
          /\ UNCHANGED <<call, stage, registered>>
          /\ irq_busy' = IF registered THEN 0 ELSE irq_busy
      BY <1>17, <2>3, AttemptIs
    <3>2. irq_busy' = 0 /\ en'
      BY <3>1 DEF Left, Enable
    <3> QED
      BY <2>3, <3>1, <3>2
  <2> QED
    BY <1>17, <2>1, <2>2, <2>3, AttemptIs
<1>18. CASE Staged
  BY <1>18, SizeIs DEF Staged, FirstStage, controller, registers, irqdata, CallTypes
<1>19. CASE Write
  BY <1>19 DEF Write, TxReady, registers, irqdata
<1>20. CASE Check
  <2>1. UNCHANGED <<controller, irqdata, call, stage>> /\ pc = "check"
    BY <1>20 DEF Check
  <2>2. /\ pc' \in {"finish", "arm", "staged", "read", "drain", "write"}
        /\ pc' = "arm" => call.irq /\ IssueStop
    BY <1>20, CheckIs DEF ControllerTypes
  <2> QED
    BY <2>1, <2>2 DEF controller, registers, irqdata
<1>21. CASE Arm
  <2>1. /\ UNCHANGED <<call, stage, status>> /\ pc' = "staged" /\ IssueStop
    BY <1>21 DEF Arm, transfer
  <2> QED
    BY <2>1
<1>22. CASE IsrRead
  <2>1. /\ UNCHANGED <<call, stage, status, pc, en, registered, irq_busy>>
    BY <1>22 DEF IsrRead, registers
  <2> QED
    BY <2>1
<1>23. CASE Bus
  <2>1. UNCHANGED en /\ UNCHANGED <<irqdata, pc, call, transfer>>
    BY <1>23 DEF Bus, Controller, Start, AddressAcked, ByteSent, ByteReceived, ByteRefused,
       ArbitrationLost, Abort, Hold, Stop, registers
  <2> QED
    BY <2>1 DEF irqdata, transfer
<1> QED
  BY <1>1, <1>2, <1>3, <1>4, <1>5, <1>6, <1>7, <1>8, <1>9, <1>10, <1>11, <1>12, <1>13,
     <1>14, <1>15, <1>16, <1>17, <1>18, <1>19, <1>20, <1>21, <1>22, <1>23
  DEF Next, Program, Isr

LEMMA SizeTypeKept ==
  ASSUME Always, Next
  PROVE  SizeType'
<1> USE DEF Always, Types, DriverTypes, SizeType
<1>1. CASE UNCHANGED <<irq_busy, irq_size, isr>>
  BY <1>1
<1>2. CASE Arm
  <2>1. stage # "transmit" => irq_size' = Size
    BY <1>2 DEF Arm, Size
  <2>2. Size \in Nat /\ Size > 0
    BY <1>2, SizeIs DEF Apart, Mine, Arm
  <2> QED
    BY <1>2, <2>1, <2>2 DEF Arm
<1>3. CASE Interrupt \/ IsrClear \/ IsrAgain \/ IsrWait \/ IsrDisable
  BY <1>3 DEF Interrupt, IsrClear, IsrAgain, IsrWait, IsrDisable, irqdata
<1>4. CASE IsrRead
  <2>1. CASE irq_busy = 2
    <3>1. isr' = IF irq_size' > 0 THEN "again" ELSE "wait"
      BY <1>4, <2>1, ReadCountIs
    <3> QED
      BY <3>1
  <2>2. CASE irq_busy # 2
    BY <1>4, <2>2 DEF IsrRead
  <2> QED
    BY <2>1, <2>2
<1>5. CASE Attempt
  <2>1. irq_busy' \in {irq_busy, 0} /\ UNCHANGED <<irq_size, isr>>
    BY <1>5, AttemptIs
  <2> QED
    BY <2>1
<1>6. CASE StatusAbort
  BY <1>6 DEF StatusAbort
<1>7. CASE Call \/ StatusCall \/ Bus \/ Clear \/ Staged \/ Write \/ WriteTimeout \/ Check
           \/ Drain \/ Read \/ Finish \/ End \/ StatusCheck \/ StatusWait
  <2>1. UNCHANGED <<irq_busy, irq_size, isr>>
    BY <1>7 DEF Call, StatusCall, Bus, Clear, Staged, Write, WriteTimeout, Check,
       Drain, Read, Finish, End, StatusCheck, StatusWait, irqdata
  <2> QED
    BY <1>1, <2>1
<1> QED
  BY <1>2, <1>3, <1>4, <1>5, <1>6, <1>7 DEF Next, Program, Isr

\* What a call sends and receives is numbers, whatever it asks for.
LEMMA CallPlan ==
  ASSUME Call
  PROVE  plan' \in Seq(Int) /\ seen' \in Int
<1>1. PICK c \in Calls : plan' = Plan(c)
  BY DEF Call
<1>2. c.op \in {"tx", "rx", "tx_rx"} /\ c.n \in Nat /\ c.m \in Nat
  BY CallsAssumption
<1>3. <<STOP>> \in Seq(Int)
  BY DEF STOP
<1>4. /\ Sent(c.n) \in Seq(Int) /\ Received(c.m) \in Seq(Int)
      /\ Sent(c.n) \o Received(c.m) \in Seq(Int)
  BY <1>2, SentIs, ReceivedIs, ConcatProperties
<1>5. /\ Sent(c.n) \o <<STOP>> \in Seq(Int) /\ Received(c.m) \o <<STOP>> \in Seq(Int)
      /\ (Sent(c.n) \o Received(c.m)) \o <<STOP>> \in Seq(Int)
  BY <1>3, <1>4, ConcatProperties
<1>6. Plan(c) \in Seq(Int)
  BY <1>2, <1>5 DEF Plan
<1> QED
  BY <1>1, <1>6 DEF Call

LEMMA AlwaysKept ==
  ASSUME Always, [Next]_vars, BothSizes
  PROVE  Always'
<1>1. CASE Next
  <2>1. ControllerTypes'
    <3>1. CASE Call
      BY <3>1, CallPlan DEF Call, Always, Types, ControllerTypes, registers, machine
    <3>2. CASE Bus
      BY <3>2, ControllerKeepsTypes DEF Bus, Always, Types
    <3> QED
      BY <1>1, <3>1, <3>2, ProgramTypes DEF Always
  <2> QED
    BY <1>1, <2>1, CallTypesKept, DriverTypesKept, SizeTypeKept, IdleKept, FlaggedKept,
       LeftKept, ApartKept DEF Always, Types
<1>2. CASE UNCHANGED vars
  BY <1>2 DEF vars, controller, registers, machine, irqdata, transfer, Always, Types,
     ControllerTypes, CallTypes, DriverTypes, SizeType, Idle, Busy, Flagged, Left, Apart,
     Mine, Size, IssueStop, IssueRestart
<1> QED
  BY <1>1, <1>2

-----------------------------------------------------------------------------
(* The inductive invariant: what holds until a wait is given up. *)

\* What the program knows of its place; it is told of transfers it began.
Asked ==
  /\ pc \in {"told", "status", "abort", "aborted"} =>
       call.irq /\ registered /\ Size > 0 /\ IssueStop
  /\ pc = "status" => status \in {"SUCCESS", "BUSY"}
  /\ pc \in {"abort", "aborted"} => status \in {"NACK_ERR", "TIMEOUT"}
  /\ pc = "told" /\ status = "SUCCESS" => irq_busy = 0
  /\ pc = "done" => IssueStop \/ status \in Retried

Planned == call # Nothing => plan = Plan(call)

Late == "LATE" \in mishap
Bad == mishap \cap {"NACK", "ARB"} # {}

\* Both detections empty the queues and end the transfer.
Aborted == txf = <<>> /\ rxf = <<>> /\ fsm \in {"GEN_STOP", "PRE_IDLE"}

\* Of call c, w commands are written and k bytes read.
Carrying(c, w, k) ==
  IF Bad THEN Aborted ELSE Flow(c, w) /\ k + Len(rxf) <= Arrived(c, w)

\* The bus shows it, and the bytes are its own.
Watched(c, w) ==
  ~Bad => SeenAt(c, Place(w)) /\ ~stale /\ \A i \in 1..Len(rxf) : rxf[i]

\* No byte is missing, but for those that found the FIFO full.
Exact(c, w, k) == ~Bad /\ "OVER" \notin mishap => k + Len(rxf) = Arrived(c, w)

\* The errors the driver will see are those that happened.
Shows == (det # {} <=> Bad) /\ ("NACK" \in det <=> "NACK" \in mishap)

\* The result an attempt is about to return.
Result ==
  /\ status \in {"SUCCESS", "TIMEOUT"} \cup Retried
  /\ status = "SUCCESS" =>
       /\ written = Size + 1 /\ IssueStop /\ ~call.irq
       /\ ~Bad /\ stage = "receive" => got = Size
  /\ status = "TIMEOUT" =>
       IssueStop /\ ~Busy /\ rxf = <<>> /\ (Bad \/ "OVER" \in mishap)
  /\ status \in Retried => Bad

Steps ==
  /\ pc = "clear" => /\ fsm = "PRE_START" /\ txf = <<>> /\ rxf = <<>> /\ ~Bad
                     /\ written = 0 /\ got = 0 /\ ~stale /\ ~IssueRestart
  /\ pc = "write" => written <= Size
  /\ pc = "check" => written \in 1..(Size + 1)
  /\ pc = "drain" => written \in 2..Size /\ ~call.irq /\ stage = "receive"
  /\ pc = "read" =>
       written = Size + 1 /\ ~call.irq /\ stage = "receive" /\ status = "SUCCESS"
  /\ pc \in {"arm", "armed", "staged"} => written = Size + 1
  /\ pc = "attempt" => written = 0
  /\ pc \in {"finish", "end"} => Result
  /\ pc = "end" => ~Busy
  /\ call.irq => got = 0
  /\ pc \notin {"clear", "armed"} => Shows

Held(c, w, k) == Carrying(c, w, k) /\ Watched(c, w) /\ Exact(c, w, k)

\* The program is about its transfer.
Working ==
  /\ en /\ Steps
  /\ pc # "clear" => \E c, w, k : c = call /\ w = Written /\ k = got /\ Held(c, w, k)

\* The outcome of the last call is still to be told.
Waited == /\ call.irq /\ registered /\ Size > 0 /\ IssueStop
          /\ \/ pc \in {"staged", "done"} /\ status = "SUCCESS"
             \/ pc = "status"
             \/ pc = "told" /\ status \in {"BUSY", "SUCCESS"}

\* Bytes the handler has read.
Gone(c) == IF irq_busy = 2 THEN c.m - irq_size ELSE 0

\* The handler ends the transfer of call c.
Run(c, k) ==
  /\ c \in Calls /\ k = Gone(c)
  /\ irq_busy = IF c.op = "tx" THEN 1 ELSE 2
  /\ irq_busy = 2 => irq_size \in 0..c.m /\ (irq_size = 0 <=> isr \in {"wait", "disable"})
  /\ isr = "disable" => ~Busy
  /\ Carrying(c, Total(c), k)
  /\ Waited => c = call /\ k = got /\ Watched(c, Total(c))

Quiet == fsm = "IDLE" /\ ~en /\ txf = <<>> /\ rxf = <<>>

\* The program is not about a transfer.
Between ==
  /\ irq_busy = 0 => Quiet
  /\ irq_busy # 0 => \E c, k : Run(c, k)
  /\ pc = "aborted" => ~Busy
  /\ Waited /\ irq_busy = 0 /\ ~Bad => Carried
  /\ pc \in {"staged", "done"} /\ ~call.irq =>
       /\ status = "SUCCESS" /\ Size > 0 => irq_busy = 0 /\ (Carried \/ "ARB" \in mishap)
       /\ status = "TIMEOUT" => mishap \cap {"ARB", "OVER"} # {}

Timely == ~Late => IF Mine THEN Working ELSE Between

Strong == Always /\ Asked /\ Planned /\ Timely

-----------------------------------------------------------------------------
(* The program knows its place. *)

LEMMA AskedKept ==
  ASSUME Always, Always', Asked, Next
  PROVE  Asked'
<1> USE DEF Asked, Always, Types, DriverTypes, Retried
<1>1. CASE Call
  <2>1. pc' = "attempt"
    BY <1>1 DEF Call
  <2> QED
    BY <2>1
<1>2. CASE StatusCall
  <2>1. /\ pc' = "status" /\ call.irq /\ registered /\ UNCHANGED <<call, stage, registered, status>>
        /\ (pc = "done" /\ status = "SUCCESS" /\ Size > 0) \/ (pc = "told" /\ status = "BUSY")
    BY <1>2 DEF StatusCall, irqdata, transfer
  <2> QED
    BY <2>1 DEF Size, IssueStop
<1>3. CASE Attempt
  <2>1. pc' \in {"staged", "write", "clear"}
    BY <1>3, AttemptIs
  <2> QED
    BY <2>1
<1>4. CASE Staged
  <2>1. \/ pc' = "attempt"
        \/ pc' = "done" /\ UNCHANGED <<call, stage, status>> /\ (IssueStop \/ status \in Retried)
    BY <1>4 DEF Staged
  <2> QED
    BY <2>1 DEF IssueStop
<1>5. CASE StatusCheck
  <2>1. pc = "status" /\ UNCHANGED <<call, stage, registered, irq_busy>>
    BY <1>5 DEF StatusCheck, irqdata
  <2>2. \/ status' = "NACK_ERR" /\ pc' \in {"abort", "told"}
        \/ pc' = "told" /\ status' = IF irq_busy # 0 THEN "BUSY" ELSE "SUCCESS"
    BY <1>5 DEF StatusCheck
  <2> QED
    BY <2>1, <2>2 DEF Size, IssueStop
<1>6. CASE StatusWait
  <2>1. pc = "abort" /\ pc' = "aborted" /\ UNCHANGED <<call, stage, registered>>
        /\ status' \in {status, "TIMEOUT"}
    BY <1>6 DEF StatusWait, irqdata
  <2> QED
    BY <2>1 DEF Size, IssueStop
<1>7. CASE StatusAbort
  <2>1. pc = "aborted" /\ pc' = "told" /\ UNCHANGED <<call, stage, registered, status>>
    BY <1>7 DEF StatusAbort
  <2> QED
    BY <2>1 DEF Size, IssueStop
<1>8. CASE IsrDisable
  <2>1. irq_busy' = 0 /\ UNCHANGED <<call, stage, registered, pc, status>>
    BY <1>8 DEF IsrDisable, transfer
  <2> QED
    BY <2>1 DEF Size, IssueStop
<1>9. CASE Bus \/ Interrupt \/ IsrClear \/ IsrRead \/ IsrAgain \/ IsrWait
  <2>1. UNCHANGED <<call, stage, registered, pc, status, irq_busy>>
    BY <1>9 DEF Bus, Interrupt, IsrClear, IsrRead, IsrAgain, IsrWait, irqdata, transfer
  <2> QED
    BY <2>1 DEF Size, IssueStop
<1>10. CASE Clear \/ Write \/ WriteTimeout \/ Drain \/ Read \/ Finish \/ End \/ Arm
  <2>1. pc' \in {"write", "armed", "check", "finish", "read", "end", "staged"}
    BY <1>10 DEF Clear, Write, WriteTimeout, Drain, Read, Finish, End, Arm
  <2> QED
    BY <2>1
<1>11. CASE Check
  <2>1. pc' \in {"finish", "arm", "staged", "read", "drain", "write"}
    BY <1>11, CheckIs
  <2> QED
    BY <2>1
<1> QED
  BY <1>1, <1>2, <1>3, <1>4, <1>5, <1>6, <1>7, <1>8, <1>9, <1>10, <1>11
     DEF Next, Program, Isr

LEMMA CallKept ==
  ASSUME Next, ~Call
  PROVE  UNCHANGED <<call, plan, registered>>
<1>1. CASE Attempt
  BY <1>1, AttemptIs DEF Attempt
<1>2. CASE Bus
  BY <1>2 DEF Bus, irqdata, Controller, Start, AddressAcked, ByteSent, ByteReceived,
              ByteRefused, ArbitrationLost, Abort, Hold, Stop
<1>3. CASE Check
  BY <1>3 DEF Check, controller, irqdata
<1>4. CASE Program /\ ~Attempt /\ ~Check
  BY <1>4 DEF Program, Clear, Staged, Write, WriteTimeout, Drain, Read, Finish, End, Arm,
              StatusCheck, StatusWait, StatusAbort, controller, irqdata
<1>5. CASE Interrupt \/ Isr \/ StatusCall
  BY <1>5 DEF Interrupt, Isr, IsrClear, IsrRead, IsrAgain, IsrWait, IsrDisable, StatusCall,
              irqdata
<1> QED
  BY <1>1, <1>2, <1>3, <1>4, <1>5 DEF Next

LEMMA PlannedKept ==
  ASSUME Planned, Next
  PROVE  Planned'
<1>1. CASE Call
  <2>1. PICK c \in Calls : call' = c /\ plan' = Plan(c)
    BY <1>1 DEF Call
  <2> QED
    BY <2>1 DEF Planned
<1>2. CASE ~Call
  <2>1. UNCHANGED <<call, plan>>
    BY <1>2, CallKept
  <2> QED
    BY <2>1 DEF Planned, Plan
<1> QED
  BY <1>1, <1>2

-----------------------------------------------------------------------------
(* The controller carries on. *)

LEMMA BusIs ==
  ASSUME Controller
  PROVE  /\ Busy /\ UNCHANGED <<registers, plan>>
         /\ \/ /\ Goes /\ UNCHANGED det
               /\ UNCHANGED mishap \/ mishap' = mishap \cup {"OVER"}
            \/ /\ fsm \in Bytes /\ fsm' \in {"GEN_STOP", IF en THEN "PRE_IDLE" ELSE "IDLE"}
               /\ txf' = <<>> /\ rxf' = <<>>
               /\ \E why \in {"NACK", "ARB"} :
                    det' = det \cup {why} /\ mishap' = mishap \cup {why}
<1>1. CASE Start \/ AddressAcked \/ ByteSent \/ ByteReceived \/ Hold \/ Stop
  <2>1. Goes
    BY <1>1 DEF Goes
  <2>2. Busy
    BY <1>1 DEF Busy, Start, AddressAcked, ByteSent, ByteReceived, Hold, Stop
  <2>3. UNCHANGED <<registers, plan, det>>
    BY <1>1 DEF Start, AddressAcked, ByteSent, ByteReceived, Hold, Stop
  <2>4. UNCHANGED mishap \/ mishap' = mishap \cup {"OVER"}
    BY <1>1 DEF Start, AddressAcked, ByteSent, ByteReceived, Hold, Stop
  <2> QED
    BY <2>1, <2>2, <2>3, <2>4
<1>2. CASE ByteRefused
  <2>1. fsm \in {"GEN_7BIT_ADDR", "TX_BYTE"} /\ Abort("NACK", "GEN_STOP")
    BY <1>2 DEF ByteRefused
  <2> QED
    BY <2>1 DEF Abort, Bytes, Busy
<1>3. CASE ArbitrationLost
  <2>1. fsm \in Bytes /\ Abort("ARB", IF en THEN "PRE_IDLE" ELSE "IDLE")
    BY <1>3 DEF ArbitrationLost, Bytes
  <2> QED
    BY <2>1 DEF Abort, Bytes, Busy
<1> QED
  BY <1>1, <1>2, <1>3 DEF Controller

LEMMA ShowsKept ==
  ASSUME Controller, Shows
  PROVE  Shows'
<1>1. \/ UNCHANGED <<det, mishap>>
      \/ UNCHANGED det /\ mishap' = mishap \cup {"OVER"}
      \/ \E why \in {"NACK", "ARB"} : det' = det \cup {why} /\ mishap' = mishap \cup {why}
  BY BusIs
<1> QED
  BY <1>1 DEF Shows, Bad

LEMMA BadKept ==
  ASSUME Controller
  PROVE  /\ Bad => Bad'
         /\ fsm \in Bytes /\ ~Goes => Bad'
         /\ Late' => Late
         /\ \A x \in {"NACK", "ARB", "OVER"} : x \in mishap => x \in mishap'
  BY BusIs DEF Bad, Late

LEMMA BusCarries ==
  ASSUME ControllerTypes, Controller, en, Idle, NEW c, NEW w, NEW k \in Nat, Carrying(c, w, k),
         UNCHANGED stale
  PROVE  /\ Carrying(c, w, k)'
         /\ Exact(c, w, k) => Exact(c, w, k)'
         /\ Watched(c, w) /\ plan = Plan(c) => Watched(c, w)'
<1>1. CASE Bad
  <2>1. Bad' /\ Busy /\ fsm \notin Bytes
    BY <1>1, BusIs, BadKept DEF Carrying, Aborted, Bytes
  <2>2. Goes /\ fsm = "GEN_STOP" /\ txf = <<>> /\ rxf = <<>>
    BY <1>1, <2>1, BusIs DEF Carrying, Aborted, Busy
  <2>3. Stop
    BY <2>2 DEF Goes, Start, AddressAcked, ByteSent, ByteReceived, Hold
  <2>4. Aborted'
    BY <2>2, <2>3 DEF Stop, Aborted
  <2> QED
    BY <2>1, <2>4 DEF Carrying, Exact, Watched
<1>2. CASE ~Bad /\ ~Goes
  <2>1. Bad' /\ Aborted'
    BY <1>2, BusIs, BadKept DEF Aborted
  <2> QED
    BY <2>1 DEF Carrying, Exact, Watched
<1>3. CASE ~Bad /\ Goes
  <2>1. Flow(c, w) /\ k + Len(rxf) <= Arrived(c, w) /\ rxf \in Seq(BOOLEAN) /\ Len(rxf) \in Nat
    BY <1>3, LenProperties DEF Carrying, ControllerTypes
  <2>2. /\ Flow(c, w)' /\ Arrived(c, w) \in Nat
        /\ Arrived(c, w)' = IF fsm = "RX_BYTE" THEN Arrived(c, w) + 1 ELSE Arrived(c, w)
        /\ plan = Plan(c) /\ SeenAt(c, Place(w)) =>
             SeenAt(c, Place(w))' /\ (fsm = "RX_BYTE" => Match(seen, READ) # -1)
    BY <1>3, <2>1, FlowStep
  <2>3. CASE fsm # "RX_BYTE"
    <3>1. UNCHANGED <<rxf, mishap>>
      BY <1>3, <2>3 DEF Goes, Start, AddressAcked, ByteSent, ByteReceived, Hold, Stop
    <3> QED
      BY <1>3, <2>1, <2>2, <2>3, <3>1 DEF Carrying, Exact, Watched, Bad
  <2>4. CASE fsm = "RX_BYTE" /\ Len(rxf) < Depth
    <3>1. ByteReceived
      BY <1>3, <2>4 DEF Goes, Start, AddressAcked, ByteSent, Hold, Stop
    <3>2. rxf' = Append(rxf, Match(seen, READ) # -1) /\ UNCHANGED mishap
      BY <2>4, <3>1 DEF ByteReceived
    <3>3. /\ Len(rxf') = Len(rxf) + 1 /\ \A i \in 1..Len(rxf) : rxf'[i] = rxf[i]
          /\ rxf'[Len(rxf) + 1] = (Match(seen, READ) # -1)
      BY <2>1, <3>2, AppendProperties
    <3>4. Carrying(c, w, k)' /\ (Exact(c, w, k) => Exact(c, w, k)')
      BY <1>3, <2>1, <2>2, <2>4, <3>2, <3>3 DEF Carrying, Exact, Bad
    <3>5. ASSUME Watched(c, w), plan = Plan(c) PROVE Watched(c, w)'
      <4>1. SeenAt(c, Place(w)) /\ ~stale /\ \A i \in 1..Len(rxf) : rxf[i]
        BY <1>3, <3>5 DEF Watched
      <4>2. SeenAt(c, Place(w))' /\ Match(seen, READ) # -1
        BY <2>2, <2>4, <3>5, <4>1
      <4>3. ASSUME NEW i \in 1..Len(rxf') PROVE rxf'[i]
        <5>1. i \in 1..Len(rxf) \/ i = Len(rxf) + 1
          BY <2>1, <3>3
        <5>2. CASE i \in 1..Len(rxf)
          BY <3>3, <4>1, <5>2
        <5>3. CASE i = Len(rxf) + 1
          BY <3>3, <4>2, <5>3
        <5> QED
          BY <5>1, <5>2, <5>3
      <4> QED
        BY <4>1, <4>2, <4>3 DEF Watched
    <3> QED
      BY <3>4, <3>5
  <2>5. CASE fsm = "RX_BYTE" /\ ~(Len(rxf) < Depth)
    <3>1. ByteReceived
      BY <1>3, <2>5 DEF Goes, Start, AddressAcked, ByteSent, Hold, Stop
    <3>2. UNCHANGED rxf /\ mishap' = mishap \cup {"OVER"}
      BY <2>5, <3>1 DEF ByteReceived
    <3>3. ~Bad' /\ "OVER" \in mishap'
      BY <1>3, <3>2 DEF Bad
    <3>4. Carrying(c, w, k)' /\ (Exact(c, w, k) => Exact(c, w, k)')
      BY <1>3, <2>1, <2>2, <2>5, <3>2, <3>3 DEF Carrying, Exact
    <3>5. ASSUME Watched(c, w), plan = Plan(c) PROVE Watched(c, w)'
      BY <1>3, <2>2, <3>2, <3>5 DEF Watched
    <3> QED
      BY <3>4, <3>5
  <2> QED
    BY <2>3, <2>4, <2>5
<1> QED
  BY <1>1, <1>2, <1>3

\* Bytes taken from the FIFO were received.
LEMMA TakeCarries ==
  ASSUME ControllerTypes, DriverTypes, NEW c, NEW w, NEW k \in Nat, NEW j \in 0..Len(rxf),
         Take(j), UNCHANGED <<txf, machine, seen, mishap>>, Carrying(c, w, k)
  PROVE  /\ Carrying(c, w, k + j)'
         /\ Exact(c, w, k) => Exact(c, w, k + j)'
         /\ Watched(c, w) => Watched(c, w)'
<1>1. rxf \in Seq(BOOLEAN) /\ Len(rxf) \in Nat /\ rxf' = SubSeq(rxf, j + 1, Len(rxf))
  BY LenProperties DEF ControllerTypes, Take
<1>2. /\ rxf' \in Seq(BOOLEAN) /\ Len(rxf') = Len(rxf) - j
      /\ \A i \in 1..Len(rxf') : rxf'[i] = rxf[i + j]
      /\ j = Len(rxf) => rxf' = <<>>
  BY <1>1, Taken
<1>3. (k + j) + Len(rxf') = k + Len(rxf)
  <2>1. Len(rxf') = Len(rxf) - j
    BY <1>2
  <2>2. Len(rxf) \in Nat /\ j \in Int
    BY <1>1
  <2> QED
    BY <2>1, <2>2
<1>4. /\ Place(w)' = Place(w) /\ Flow(c, w) = Flow(c, w)' /\ Arrived(c, w)' = Arrived(c, w)
      /\ Bad' = Bad /\ SeenAt(c, Place(w)) = SeenAt(c, Place(w))'
  BY DEF Flow, Queue, Place, MachineAt, Arrived, Completed, SeenAt, Bad, machine
<1>5. Carrying(c, w, k + j)'
  <2>1. CASE Bad
    <3>1. rxf = <<>> /\ Aborted
      BY <2>1 DEF Carrying, Aborted
    <3>2. j = Len(rxf)
      BY <3>1
    <3>3. Aborted'
      BY <1>2, <3>1, <3>2 DEF Aborted, machine
    <3> QED
      BY <1>4, <2>1, <3>3 DEF Carrying
  <2>2. CASE ~Bad
    <3>1. Flow(c, w)' /\ (k + j) + Len(rxf') <= Arrived(c, w)'
      BY <1>3, <1>4, <2>2 DEF Carrying
    <3> QED
      BY <1>4, <2>2, <3>1 DEF Carrying
  <2> QED
    BY <2>1, <2>2
<1>6. Exact(c, w, k) => Exact(c, w, k + j)'
  BY <1>3, <1>4 DEF Exact
<1>7. ASSUME Watched(c, w) PROVE Watched(c, w)'
  <2>1. CASE Bad
    BY <1>4, <2>1 DEF Watched
  <2>2. CASE ~Bad
    <3>1. SeenAt(c, Place(w)) /\ ~stale /\ \A i \in 1..Len(rxf) : rxf[i]
      BY <1>7, <2>2 DEF Watched
    <3>2. ~stale'
      <4>1. stale' => stale \/ \E i \in 1..j : ~rxf[i]
        BY DEF Take
      <4>2. \A i \in 1..j : rxf[i]
        BY <1>1, <3>1
      <4> QED
        BY <3>1, <4>1, <4>2
    <3>3. ASSUME NEW i \in 1..Len(rxf') PROVE rxf'[i]
      <4>1. i + j \in 1..Len(rxf)
        BY <1>1, <1>2
      <4> QED
        BY <1>2, <3>1, <4>1
    <3> QED
      BY <1>4, <3>1, <3>2, <3>3 DEF Watched
  <2> QED
    BY <2>1, <2>2
<1> QED
  BY <1>5, <1>6, <1>7

\* Steps that leave the controller and the bytes alone.
LEMMA NoneCarries ==
  ASSUME UNCHANGED <<txf, rxf, machine, seen, mishap, stale>>, NEW c, NEW w, NEW k
  PROVE  /\ Carrying(c, w, k) => Carrying(c, w, k)'
         /\ Exact(c, w, k) => Exact(c, w, k)'
         /\ Watched(c, w) => Watched(c, w)'
<1>1. /\ Place(w)' = Place(w) /\ Flow(c, w) = Flow(c, w)' /\ Arrived(c, w)' = Arrived(c, w)
      /\ Bad' = Bad /\ SeenAt(c, Place(w)) = SeenAt(c, Place(w))' /\ Aborted' = Aborted
  BY DEF Flow, Queue, Place, MachineAt, Arrived, Completed, SeenAt, Bad, machine, Aborted
<1> QED
  BY <1>1 DEF Carrying, Exact, Watched

-----------------------------------------------------------------------------
(* The steps of an attempt. *)

LEMMA MineIs ==
  ASSUME Strong, ~Late, Mine
  PROVE  /\ ControllerTypes /\ CallTypes /\ DriverTypes /\ Idle /\ Flagged
         /\ irq_busy = 0 /\ isr = "off" /\ iser = {} /\ en /\ Steps
         /\ Size \in Nat /\ Size > 0 /\ written \in Nat /\ got \in Nat
         /\ (call.irq => registered) /\ Moves(call) /\ plan = Plan(call)
         /\ call.op \in {"tx", "rx", "tx_rx"} /\ call.irq \in BOOLEAN
         /\ call.n \in Nat /\ call.m \in Nat
         /\ Working
<1>1. Types /\ Idle /\ Flagged /\ Left /\ Apart /\ Working /\ Planned
  BY DEF Strong, Always, Timely
<1>2. irq_busy = 0 /\ (call.irq => registered) /\ Size > 0
  BY <1>1 DEF Apart
<1>3. ControllerTypes /\ CallTypes /\ DriverTypes
  BY <1>1 DEF Types
<1>4. /\ Size \in Nat /\ call.op \in {"tx", "rx", "tx_rx"} /\ call.irq \in BOOLEAN
      /\ call.n \in Nat /\ call.m \in Nat
  BY <1>3, SizeIs
<1>5. call # Nothing
  BY <1>2 DEF Nothing, Size
<1> QED
  BY <1>1, <1>2, <1>3, <1>4, <1>5, Numbers DEF Left, Working, Planned, DriverTypes

LEMMA BusWorks ==
  ASSUME Strong, ~Late, Mine, Bus
  PROVE  Working'
<1>1. /\ ControllerTypes /\ DriverTypes /\ Idle /\ en /\ Steps /\ Working
      /\ plan = Plan(call) /\ got \in Nat /\ CallTypes
  BY MineIs
<1>2. Controller /\ UNCHANGED <<call, pc, stage, status, written, got, stale>>
  BY DEF Bus, transfer
<1>3. Busy /\ UNCHANGED <<en, plan>>
  BY <1>2, BusIs DEF registers
<1>4. pc # "clear"
  <2>1. SUFFICES ASSUME pc = "clear" PROVE FALSE
    OBVIOUS
  <2>2. fsm = "PRE_START" /\ txf = <<>>
    BY <1>1, <2>1 DEF Steps
  <2>3. ~Goes
    BY <2>2 DEF Goes, Start, AddressAcked, ByteSent, ByteReceived, Hold, Stop
  <2> QED
    BY <1>2, <2>2, <2>3, BusIs DEF Bytes
<1>5. Steps'
  <2>1. UNCHANGED <<Size, IssueStop, IssueRestart>>
    BY <1>2 DEF Size, IssueStop, IssueRestart
  <2>2. pc # "end"
    BY <1>1, <1>3 DEF Steps
  <2>3. pc # "armed" => Shows'
    BY <1>1, <1>2, <1>4, ShowsKept DEF Steps
  <2>4. ASSUME pc = "finish" PROVE Result'
    <3>1. Result /\ status # "TIMEOUT"
      BY <1>1, <1>3, <2>4 DEF Steps, Result
    <3>2. Bad => Bad'
      BY <1>2, BadKept
    <3> QED
      BY <1>2, <2>1, <3>1, <3>2 DEF Result, Retried
  <2> QED
    BY <1>1, <1>2, <1>4, <2>1, <2>2, <2>3, <2>4 DEF Steps
<1>6. PICK c, w, k : c = call /\ w = Written /\ k = got /\ Held(c, w, k)
  BY <1>1, <1>4 DEF Working
<1>7. Held(c, w, k)'
  <2>1. k \in Nat /\ Carrying(c, w, k) /\ Exact(c, w, k) /\ Watched(c, w) /\ plan = Plan(c)
        /\ UNCHANGED stale
    BY <1>1, <1>2, <1>6 DEF Held
  <2> QED
    BY <1>1, <1>2, <2>1, BusCarries DEF Held
<1>8. Written' = Written
  BY <1>2 DEF Written, IssueRestart
<1> QED
  BY <1>1, <1>2, <1>3, <1>5, <1>6, <1>7, <1>8 DEF Working

\* The second stage of master_tx_rx begins.
LEMMA AttemptWorks ==
  ASSUME Strong, ~Late, Mine, Attempt
  PROVE  Working'
<1>1. /\ ControllerTypes /\ DriverTypes /\ CallTypes /\ en /\ Steps /\ Working
      /\ Size \in Nat /\ Size > 0 /\ got \in Nat
      /\ (call.irq => registered) /\ Moves(call) /\ call.n \in Nat
  BY MineIs
<1>2. pc = "attempt" /\ IssueRestart
  BY AttemptIs DEF Mine
<1>3. /\ pc' = "write" /\ UNCHANGED <<en, fsm, rxf, mishap>> /\ written' = 0 /\ got' = 0
      /\ stale' = FALSE /\ UNCHANGED <<txf, det, cmd, rw, seen, call, stage>>
  <2>1. UNCHANGED <<txf, det, cmd, rw, seen, call, stage>> /\ written' = 0 /\ got' = 0
        /\ stale' = FALSE
    BY AttemptIs
  <2>2. pc' = "write" /\ UNCHANGED <<en, fsm, rxf, mishap>>
    <3>1. Size # 0 /\ IssueRestart /\ (call.irq => registered)
      BY <1>1, <1>2
    <3> QED
      BY <3>1 DEF Attempt
  <2> QED
    BY <2>1, <2>2
<1>4. Steps'
  <2>1. UNCHANGED Size
    BY <1>3 DEF Size
  <2>2. Shows'
    BY <1>1, <1>2, <1>3 DEF Steps, Shows, Bad
  <2> QED
    BY <1>1, <1>3, <2>1, <2>2 DEF Steps
<1>5. PICK c, w, k : c = call /\ w = Written /\ k = got /\ Held(c, w, k)
  BY <1>1, <1>2 DEF Working
<1>6. w = call.n + 1 /\ written = 0 /\ Written' = w
  BY <1>1, <1>2, <1>3, <1>5 DEF Steps, Written, IssueRestart
<1>7. ASSUME ~Bad PROVE Flow(c, w) /\ Arrived(c, w) = 0 /\ rxf = <<>> /\ SeenAt(c, Place(w))
  <2>1. Flow(c, w) /\ k + Len(rxf) <= Arrived(c, w) /\ SeenAt(c, Place(w))
    BY <1>5, <1>7 DEF Held, Carrying, Watched
  <2>2. Turn(c) = w + 1
    BY <1>1, <1>2, <1>5, <1>6 DEF IssueRestart, Turn
  <2>3. Place(w) <= w /\ Place(w) \in Int /\ w \in Nat
    BY <1>1, <1>6, <2>1, FlowIs DEF Place
  <2>4. Completed(w) <= w /\ Completed(w) \in Int
    BY <2>3 DEF Completed
  <2>5. Arrived(c, w) = 0
    BY <2>2, <2>3, <2>4 DEF Arrived
  <2>6. Len(rxf) \in Nat /\ rxf \in Seq(BOOLEAN)
    BY <1>1, LenProperties DEF ControllerTypes
  <2>7. Len(rxf) = 0
    BY <1>1, <1>5, <2>1, <2>5, <2>6
  <2> QED
    BY <2>1, <2>5, <2>6, <2>7, EmptySeq
<1>8. Held(c, w, 0)'
  <2>1. /\ Place(w)' = Place(w) /\ Flow(c, w) = Flow(c, w)' /\ Arrived(c, w)' = Arrived(c, w)
        /\ Bad' = Bad /\ SeenAt(c, Place(w)) = SeenAt(c, Place(w))' /\ Aborted' = Aborted
    BY <1>3 DEF Flow, Queue, Place, MachineAt, Arrived, Completed, SeenAt, Bad, Aborted
  <2>2. CASE Bad
    BY <1>5, <2>1, <2>2 DEF Held, Carrying, Watched, Exact
  <2>3. CASE ~Bad
    <3>1. /\ Flow(c, w)' /\ Arrived(c, w)' = 0 /\ rxf' = <<>> /\ SeenAt(c, Place(w))' /\ ~Bad'
          /\ ~stale'
      BY <1>3, <1>7, <2>1, <2>3
    <3>2. Len(rxf') = 0
      BY <3>1
    <3>3. Carrying(c, w, 0)' /\ Exact(c, w, 0)'
      BY <3>1, <3>2 DEF Carrying, Exact
    <3>4. Watched(c, w)'
      BY <3>1, <3>2 DEF Watched
    <3> QED
      BY <3>3, <3>4 DEF Held
  <2> QED
    BY <2>2, <2>3
<1> QED
  BY <1>1, <1>3, <1>4, <1>5, <1>6, <1>8 DEF Working

\* alt_avalon_i2c_int_clear.
LEMMA ClearWorks ==
  ASSUME Strong, ~Late, Mine, Clear
  PROVE  Working'
<1>1. /\ ControllerTypes /\ DriverTypes /\ CallTypes /\ en /\ Steps /\ Working
      /\ Size \in Nat /\ Size > 0 /\ Moves(call) /\ plan = Plan(call)
  BY MineIs
<1>2. /\ pc \in {"clear", "arm"} /\ pc' = (IF pc = "clear" THEN "write" ELSE "armed")
      /\ det' = {} /\ UNCHANGED <<en, txf, rxf, machine, seen, plan, mishap, call, stage,
                                  status, written, got, stale>>
  BY DEF Clear, registers, transfer
<1>3. /\ UNCHANGED <<Size, Written>>
  BY <1>2 DEF Size, Written, IssueRestart
<1>4. Steps'
  <2>1. CASE pc = "clear"
    <3>1. Shows'
      BY <1>1, <1>2, <2>1 DEF Steps, Shows, Bad
    <3> QED
      BY <1>1, <1>2, <1>3, <2>1, <3>1 DEF Steps
  <2>2. CASE pc = "arm"
    BY <1>1, <1>2, <1>3, <2>2 DEF Steps
  <2> QED
    BY <1>2, <2>1, <2>2
<1>5. \E c, w, k : c = call' /\ w = Written' /\ k = got' /\ Held(c, w, k)'
  <2>1. CASE pc = "clear"
    <3>1. /\ fsm = "PRE_START" /\ txf = <<>> /\ rxf = <<>> /\ ~Bad /\ Written = 0 /\ got = 0
          /\ ~stale
      BY <1>1, <2>1 DEF Steps, Written
    <3>2. PICK c : c = call
      OBVIOUS
    <3>3. Len(txf) = 0 /\ Len(rxf) = 0 /\ Place(0) = 0 /\ Completed(0) = 0
      <4>1. Len(txf) = 0 /\ Len(rxf) = 0 /\ fsm \notin Bytes
        BY <3>1 DEF Bytes
      <4>2. Place(0) = 0
        BY <4>1 DEF Place
      <4> QED
        BY <4>1, <4>2 DEF Completed
    <3>4. /\ Moves(c) /\ Turn(c) \in Nat /\ Total(c) \in Nat /\ Turn(c) >= 1 /\ Total(c) >= 2
      BY <1>1, <3>2, MovesIs
    <3>5. Queue(c, 0)
      BY <3>3, <3>4 DEF Queue
    <3>6. MachineAt(c, 0)
      BY <3>1 DEF MachineAt, Bytes
    <3>7. Flow(c, 0) /\ Arrived(c, 0) = 0
      BY <3>3, <3>4, <3>5, <3>6 DEF Flow, Arrived
    <3>8. Carrying(c, 0, 0) /\ Exact(c, 0, 0)
      BY <3>1, <3>3, <3>7 DEF Carrying, Exact
    <3>9. Watched(c, 0)
      BY <3>1, <3>3 DEF Watched, SeenAt
    <3>10. Held(c, 0, 0)'
      BY <1>2, <3>8, <3>9, NoneCarries DEF Held
    <3> QED
      BY <1>2, <1>3, <3>1, <3>2, <3>10
  <2>2. CASE pc # "clear"
    <3>1. PICK c, w, k : c = call /\ w = Written /\ k = got /\ Held(c, w, k)
      BY <1>1, <2>2 DEF Working
    <3>2. Held(c, w, k)'
      BY <1>2, <3>1, NoneCarries DEF Held
    <3> QED
      BY <1>2, <1>3, <3>1, <3>2
  <2> QED
    BY <2>1, <2>2
<1> QED
  BY <1>1, <1>2, <1>4, <1>5 DEF Working

LEMMA WriteWorks ==
  ASSUME Strong, ~Late, Mine, Write
  PROVE  Working'
<1>1. /\ ControllerTypes /\ DriverTypes /\ CallTypes /\ en /\ Steps /\ Working
      /\ Size \in Nat /\ Size > 0 /\ Moves(call) /\ plan = Plan(call) /\ written \in Nat
  BY MineIs
<1>2. /\ pc = "write" /\ TxReady /\ pc' = "check" /\ written' = written + 1
      /\ WriteCommand(NextCommand)
  BY DEF Write
<1>3. UNCHANGED <<en, det, rxf, cmd, rw, plan, seen, mishap, call, stage, status, got, stale>>
  BY DEF Write, registers
<1>4. written <= Size /\ Shows
  BY <1>1, <1>2 DEF Steps
<1>5. NextCommand = CommandOf(call, Written + 1) /\ Written + 1 <= Total(call)
  BY <1>1, <1>4, NextIs
<1>6. PICK c, w, k : c = call /\ w = Written /\ k = got /\ Held(c, w, k)
  BY <1>1, <1>2 DEF Working
<1>7. Size' = Size /\ Bad' = Bad /\ Shows'
  BY <1>3, <1>4 DEF Size, Bad, Shows
<1>8. w \in Nat /\ Written' = w + 1 /\ w < Total(c) /\ Total(c) \in Nat
  <2>1. Written \in Nat /\ Total(call) \in Nat
    BY <1>1, Numbers, MovesIs
  <2>2. Written' = Written + 1
    BY <1>1, <1>2, <1>3, SizeIs DEF Written, IssueRestart
  <2> QED
    BY <1>5, <1>6, <2>1, <2>2
<1>9. Steps'
  BY <1>1, <1>2, <1>3, <1>4, <1>7 DEF Steps
<1>10. Held(c, w + 1, k)'
  <2>1. CASE Bad
    <3>1. Aborted /\ Flush
      BY <1>4, <1>6, <2>1 DEF Held, Carrying, Shows, Flush
    <3>2. UNCHANGED <<txf, fsm>>
      BY <1>2, <3>1 DEF WriteCommand
    <3>3. Aborted'
      BY <1>3, <3>1, <3>2 DEF Aborted
    <3> QED
      BY <1>7, <2>1, <3>3 DEF Held, Carrying, Watched, Exact
  <2>2. CASE ~Bad
    <3>1. /\ Flow(c, w) /\ k + Len(rxf) <= Arrived(c, w) /\ SeenAt(c, Place(w)) /\ ~stale
          /\ \A i \in 1..Len(rxf) : rxf[i]
          /\ "OVER" \notin mishap => k + Len(rxf) = Arrived(c, w)
      BY <1>6, <2>2 DEF Held, Carrying, Watched, Exact
    <3>2. det = {} /\ WriteCommand(CommandOf(c, w + 1)) /\ UNCHANGED <<cmd, rw, seen>>
      BY <1>2, <1>3, <1>4, <1>5, <1>6, <2>2 DEF Shows
    <3>3. /\ Flow(c, w + 1)' /\ Arrived(c, w + 1)' = Arrived(c, w)
          /\ SeenAt(c, Place(w + 1))'
      BY <1>1, <1>2, <1>8, <3>1, <3>2, WriteFlow
    <3> QED
      BY <1>3, <1>7, <2>2, <3>1, <3>3 DEF Held, Carrying, Watched, Exact
  <2> QED
    BY <2>1, <2>2
<1> QED
  BY <1>1, <1>2, <1>3, <1>6, <1>8, <1>9, <1>10 DEF Working

\* The queue is ready again before the machine rests: a wait for it that is given
\* up is given up while the machine is at work.
LEMMA WriteTimeoutLate ==
  ASSUME Strong, ~Late, Mine, WriteTimeout
  PROVE  Late'
<1>1. ControllerTypes /\ Idle /\ en
  BY MineIs
<1>2. ~TxReady /\ GiveUp
  BY DEF WriteTimeout
<1>3. Busy
  <2>1. SUFFICES ASSUME ~Busy PROVE FALSE
    OBVIOUS
  <2>2. txf = <<>>
    BY <1>1, <2>1 DEF Idle
  <2>3. Len(txf) = 0 /\ txthd \in Nat
    BY <1>1, <2>2, DepthAssumption DEF ControllerTypes
  <2> QED
    BY <1>1, <1>2, <2>3 DEF TxReady
<1> QED
  BY <1>2, <1>3 DEF GiveUp, Late

LEMMA CheckWorks ==
  ASSUME Strong, ~Late, Mine, Check
  PROVE  Working' /\ Mine'
<1>1. /\ ControllerTypes /\ DriverTypes /\ CallTypes /\ en /\ Steps /\ Working /\ Types
      /\ Size \in Nat /\ Size > 0 /\ Moves(call) /\ plan = Plan(call) /\ written \in Nat
      /\ call.irq \in BOOLEAN /\ (call.irq => registered)
  BY MineIs DEF Strong, Always
<1>2. pc = "check"
  BY DEF Check
<1>3. /\ UNCHANGED <<en, txf, rxf, machine, seen, plan, mishap, det, call, stage,
                     registered, written, got, stale>>
      /\ det # {} => pc' = "finish" /\ status' \in {"ARB_LOST_ERR", "NACK_ERR"}
      /\ det = {} => status' = "SUCCESS"
  BY <1>1, CheckIs DEF controller, registers, irqdata
<1>4. det = {} => pc' = IF written > Size
                          THEN IF call.irq THEN IF IssueStop THEN "arm" ELSE "staged"
                               ELSE IF stage = "receive" THEN "read"
                               ELSE IF IssueStop THEN "finish" ELSE "staged"
                        ELSE IF ~call.irq /\ stage = "receive" /\ written \in 2..Size
                               THEN "drain" ELSE "write"
  BY <1>1, CheckIs
<1>5. /\ UNCHANGED <<Size, Written, IssueStop, IssueRestart, Bad, Shows>>
  BY <1>3 DEF Size, Written, IssueStop, IssueRestart, Bad, Shows
<1>6. written \in 1..(Size + 1) /\ Shows /\ (call.irq => got = 0)
  BY <1>1, <1>2 DEF Steps
<1>7. CASE det # {}
  <2>1. Bad' /\ Result' /\ pc' = "finish"
    BY <1>3, <1>5, <1>6, <1>7 DEF Result, Retried, Shows
  <2>2. Steps'
    BY <1>3, <1>5, <1>6, <2>1 DEF Steps
  <2>3. Mine'
    BY <2>1 DEF Mine
  <2>4. PICK c, w, k : c = call /\ w = Written /\ k = got /\ Held(c, w, k)
    BY <1>1, <1>2 DEF Working
  <2>5. Held(c, w, k)'
    BY <1>3, <2>4, NoneCarries DEF Held
  <2> QED
    BY <1>1, <1>3, <1>5, <2>2, <2>3, <2>4, <2>5 DEF Working
<1>8. CASE det = {}
  <2>1. Mine'
    BY <1>1, <1>3, <1>4, <1>5, <1>8 DEF Mine, Retried
  <2>2. Steps'
    <3>1. CASE written > Size
      <4>1. written = Size + 1
        BY <1>1, <1>6, <3>1
      <4>2. pc' = "finish" => Result'
        <5>1. stage = "transmit" \/ stage = "receive"
          BY <1>1 DEF CallTypes
        <5> QED
          BY <1>3, <1>4, <1>5, <1>8, <3>1, <4>1, <5>1 DEF Result, Retried
      <4>3. pc' \in {"arm", "staged", "read", "finish"}
            /\ (pc' = "read" => ~call.irq /\ stage = "receive")
        BY <1>4, <1>8, <3>1
      <4> QED
        BY <1>3, <1>5, <1>6, <4>1, <4>2, <4>3 DEF Steps
    <3>2. CASE ~(written > Size)
      <4>1. pc' \in {"drain", "write"} /\ written <= Size
            /\ (pc' = "drain" => ~call.irq /\ stage = "receive" /\ written \in 2..Size)
        BY <1>1, <1>4, <1>8, <3>2
      <4> QED
        BY <1>3, <1>5, <1>6, <4>1 DEF Steps
    <3> QED
      BY <3>1, <3>2
  <2>4. PICK c, w, k : c = call /\ w = Written /\ k = got /\ Held(c, w, k)
    BY <1>1, <1>2 DEF Working
  <2>5. Held(c, w, k)'
    BY <1>3, <2>4, NoneCarries DEF Held
  <2> QED
    BY <1>1, <1>3, <1>5, <2>1, <2>2, <2>4, <2>5 DEF Working
<1> QED
  BY <1>7, <1>8

LEMMA DrainWorks ==
  ASSUME Strong, ~Late, Mine, Drain
  PROVE  Working'
<1>1. /\ ControllerTypes /\ DriverTypes /\ en /\ Steps /\ Working /\ got \in Nat
      /\ Size \in Nat /\ Size > 0
  BY MineIs
<1>2. /\ pc = "drain" /\ pc' = "write" /\ Take(Len(rxf))
      /\ UNCHANGED <<en, txf, machine, seen, plan, mishap, det, call, stage, status, written>>
  BY DEF Drain, registers
<1>3. /\ UNCHANGED <<Size, Written, Shows>>
  BY <1>2 DEF Size, Written, IssueRestart, Shows, Bad
<1>4. Steps'
  BY <1>1, <1>2, <1>3 DEF Steps
<1>5. PICK c, w, k : c = call /\ w = Written /\ k = got /\ Held(c, w, k)
  BY <1>1, <1>2 DEF Working
<1>6. PICK j : j = Len(rxf)
  OBVIOUS
<1>7. j \in 0..Len(rxf) /\ Take(j) /\ got' = k + j
  <2>1. Len(rxf) \in Nat
    BY <1>1, LenProperties DEF ControllerTypes
  <2> QED
    BY <1>2, <1>5, <1>6, <2>1 DEF Take
<1>8. Held(c, w, k + j)'
  BY <1>1, <1>2, <1>5, <1>7, TakeCarries DEF Held
<1> QED
  BY <1>1, <1>2, <1>3, <1>4, <1>5, <1>7, <1>8 DEF Working

\* A transfer that is over has brought all its bytes, but for those that were lost.
LEMMA Whole ==
  ASSUME ControllerTypes, ~Busy, NEW c, NEW k \in Nat, Carrying(c, Total(c), k), ~Bad
  PROVE  /\ fsm = "PRE_IDLE" /\ Place(Total(c)) = Total(c) /\ Moves(c)
         /\ Len(rxf) \in Nat /\ rxf \in Seq(BOOLEAN)
         /\ Arrived(c, Total(c)) = IF c.op = "tx" THEN 0 ELSE c.m
         /\ k + Len(rxf) <= Arrived(c, Total(c))
         /\ SeenAt(c, Place(Total(c))) /\ plan = Plan(c) => seen = Len(plan)
<1> DEFINE w == Total(c)
<1>1. Flow(c, w) /\ k + Len(rxf) <= Arrived(c, w)
  BY DEF Carrying
<1>2. /\ Moves(c) /\ w \in Nat /\ w >= 2 /\ Turn(c) \in Nat
      /\ c.op \in {"tx", "rx", "tx_rx"} /\ c.n \in Nat /\ c.m \in Nat
      /\ c.op = "tx" => Turn(c) = w + 1
  BY <1>1, FlowIs, MovesIs
<1>3. fsm = "PRE_IDLE"
  BY <1>1 DEF Flow, MachineAt, Busy
<1>4. Place(w) = w
  BY <1>1, <1>3 DEF Flow, MachineAt
<1>5. Completed(w) = w
  BY <1>3, <1>4 DEF Completed, Bytes
<1>6. Arrived(c, w) = IF c.op = "tx" THEN 0 ELSE c.m
  <2>1. c.op # "tx" => w = Turn(c) + c.m
    BY DEF Total
  <2>2. CASE c.op = "tx"
    BY <1>2, <1>5, <2>2 DEF Arrived
  <2>3. CASE c.op # "tx"
    BY <1>2, <1>5, <2>1, <2>3 DEF Arrived
  <2> QED
    BY <2>2, <2>3
<1>7. ASSUME SeenAt(c, Place(w)), plan = Plan(c) PROVE seen = Len(plan)
  <2>1. seen = Symbol(c, w) + 1
    BY <1>3, <1>4, <1>7 DEF SeenAt, Bytes
  <2>2. Len(plan) = Symbol(c, w) + 1
    BY <1>2, <1>7, PlanIs DEF IsPlan
  <2> QED
    BY <2>1, <2>2
<1>8. rxf \in Seq(BOOLEAN) /\ Len(rxf) \in Nat
  BY LenProperties DEF ControllerTypes
<1> QED
  BY <1>1, <1>2, <1>3, <1>4, <1>6, <1>7, <1>8

LEMMA LastWritten ==
  ASSUME CallTypes, DriverTypes, Size > 0, written = Size + 1, IssueStop
  PROVE  /\ Written = Total(call)
         /\ stage = "receive" => call.op # "tx" /\ Size = call.m
         /\ stage = "transmit" => call.op = "tx"
<1>1. Size \in Nat /\ Turn(call) \in Nat
  BY Numbers, MovesIs, SizeIs
<1>2. stage = "transmit" \/ stage = "receive"
  BY DEF CallTypes
<1> QED
  BY <1>1, <1>2, Numbers DEF Size

LEMMA ReadWorks ==
  ASSUME Strong, ~Late, Mine, Read, ~Late'
  PROVE  Working'
<1>1. /\ ControllerTypes /\ DriverTypes /\ CallTypes /\ en /\ Steps /\ Working /\ got \in Nat
      /\ Size \in Nat /\ Size > 0 /\ call.m \in Nat
  BY MineIs
<1>2. /\ pc = "read" /\ UNCHANGED <<en, txf, machine, seen, plan, det, call, stage, written>>
  BY DEF Read, registers
<1>3. /\ UNCHANGED <<Size, Written, IssueStop>>
  BY <1>2 DEF Size, Written, IssueRestart, IssueStop
<1>4. /\ written = Size + 1 /\ ~call.irq /\ stage = "receive" /\ status = "SUCCESS" /\ Shows
      /\ IssueStop /\ Size = call.m
  BY <1>1, <1>2 DEF Steps, IssueStop, Size
<1>5. PICK c, w, k : c = call /\ w = Written /\ k = got /\ Held(c, w, k)
  BY <1>1, <1>2 DEF Working
<1>6. w = Total(c) /\ call.op # "tx"
  BY <1>1, <1>4, <1>5, LastWritten
<1>7. CASE rxf # <<>> /\ Take(1) /\ UNCHANGED <<pc, status, mishap>>
  <2>1. rxf \in Seq(BOOLEAN) /\ Len(rxf) \in Nat /\ Len(rxf) # 0
    BY <1>1, <1>7, EmptySeq, LenProperties DEF ControllerTypes
  <2>2. 1 \in 0..Len(rxf) /\ got' = k + 1
    BY <1>5, <1>7, <2>1 DEF Take
  <2>3. Held(c, w, k + 1)'
    BY <1>1, <1>2, <1>5, <1>7, <2>2, TakeCarries DEF Held
  <2>4. Steps'
    BY <1>1, <1>2, <1>3, <1>4, <1>7 DEF Steps, Shows, Bad
  <2> QED
    BY <1>1, <1>2, <1>3, <1>5, <2>2, <2>3, <2>4 DEF Working
<1>8. CASE got < call.m /\ rxf = <<>> /\ GiveUp /\ status' = "TIMEOUT" /\ pc' = "finish"
           /\ UNCHANGED <<got, stale, rxf>>
  <2>1. ~Busy /\ UNCHANGED mishap
    BY <1>8 DEF GiveUp, Late
  <2>2. Bad \/ "OVER" \in mishap
    <3>1. SUFFICES ASSUME ~Bad, "OVER" \notin mishap PROVE FALSE
      OBVIOUS
    <3>2. k + Len(rxf) = Arrived(c, w) /\ Carrying(c, w, k)
      BY <1>5, <3>1 DEF Held, Exact
    <3>3. Arrived(c, w) = call.m
      BY <1>1, <1>5, <1>6, <2>1, <3>1, <3>2, Whole
    <3>4. Len(rxf) = 0
      BY <1>8
    <3> QED
      BY <1>1, <1>5, <1>8, <3>2, <3>3, <3>4
  <2>3. Result'
    BY <1>2, <1>3, <1>4, <1>8, <2>1, <2>2 DEF Result, Bad, Retried, Busy, machine
  <2>4. Steps'
    BY <1>2, <1>3, <1>4, <1>8, <2>1, <2>3 DEF Steps, Shows, Bad
  <2>5. Held(c, w, k)'
    BY <1>2, <1>5, <1>8, <2>1, NoneCarries DEF Held
  <2> QED
    BY <1>1, <1>2, <1>3, <1>5, <1>8, <2>4, <2>5 DEF Working
<1>9. CASE got >= call.m /\ pc' = "finish" /\ UNCHANGED <<got, stale, rxf, status, mishap>>
  <2>1. ~Bad => got = Size
    <3>1. SUFFICES ASSUME ~Bad PROVE got = Size
      OBVIOUS
    <3>2. Flow(c, w) /\ k + Len(rxf) <= Arrived(c, w)
      BY <1>5, <3>1 DEF Held, Carrying
    <3>3. /\ Len(rxf) \in Nat /\ Place(w) <= w /\ Place(w) \in Nat /\ w = Turn(c) + call.m
          /\ Turn(c) \in Nat
      <4>1. Len(rxf) \in Nat /\ Len(txf) \in Nat
        BY <1>1, LenProperties DEF ControllerTypes
      <4>2. w \in Nat /\ Place(w) \in Nat /\ Turn(c) \in Nat
        BY <1>1, <3>2, FlowIs
      <4>3. w = Turn(c) + call.m
        BY <1>5, <1>6 DEF Total
      <4> QED
        BY <4>1, <4>2, <4>3 DEF Place
    <3>4. Arrived(c, w) <= call.m
      BY <1>1, <3>3 DEF Arrived, Completed
    <3>5. Arrived(c, w) \in Int
      BY <3>3 DEF Arrived, Completed
    <3> QED
      BY <1>1, <1>4, <1>5, <1>9, <3>2, <3>3, <3>4, <3>5
  <2>2. Result'
    BY <1>2, <1>3, <1>4, <1>9, <2>1 DEF Result, Bad, Retried
  <2>3. Steps'
    BY <1>2, <1>3, <1>4, <1>9, <2>2 DEF Steps, Shows, Bad
  <2>4. Held(c, w, k)'
    BY <1>2, <1>5, <1>9, NoneCarries DEF Held
  <2> QED
    BY <1>1, <1>2, <1>3, <1>5, <1>9, <2>3, <2>4 DEF Working
<1> QED
  BY <1>7, <1>8, <1>9 DEF Read

LEMMA FinishWorks ==
  ASSUME Strong, ~Late, Mine, Finish, ~Late'
  PROVE  Working'
<1>1. /\ DriverTypes /\ CallTypes /\ en /\ Steps /\ Working
  BY MineIs
<1>2. /\ pc = "finish" /\ pc' = "end"
      /\ UNCHANGED <<en, txf, rxf, machine, seen, plan, det, call, stage, written, got, stale>>
  BY DEF Finish, registers
<1>3. ~Busy /\ UNCHANGED <<status, mishap>>
  BY DEF Finish, GiveUp, Late
<1>4. /\ UNCHANGED <<Size, Written, IssueStop, Bad, Shows, Busy>>
  BY <1>2, <1>3 DEF Size, Written, IssueRestart, IssueStop, Bad, Shows, Busy, machine
<1>5. Result /\ Shows /\ (call.irq => got = 0)
  BY <1>1, <1>2 DEF Steps
<1>6. Result'
  BY <1>2, <1>3, <1>4, <1>5 DEF Result, Retried
<1>7. Steps'
  BY <1>2, <1>3, <1>4, <1>5, <1>6 DEF Steps
<1>8. PICK c, w, k : c = call /\ w = Written /\ k = got /\ Held(c, w, k)
  BY <1>1, <1>2 DEF Working
<1>9. Held(c, w, k)'
  BY <1>2, <1>3, <1>8, NoneCarries DEF Held
<1> QED
  BY <1>1, <1>2, <1>4, <1>7, <1>8, <1>9 DEF Working

\* Between the two stages of master_tx_rx.
LEMMA StagedWorks ==
  ASSUME Strong, ~Late, Mine, Staged
  PROVE  Working' /\ Mine'
<1>1. /\ DriverTypes /\ CallTypes /\ en /\ Steps /\ Working /\ (call.irq => registered)
      /\ Size > 0 /\ call.n \in Nat
  BY MineIs
<1>2. pc = "staged" /\ ~IssueStop /\ status \notin Retried
  BY DEF Mine, Staged
<1>3. /\ stage' = "receive" /\ pc' = "attempt" /\ written' = 0
      /\ UNCHANGED <<en, txf, rxf, machine, seen, plan, mishap, det, call, registered,
                     status, got, stale>>
  BY <1>2 DEF Staged, controller, registers, irqdata
<1>4. call.op = "tx_rx" /\ stage = "transmit" /\ written = Size + 1
  BY <1>1, <1>2, SizeIs DEF Steps
<1>5. IssueRestart' /\ Written' = Written
  BY <1>1, <1>3, <1>4 DEF IssueRestart, Written, Size
<1>6. Mine'
  BY <1>1, <1>3, <1>5 DEF Mine
<1>7. Steps'
  BY <1>1, <1>2, <1>3 DEF Steps, Shows, Bad
<1>8. PICK c, w, k : c = call /\ w = Written /\ k = got /\ Held(c, w, k)
  BY <1>1, <1>2 DEF Working
<1>9. Held(c, w, k)'
  BY <1>3, <1>8, NoneCarries DEF Held
<1> QED
  BY <1>1, <1>3, <1>5, <1>6, <1>7, <1>8, <1>9 DEF Working

-----------------------------------------------------------------------------
(* An attempt is over. *)

LEMMA EndRests ==
  ASSUME Strong, ~Late, Mine, End
  PROVE  Between' /\ ~Mine'
<1>1. /\ ControllerTypes /\ DriverTypes /\ CallTypes /\ Idle /\ en /\ Steps /\ Working
      /\ got \in Nat /\ irq_busy = 0 /\ Size > 0 /\ plan = Plan(call)
  BY MineIs
<1>2. /\ pc = "end" /\ pc' = "staged" /\ Disable
      /\ status' = IF ~call.irq /\ "NACK" \in det THEN "NACK_ERR" ELSE status
      /\ UNCHANGED <<txf, rxf, seen, plan, mishap, det, irq_busy, call, stage, written, got,
                     stale, registered>>
  BY DEF End, irqdata
<1>3. Result /\ ~Busy /\ Shows
  BY <1>1, <1>2 DEF Steps
<1>4. /\ UNCHANGED <<Size, IssueStop, Bad>>
  BY <1>2 DEF Size, IssueStop, Bad
<1>5. PICK c, w, k : c = call /\ w = Written /\ k = got /\ Held(c, w, k)
  BY <1>1, <1>2 DEF Working
<1>6. ~Mine'
  BY <1>2, <1>3, <1>4 DEF Mine, Result, Retried
<1>7. ASSUME status = "SUCCESS", ~Bad
      PROVE  rxf = <<>> /\ seen = Len(plan) /\ ~stale /\ (stage = "receive" => got = Size)
  <2>1. written = Size + 1 /\ IssueStop /\ (stage = "receive" => got = Size)
    BY <1>3, <1>7 DEF Result
  <2>2. w = Total(c) /\ (stage = "receive" => call.op # "tx" /\ Size = call.m)
        /\ (stage = "transmit" => call.op = "tx")
    BY <1>1, <1>5, <2>1, LastWritten
  <2>3. Carrying(c, Total(c), k) /\ SeenAt(c, Place(Total(c))) /\ ~stale /\ plan = Plan(c)
    BY <1>1, <1>5, <1>7, <2>2 DEF Held, Watched
  <2>4. /\ Len(rxf) \in Nat /\ rxf \in Seq(BOOLEAN) /\ k + Len(rxf) <= Arrived(c, Total(c))
        /\ Arrived(c, Total(c)) = (IF c.op = "tx" THEN 0 ELSE c.m) /\ seen = Len(plan)
    BY <1>1, <1>3, <1>5, <1>7, <2>3, Whole
  <2>5. Len(rxf) = 0
    <3>1. CASE stage = "receive"
      <4>1. k = c.m /\ Arrived(c, Total(c)) = c.m /\ c.m \in Nat
        BY <1>1, <1>5, <2>1, <2>2, <2>4, <3>1, SizeIs
      <4> QED
        BY <2>4, <4>1
    <3>2. CASE stage = "transmit"
      <4>1. Arrived(c, Total(c)) = 0 /\ k \in Nat
        BY <1>1, <1>5, <2>2, <2>4, <3>2
      <4> QED
        BY <2>4, <4>1
    <3> QED
      BY <1>1, <3>1, <3>2 DEF CallTypes
  <2> QED
    BY <2>1, <2>3, <2>4, <2>5, EmptySeq
<1>8. rxf = <<>>
  <2>1. CASE Bad
    BY <1>5, <2>1 DEF Held, Carrying, Aborted
  <2>2. CASE ~Bad
    BY <1>3, <1>7, <2>2 DEF Result
  <2> QED
    BY <2>1, <2>2
<1>9. Quiet'
  <2>1. en' = FALSE
    BY <1>2 DEF Disable
  <2>2. txf = <<>> /\ fsm \in {"IDLE", "PRE_IDLE"}
    BY <1>1, <1>3 DEF Idle, Busy
  <2>3. fsm' = "IDLE"
    BY <1>2, <2>2 DEF Disable
  <2> QED
    BY <1>2, <1>8, <2>1, <2>2, <2>3 DEF Quiet
<1>10. ~Waited'
  BY <1>2, <1>3, <1>4 DEF Waited, Result
<1>11. ASSUME ~call.irq, status' = "SUCCESS" PROVE Carried' \/ "ARB" \in mishap'
  <2>1. status = "SUCCESS" /\ "NACK" \notin mishap
    BY <1>2, <1>3, <1>11 DEF Shows
  <2>2. CASE Bad
    BY <1>2, <2>1, <2>2 DEF Bad
  <2>3. CASE ~Bad
    BY <1>2, <1>4, <1>7, <2>1, <2>3 DEF Carried
  <2> QED
    BY <2>2, <2>3
<1>12. ASSUME ~call.irq, status' = "TIMEOUT" PROVE mishap' \cap {"ARB", "OVER"} # {}
  <2>1. status = "TIMEOUT" /\ "NACK" \notin mishap
    BY <1>2, <1>3, <1>12 DEF Shows
  <2>2. Bad \/ "OVER" \in mishap
    BY <1>3, <2>1 DEF Result
  <2> QED
    BY <1>2, <2>1, <2>2 DEF Bad
<1>13. irq_busy' = 0 /\ pc' = "staged" /\ UNCHANGED call
  BY <1>1, <1>2
<1> QED
  BY <1>6, <1>9, <1>10, <1>11, <1>12, <1>13 DEF Between

\* The handler takes the transfer over.
LEMMA ArmLeaves ==
  ASSUME Strong, ~Late, Mine, Arm
  PROVE  Between' /\ ~Mine'
<1>1. /\ ControllerTypes /\ DriverTypes /\ CallTypes /\ en /\ Steps /\ Working
      /\ got \in Nat /\ isr = "off" /\ Size > 0 /\ plan = Plan(call) /\ call.m \in Nat
      /\ Size \in Nat
  BY MineIs
<1>2. call.irq /\ IssueStop
  BY DEF Arm, Strong, Always, Apart
<1>3. /\ pc = "armed" /\ pc' = "staged"
      /\ UNCHANGED <<en, txf, rxf, machine, seen, plan, mishap, det, call, stage, status,
                     written, got, stale, registered, isr>>
  BY DEF Arm, transfer
<1>4. /\ stage = "transmit" => irq_busy' = 1
      /\ stage # "transmit" => irq_busy' = 2 /\ irq_size' = call.m
  BY DEF Arm
<1>5. written = Size + 1 /\ got = 0
  BY <1>1, <1>2, <1>3 DEF Steps
<1>6. PICK c, w, k : c = call /\ w = Written /\ k = got /\ Held(c, w, k)
  BY <1>1, <1>3 DEF Working
<1>7. /\ w = Total(c) /\ (stage = "receive" => call.op # "tx" /\ Size = call.m)
      /\ (stage = "transmit" => call.op = "tx") /\ (stage \in {"transmit", "receive"})
  BY <1>1, <1>2, <1>5, <1>6, LastWritten DEF CallTypes
<1>8. ~Mine'
  BY <1>2, <1>3 DEF Mine, IssueStop, Retried
<1>9. c \in Calls
  BY <1>1, <1>2, <1>6 DEF CallTypes, Nothing
<1>10. irq_busy' = (IF c.op = "tx" THEN 1 ELSE 2) /\ irq_busy' # 0
  BY <1>4, <1>6, <1>7
<1>11. irq_busy' = 2 => irq_size' = c.m /\ c.m > 0 /\ c.m \in Nat
  BY <1>1, <1>4, <1>6, <1>7
<1>12. 0 = Gone(c)'
  BY <1>11 DEF Gone
<1>13. Held(c, w, k)'
  BY <1>3, <1>6, NoneCarries DEF Held
<1>14. Run(c, 0)'
  <2>1. Carrying(c, Total(c), 0)' /\ Watched(c, Total(c))'
    BY <1>5, <1>6, <1>7, <1>13 DEF Held
  <2>2. irq_busy' = 2 => irq_size' \in 0..c.m /\ (irq_size' = 0 <=> isr' \in {"wait", "disable"})
    BY <1>1, <1>3, <1>11
  <2> QED
    BY <1>1, <1>3, <1>5, <1>6, <1>9, <1>10, <1>12, <2>1, <2>2 DEF Run
<1>15. call'.irq
  BY <1>2, <1>3
<1> QED
  BY <1>3, <1>8, <1>10, <1>14, <1>15 DEF Between

\* An attempt, from one step to the next.
LEMMA MineKept ==
  ASSUME Strong, ~Late, Mine, Next, ~Late'
  PROVE  IF Mine' THEN Working' ELSE Between'
<1>1. irq_busy = 0 /\ isr = "off" /\ iser = {}
  BY MineIs
<1>2. pc \in {"clear", "write", "check", "drain", "read", "finish", "end", "arm", "armed",
             "attempt", "staged"}
  BY DEF Mine
<1>3. ~Call /\ ~StatusCall /\ ~Interrupt /\ ~Isr /\ ~StatusCheck /\ ~StatusWait /\ ~StatusAbort
  BY <1>1, <1>2 DEF Call, StatusCall, AtRest, Rest, Interrupt, Intr, Isr, IsrClear, IsrRead,
                    IsrAgain, IsrWait, IsrDisable, StatusCheck, StatusWait, StatusAbort
<1>4. \/ Attempt \/ Clear \/ Staged \/ Write \/ WriteTimeout \/ Check \/ Drain
      \/ Read \/ Finish \/ End \/ Arm \/ Bus
  BY <1>3 DEF Next, Program
<1>5. CASE Attempt
  <2>1. Working'
    BY <1>5, AttemptWorks
  <2>2. pc' = "write"
    <3>1. IssueRestart /\ (call.irq => registered) /\ Size # 0
      BY <1>5, MineIs, AttemptIs DEF Mine
    <3> QED
      BY <1>5, <3>1 DEF Attempt
  <2> QED
    BY <2>1, <2>2 DEF Mine
<1>6. CASE Clear
  BY <1>6, ClearWorks DEF Mine, Clear
<1>7. CASE Staged
  BY <1>7, StagedWorks
<1>8. CASE Write
  BY <1>8, WriteWorks DEF Mine, Write
<1>9. CASE WriteTimeout
  BY <1>9, WriteTimeoutLate
<1>10. CASE Check
  BY <1>10, CheckWorks
<1>11. CASE Drain
  BY <1>11, DrainWorks DEF Mine, Drain
<1>12. CASE Read
  BY <1>12, ReadWorks DEF Mine, Read
<1>13. CASE Finish
  BY <1>13, FinishWorks DEF Mine, Finish
<1>14. CASE End
  BY <1>14, EndRests
<1>15. CASE Arm
  BY <1>15, ArmLeaves
<1>16. CASE Bus
  <2>1. Mine'
    BY <1>16 DEF Bus, Mine, transfer, irqdata, IssueRestart, IssueStop
  <2> QED
    BY <1>16, <2>1, BusWorks
<1> QED
  BY <1>4, <1>5, <1>6, <1>7, <1>8, <1>9, <1>10, <1>11, <1>12, <1>13, <1>14, <1>15, <1>16

-----------------------------------------------------------------------------
(* Between transfers, and while the handler ends one. *)

LEMMA BetweenIs ==
  ASSUME Strong, ~Late, ~Mine
  PROVE  /\ ControllerTypes /\ CallTypes /\ DriverTypes /\ SizeType /\ Idle
         /\ irq_busy # 0 => en /\ registered
         /\ isr # "off" => irq_busy # 0 /\ pc \notin {"status", "abort", "aborted"}
         /\ Asked /\ Between /\ (Waited => plan = Plan(call)) /\ Size \in Nat
         /\ call.irq \in BOOLEAN
<1>1. Types /\ Idle /\ Left /\ Between /\ Planned /\ Asked
  BY DEF Strong, Always, Timely
<1>2. ControllerTypes /\ CallTypes /\ DriverTypes /\ SizeType
  BY <1>1 DEF Types
<1>3. Size \in Nat /\ call.irq \in BOOLEAN
  BY <1>2, SizeIs
<1>4. Waited => call # Nothing
  BY DEF Nothing, Waited
<1> QED
  BY <1>1, <1>2, <1>3, <1>4 DEF Left, Planned

\* Steps that leave the transfer of the handler alone.
LEMMA RunKept ==
  ASSUME UNCHANGED <<txf, rxf, machine, mishap, irq_busy, irq_size>>,
         NEW c, NEW k, Run(c, k),
         irq_busy = 2 => (isr' \in {"wait", "disable"} <=> isr \in {"wait", "disable"}),
         isr' = "disable" => ~Busy,
         Waited' => Waited /\ UNCHANGED <<call, got, seen, stale>>
  PROVE  Run(c, k)'
<1>1. UNCHANGED <<Bad, Busy, Place(Total(c)), Flow(c, Total(c)), Arrived(c, Total(c)), Aborted,
                  Gone(c)>>
  BY DEF Flow, Queue, Place, MachineAt, Arrived, Completed, Bad, machine, Aborted, Busy, Gone
<1>2. Carrying(c, Total(c), k) = Carrying(c, Total(c), k)'
  BY <1>1 DEF Carrying
<1>3. Waited' => c = call' /\ k = got' /\ Watched(c, Total(c))'
  <2>1. SUFFICES ASSUME Waited' PROVE c = call' /\ k = got' /\ Watched(c, Total(c))'
    OBVIOUS
  <2>2. UNCHANGED <<call, got, seen, stale>> /\ c = call /\ k = got /\ Watched(c, Total(c))
    BY <2>1 DEF Run
  <2>3. UNCHANGED SeenAt(c, Place(Total(c)))
    BY <1>1, <2>2 DEF SeenAt, machine
  <2> QED
    BY <1>1, <2>2, <2>3 DEF Watched
<1> QED
  BY <1>1, <1>2, <1>3 DEF Run

LEMMA CallRests ==
  ASSUME Strong, Call, ~Late'
  PROVE  Between' /\ ~Mine'
<1>1. /\ pc \in {"done", "told"} /\ isr = "off" /\ pc' = "attempt"
      /\ mishap' = (IF Clean THEN mishap \ {"LATE"} ELSE mishap)
      /\ UNCHANGED <<en, txf, rxf, machine, irq_busy, irq_size, isr>>
  BY DEF Call, AtRest, Rest, registers, irqdata
<1>2. PICK c \in Calls : call' = c /\ stage' = FirstStage(c)
  BY DEF Call
<1>3. ~Mine' /\ ~Waited'
  <2>1. ~IssueRestart'
    BY <1>2 DEF IssueRestart, FirstStage
  <2> QED
    BY <1>1, <2>1 DEF Mine, Waited
<1>4. ~Mine
  BY <1>1 DEF Mine
<1>5. CASE Late
  <2>1. Clean
    BY <1>1, <1>5 DEF Late
  <2>2. ~en /\ irq_busy = 0
    BY <2>1 DEF Strong, Always, Idle, Left, Clean
  <2>3. Quiet' /\ irq_busy' = 0
    BY <1>1, <2>1, <2>2 DEF Quiet, Clean, machine
  <2> QED
    BY <1>1, <1>3, <2>3 DEF Between
<1>6. CASE ~Late
  <2>1. Between
    BY <1>4, <1>6, BetweenIs
  <2>2. UNCHANGED mishap
    BY <1>1, <1>6 DEF Late
  <2>3. irq_busy = 0 => Quiet'
    BY <1>1, <2>1 DEF Between, Quiet, machine
  <2>4. ASSUME irq_busy # 0 PROVE \E d, k : Run(d, k)'
    <3>1. PICK d, k : Run(d, k)
      BY <2>1, <2>4 DEF Between
    <3> QED
      BY <1>1, <1>3, <2>2, <3>1, RunKept
  <2> QED
    BY <1>1, <1>3, <2>3, <2>4 DEF Between
<1> QED
  BY <1>5, <1>6

LEMMA StatusCallRests ==
  ASSUME Strong, ~Late, StatusCall
  PROVE  Between' /\ ~Mine'
<1>1. /\ pc \in {"done", "told"} /\ isr = "off" /\ pc' = "status" /\ call.irq /\ registered
      /\ UNCHANGED <<en, det, txf, rxf, machine, irq_busy, irq_size, isr, call, stage, status,
                     registered, plan, seen, stale, got, mishap>>
  BY DEF StatusCall, AtRest, Rest, irqdata, transfer
<1>2. (pc = "done" /\ status = "SUCCESS" /\ Size > 0) \/ (pc = "told" /\ status = "BUSY")
  BY DEF StatusCall
<1>3. ~Mine /\ ~Mine'
  BY <1>1 DEF Mine
<1>4. Between /\ Asked
  BY <1>3, BetweenIs
<1>5. Waited
  BY <1>1, <1>2, <1>4 DEF Asked, Waited, Retried
<1>6. irq_busy = 0 => Quiet'
  BY <1>1, <1>4 DEF Between, Quiet, machine
<1>7. ASSUME irq_busy # 0 PROVE \E c, k : Run(c, k)'
  <2>1. PICK c, k : Run(c, k)
    BY <1>4, <1>7 DEF Between
  <2>2. Run(c, k)'
    BY <1>1, <1>5, <2>1, RunKept DEF Run
  <2> QED
    BY <2>2
<1>8. irq_busy = 0 /\ ~Bad => Carried'
  BY <1>1, <1>4, <1>5 DEF Between, Carried, Size
<1> QED
  BY <1>1, <1>3, <1>6, <1>7, <1>8 DEF Between, Bad

\* A transfer begins, or cannot.
LEMMA AttemptBegins ==
  ASSUME Strong, ~Late, ~Mine, Attempt
  PROVE  IF Mine' THEN Working' ELSE Between'
<1>1. /\ ControllerTypes /\ CallTypes /\ DriverTypes /\ Between /\ Size \in Nat
      /\ irq_busy # 0 => en
  BY BetweenIs
<1>2. /\ pc = "attempt" /\ written' = 0 /\ got' = 0 /\ stale' = FALSE
      /\ UNCHANGED <<iser, det, txf, cmd, rw, plan, seen, registered, irq_size, isr, call, stage>>
  BY AttemptIs
<1>3. UNCHANGED <<Size, IssueStop, IssueRestart>>
  BY <1>2 DEF Size, IssueStop, IssueRestart
<1>4. CASE Leave("SUCCESS") \/ Leave("BAD_ARG") \/ Leave("BUSY")
  <2>1. /\ pc' = "staged" /\ UNCHANGED <<en, fsm, rxf, mishap, irq_busy>>
        /\ \/ Size = 0 /\ status' = "SUCCESS"
           \/ call.irq /\ ~registered /\ status' = "BAD_ARG"
           \/ status' = "BUSY"
    BY <1>4 DEF Attempt, Leave
  <2>2. ~Waited'
    BY <1>2, <1>3, <2>1 DEF Waited
  <2>3. ~Mine'
    <3>1. ~IssueStop => Size > 0
      BY <1>1, SizeIs
    <3> QED
      BY <1>2, <1>3, <2>1, <3>1 DEF Mine, Retried
  <2>4. irq_busy = 0 => Quiet'
    BY <1>1, <1>2, <2>1 DEF Between, Quiet
  <2>5. ASSUME irq_busy # 0 PROVE \E c, k : Run(c, k)'
    <3>1. PICK c, k : Run(c, k)
      BY <1>1, <2>5 DEF Between
    <3>2. isr' = "disable" => ~Busy
      BY <1>2, <3>1 DEF Run
    <3>3. UNCHANGED <<txf, rxf, machine, mishap, irq_busy, irq_size, isr>>
      BY <1>2, <2>1 DEF machine
    <3> QED
      BY <2>2, <3>1, <3>2, <3>3, RunKept
  <2>6. ~call.irq => ~(status' = "SUCCESS" /\ Size > 0) /\ status' # "TIMEOUT"
    BY <2>1
  <2> QED
    BY <1>2, <1>3, <2>1, <2>2, <2>3, <2>4, <2>5, <2>6 DEF Between
<1>5. CASE ~(Leave("SUCCESS") \/ Leave("BAD_ARG") \/ Leave("BUSY"))
  <2>1. Size > 0 /\ (call.irq => registered)
    BY <1>5 DEF Attempt
  <2>2. ~IssueRestart
    BY <1>2, <2>1 DEF Mine
  <2>3. ~en /\ Enable /\ pc' = "clear"
    BY <1>5, <2>2 DEF Attempt
  <2>4. Quiet
    BY <1>1, <2>3 DEF Between
  <2>5. /\ en' = TRUE /\ fsm' = "PRE_START" /\ txf' = <<>> /\ rxf' = <<>>
        /\ mishap' = mishap \cap {"LATE"}
    <3>1. rxf' = [i \in DOMAIN rxf |-> FALSE] /\ rxf = <<>>
      BY <2>3, <2>4 DEF Enable, Quiet
    <3>2. rxf' = <<>>
      BY <3>1, SMT
    <3> QED
      BY <1>2, <2>3, <2>4, <3>2 DEF Enable, Quiet
  <2>6. Mine' /\ ~Bad'
    BY <2>3, <2>5 DEF Mine, Bad
  <2>7. Steps'
    BY <1>2, <1>3, <2>2, <2>3, <2>5, <2>6 DEF Steps
  <2> QED
    BY <2>3, <2>5, <2>6, <2>7 DEF Working
<1> QED
  BY <1>4, <1>5

LEMMA StagedRests ==
  ASSUME Strong, ~Late, ~Mine, Staged
  PROVE  Between' /\ ~Mine'
<1>1. /\ CallTypes /\ Between
  BY BetweenIs
<1>2. /\ pc = "staged"
      /\ UNCHANGED <<en, det, txf, rxf, machine, irq_busy, irq_size, isr, call, status,
                     registered, plan, seen, stale, got, mishap>>
  BY DEF Staged, controller, registers, irqdata
<1>3. irq_busy = 0 => Quiet'
  BY <1>1, <1>2 DEF Between, Quiet, machine
<1>4. \/ pc' = "attempt" /\ (~IssueRestart' \/ ~(call.irq => registered))
      \/ pc' = "done" /\ UNCHANGED stage
  <2>1. CASE status \in Retried /\ retry > 0
    BY <1>2, <2>1 DEF Staged, IssueRestart, FirstStage
  <2>2. CASE ~(status \in Retried /\ retry > 0) /\ pc' = "done"
    BY <2>2 DEF Staged
  <2>3. CASE ~(status \in Retried /\ retry > 0) /\ pc' # "done"
    <3>1. status \notin Retried /\ ~IssueStop /\ pc' = "attempt"
      BY <2>3 DEF Staged
    <3> QED
      BY <1>2, <3>1 DEF Mine
  <2> QED
    BY <2>1, <2>2, <2>3
<1>5. CASE pc' = "attempt" /\ (~IssueRestart' \/ ~(call.irq => registered))
  <2>1. ~Mine' /\ ~Waited'
    BY <1>2, <1>5 DEF Mine, Waited
  <2>2. ASSUME irq_busy # 0 PROVE \E c, k : Run(c, k)'
    <3>1. PICK c, k : Run(c, k)
      BY <1>1, <2>2 DEF Between
    <3> QED
      BY <1>2, <2>1, <3>1, RunKept DEF Run
  <2> QED
    BY <1>2, <1>3, <1>5, <2>1, <2>2 DEF Between
<1>6. CASE pc' = "done" /\ UNCHANGED stage
  <2>1. UNCHANGED <<Size, IssueStop, Bad, Carried>>
    BY <1>2, <1>6 DEF Size, IssueStop, Bad, Carried
  <2>2. ~Mine' /\ (Waited' => Waited)
    BY <1>2, <1>6, <2>1 DEF Mine, Waited
  <2>3. ASSUME irq_busy # 0 PROVE \E c, k : Run(c, k)'
    <3>1. PICK c, k : Run(c, k)
      BY <1>1, <2>3 DEF Between
    <3> QED
      BY <1>2, <2>2, <3>1, RunKept DEF Run
  <2> QED
    BY <1>1, <1>2, <1>3, <1>6, <2>1, <2>2, <2>3 DEF Between
<1> QED
  BY <1>4, <1>5, <1>6

LEMMA StatusRests ==
  ASSUME Strong, ~Late, ~Late', StatusCheck \/ StatusWait
  PROVE  Between' /\ ~Mine'
<1>1. /\ pc \in {"status", "abort"} /\ pc' \in {"told", "abort", "aborted"}
      /\ (pc' = "aborted" <=> pc = "abort")
  BY DEF StatusCheck, StatusWait
<1>2. UNCHANGED <<en, det, txf, rxf, machine, irq_busy, irq_size, isr, call, stage,
                  registered, plan, seen, stale, got>>
  BY DEF StatusCheck, StatusWait, registers, irqdata
<1>3. UNCHANGED mishap /\ (pc = "abort" => ~Busy)
  <2>1. CASE StatusCheck
    BY <2>1 DEF StatusCheck
  <2>2. CASE StatusWait
    BY <2>2 DEF StatusWait, GiveUp, Late
  <2> QED
    BY <2>1, <2>2
<1>4. ~Mine /\ ~Mine'
  BY <1>1 DEF Mine
<1>5. Between /\ Asked
  BY <1>4, BetweenIs
<1>6. Waited' => Waited
  BY <1>1, <1>2, <1>5 DEF Waited, Asked, Size, IssueStop
<1>7. irq_busy = 0 => Quiet'
  BY <1>2, <1>5 DEF Between, Quiet, machine
<1>8. ASSUME irq_busy # 0 PROVE \E c, k : Run(c, k)'
  <2>1. PICK c, k : Run(c, k)
    BY <1>5, <1>8 DEF Between
  <2> QED
    BY <1>2, <1>3, <1>6, <2>1, RunKept DEF Run
<1>9. UNCHANGED <<Carried, Bad, Busy>>
  BY <1>2, <1>3 DEF Carried, Bad, Busy, Size, machine
<1> QED
  BY <1>1, <1>2, <1>3, <1>4, <1>5, <1>6, <1>7, <1>8, <1>9 DEF Between

\* The handler's transfer is given up.
LEMMA AbortRests ==
  ASSUME Strong, ~Late, StatusAbort
  PROVE  Between' /\ ~Mine'
<1>1. /\ pc = "aborted" /\ pc' = "told" /\ irq_busy' = 0 /\ Take(Len(rxf)) /\ Disable
      /\ UNCHANGED <<txf, status>>
  BY DEF StatusAbort
<1>2. ~Mine /\ ~Mine'
  BY <1>1 DEF Mine
<1>3. Between /\ Asked /\ Idle /\ ControllerTypes
  BY <1>2, BetweenIs
<1>4. ~Busy /\ txf = <<>>
  BY <1>1, <1>3 DEF Between, Idle
<1>5. rxf' = <<>>
  <2>1. rxf \in Seq(BOOLEAN) /\ Len(rxf) \in Nat /\ rxf' = SubSeq(rxf, Len(rxf) + 1, Len(rxf))
    BY <1>1, <1>3, LenProperties DEF ControllerTypes, Take
  <2>2. PICK k : k = Len(rxf)
    OBVIOUS
  <2>3. k \in 0..Len(rxf) /\ rxf' = SubSeq(rxf, k + 1, Len(rxf))
    BY <2>1, <2>2
  <2> QED
    BY <2>1, <2>2, <2>3, Taken
<1>6. en' = FALSE /\ fsm' = "IDLE"
  BY <1>1, <1>4 DEF Disable, Busy
<1>7. Quiet'
  BY <1>1, <1>4, <1>5, <1>6 DEF Quiet
<1>8. ~Waited'
  BY <1>1, <1>3 DEF Waited, Asked
<1> QED
  BY <1>1, <1>2, <1>7, <1>8 DEF Between

\* The handler's transfer goes on.
LEMMA BusRuns ==
  ASSUME Strong, ~Late, ~Mine, Bus
  PROVE  Between' /\ ~Mine'
<1>1. /\ ControllerTypes /\ Idle /\ Between /\ (irq_busy # 0 => en)
      /\ (Waited => plan = Plan(call))
  BY BetweenIs
<1>2. /\ Controller
      /\ UNCHANGED <<registered, irq_busy, irq_size, isr, call, pc, stage, status, written, got,
                     stale>>
  BY DEF Bus, irqdata, transfer
<1>3. Busy /\ UNCHANGED <<en, plan>>
  BY <1>2, BusIs DEF registers
<1>4. irq_busy # 0
  BY <1>1, <1>3 DEF Between, Quiet, Busy
<1>5. ~Mine' /\ Waited' = Waited
  BY <1>2 DEF Mine, Waited, IssueRestart, IssueStop, Size
<1>6. PICK c, k : Run(c, k)
  BY <1>1, <1>4 DEF Between
<1>7. Run(c, k)'
  <2>1. k \in Nat /\ k = Gone(c)'
    <3>1. c.m \in Nat /\ k = Gone(c)
      BY <1>6, CallsAssumption DEF Run
    <3>2. irq_busy = 2 => irq_size \in 0..c.m
      BY <1>6 DEF Run
    <3> QED
      BY <1>2, <3>1, <3>2 DEF Gone
  <2>2. Carrying(c, Total(c), k)' /\ (Watched(c, Total(c)) /\ plan = Plan(c) => Watched(c, Total(c))')
    BY <1>1, <1>2, <1>4, <1>6, <2>1, BusCarries DEF Run
  <2>3. Waited' => c = call' /\ k = got' /\ Watched(c, Total(c))'
    BY <1>1, <1>2, <1>5, <1>6, <2>2 DEF Run
  <2>4. isr' # "disable"
    BY <1>2, <1>3, <1>6 DEF Run
  <2> QED
    BY <1>2, <1>6, <2>1, <2>2, <2>3, <2>4 DEF Run
<1>8. pc # "aborted"
  BY <1>1, <1>3 DEF Between
<1>9. ASSUME pc \in {"staged", "done"}, ~call.irq
      PROVE  /\ ~(status = "SUCCESS" /\ Size' > 0)
             /\ status = "TIMEOUT" => mishap' \cap {"ARB", "OVER"} # {}
  <2>1. Size' = Size
    BY <1>2 DEF Size
  <2>2. status = "TIMEOUT" => mishap \cap {"ARB", "OVER"} # {}
    BY <1>1, <1>9 DEF Between
  <2>3. \A x \in {"ARB", "OVER"} : x \in mishap => x \in mishap'
    BY <1>2, BadKept
  <2> QED
    BY <1>1, <1>4, <1>9, <2>1, <2>2, <2>3 DEF Between
<1> QED
  BY <1>2, <1>4, <1>5, <1>7, <1>8, <1>9 DEF Between

\* alt_avalon_i2c_irq and the callback, up to the wait for the end.
LEMMA IsrRuns ==
  ASSUME Strong, ~Late, ~Late', ~Mine, Interrupt \/ IsrClear \/ IsrAgain \/ IsrWait
  PROVE  Between' /\ ~Mine'
<1>1. /\ Between /\ (isr # "off" => irq_busy # 0) /\ (irq_busy # 0 => registered)
  BY BetweenIs
<1>2. UNCHANGED <<en, txf, rxf, machine, registered, irq_busy, irq_size, call, pc, stage,
                  status, written, got, stale, plan, seen>>
  BY DEF Interrupt, IsrClear, IsrAgain, IsrWait, registers, irqdata, transfer
<1>3. UNCHANGED mishap
  BY DEF Interrupt, IsrClear, IsrAgain, IsrWait, GiveUp, Late
<1>4. irq_busy # 0
  <2>1. Interrupt => irq_busy # 0
    BY DEF Strong, Always, Left, Interrupt, Intr
  <2>2. ~Interrupt => isr # "off"
    BY DEF IsrClear, IsrAgain, IsrWait
  <2> QED
    BY <1>1, <2>1, <2>2
<1>5. /\ isr' \in {"wait", "disable"} <=> isr \in {"wait", "disable"}
      /\ isr' = "disable" => ~Busy
  BY <1>1, <1>4 DEF Interrupt, IsrClear, IsrAgain, IsrWait, GiveUp, Late
<1>6. UNCHANGED <<Size, IssueStop, IssueRestart, Busy, Bad>>
  BY <1>2, <1>3 DEF Size, IssueStop, IssueRestart, Busy, Bad, machine
<1>7. ~Mine' /\ Waited' = Waited
  BY <1>2, <1>6 DEF Mine, Waited
<1>8. PICK c, k : Run(c, k)
  BY <1>1, <1>4 DEF Between
<1>9. Run(c, k)'
  BY <1>2, <1>3, <1>5, <1>7, <1>8, RunKept
<1> QED
  BY <1>1, <1>2, <1>3, <1>4, <1>6, <1>7, <1>9 DEF Between

LEMMA IsrReads ==
  ASSUME Strong, ~Late, ~Mine, IsrRead
  PROVE  Between' /\ ~Mine'
<1>1. /\ ControllerTypes /\ DriverTypes /\ SizeType /\ Between /\ irq_busy # 0
  BY BetweenIs DEF IsrRead
<1>2. /\ isr = "callback" /\ isr' \in {"again", "wait"}
      /\ UNCHANGED <<en, txf, machine, registered, irq_busy, call, pc, stage,
                     status, written, plan, seen, mishap>>
  BY DEF IsrRead, registers
<1>3. UNCHANGED <<Size, IssueStop, IssueRestart, Busy, Bad>>
  BY <1>2 DEF Size, IssueStop, IssueRestart, Busy, Bad, machine
<1>4. ~Mine' /\ Waited' = Waited
  BY <1>2, <1>3 DEF Mine, Waited
<1>5. PICK c, k : Run(c, k)
  BY <1>1 DEF Between
<1>6. \E j : Run(c, j)'
  <2>1. CASE irq_busy = 2
    <3>1. PICK j : j = ReadCount
      OBVIOUS
    <3>2. /\ j \in 0..Len(rxf) /\ j <= irq_size /\ Take(j) /\ irq_size' = irq_size - j
          /\ isr' = IF irq_size' > 0 THEN "again" ELSE "wait"
      BY <1>1, <2>1, <3>1, ReadCountIs
    <3>3. c.m \in Nat /\ irq_size \in 0..c.m /\ k = c.m - irq_size
      BY <1>5, <2>1, CallsAssumption DEF Run, Gone
    <3>4. Len(rxf) \in Nat
      BY <1>1, LenProperties DEF ControllerTypes
    <3>5. /\ k \in Nat /\ k + j = c.m - irq_size' /\ irq_size' \in 0..c.m
          /\ irq_size' = 0 <=> isr' \in {"wait", "disable"}
      BY <3>2, <3>3, <3>4
    <3>6. Carrying(c, Total(c), k + j)' /\ (Watched(c, Total(c)) => Watched(c, Total(c))')
      BY <1>1, <1>2, <1>5, <3>2, <3>5, TakeCarries DEF Run
    <3>7. Waited' => c = call' /\ k + j = got' /\ Watched(c, Total(c))'
      <4>1. got' = got + j
        BY <3>2 DEF Take
      <4> QED
        BY <1>2, <1>4, <1>5, <3>6, <4>1 DEF Run
    <3>8. k + j = Gone(c)'
      BY <1>2, <2>1, <3>5 DEF Gone
    <3>9. Run(c, k + j)'
      BY <1>2, <1>5, <2>1, <3>5, <3>6, <3>7, <3>8 DEF Run
    <3> QED
      BY <3>9
  <2>2. CASE irq_busy # 2
    <3>1. UNCHANGED <<got, stale, rxf, irq_size>>
      BY <2>2 DEF IsrRead
    <3>2. Run(c, k)'
      BY <1>2, <1>4, <1>5, <2>2, <3>1, RunKept
    <3> QED
      BY <3>2
  <2> QED
    BY <2>1, <2>2
<1> QED
  BY <1>1, <1>2, <1>3, <1>4, <1>6 DEF Between

\* The handler is done: the controller rests.
LEMMA IsrEnds ==
  ASSUME Strong, ~Late, ~Mine, IsrDisable
  PROVE  Between' /\ ~Mine'
<1>1. /\ ControllerTypes /\ DriverTypes /\ CallTypes /\ Idle /\ Between /\ irq_busy # 0
      /\ pc \notin {"status", "abort", "aborted"} /\ (Waited => plan = Plan(call))
  BY BetweenIs DEF IsrDisable
<1>2. /\ isr = "disable" /\ irq_busy' = 0 /\ Disable
      /\ UNCHANGED <<txf, rxf, registered, call, pc, stage, status, written, got, stale, plan,
                     seen, mishap>>
  BY DEF IsrDisable, transfer
<1>3. UNCHANGED <<Size, IssueStop, IssueRestart, Bad>>
  BY <1>2 DEF Size, IssueStop, IssueRestart, Bad
<1>4. ~Mine' /\ Waited' = Waited
  BY <1>2, <1>3 DEF Mine, Waited
<1>5. PICK c, k : Run(c, k)
  BY <1>1 DEF Between
<1>6. ~Busy /\ Carrying(c, Total(c), k) /\ k = Gone(c) /\ c.m \in Nat
      /\ irq_busy = (IF c.op = "tx" THEN 1 ELSE 2) /\ (irq_busy = 2 => irq_size = 0)
  BY <1>2, <1>5, CallsAssumption DEF Run
<1>7. k = (IF c.op = "tx" THEN 0 ELSE c.m) /\ k \in Nat
  BY <1>6 DEF Gone
<1>8. ASSUME ~Bad
      PROVE  rxf = <<>> /\ (SeenAt(c, Place(Total(c))) /\ plan = Plan(c) => seen = Len(plan))
  <2>1. /\ Len(rxf) \in Nat /\ rxf \in Seq(BOOLEAN) /\ k + Len(rxf) <= Arrived(c, Total(c))
        /\ Arrived(c, Total(c)) = IF c.op = "tx" THEN 0 ELSE c.m
        /\ SeenAt(c, Place(Total(c))) /\ plan = Plan(c) => seen = Len(plan)
    BY <1>1, <1>6, <1>7, <1>8, Whole
  <2>2. Len(rxf) = 0
    BY <1>6, <1>7, <2>1
  <2> QED
    BY <2>1, <2>2, EmptySeq
<1>9. Quiet'
  <2>1. rxf = <<>>
    BY <1>6, <1>8 DEF Carrying, Aborted
  <2>2. txf = <<>> /\ fsm \in {"IDLE", "PRE_IDLE"}
    BY <1>1, <1>6 DEF Idle, Busy
  <2>3. en' = FALSE /\ fsm' = "IDLE"
    BY <1>2, <2>2 DEF Disable
  <2> QED
    BY <1>2, <2>1, <2>2, <2>3 DEF Quiet
<1>10. ASSUME Waited', ~Bad' PROVE Carried'
  <2>1. Waited /\ ~Bad
    BY <1>3, <1>4, <1>10
  <2>2. c = call /\ k = got /\ SeenAt(c, Place(Total(c))) /\ ~stale /\ plan = Plan(c)
    BY <1>1, <1>5, <2>1 DEF Run, Watched
  <2>3. seen = Len(plan)
    BY <1>8, <2>1, <2>2
  <2>4. stage = "receive" => got = Size
    <3>1. stage = "receive" => call.op # "tx" /\ Size = call.m
      BY <1>1 DEF CallTypes, Size
    <3> QED
      BY <1>7, <2>2, <3>1
  <2> QED
    BY <1>2, <1>3, <2>2, <2>3, <2>4 DEF Carried
<1>11. ASSUME pc \in {"staged", "done"}, ~call.irq
       PROVE  /\ ~(status = "SUCCESS" /\ Size > 0)
              /\ status = "TIMEOUT" => mishap \cap {"ARB", "OVER"} # {}
  BY <1>1, <1>11 DEF Between
<1> QED
  BY <1>1, <1>2, <1>3, <1>4, <1>9, <1>10, <1>11 DEF Between

LEMMA BetweenKept ==
  ASSUME Strong, ~Late, ~Mine, Next, ~Late'
  PROVE  IF Mine' THEN Working' ELSE Between'
<1>1. pc \notin {"clear", "write", "check", "drain", "read", "finish", "end", "arm", "armed"}
  BY DEF Mine
<1>2. \/ Call \/ StatusCall \/ Attempt \/ Staged \/ StatusCheck \/ StatusWait \/ StatusAbort
      \/ Interrupt \/ IsrClear \/ IsrRead \/ IsrAgain \/ IsrWait \/ IsrDisable \/ Bus
  BY <1>1 DEF Next, Program, Isr, Clear, Write, WriteTimeout, Check, Drain, Read, Finish, End,
              Arm
<1> QED
  BY <1>2, CallRests, StatusCallRests, AttemptBegins, StagedRests, StatusRests, AbortRests,
     IsrRuns, IsrReads, IsrEnds, BusRuns

\* A wait that was given up is forgotten only by a call that finds the controller clean.
LEMMA LateKept ==
  ASSUME Next, ~Call, Late
  PROVE  Late'
<1>1. CASE Attempt
  <2>1. UNCHANGED mishap \/ mishap' = mishap \cap {"LATE"}
    BY <1>1 DEF Attempt, Enable
  <2> QED
    BY <2>1 DEF Late
<1>2. CASE Bus
  <2>1. UNCHANGED mishap \/ \E x : mishap' = mishap \cup {x}
    BY <1>2, BusIs DEF Bus
  <2> QED
    BY <2>1 DEF Late
<1>3. CASE StatusCall \/ Interrupt \/ Isr
  BY <1>3 DEF StatusCall, Interrupt, Isr, IsrClear, IsrRead, IsrAgain, IsrWait, IsrDisable,
              GiveUp, Late
<1>4. CASE Program /\ ~Attempt
  <2>1. UNCHANGED mishap \/ GiveUp
    BY <1>4 DEF Program, Clear, Staged, Write, WriteTimeout, Check, Drain, Read, Finish, End,
                Arm, StatusCheck, StatusWait, StatusAbort, controller
  <2> QED
    BY <2>1 DEF GiveUp, Late
<1> QED
  BY <1>1, <1>2, <1>3, <1>4 DEF Next

LEMMA TimelyKept ==
  ASSUME Strong, Next
  PROVE  Timely'
<1>1. SUFFICES ASSUME ~Late' PROVE IF Mine' THEN Working' ELSE Between'
  BY DEF Timely
<1>2. CASE Call
  BY <1>1, <1>2, CallRests
<1>3. CASE ~Call
  <2>1. ~Late
    BY <1>1, <1>3, LateKept
  <2> QED
    BY <1>1, <2>1, MineKept, BetweenKept
<1> QED
  BY <1>2, <1>3

LEMMA StutterKeeps ==
  ASSUME Strong, UNCHANGED vars
  PROVE  Strong'
<1>1. UNCHANGED <<en, det, txf, rxf, fsm, cmd, rw, plan, seen, mishap, registered, irq_busy,
                  irq_size, isr, call, pc, stage, status, written, got, stale>>
  BY DEF vars, controller, registers, machine, irqdata, transfer
<1>2. UNCHANGED <<Types, Idle, Flagged, Left, Apart, Asked, Planned>>
  BY DEF vars, controller, registers, machine, irqdata, transfer, Types, ControllerTypes,
         CallTypes, DriverTypes, SizeType, Idle, Flagged, Left, Apart, Asked, Planned, Mine,
         Size, IssueStop, IssueRestart, Busy
<1>3. UNCHANGED <<Mine, Late, Bad, Busy, Shows, Size, Written, IssueStop, IssueRestart, Waited,
                  Quiet, Carried>>
  BY <1>1 DEF Mine, Late, Bad, Busy, Shows, Size, Written, IssueStop, IssueRestart, Waited,
              Quiet, Carried
<1>4. ASSUME Working PROVE Working'
  <2>1. Steps' = Steps
    BY <1>1, <1>3 DEF Steps, Result
  <2>2. ASSUME pc # "clear"
        PROVE  \E c, w, k : c = call' /\ w = Written' /\ k = got' /\ Held(c, w, k)'
    <3>1. PICK c, w, k : c = call /\ w = Written /\ k = got /\ Held(c, w, k)
      BY <1>4, <2>2 DEF Working
    <3>2. Held(c, w, k)'
      BY <1>1, <3>1, NoneCarries DEF Held, machine
    <3> QED
      BY <1>1, <1>3, <3>1, <3>2
  <2> QED
    BY <1>1, <1>4, <2>1, <2>2 DEF Working
<1>5. ASSUME Between PROVE Between'
  <2>1. ASSUME irq_busy # 0 PROVE \E c, k : Run(c, k)'
    <3>1. PICK c, k : Run(c, k)
      BY <1>5, <2>1 DEF Between
    <3>2. isr' = "disable" => ~Busy
      BY <1>1, <3>1 DEF Run
    <3> QED
      BY <1>1, <1>3, <3>1, <3>2, RunKept DEF machine
  <2> QED
    BY <1>1, <1>3, <1>5, <2>1 DEF Between
<1>6. Timely'
  BY <1>3, <1>4, <1>5 DEF Strong, Timely
<1>7. Always' /\ Asked' /\ Planned'
  BY <1>2 DEF Strong, Always
<1> QED
  BY <1>6, <1>7 DEF Strong

LEMMA InitStrong == Init => Strong
<1> SUFFICES ASSUME Init PROVE Strong
  OBVIOUS
<1>1. Always
  BY InitAlways
<1>2. /\ fsm = "IDLE" /\ ~en /\ txf = <<>> /\ rxf = <<>> /\ mishap = {} /\ irq_busy = 0
      /\ call = Nothing /\ pc = "done" /\ stage = "transmit" /\ status = "SUCCESS"
  BY DEF Init, InitController, Nothing
<1>3. Size = 0 /\ IssueStop /\ ~Mine
  BY <1>2 DEF Size, IssueStop, Mine, Nothing
<1>4. Asked /\ Planned
  BY <1>2, <1>3 DEF Asked, Planned
<1>5. Between
  BY <1>2, <1>3 DEF Between, Quiet, Waited
<1> QED
  BY <1>1, <1>3, <1>4, <1>5 DEF Strong, Timely

LEMMA StrongKept ==
  ASSUME Strong, [Next]_vars, BothSizes
  PROVE  Strong'
<1>1. CASE Next
  <2>1. Always'
    BY <1>1, AlwaysKept DEF Strong
  <2>2. Asked' /\ Planned' /\ Timely'
    BY <1>1, <2>1, AskedKept, PlannedKept, TimelyKept DEF Strong
  <2> QED
    BY <2>1, <2>2 DEF Strong
<1>2. CASE UNCHANGED vars
  BY <1>2, StutterKeeps
<1> QED
  BY <1>1, <1>2

LEMMA Invariance ==
  ASSUME BothSizes
  PROVE  Spec => []Strong
<1>1. Init => Strong
  BY InitStrong
<1>2. Strong /\ [Next]_vars => Strong'
  BY StrongKept
<1> QED
  BY <1>1, <1>2, PTL DEF Spec

-----------------------------------------------------------------------------
(* What the driver promises. *)

\* A call of alt_avalon_i2c_master_tx, _rx or _tx_rx that waits in its loops returns
\* success only when the transfer was on the bus, whole and in order, and the
\* buffer holds its bytes and no others.
THEOREM HonestSuccessTheorem ==
  ASSUME BothSizes
  PROVE  Spec => []HonestSuccess
<1>1. ASSUME Strong PROVE HonestSuccess
  <2>1. SUFFICES ASSUME pc = "done", ~call.irq, status = "SUCCESS", Size > 0, ~Late
                 PROVE  Carried \/ mishap \cap {"LATE", "ARB"} # {}
    BY DEF HonestSuccess, Late
  <2>2. Between
    BY <1>1, <2>1 DEF Strong, Timely, Mine
  <2>3. Carried \/ "ARB" \in mishap
    BY <2>1, <2>2 DEF Between
  <2> QED
    BY <2>3
<1> QED
  BY <1>1, Invariance, PTL

\* alt_avalon_i2c_interrupt_transaction_status reports success only for a transfer
\* that the handler has carried to its end.
THEOREM HonestStatusTheorem ==
  ASSUME BothSizes
  PROVE  Spec => []HonestStatus
<1>1. ASSUME Strong PROVE HonestStatus
  <2>1. SUFFICES ASSUME pc = "told", status = "SUCCESS", ~Late
                 PROVE  Carried \/ mishap \cap {"LATE", "NACK", "ARB"} # {}
    BY DEF HonestStatus, Late
  <2>2. Between /\ Asked
    BY <1>1, <2>1 DEF Strong, Timely, Mine
  <2>3. Waited /\ irq_busy = 0
    BY <2>1, <2>2 DEF Asked, Waited
  <2>4. Carried \/ Bad
    BY <2>2, <2>3 DEF Between
  <2> QED
    BY <2>4 DEF Bad
<1> QED
  BY <1>1, Invariance, PTL

\* When a call has returned and nothing is left to alt_avalon_i2c_irq, the controller
\* is idle and disabled with empty FIFOs.
THEOREM RestsCleanTheorem ==
  ASSUME BothSizes
  PROVE  Spec => []RestsClean
<1>1. ASSUME Strong PROVE RestsClean
  <2>1. SUFFICES ASSUME AtRest, irq_busy = 0, ~Late PROVE Clean /\ ~en
    BY DEF RestsClean, Late
  <2>2. Between
    BY <1>1, <2>1 DEF Strong, Timely, Mine, AtRest, Rest
  <2> QED
    BY <2>1, <2>2 DEF Between, Quiet, Clean
<1> QED
  BY <1>1, Invariance, PTL

\* A call that waits in its loops gives up because of the bus, never because it
\* waits for a place in a FIFO that it fills, or for a byte that it drops.
THEOREM TimeoutTheorem ==
  ASSUME BothSizes
  PROVE  Spec => []TimeoutHasCause
<1>1. ASSUME Strong PROVE TimeoutHasCause
  <2>1. SUFFICES ASSUME pc = "done", ~call.irq, status = "TIMEOUT", ~Late
                 PROVE  mishap \cap {"LATE", "ARB", "OVER"} # {}
    BY DEF TimeoutHasCause, Late
  <2>2. Between
    BY <1>1, <2>1 DEF Strong, Timely, Mine
  <2>3. mishap \cap {"ARB", "OVER"} # {}
    BY <2>1, <2>2 DEF Between
  <2> QED
    BY <2>3
<1> QED
  BY <1>1, Invariance, PTL
=============================================================================
