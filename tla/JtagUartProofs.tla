--------------------------- MODULE JtagUartProofs ---------------------------
(***************************************************************************)
(* For every length of the rings, depth and threshold of the FIFOs and     *)
(* timeout: both directions of the JTAG UART driver are byte pipes, and no *)
(* byte stays in the transmit ring with nobody to move it.                 *)
(***************************************************************************)
EXTENDS JtagUartProps, SequenceTheorems, TLAPS

(* Indexes and the contents of a ring. *)

LEMMA Sizes == /\ BUF_LEN \in Nat /\ BUF_LEN >= 2
               /\ WriteDepth \in Nat /\ WriteDepth >= 1
               /\ ReadDepth \in Nat /\ ReadDepth >= 1
               /\ InactiveMax \in Nat /\ MaxCount \in Nat /\ MaxCount >= 1
  BY JtagUartAssumption

\* An index runs over the end of its ring at most once.
LEMMA Wrap ==
  /\ \A x \in Nat : x < BUF_LEN => x % BUF_LEN = x
  /\ \A x \in Nat : BUF_LEN <= x /\ x < 2 * BUF_LEN => x % BUF_LEN = x - BUF_LEN
  BY Sizes

LEMMA HeldIs ==
  ASSUME NEW in \in Index, NEW out \in Index
  PROVE  /\ Held(in, out) = IF in >= out THEN in - out ELSE in + BUF_LEN - out
         /\ Held(in, out) \in Nat /\ Held(in, out) < BUF_LEN
         /\ Held(in, out) = 0 <=> in = out
<1>1. /\ in \in Nat /\ out \in Nat /\ in < BUF_LEN /\ out < BUF_LEN
      /\ in + BUF_LEN - out \in Nat
  BY Sizes DEF Index
<1>2. CASE in >= out
  BY <1>1, <1>2, Wrap, Sizes DEF Held
<1>3. CASE in < out
  BY <1>1, <1>3, Wrap, Sizes DEF Held
<1> QED
  BY <1>1, <1>2, <1>3

\* The place of the i-th byte held.
Place(out, i) == (out + i - 1) % BUF_LEN

LEMMA PlaceIs ==
  ASSUME NEW out \in Index, NEW i \in 1..BUF_LEN
  PROVE  /\ Place(out, i) \in Index
         /\ Place(out, i) = IF out + i - 1 < BUF_LEN THEN out + i - 1
                                                     ELSE out + i - 1 - BUF_LEN
<1>1. out + i - 1 \in Nat /\ out + i - 1 < 2 * BUF_LEN
  BY Sizes DEF Index
<1> QED
  BY <1>1, Wrap, Sizes DEF Place, Index

\* An index moved on by n.
Moved(out, n) == (out + n) % BUF_LEN

LEMMA MovedIs ==
  ASSUME NEW out \in Index, NEW n \in Nat, n <= BUF_LEN
  PROVE  /\ Moved(out, n) \in Index
         /\ Moved(out, n) = IF out + n < BUF_LEN THEN out + n ELSE out + n - BUF_LEN
<1>1. out + n \in Nat /\ out + n < 2 * BUF_LEN
  BY Sizes DEF Index
<1> QED
  BY <1>1, Wrap, Sizes DEF Moved, Index

LEMMA ContentsIs ==
  ASSUME NEW buf \in [Index -> Byte], NEW in \in Index, NEW out \in Index
  PROVE  /\ Contents(buf, in, out) \in Seq(Byte)
         /\ Len(Contents(buf, in, out)) = Held(in, out)
         /\ \A i \in 1..Held(in, out) : Contents(buf, in, out)[i] = buf[Place(out, i)]
<1>1. Held(in, out) \in Nat /\ Held(in, out) < BUF_LEN
  BY HeldIs
<1>2. \A i \in 1..Held(in, out) : buf[Place(out, i)] \in Byte
  BY <1>1, PlaceIs, Sizes
<1> QED
  BY <1>1, <1>2, IsASeq DEF Contents, Place

\* Only the places that hold a byte count.
LEMMA ContentsSame ==
  ASSUME NEW buf \in [Index -> Byte], NEW buf2 \in [Index -> Byte],
         NEW in \in Index, NEW out \in Index,
         \A i \in 1..Held(in, out) : buf[Place(out, i)] = buf2[Place(out, i)]
  PROVE  Contents(buf, in, out) = Contents(buf2, in, out)
  BY DEF Contents, Place

\* Bytes taken from the front.
LEMMA ContentsTaken ==
  ASSUME NEW buf \in [Index -> Byte], NEW in \in Index, NEW out \in Index,
         NEW n \in 1..Held(in, out)
  PROVE  /\ Moved(out, n) \in Index /\ Held(in, Moved(out, n)) = Held(in, out) - n
         /\ Contents(buf, in, Moved(out, n))
              = SubSeq(Contents(buf, in, out), n + 1, Held(in, out))
<1> DEFINE out2 == Moved(out, n)
           h == Held(in, out)
           c == Contents(buf, in, out)
           d == Contents(buf, in, out2)
<1>1. h \in Nat /\ h < BUF_LEN /\ n \in Nat /\ n <= h /\ n >= 1
  BY HeldIs
<1>2. /\ in \in Nat /\ out \in Nat /\ in < BUF_LEN /\ out < BUF_LEN
      /\ h = IF in >= out THEN in - out ELSE in + BUF_LEN - out
  BY HeldIs, Sizes DEF Index
<1>3. out2 \in Index /\ out2 = IF out + n < BUF_LEN THEN out + n ELSE out + n - BUF_LEN
  BY <1>1, MovedIs, Sizes
<1>4. Held(in, out2) = IF in >= out2 THEN in - out2 ELSE in + BUF_LEN - out2
  BY <1>3, HeldIs
<1> HIDE DEF out2, h
<1>5. Held(in, out2) = h - n
  BY <1>1, <1>2, <1>3, <1>4, Sizes
<1>6. ASSUME NEW i \in 1..(h - n) PROVE Place(out2, i) = Place(out, n + i)
  <2>1. i \in 1..BUF_LEN /\ n + i \in 1..BUF_LEN
    BY <1>1, Sizes
  <2>2. /\ Place(out2, i) = IF out2 + i - 1 < BUF_LEN THEN out2 + i - 1
                                                     ELSE out2 + i - 1 - BUF_LEN
        /\ Place(out, n + i) = IF out + (n + i) - 1 < BUF_LEN THEN out + (n + i) - 1
                                                     ELSE out + (n + i) - 1 - BUF_LEN
    BY <2>1, <1>3, PlaceIs
  <2> QED
    BY <2>1, <2>2, <1>1, <1>2, <1>3, Sizes
<1>7. /\ c \in Seq(Byte) /\ Len(c) = h /\ \A i \in 1..h : c[i] = buf[Place(out, i)]
  BY ContentsIs DEF h
<1>8. /\ d \in Seq(Byte) /\ Len(d) = h - n
      /\ \A i \in 1..(h - n) : d[i] = buf[Place(out2, i)]
  <2>1. /\ d \in Seq(Byte) /\ Len(d) = Held(in, out2)
        /\ \A i \in 1..Held(in, out2) : d[i] = buf[Place(out2, i)]
    BY <1>3, ContentsIs
  <2> HIDE DEF d
  <2> QED
    BY <2>1, <1>5
<1> HIDE DEF c, d
<1>9. /\ SubSeq(c, n + 1, h) \in Seq(Byte) /\ Len(SubSeq(c, n + 1, h)) = h - n
      /\ \A i \in 1..(h - n) : SubSeq(c, n + 1, h)[i] = c[n + i]
  BY <1>1, <1>7, SubSeqProperties
<1>10. d = SubSeq(c, n + 1, h)
  <2>1. \A i \in 1..(h - n) : d[i] = SubSeq(c, n + 1, h)[i]
    BY <1>1, <1>6, <1>7, <1>8, <1>9
  <2> QED
    BY <2>1, <1>8, <1>9, SeqEqual
<1> QED
  BY <1>3, <1>5, <1>10 DEF c, d, out2, h

\* The n bytes in a row from a place on.
Piece(buf, at, n) == [i \in 1..n |-> buf[at + i - 1]]

\* Bytes added at the end, in one piece of the ring.
LEMMA ContentsAdded ==
  ASSUME NEW buf \in [Index -> Byte], NEW in \in Index, NEW out \in Index,
         NEW n \in Nat, in + n <= BUF_LEN, Held(in, out) + n < BUF_LEN
  PROVE  /\ Moved(in, n) \in Index /\ Held(Moved(in, n), out) = Held(in, out) + n
         /\ Contents(buf, Moved(in, n), out)
              = Contents(buf, in, out) \o Piece(buf, in, n)
<1> DEFINE in2 == Moved(in, n)
           h == Held(in, out)
           c == Contents(buf, in, out)
           d == Contents(buf, in2, out)
           e == Piece(buf, in, n)
<1>1. h \in Nat /\ h < BUF_LEN /\ h + n < BUF_LEN
  BY HeldIs
<1>2. /\ in \in Nat /\ out \in Nat /\ in < BUF_LEN /\ out < BUF_LEN
      /\ h = IF in >= out THEN in - out ELSE in + BUF_LEN - out
  BY HeldIs, Sizes DEF Index
<1>3. in2 \in Index /\ in2 = IF in + n < BUF_LEN THEN in + n ELSE in + n - BUF_LEN
  BY <1>1, <1>2, MovedIs, Sizes
<1>4. Held(in2, out) = IF in2 >= out THEN in2 - out ELSE in2 + BUF_LEN - out
  BY <1>3, HeldIs
<1>5. e \in Seq(Byte) /\ Len(e) = n /\ \A i \in 1..n : e[i] = buf[in + i - 1]
  <2>1. \A i \in 1..n : buf[in + i - 1] \in Byte
    BY <1>2, Sizes DEF Index
  <2> QED
    BY <2>1, IsASeq DEF Piece
<1> HIDE DEF in2, h, e
<1>6. Held(in2, out) = h + n
  BY <1>1, <1>2, <1>3, <1>4, Sizes
<1>7. /\ c \in Seq(Byte) /\ Len(c) = h /\ \A i \in 1..h : c[i] = buf[Place(out, i)]
  BY ContentsIs DEF h
<1>8. /\ d \in Seq(Byte) /\ Len(d) = h + n
      /\ \A i \in 1..(h + n) : d[i] = buf[Place(out, i)]
  <2>1. /\ d \in Seq(Byte) /\ Len(d) = Held(in2, out)
        /\ \A i \in 1..Held(in2, out) : d[i] = buf[Place(out, i)]
    BY <1>3, ContentsIs
  <2> HIDE DEF d
  <2> QED
    BY <2>1, <1>6
<1> HIDE DEF c, d
<1>9. /\ c \o e \in Seq(Byte) /\ Len(c \o e) = h + n
      /\ \A i \in 1..(h + n) : (c \o e)[i] = IF i <= h THEN c[i] ELSE e[i - h]
  BY <1>1, <1>5, <1>7, ConcatProperties
<1>10. ASSUME NEW i \in 1..(h + n) PROVE d[i] = (c \o e)[i]
  <2>1. CASE i <= h
    BY <2>1, <1>1, <1>7, <1>8, <1>9
  <2>2. CASE i > h
    <3>1. i - h \in 1..n /\ i \in 1..BUF_LEN
      BY <2>2, <1>1, Sizes
    <3>2. Place(out, i) = IF out + i - 1 < BUF_LEN THEN out + i - 1
                                                   ELSE out + i - 1 - BUF_LEN
      BY <3>1, PlaceIs
    <3>3. Place(out, i) = in + (i - h) - 1
      BY <3>1, <3>2, <1>1, <1>2, Sizes
    <3>4. (c \o e)[i] = e[i - h]
      BY <2>2, <1>1, <1>9
    <3>5. e[i - h] = buf[in + (i - h) - 1]
      BY <3>1, <1>5
    <3>6. d[i] = buf[Place(out, i)]
      BY <1>8
    <3> QED
      BY <3>3, <3>4, <3>5, <3>6
  <2>3. i <= h \/ i > h
    BY <1>1
  <2> QED
    BY <2>1, <2>2, <2>3, Zenon
<1>11. d = c \o e
  BY <1>8, <1>9, <1>10, SeqEqual
<1> QED
  BY <1>3, <1>6, <1>11 DEF c, d, e, in2, h

-----------------------------------------------------------------------------
(* The inductive invariant. *)

Args == [left : 0..MaxCount, n : Index, seen : Index, done : Nat, got : Seq(Byte),
         nonblock : BOOLEAN]
Ctls == [wi : BOOLEAN, space : 0..WriteDepth, avail : BOOLEAN]
Labels == {"idle", "w_loop", "w_copy", "w_publish", "w_kick", "w_spin", "w_check",
           "w_ret", "r_loop", "r_copy", "r_publish", "r_test", "r_spin", "r_check",
           "r_kick", "r_ret", "c_spin"}

RingTypes ==
  /\ tx_in \in Index /\ tx_out \in Index /\ rx_in \in Index /\ rx_out \in Index
  /\ tx_buf \in [Index -> Byte] /\ rx_buf \in [Index -> Byte]
  /\ sent \in Byte /\ typed \in Byte

LocalTypes ==
  /\ irq_enable \subseteq {"RE", "WE"}
  /\ host_inactive \in 0..InactiveMax
  /\ use \in DOMAIN Timeouts /\ timeout \in Timeouts[use] \cup {INT_MAX}
  /\ ac \in BOOLEAN /\ pause \in BOOLEAN /\ connected \in BOOLEAN
  /\ pc \in Labels /\ arg \in Args
  /\ isr \in {"idle", "control", "rx", "rxend", "tx"} /\ ctl \in Ctls

\* The handler counts the room it has left: the host only makes more.
Fifos ==
  /\ tfifo \in Seq(Byte) /\ Len(tfifo) + ctl.space <= WriteDepth
  /\ rfifo \in Seq(Byte) /\ Len(rfifo) <= ReadDepth

\* The piece write() fills is free and stays so, for the handler only takes bytes
\* away; once filled it holds the bytes to send.
WritePiece ==
  pc \in {"w_copy", "w_publish"} =>
    /\ 1 <= arg.n /\ arg.n <= arg.left /\ tx_in + arg.n <= BUF_LEN
    /\ Held(tx_in, tx_out) + arg.n < BUF_LEN
    /\ pc = "w_publish" =>
         \A i \in Index : tx_in <= i /\ i < tx_in + arg.n
                            => tx_buf[i] = (sent + i - tx_in) % 2

\* The piece read() copies is held and stays so, for the handler only adds.
ReadPiece ==
  pc \in {"r_copy", "r_publish"} =>
    /\ 1 <= arg.n /\ arg.n <= arg.left /\ rx_out + arg.n <= BUF_LEN
    /\ arg.n <= Held(rx_in, rx_out)
    /\ pc = "r_publish" => arg.got = [i \in 1..arg.n |-> rx_buf[rx_out + i - 1]]

\* The handler turns transmit interrupts off only with the ring empty, at any
\* moment of its run.
Awake ==
  tx_in # tx_out /\ pc \notin {"w_loop", "w_copy", "w_publish", "w_kick"}
    => "WE" \in irq_enable

IInv == RingTypes /\ LocalTypes /\ Fifos /\ WritePiece /\ ReadPiece /\ Awake

-----------------------------------------------------------------------------
(* Each action keeps it. *)

LEMMA CallKeeps ==
  ASSUME NEW op, NEW label \in {"w_loop", "r_loop", "c_spin"}, IInv, Call(op, label),
         label = "c_spin" => op = "close"
  PROVE  IInv'
<1> USE Sizes DEF IInv
<1>1. PICK count \in 1..MaxCount, nb \in BOOLEAN :
        arg' = [NoArg EXCEPT !.left = IF op = "close" THEN 0 ELSE count,
                             !.nonblock = nb]
  BY DEF Call
<1>2. arg' \in Args
  <2>1. NoArg \in Args
    <3>1. <<>> \in Seq(Byte) /\ 0 \in Index /\ 0 \in 0..MaxCount /\ 0 \in Nat
      BY DEF Index
    <3> QED
      BY <3>1 DEF NoArg, Args
  <2>2. (IF op = "close" THEN 0 ELSE count) \in 0..MaxCount
    OBVIOUS
  <2> QED
    BY <1>1, <2>1, <2>2 DEF Args
<1>3. RingTypes' /\ LocalTypes' /\ Fifos'
  BY <1>2 DEF Call, At, Goto, RingTypes, LocalTypes, Fifos, Labels, ring, device, host,
              hosttime, handler
<1>4. WritePiece' /\ ReadPiece' /\ Awake'
  BY DEF Call, At, Goto, WritePiece, ReadPiece, Awake, ring
<1> QED
  BY <1>3, <1>4

LEMMA AlarmKeeps == IInv /\ Alarm => IInv'
<1> SUFFICES ASSUME IInv, Alarm PROVE IInv'
  OBVIOUS
<1> USE DEF IInv
<1>1. host_inactive' \in 0..InactiveMax
  BY Sizes DEF Alarm, InactiveNext, LocalTypes
<1>2. LocalTypes'
  BY <1>1 DEF Alarm, LocalTypes, host, app, handler
<1>3. RingTypes' /\ Fifos' /\ WritePiece' /\ ReadPiece' /\ Awake'
  BY DEF Alarm, RingTypes, Fifos, WritePiece, ReadPiece, Awake, ring, host, app, handler
<1> QED
  BY <1>2, <1>3

LEMMA CloseWaitKeeps == IInv /\ CloseWait => IInv'
<1> SUFFICES ASSUME IInv, CloseWait PROVE IInv'
  OBVIOUS
<1> USE DEF IInv
<1>1. Return
  BY DEF CloseWait
<1>2. NoArg \in Args
  <2>1. <<>> \in Seq(Byte) /\ 0 \in Index /\ 0 \in 0..MaxCount /\ 0 \in Nat
    BY Sizes DEF Index
  <2> QED
    BY <2>1 DEF NoArg, Args
<1>3. RingTypes' /\ LocalTypes' /\ Fifos'
  BY <1>1, <1>2 DEF CloseWait, Return, Goto, RingTypes, LocalTypes, Fifos, Labels, ring,
                    device, host, hosttime, handler
<1>4. WritePiece' /\ ReadPiece' /\ Awake'
  BY <1>1 DEF CloseWait, Return, At, Goto, WritePiece, ReadPiece, Awake, ring
<1> QED
  BY <1>3, <1>4

(* The handler. *)

LEMMA RxEmptyKeeps == IInv /\ IsrRxEmpty => IInv'
<1> SUFFICES ASSUME IInv, IsrRxEmpty PROVE IInv'
  OBVIOUS
<1> USE Sizes DEF IInv
<1>1. /\ rfifo' \in Seq(Byte) /\ Len(rfifo') <= ReadDepth
      /\ typed' \in Byte /\ ac' \in BOOLEAN
  <2>1. CASE UNCHANGED <<rfifo, ac, typed>>
    BY <2>1 DEF Fifos, RingTypes, LocalTypes
  <2>2. CASE rfifo' = <<typed>> /\ typed' = 1 - typed /\ ac' = TRUE
    BY <2>2 DEF Fifos, RingTypes, Byte
  <2> QED
    BY <2>1, <2>2 DEF IsrRxEmpty
<1>2. ctl' \in Ctls /\ ctl'.space = ctl.space
  <2>1. (rfifo' # <<>>) \in BOOLEAN
    OBVIOUS
  <2>2. ctl \in Ctls
    BY DEF LocalTypes
  <2> QED
    BY <2>1, <2>2 DEF IsrRxEmpty, Ctls
<1>3. UNCHANGED <<ring, irq_enable, hosttime, tfifo, connected, fetched, app>>
      /\ pause' = FALSE /\ isr' = "rxend"
  BY DEF IsrRxEmpty
<1>4. RingTypes' /\ LocalTypes' /\ Fifos'
  BY <1>1, <1>2, <1>3 DEF RingTypes, LocalTypes, Fifos, ring, hosttime, app
<1>5. WritePiece' /\ ReadPiece' /\ Awake'
  BY <1>3 DEF WritePiece, ReadPiece, Awake, ring, app
<1> QED
  BY <1>4, <1>5

LEMMA RxEndKeeps == IInv /\ IsrRxEnd => IInv'
<1> SUFFICES ASSUME IInv, IsrRxEnd PROVE IInv'
  OBVIOUS
<1> USE Sizes DEF IInv
<1>1. ctl' \in Ctls /\ ctl'.space <= ctl.space
  <2>1. ctl \in Ctls /\ ctl.space \in Nat
    BY DEF LocalTypes, Ctls
  <2>2. CASE ctl.wi
    <3>1. ctl' = [ctl EXCEPT !.avail = FALSE]
      BY <2>2 DEF IsrRxEnd
    <3>2. ctl' \in Ctls
      BY <2>1, <3>1 DEF Ctls
    <3>3. ctl'.space = ctl.space
      BY <2>1, <3>1 DEF Ctls
    <3> QED
      BY <2>1, <3>2, <3>3
  <2>3. CASE ~ctl.wi
    BY <2>1, <2>3 DEF IsrRxEnd, Ctls, NoCtl
  <2> QED
    BY <2>2, <2>3
<1>2. irq_enable' \subseteq {"RE", "WE"} /\ ("WE" \in irq_enable => "WE" \in irq_enable')
  BY DEF IsrRxEnd, RxOff, LocalTypes
<1>3. UNCHANGED <<ring, hosttime, device, host, app>> /\ isr' \in {"tx", "control"}
  BY DEF IsrRxEnd
<1>4. RingTypes' /\ LocalTypes'
  BY <1>1, <1>2, <1>3 DEF RingTypes, LocalTypes, ring, hosttime, app, device, host
<1>5. Fifos'
  <2>1. ctl.space \in Nat /\ ctl'.space \in Nat
    BY <1>1 DEF LocalTypes, Ctls
  <2> QED
    BY <1>1, <1>3, <2>1 DEF Fifos, device
<1>6. WritePiece' /\ ReadPiece' /\ Awake'
  BY <1>2, <1>3 DEF WritePiece, ReadPiece, Awake, ring, app
<1> QED
  BY <1>4, <1>5, <1>6

\* A byte into the ring goes to a place that is not held.
LEMMA RxByteAdds ==
  ASSUME IInv, IsrRxByte
  PROVE  /\ rx_in' \in Index /\ rx_buf' \in [Index -> Byte]
         /\ Held(rx_in', rx_out) = Held(rx_in, rx_out) + 1
         /\ Contents(rx_buf', rx_in', rx_out)
              = Contents(rx_buf, rx_in, rx_out) \o <<Head(rfifo)>>
         /\ \A i \in 1..Held(rx_in, rx_out) : rx_buf'[Place(rx_out, i)]
                                                = rx_buf[Place(rx_out, i)]
<1> USE Sizes DEF IInv
<1> DEFINE h == Held(rx_in, rx_out)
<1>1. rx_in \in Index /\ rx_out \in Index /\ rx_buf \in [Index -> Byte]
  BY DEF RingTypes
<1>2. Head(rfifo) \in Byte
  BY DEF IsrRxByte, Fifos
<1>3. /\ rx_buf' = [rx_buf EXCEPT ![rx_in] = Head(rfifo)] /\ rx_in' = Moved(rx_in, 1)
      /\ Moved(rx_in, 1) # rx_out
  BY DEF IsrRxByte, RxFull, Moved
<1>4. rx_buf' \in [Index -> Byte] /\ rx_buf'[rx_in] = Head(rfifo)
  BY <1>1, <1>2, <1>3
<1>5. /\ h \in Nat /\ h < BUF_LEN
      /\ h = IF rx_in >= rx_out THEN rx_in - rx_out ELSE rx_in + BUF_LEN - rx_out
  BY <1>1, HeldIs
<1>6. /\ Moved(rx_in, 1) \in Index
      /\ Moved(rx_in, 1) = IF rx_in + 1 < BUF_LEN THEN rx_in + 1 ELSE rx_in + 1 - BUF_LEN
  BY <1>1, MovedIs
<1>7. h + 1 < BUF_LEN
  BY <1>1, <1>3, <1>5, <1>6 DEF Index
<1>8. \A i \in 1..h : Place(rx_out, i) # rx_in /\ Place(rx_out, i) \in Index
  <2> TAKE i \in 1..h
  <2>1. i \in 1..BUF_LEN
    BY <1>5
  <2>2. /\ Place(rx_out, i) \in Index
        /\ Place(rx_out, i) = IF rx_out + i - 1 < BUF_LEN THEN rx_out + i - 1
                                                ELSE rx_out + i - 1 - BUF_LEN
    BY <1>1, <2>1, PlaceIs
  <2> QED
    BY <2>1, <2>2, <1>1, <1>5 DEF Index
<1>9. \A i \in 1..h : rx_buf'[Place(rx_out, i)] = rx_buf[Place(rx_out, i)]
  BY <1>1, <1>3, <1>8
<1>10. Contents(rx_buf', rx_in, rx_out) = Contents(rx_buf, rx_in, rx_out)
  BY <1>1, <1>4, <1>9, ContentsSame
<1>11. /\ Held(Moved(rx_in, 1), rx_out) = h + 1
       /\ Contents(rx_buf', Moved(rx_in, 1), rx_out)
            = Contents(rx_buf', rx_in, rx_out) \o Piece(rx_buf', rx_in, 1)
  <2>1. rx_in + 1 <= BUF_LEN /\ Held(rx_in, rx_out) + 1 < BUF_LEN
    BY <1>1, <1>7 DEF Index
  <2> QED
    BY <1>1, <1>4, <2>1, ContentsAdded
<1>12. Piece(rx_buf', rx_in, 1) = <<Head(rfifo)>>
  <2>1. \A i \in 1..1 : rx_buf'[rx_in + i - 1] = Head(rfifo)
    BY <1>1, <1>4 DEF Index
  <2> QED
    BY <2>1 DEF Piece
<1> QED
  BY <1>3, <1>4, <1>6, <1>9, <1>10, <1>11, <1>12

LEMMA RxByteKeeps == IInv /\ IsrRxByte => IInv'
<1> SUFFICES ASSUME IInv, IsrRxByte PROVE IInv'
  OBVIOUS
<1> USE Sizes DEF IInv
<1>1. UNCHANGED <<txring, rx_out, irq_enable, hosttime, tfifo, ac, host, app, isr>>
      /\ pause' = FALSE
  BY DEF IsrRxByte
<1>2. rfifo' \in Seq(Byte) /\ Len(rfifo') <= ReadDepth
  BY DEF IsrRxByte, Fifos
<1>3. ctl' \in Ctls /\ ctl'.space = ctl.space
  <2>1. (rfifo' # <<>>) \in BOOLEAN
    OBVIOUS
  <2>2. ctl \in Ctls
    BY DEF LocalTypes
  <2> QED
    BY <2>1, <2>2 DEF IsrRxByte, Ctls
<1>4. RingTypes' /\ LocalTypes' /\ Fifos'
  BY <1>1, <1>2, <1>3, RxByteAdds
     DEF RingTypes, LocalTypes, Fifos, txring, hosttime, app, host
<1>5. WritePiece' /\ Awake'
  BY <1>1 DEF WritePiece, Awake, txring, app
<1>6. ReadPiece'
  <2> SUFFICES ASSUME pc \in {"r_copy", "r_publish"} PROVE ReadPiece'
    BY <1>1 DEF ReadPiece, app
  <2> DEFINE h == Held(rx_in, rx_out)
  <2>1. /\ rx_out \in Index /\ h \in Nat /\ h < BUF_LEN /\ arg.n \in Nat
        /\ arg.n <= h /\ rx_out + arg.n <= BUF_LEN /\ rx_out \in Nat
    <3>1. arg.n \in Index /\ rx_out \in Index /\ rx_in \in Index
      BY DEF RingTypes, LocalTypes, Args
    <3>2. h \in Nat /\ h < BUF_LEN
      BY <3>1, HeldIs
    <3> QED
      BY <3>1, <3>2 DEF ReadPiece, Index
  <2> HIDE DEF h
  <2>2. \A i \in 1..arg.n : rx_buf'[rx_out + i - 1] = rx_buf[rx_out + i - 1]
    <3> TAKE i \in 1..arg.n
    <3>1. i \in 1..BUF_LEN /\ i \in 1..h /\ rx_out + i - 1 < BUF_LEN
      BY <2>1
    <3>2. Place(rx_out, i) = rx_out + i - 1
      BY <2>1, <3>1, PlaceIs
    <3> QED
      BY <3>1, <3>2, RxByteAdds DEF h
  <2>3. Held(rx_in', rx_out) = h + 1
    BY RxByteAdds DEF h
  <2>4. arg.got = [i \in 1..arg.n |-> rx_buf[rx_out + i - 1]]
          => arg.got = [i \in 1..arg.n |-> rx_buf'[rx_out + i - 1]]
    BY <2>2
  <2>5. arg.n <= Held(rx_in', rx_out)
    BY <2>1, <2>3
  <2> QED
    BY <1>1, <2>4, <2>5 DEF ReadPiece, app
<1> QED
  BY <1>4, <1>5, <1>6

\* A byte out of the ring is the oldest.
LEMMA TxByteTakes ==
  ASSUME IInv, IsrTxByte
  PROVE  /\ tx_out' \in Index /\ tx_buf[tx_out] \in Byte
         /\ Held(tx_in, tx_out') = Held(tx_in, tx_out) - 1
         /\ Held(tx_in, tx_out) >= 1
         /\ Contents(tx_buf, tx_in, tx_out)[1] = tx_buf[tx_out]
         /\ Contents(tx_buf, tx_in, tx_out')
              = SubSeq(Contents(tx_buf, tx_in, tx_out), 2, Held(tx_in, tx_out))
<1> USE Sizes DEF IInv
<1>1. /\ tx_in \in Index /\ tx_out \in Index /\ tx_buf \in [Index -> Byte]
      /\ tx_in # tx_out /\ tx_out' = Moved(tx_out, 1)
  BY DEF RingTypes, IsrTxByte, MoreToSend, Moved
<1>2. Held(tx_in, tx_out) \in Nat /\ Held(tx_in, tx_out) >= 1
  BY <1>1, HeldIs
<1>3. 1 \in 1..Held(tx_in, tx_out)
  BY <1>2
<1>4. /\ Moved(tx_out, 1) \in Index
      /\ Held(tx_in, Moved(tx_out, 1)) = Held(tx_in, tx_out) - 1
      /\ Contents(tx_buf, tx_in, Moved(tx_out, 1))
           = SubSeq(Contents(tx_buf, tx_in, tx_out), 1 + 1, Held(tx_in, tx_out))
  BY <1>1, <1>3, ContentsTaken
<1>5. Place(tx_out, 1) = tx_out
  BY <1>1, PlaceIs DEF Index
<1>6. Contents(tx_buf, tx_in, tx_out)[1] = tx_buf[Place(tx_out, 1)]
  BY <1>1, <1>3, ContentsIs
<1> QED
  BY <1>1, <1>2, <1>4, <1>5, <1>6

LEMMA TxByteKeeps == IInv /\ IsrTxByte => IInv'
<1> SUFFICES ASSUME IInv, IsrTxByte PROVE IInv'
  OBVIOUS
<1> USE Sizes DEF IInv
<1>1. UNCHANGED <<tx_buf, tx_in, rxring, irq_enable, hosttime, rfifo, ac, pause, host,
                  app, isr>>
  BY DEF IsrTxByte
<1>2. ctl' \in Ctls /\ ctl'.space = ctl.space - 1
  BY DEF IsrTxByte, MoreToSend, LocalTypes, Ctls
<1>3. tfifo' \in Seq(Byte) /\ Len(tfifo') = Len(tfifo) + 1
  BY TxByteTakes DEF IsrTxByte, Fifos
<1>4. RingTypes' /\ LocalTypes'
  BY <1>1, <1>2, TxByteTakes DEF RingTypes, LocalTypes, rxring, hosttime, app, host
<1>5. Fifos'
  BY <1>1, <1>2, <1>3 DEF Fifos, LocalTypes, Ctls
<1>6. WritePiece'
  <2>1. arg.n \in Index /\ tx_in \in Index /\ tx_out \in Index
    BY DEF RingTypes, LocalTypes, Args
  <2>2. Held(tx_in, tx_out) \in Nat
    BY <2>1, HeldIs
  <2>4. arg.n \in Nat
    BY <2>1, Sizes DEF Index
  <2>3. Held(tx_in, tx_out) + arg.n < BUF_LEN => Held(tx_in, tx_out') + arg.n < BUF_LEN
    BY <2>2, <2>4, TxByteTakes
  <2> QED
    BY <1>1, <2>3 DEF WritePiece, app
<1>7. ReadPiece' /\ Awake'
  BY <1>1 DEF ReadPiece, Awake, rxring, app, IsrTxByte, MoreToSend
<1> QED
  BY <1>4, <1>5, <1>6, <1>7

(* write() and read(). *)

\* A piece of the ring is free, or held, as far as it reaches.
LEMMA RoomIs ==
  ASSUME NEW in \in Index, NEW out \in Index
  PROVE  /\ WriteRoom(in, out) \in Nat /\ in + WriteRoom(in, out) <= BUF_LEN
         /\ Held(in, out) + WriteRoom(in, out) < BUF_LEN
         /\ ReadRun(in, out) \in Nat /\ out + ReadRun(in, out) <= BUF_LEN
         /\ ReadRun(in, out) <= Held(in, out)
<1>1. Held(in, out) = IF in >= out THEN in - out ELSE in + BUF_LEN - out
  BY HeldIs
<1>2. in \in Nat /\ out \in Nat /\ in < BUF_LEN /\ out < BUF_LEN
  BY Sizes DEF Index
<1> QED
  BY <1>1, <1>2, Sizes DEF WriteRoom, ReadRun

LEMMA WriteMeasureKeeps == IInv /\ WriteMeasure => IInv'
<1> SUFFICES ASSUME IInv, WriteMeasure PROVE IInv'
  OBVIOUS
<1> USE Sizes DEF IInv
<1>1. UNCHANGED <<ring, irq_enable, hosttime, device, host, sent, delivered, handler>>
  BY DEF WriteMeasure
<1> DEFINE n == Smaller(WriteRoom(tx_in, tx_out), arg.left)
<1>2. /\ tx_in \in Index /\ tx_out \in Index /\ arg \in Args
      /\ arg.left \in Nat
  BY DEF RingTypes, LocalTypes, Args
<1>3. /\ WriteRoom(tx_in, tx_out) \in Nat
      /\ tx_in + WriteRoom(tx_in, tx_out) <= BUF_LEN
      /\ Held(tx_in, tx_out) + WriteRoom(tx_in, tx_out) < BUF_LEN
      /\ Held(tx_in, tx_out) \in Nat
  BY <1>2, RoomIs, HeldIs
<1>4. /\ n \in Nat /\ n <= arg.left /\ tx_in + n <= BUF_LEN
      /\ Held(tx_in, tx_out) + n < BUF_LEN /\ n \in Index
  BY <1>2, <1>3 DEF Smaller, Index
<1> HIDE DEF n
<1>5. CASE arg.left > 0
  <2>1. /\ arg' = [arg EXCEPT !.seen = tx_out, !.n = n]
        /\ pc' = IF n = 0 THEN "w_kick" ELSE "w_copy"
    BY <1>5 DEF WriteMeasure, Goto, n
  <2>2. arg' \in Args /\ arg'.n = n /\ arg'.left = arg.left
    BY <1>2, <1>4, <2>1 DEF Args
  <2>3. RingTypes' /\ LocalTypes' /\ Fifos'
    BY <1>1, <2>1, <2>2 DEF RingTypes, LocalTypes, Fifos, Labels, ring, device, host,
                            hosttime, handler
  <2>4. WritePiece' /\ ReadPiece' /\ Awake'
    BY <1>1, <1>4, <2>1, <2>2 DEF WritePiece, ReadPiece, Awake, ring
  <2> QED
    BY <2>3, <2>4
<1>6. CASE ~(arg.left > 0)
  <2>1. pc' = "w_kick" /\ UNCHANGED arg
    BY <1>6 DEF WriteMeasure, Goto
  <2>2. RingTypes' /\ LocalTypes' /\ Fifos'
    BY <1>1, <2>1 DEF RingTypes, LocalTypes, Fifos, Labels, ring, device, host,
                            hosttime, handler
  <2>3. WritePiece' /\ ReadPiece' /\ Awake'
    BY <1>1, <2>1 DEF WritePiece, ReadPiece, Awake, ring
  <2> QED
    BY <2>2, <2>3
<1> QED
  BY <1>5, <1>6

LEMMA WriteCopyKeeps == IInv /\ WriteCopy => IInv'
<1> SUFFICES ASSUME IInv, WriteCopy PROVE IInv'
  OBVIOUS
<1> USE Sizes DEF IInv
<1>1. UNCHANGED <<tx_in, tx_out, rxring, irq_enable, hosttime, device, host, arg, sent,
                  delivered, handler>>
      /\ pc = "w_copy" /\ pc' = "w_publish"
  BY DEF WriteCopy, At, Goto
<1>2. tx_buf' = [i \in Index |-> IF i >= tx_in /\ i < tx_in + arg.n
                                 THEN (sent + i - tx_in) % 2 ELSE tx_buf[i]]
  BY DEF WriteCopy
<1>3. /\ tx_in \in Nat /\ sent \in Nat /\ tx_buf \in [Index -> Byte]
      /\ Index \subseteq Nat
  BY DEF RingTypes, Index, Byte
<1>4. \A x \in Nat : x % 2 \in Byte
  BY DEF Byte
<1>5. \A i \in Index : i >= tx_in => sent + i - tx_in \in Nat
  BY <1>3
<1>6. tx_buf' \in [Index -> Byte]
  <2>1. \A i \in Index : (IF i >= tx_in /\ i < tx_in + arg.n
                          THEN (sent + i - tx_in) % 2 ELSE tx_buf[i]) \in Byte
    BY <1>3, <1>4, <1>5
  <2> QED
    BY <1>2, <2>1
<1>7. \A i \in Index : tx_in <= i /\ i < tx_in + arg.n
                         => tx_buf'[i] = (sent + i - tx_in) % 2
  BY <1>2, <1>3
<1>8. RingTypes' /\ LocalTypes' /\ Fifos'
  BY <1>1, <1>6 DEF RingTypes, LocalTypes, Fifos, Labels, rxring, device, host, hosttime,
                    handler
<1>9. WritePiece'
  BY <1>1, <1>7 DEF WritePiece
<1>10. ReadPiece' /\ Awake'
  BY <1>1 DEF ReadPiece, Awake
<1> QED
  BY <1>8, <1>9, <1>10

\* The bytes published are the next ones of the alternation.
LEMMA WritePublishAdds ==
  ASSUME IInv, WritePublish
  PROVE  /\ tx_in' \in Index /\ arg.n \in Nat /\ arg.n >= 1
         /\ Held(tx_in', tx_out) = Held(tx_in, tx_out) + arg.n
         /\ Contents(tx_buf, tx_in', tx_out)
              = Contents(tx_buf, tx_in, tx_out) \o [i \in 1..arg.n |-> (sent + i - 1) % 2]
<1> USE DEF IInv
<1>1. /\ pc = "w_publish" /\ tx_in' = Moved(tx_in, arg.n)
      /\ tx_in \in Index /\ tx_out \in Index /\ tx_buf \in [Index -> Byte] /\ arg.n \in Index
  BY DEF WritePublish, At, Moved, RingTypes, LocalTypes, Args
<1>2. tx_in \in Nat /\ arg.n \in Nat /\ sent \in Nat
  BY <1>1, Sizes DEF Index, Byte, RingTypes
<1>3. /\ 1 <= arg.n /\ tx_in + arg.n <= BUF_LEN /\ Held(tx_in, tx_out) + arg.n < BUF_LEN
      /\ \A i \in Index : tx_in <= i /\ i < tx_in + arg.n
                            => tx_buf[i] = (sent + i - tx_in) % 2
  BY <1>1 DEF WritePiece
<1>4. /\ Moved(tx_in, arg.n) \in Index
      /\ Held(Moved(tx_in, arg.n), tx_out) = Held(tx_in, tx_out) + arg.n
      /\ Contents(tx_buf, Moved(tx_in, arg.n), tx_out)
           = Contents(tx_buf, tx_in, tx_out) \o Piece(tx_buf, tx_in, arg.n)
  BY <1>1, <1>2, <1>3, ContentsAdded
<1>5. Piece(tx_buf, tx_in, arg.n) = [i \in 1..arg.n |-> (sent + i - 1) % 2]
  <2>1. ASSUME NEW i \in 1..arg.n
        PROVE  tx_buf[tx_in + i - 1] = (sent + i - 1) % 2
    <3>1. /\ tx_in + i - 1 \in Index /\ tx_in <= tx_in + i - 1
          /\ tx_in + i - 1 < tx_in + arg.n
          /\ sent + (tx_in + i - 1) - tx_in = sent + i - 1
      BY <1>2, <1>3, Sizes DEF Index
    <3>2. tx_buf[tx_in + i - 1] = (sent + (tx_in + i - 1) - tx_in) % 2
      BY <1>3, <3>1
    <3> QED
      BY <3>1, <3>2
  <2> QED
    BY <2>1 DEF Piece
<1> QED
  BY <1>1, <1>2, <1>3, <1>4, <1>5

LEMMA WritePublishKeeps == IInv /\ WritePublish => IInv'
<1> SUFFICES ASSUME IInv, WritePublish PROVE IInv'
  OBVIOUS
<1> USE Sizes DEF IInv
<1>1. UNCHANGED <<tx_buf, tx_out, rxring, irq_enable, hosttime, device, host, delivered,
                  handler>>
      /\ pc = "w_publish" /\ pc' = "w_loop"
  BY DEF WritePublish, At, Goto
<1>2. sent' \in Byte
  <2>1. sent + arg.n \in Nat
    BY DEF RingTypes, LocalTypes, Args, Index, Byte
  <2>2. \A x \in Nat : x % 2 \in Byte
    BY DEF Byte
  <2> QED
    BY <2>1, <2>2 DEF WritePublish
<1>3. arg' \in Args
  <2>1. arg' = [arg EXCEPT !.left = arg.left - arg.n, !.n = 0]
    BY DEF WritePublish
  <2>2. arg.left - arg.n \in 0..MaxCount /\ 0 \in Index
    BY <1>1 DEF LocalTypes, WritePiece, Args, Index
  <2>3. arg \in Args
    BY DEF LocalTypes
  <2> QED
    BY <2>1, <2>2, <2>3 DEF Args
<1>4. RingTypes' /\ LocalTypes' /\ Fifos'
  BY <1>1, <1>2, <1>3, WritePublishAdds
     DEF RingTypes, LocalTypes, Fifos, Labels, rxring, device, host, hosttime, handler
<1>5. WritePiece' /\ ReadPiece' /\ Awake'
  BY <1>1 DEF WritePiece, ReadPiece, Awake, rxring
<1> QED
  BY <1>4, <1>5

LEMMA ReadMeasureKeeps == IInv /\ ReadMeasure => IInv'
<1> SUFFICES ASSUME IInv, ReadMeasure PROVE IInv'
  OBVIOUS
<1> USE Sizes DEF IInv
<1> DEFINE n == Smaller(ReadRun(rx_in, rx_out), arg.left)
<1>1. /\ UNCHANGED <<ring, irq_enable, hosttime, device, host, sent, delivered, handler>>
      /\ pc = "r_loop"
      /\ arg' = [arg EXCEPT !.seen = rx_in, !.n = n]
      /\ pc' = IF n = 0 THEN "r_test" ELSE "r_copy"
  BY DEF ReadMeasure, At, Goto
<1>2. rx_in \in Index /\ rx_out \in Index /\ arg \in Args /\ arg.left \in Nat
  BY DEF RingTypes, LocalTypes, Args
<1>3. /\ ReadRun(rx_in, rx_out) \in Nat /\ rx_out + ReadRun(rx_in, rx_out) <= BUF_LEN
      /\ ReadRun(rx_in, rx_out) <= Held(rx_in, rx_out)
      /\ Held(rx_in, rx_out) \in Nat /\ Held(rx_in, rx_out) < BUF_LEN
  BY <1>2, RoomIs, HeldIs
<1>4. /\ n \in Nat /\ n <= arg.left /\ rx_out + n <= BUF_LEN
      /\ n <= Held(rx_in, rx_out) /\ n \in Index
  BY <1>2, <1>3 DEF Smaller, Index
<1> HIDE DEF n
<1>5. arg' \in Args /\ arg'.n = n /\ arg'.left = arg.left
  BY <1>1, <1>2, <1>4 DEF Args
<1>6. RingTypes' /\ LocalTypes' /\ Fifos'
  BY <1>1, <1>5 DEF RingTypes, LocalTypes, Fifos, Labels, ring, device, host, hosttime,
                    handler
<1>7. WritePiece' /\ ReadPiece'
  BY <1>1, <1>4, <1>5 DEF WritePiece, ReadPiece, ring
<1>8. Awake'
  BY <1>1 DEF Awake, ring
<1> QED
  BY <1>6, <1>7, <1>8

LEMMA ReadCopyKeeps == IInv /\ ReadCopy => IInv'
<1> SUFFICES ASSUME IInv, ReadCopy PROVE IInv'
  OBVIOUS
<1> USE Sizes DEF IInv
<1> DEFINE bytes == [i \in 1..arg.n |-> rx_buf[rx_out + i - 1]]
<1>1. /\ UNCHANGED <<ring, irq_enable, hosttime, device, host, sent, delivered, handler>>
      /\ pc = "r_copy" /\ pc' = "r_publish" /\ arg' = [arg EXCEPT !.got = bytes]
  BY DEF ReadCopy, At, Goto
<1>2. arg \in Args /\ arg.n \in Nat /\ rx_out \in Nat /\ rx_buf \in [Index -> Byte]
  BY DEF RingTypes, LocalTypes, Args, Index
<1>3. bytes \in Seq(Byte)
  <2>1. rx_out + arg.n <= BUF_LEN
    BY <1>1 DEF ReadPiece
  <2>2. \A i \in 1..arg.n : rx_out + i - 1 \in Index
    BY <1>2, <2>1 DEF Index
  <2>3. \A i \in 1..arg.n : rx_buf[rx_out + i - 1] \in Byte
    BY <1>2, <2>2
  <2> QED
    BY <1>2, <2>3, IsASeq
<1> HIDE DEF bytes
<1>4. arg' \in Args /\ arg'.got = bytes /\ arg'.n = arg.n /\ arg'.left = arg.left
  BY <1>1, <1>2, <1>3 DEF Args
<1>5. RingTypes' /\ LocalTypes' /\ Fifos'
  BY <1>1, <1>4 DEF RingTypes, LocalTypes, Fifos, Labels, ring, device, host, hosttime,
                    handler
<1>6. WritePiece' /\ Awake'
  BY <1>1 DEF WritePiece, Awake, ring
<1>7. ReadPiece'
  BY <1>1, <1>4 DEF ReadPiece, ring, bytes
<1> QED
  BY <1>5, <1>6, <1>7

\* read() gives its caller the oldest bytes of the ring.
LEMMA ReadPublishTakes ==
  ASSUME IInv, ReadPublish
  PROVE  /\ rx_out' \in Index /\ arg.n \in 1..Held(rx_in, rx_out)
         /\ Held(rx_in, rx_out') = Held(rx_in, rx_out) - arg.n
         /\ arg.got \in Seq(Byte) /\ Len(arg.got) = arg.n
         /\ \A i \in 1..arg.n : arg.got[i] = Contents(rx_buf, rx_in, rx_out)[i]
         /\ Contents(rx_buf, rx_in, rx_out')
              = SubSeq(Contents(rx_buf, rx_in, rx_out), arg.n + 1, Held(rx_in, rx_out))
<1> USE DEF IInv
<1>1. /\ pc = "r_publish" /\ rx_out' = Moved(rx_out, arg.n)
      /\ rx_in \in Index /\ rx_out \in Index /\ rx_buf \in [Index -> Byte]
      /\ arg.n \in Index /\ arg.got \in Seq(Byte)
  BY DEF ReadPublish, At, Moved, RingTypes, LocalTypes, Args
<1>2. Held(rx_in, rx_out) \in Nat /\ Held(rx_in, rx_out) < BUF_LEN
  BY <1>1, HeldIs
<1>3. /\ 1 <= arg.n /\ rx_out + arg.n <= BUF_LEN /\ arg.n <= Held(rx_in, rx_out)
      /\ arg.got = [i \in 1..arg.n |-> rx_buf[rx_out + i - 1]]
  BY <1>1 DEF ReadPiece
<1>4. arg.n \in Nat /\ rx_out \in Nat /\ arg.n \in 1..Held(rx_in, rx_out)
  BY <1>1, <1>2, <1>3, Sizes DEF Index
<1>5. /\ Moved(rx_out, arg.n) \in Index
      /\ Held(rx_in, Moved(rx_out, arg.n)) = Held(rx_in, rx_out) - arg.n
      /\ Contents(rx_buf, rx_in, Moved(rx_out, arg.n))
           = SubSeq(Contents(rx_buf, rx_in, rx_out), arg.n + 1, Held(rx_in, rx_out))
  BY <1>1, <1>4, ContentsTaken
<1>6. Len(arg.got) = arg.n /\ \A i \in 1..arg.n : arg.got[i] = rx_buf[rx_out + i - 1]
  BY <1>3, <1>4
<1>7. ASSUME NEW i \in 1..arg.n
      PROVE  rx_buf[rx_out + i - 1] = Contents(rx_buf, rx_in, rx_out)[i]
  <2>1. i \in 1..Held(rx_in, rx_out) /\ i \in 1..BUF_LEN /\ rx_out + i - 1 < BUF_LEN
    BY <1>2, <1>3, <1>4, Sizes
  <2>2. Place(rx_out, i) = rx_out + i - 1
    BY <1>1, <2>1, PlaceIs
  <2>3. Contents(rx_buf, rx_in, rx_out)[i] = rx_buf[Place(rx_out, i)]
    BY <1>1, <2>1, ContentsIs
  <2> QED
    BY <2>2, <2>3
<1> QED
  BY <1>1, <1>4, <1>5, <1>6, <1>7

LEMMA ReadPublishKeeps == IInv /\ ReadPublish => IInv'
<1> SUFFICES ASSUME IInv, ReadPublish PROVE IInv'
  OBVIOUS
<1> USE Sizes DEF IInv
<1>1. /\ UNCHANGED <<rx_buf, rx_in, txring, irq_enable, hosttime, device, host, sent, handler>>
      /\ pc = "r_publish" /\ pc' \in {"r_loop", "r_test"}
  BY DEF ReadPublish, At, Goto
<1>2. arg' \in Args
  <2>1. arg' = [arg EXCEPT !.left = arg.left - arg.n, !.n = 0, !.done = arg.done + arg.n,
                           !.got = <<>>]
    BY DEF ReadPublish
  <2>2. /\ arg.left - arg.n \in 0..MaxCount /\ 0 \in Index /\ arg.done + arg.n \in Nat
        /\ <<>> \in Seq(Byte)
    BY <1>1 DEF LocalTypes, ReadPiece, Args, Index
  <2>3. arg \in Args
    BY DEF LocalTypes
  <2> QED
    BY <2>1, <2>2, <2>3 DEF Args
<1>3. RingTypes' /\ LocalTypes' /\ Fifos'
  BY <1>1, <1>2, ReadPublishTakes
     DEF RingTypes, LocalTypes, Fifos, Labels, txring, device, host, hosttime, handler
<1>4. WritePiece' /\ ReadPiece'
  BY <1>1 DEF WritePiece, ReadPiece, txring
<1>5. Awake'
  BY <1>1 DEF Awake, txring
<1> QED
  BY <1>3, <1>4, <1>5

\* What is left changes no ring; most of it only moves a label.
LEMMA OthersKeep ==
  ASSUME IInv,
         \/ HostFetch \/ HostType \/ HostPause \/ HostPlug
         \/ IsrEnter \/ IsrControl \/ IsrRxFull \/ IsrTxEnd
         \/ WriteKick \/ WriteSpin \/ WriteCheck \/ WriteReturn
         \/ ReadTest \/ ReadSpin \/ ReadCheck \/ ReadKick \/ ReadReturn \/ SetTimeout
  PROVE  IInv'
<1> USE Sizes DEF IInv, RingTypes, LocalTypes, Fifos, WritePiece, ReadPiece, Awake, Args,
                  Ctls, Labels, ring, device, host, hosttime, app, handler, At, Goto, Byte
<1>1. CASE HostFetch \/ HostType \/ HostPause \/ HostPlug
  <2>1. CASE HostFetch
    BY <2>1 DEF HostFetch
  <2>2. CASE HostType
    BY <2>2 DEF HostType
  <2>3. CASE HostPause
    BY <2>3 DEF HostPause
  <2>4. CASE HostPlug
    BY <2>4 DEF HostPlug
  <2> QED
    BY <1>1, <2>1, <2>2, <2>3, <2>4
<1>2. CASE IsrEnter \/ IsrRxFull
  <2>1. CASE IsrEnter
    BY <2>1 DEF IsrEnter
  <2>2. CASE IsrRxFull
    BY <2>2 DEF IsrRxFull
  <2> QED
    BY <1>2, <2>1, <2>2
<1>3. CASE IsrControl
  BY <1>3 DEF IsrControl, WI, RI, WSpace, NoCtl
<1>4. CASE IsrTxEnd
  BY <1>4 DEF IsrTxEnd, TxOff, NoCtl, MoreToSend
<1>5. CASE WriteKick \/ ReadKick
  BY <1>5 DEF WriteKick, ReadKick, Kick
<1>6. CASE WriteSpin \/ WriteCheck \/ ReadTest \/ ReadSpin \/ ReadCheck
  <2>1. CASE WriteSpin
    BY <2>1 DEF WriteSpin
  <2>2. CASE WriteCheck
    BY <2>2 DEF WriteCheck
  <2>3. CASE ReadTest
    BY <2>3 DEF ReadTest
  <2>4. CASE ReadSpin
    BY <2>4 DEF ReadSpin
  <2>5. CASE ReadCheck
    BY <2>5 DEF ReadCheck
  <2> QED
    BY <1>6, <2>1, <2>2, <2>3, <2>4, <2>5
<1>7. CASE WriteReturn \/ ReadReturn
  <2>1. CASE WriteReturn
    BY <2>1 DEF WriteReturn, Return, NoArg, Index
  <2>2. CASE ReadReturn
    BY <2>2 DEF ReadReturn, Return, NoArg, Index
  <2> QED
    BY <1>7, <2>1, <2>2
<1>8. CASE SetTimeout
  BY <1>8 DEF SetTimeout
<1> QED
  BY <1>1, <1>2, <1>3, <1>4, <1>5, <1>6, <1>7, <1>8

LEMMA InitInv == Init => IInv
<1> SUFFICES ASSUME Init PROVE IInv
  OBVIOUS
<1> USE Sizes DEF Init
<1>1. 0 \in Index /\ 0 \in Byte
  BY DEF Index, Byte
<1>2. arg \in Args
  <2>1. <<>> \in Seq(Byte) /\ 0 \in 0..MaxCount /\ 0 \in Nat
    OBVIOUS
  <2> QED
    BY <1>1, <2>1 DEF NoArg, Args
<1>3. ctl \in Ctls /\ ctl.space = 0
  BY DEF NoCtl, Ctls
<1>4. RingTypes /\ Fifos
  BY <1>1, <1>3 DEF RingTypes, Fifos
<1>5. LocalTypes
  <2>1. irq_enable \subseteq {"RE", "WE"} /\ host_inactive \in 0..InactiveMax
    OBVIOUS
  <2>2. use \in DOMAIN Timeouts /\ timeout \in Timeouts[use] \cup {INT_MAX}
    OBVIOUS
  <2>3. ac \in BOOLEAN /\ pause \in BOOLEAN /\ connected \in BOOLEAN
    OBVIOUS
  <2>4. pc \in Labels /\ isr \in {"idle", "control", "rx", "rxend", "tx"}
    BY DEF Labels
  <2> QED
    BY <1>2, <1>3, <2>1, <2>2, <2>3, <2>4 DEF LocalTypes
<1>6. WritePiece /\ ReadPiece /\ Awake
  BY DEF WritePiece, ReadPiece, Awake
<1> QED
  BY <1>4, <1>5, <1>6 DEF IInv

LEMMA StepInv == IInv /\ [Next]_vars => IInv'
<1> SUFFICES ASSUME IInv, [Next]_vars PROVE IInv'
  OBVIOUS
<1>1. CASE Next
  <2>1. CASE Isr
    BY <2>1, OthersKeep, RxByteKeeps, RxEmptyKeeps, RxEndKeeps, TxByteKeeps DEF Isr
  <2>2. CASE Call("write", "w_loop") \/ Call("read", "r_loop") \/ Call("close", "c_spin")
    BY <2>2, CallKeeps
  <2>3. CASE WriteSteps
    BY <2>3, OthersKeep, WriteMeasureKeeps, WriteCopyKeeps, WritePublishKeeps DEF WriteSteps
  <2>4. CASE ReadSteps
    BY <2>4, OthersKeep, ReadMeasureKeeps, ReadCopyKeeps, ReadPublishKeeps DEF ReadSteps
  <2>5. CASE HostFetch \/ HostType \/ HostPause \/ HostPlug \/ SetTimeout
    BY <2>5, OthersKeep
  <2> QED
    BY <1>1, <2>1, <2>2, <2>3, <2>4, <2>5, AlarmKeeps, CloseWaitKeeps DEF Next, AppSteps
<1>2. CASE UNCHANGED vars
  BY <1>2 DEF IInv, RingTypes, LocalTypes, Fifos, WritePiece, ReadPiece, Awake, vars, ring,
              device, host, hosttime, app, handler
<1> QED
  BY <1>1, <1>2

\* The inductive invariant holds of every state the driver reaches.
THEOREM JtagInvariance == Spec => []IInv
  BY InitInv, StepInv, PTL DEF Spec

\* The indexes stay in their rings, and the handler never fills the FIFO of the
\* device over its depth (altera_avalon_jtag_uart_init.c:173-185).
THEOREM JtagTyped == Spec => []TypeOK
<1>1. IInv => TypeOK
  <2> SUFFICES ASSUME IInv PROVE TypeOK
    OBVIOUS
  <2> USE Sizes DEF IInv
  <2>1. Len(tfifo) <= WriteDepth
    BY DEF Fifos, LocalTypes, Ctls
  <2> QED
    BY <2>1 DEF TypeOK, RingTypes, LocalTypes, Fifos, Args, Ctls
<1> QED
  BY <1>1, JtagInvariance, PTL

\* No byte stays in the transmit ring with nobody left to move it: interrupts are
\* on, or write() has still to turn them on
\* (altera_avalon_jtag_uart_write.c:141-143, _init.c:187-194).
THEOREM JtagNeverStranded == Spec => []TxNeverStranded
<1>1. IInv => TxNeverStranded
  BY DEF IInv, Awake, TxNeverStranded
<1> QED
  BY <1>1, JtagInvariance, PTL

-----------------------------------------------------------------------------
(* Each direction implements the byte pipe. *)

LEMMA TxInit == Init => TxPipe!Init
<1> SUFFICES ASSUME Init PROVE TxPipe!Init
  OBVIOUS
<1>1. Held(0, 0) = 0
  <2>1. 0 \in Index
    BY Sizes DEF Index
  <2> QED
    BY <2>1, HeldIs
<1>2. Contents(tx_buf, tx_in, tx_out) = <<>>
  BY <1>1 DEF Init, Contents
<1> QED
  BY <1>2 DEF Init, TxPipe!Init

LEMMA RxInit == Init => RxPipe!Init
<1> SUFFICES ASSUME Init PROVE RxPipe!Init
  OBVIOUS
<1>1. Held(0, 0) = 0
  <2>1. 0 \in Index
    BY Sizes DEF Index
  <2> QED
    BY <2>1, HeldIs
<1>2. Contents(rx_buf, rx_in, rx_out) = <<>>
  BY <1>1 DEF Init, Contents
<1> QED
  BY <1>2 DEF Init, RxPipe!Init

\* The host takes the first byte of the FIFO.
LEMMA TxTake ==
  ASSUME IInv, HostFetch
  PROVE  TxPipe!Take
<1> DEFINE c == Contents(tx_buf, tx_in, tx_out)
           q == tfifo \o c
<1>1. /\ tfifo \in Seq(Byte) /\ tfifo # <<>> /\ tfifo' = Tail(tfifo)
      /\ fetched' = <<Head(tfifo)>> /\ UNCHANGED <<sent, tx_buf, tx_in, tx_out>>
  BY DEF IInv, Fifos, HostFetch, ring, app
<1>2. c \in Seq(Byte)
  BY ContentsIs DEF IInv, RingTypes
<1>3. c' = c
  BY <1>1
<1> HIDE DEF c
<1>4. /\ q \in Seq(Byte) /\ Len(q) = Len(tfifo) + Len(c) /\ Len(tfifo) \in Nat
      /\ Len(tfifo) >= 1 /\ Len(c) \in Nat
  BY <1>1, <1>2
<1>5. 1 \in 1..Len(q)
  BY <1>4
<1>6. fetched' = SubSeq(q, 1, 1)
  BY <1>1, <1>2, <1>4
<1>7. Tail(tfifo) \o c = SubSeq(q, 1 + 1, Len(q))
  BY <1>1, <1>2, <1>4
<1>8. q' = SubSeq(q, 1 + 1, Len(q))
  BY <1>1, <1>3, <1>7
<1> QED
  BY <1>1, <1>5, <1>6, <1>8 DEF TxPipe!Take, c

\* write() puts its bytes at the end of the queue.
LEMMA TxPut ==
  ASSUME IInv, WritePublish
  PROVE  TxPipe!Put
<1> DEFINE c == Contents(tx_buf, tx_in, tx_out)
           e == [i \in 1..arg.n |-> (sent + i - 1) % 2]
           q == tfifo \o c
<1>1. /\ tfifo \in Seq(Byte) /\ Len(tfifo) <= WriteDepth
      /\ sent' = (sent + arg.n) % 2 /\ UNCHANGED <<fetched, tfifo, tx_buf, tx_out>>
  <2>1. Len(tfifo) <= WriteDepth
    BY Sizes DEF IInv, Fifos, LocalTypes, Ctls
  <2> QED
    BY <2>1 DEF IInv, Fifos, WritePublish, device, host
<1>2. c \in Seq(Byte) /\ Len(c) = Held(tx_in, tx_out)
  BY ContentsIs DEF IInv, RingTypes
<1>3. /\ c' = c \o e /\ arg.n \in Nat /\ arg.n >= 1
      /\ Held(tx_in, tx_out) + arg.n < BUF_LEN /\ Held(tx_in, tx_out) \in Nat
  <2>1. Held(tx_in, tx_out) \in Nat
    BY HeldIs DEF IInv, RingTypes
  <2>2. Held(tx_in, tx_out) + arg.n < BUF_LEN
    BY DEF IInv, WritePiece, WritePublish, At
  <2>3. c' = c \o e
    BY <1>1, WritePublishAdds
  <2> QED
    BY <2>1, <2>2, <2>3, WritePublishAdds
<1>4. e \in Seq(Byte)
  <2>1. \A i \in 1..arg.n : (sent + i - 1) % 2 \in Byte
    <3>1. sent \in Nat
      BY DEF IInv, RingTypes, Byte
    <3>2. \A x \in Nat : x % 2 \in Byte
      BY DEF Byte
    <3>3. \A i \in 1..arg.n : sent + i - 1 \in Nat
      BY <3>1, <1>3
    <3> QED
      BY <3>2, <3>3
  <2> QED
    BY <1>3, <2>1, IsASeq
<1> HIDE DEF c, e
<1>5. Len(q) = Len(tfifo) + Held(tx_in, tx_out) /\ Len(tfifo) \in Nat
  BY <1>1, <1>2
<1>6. arg.n \in 1..((BUF_LEN - 1 + WriteDepth) - Len(q))
  BY <1>1, <1>3, <1>5, Sizes
<1>7. tfifo \o (c \o e) = (tfifo \o c) \o e
  BY <1>1, <1>2, <1>4
<1>8. q' = q \o e
  BY <1>1, <1>3, <1>7
<1> QED
  BY <1>1, <1>6, <1>8 DEF TxPipe!Put, c, e
-----------------------------------------------------------------------------
(* Two sequences in a row. *)

\* Taking from the first.
LEMMA TakenFromFirst ==
  ASSUME NEW S, NEW q \in Seq(S), NEW r \in Seq(S), NEW n \in 1..Len(q)
  PROVE  /\ Len(q \o r) = Len(q) + Len(r)
         /\ SubSeq(q, n + 1, Len(q)) \o r = SubSeq(q \o r, n + 1, Len(q \o r))
         /\ \A i \in 1..n : (q \o r)[i] = q[i]
<1> DEFINE s == SubSeq(q, n + 1, Len(q))
           t == SubSeq(q \o r, n + 1, Len(q \o r))
<1>1. Len(q) \in Nat /\ Len(r) \in Nat /\ n \in Nat /\ 1 <= n /\ n <= Len(q)
  BY LenProperties
<1>2. /\ q \o r \in Seq(S) /\ Len(q \o r) = Len(q) + Len(r)
      /\ \A i \in 1..(Len(q) + Len(r)) : (q \o r)[i] = IF i <= Len(q) THEN q[i]
                                                      ELSE r[i - Len(q)]
  BY ConcatProperties
<1>3. /\ s \in Seq(S) /\ Len(s) = Len(q) - n
      /\ \A i \in 1..(Len(q) - n) : s[i] = q[n + i]
  BY <1>1, SubSeqProperties
<1>4. /\ t \in Seq(S) /\ Len(t) = Len(q) + Len(r) - n
      /\ \A i \in 1..(Len(q) + Len(r) - n) : t[i] = (q \o r)[n + i]
  <2> DEFINE p == q \o r
  <2>1. p \in Seq(S) /\ Len(p) = Len(q) + Len(r)
    BY <1>2
  <2> HIDE DEF p
  <2>2. /\ SubSeq(p, n + 1, Len(p)) \in Seq(S)
        /\ Len(SubSeq(p, n + 1, Len(p))) = Len(p) - n
        /\ \A i \in 1..(Len(p) - n) : SubSeq(p, n + 1, Len(p))[i] = p[n + i]
    BY <1>1, <2>1, SubSeqProperties
  <2> QED
    BY <2>1, <2>2 DEF p
<1> HIDE DEF s, t
<1>5. /\ s \o r \in Seq(S) /\ Len(s \o r) = Len(q) - n + Len(r)
      /\ \A i \in 1..(Len(q) - n + Len(r)) : (s \o r)[i] = IF i <= Len(q) - n THEN s[i]
                                                          ELSE r[i - (Len(q) - n)]
  <2>1. /\ s \o r \in Seq(S) /\ Len(s \o r) = Len(s) + Len(r)
        /\ \A i \in 1..(Len(s) + Len(r)) : (s \o r)[i] = IF i <= Len(s) THEN s[i]
                                                         ELSE r[i - Len(s)]
    BY <1>3, ConcatProperties
  <2> QED
    BY <1>3, <2>1, Zenon
<1>6. ASSUME NEW i \in 1..(Len(q) + Len(r) - n) PROVE (s \o r)[i] = t[i]
  <2>1. n + i \in 1..(Len(q) + Len(r))
    BY <1>1
  <2>2. t[i] = IF n + i <= Len(q) THEN q[n + i] ELSE r[n + i - Len(q)]
    BY <1>2, <1>4, <2>1
  <2>3. CASE i <= Len(q) - n
    BY <1>1, <1>3, <1>5, <2>2, <2>3
  <2>4. CASE i > Len(q) - n
    <3>1. i - (Len(q) - n) = n + i - Len(q) /\ ~(n + i <= Len(q)) /\ ~(i <= Len(q) - n)
      BY <1>1, <2>4
    <3>2. (s \o r)[i] = r[i - (Len(q) - n)]
      BY <1>1, <1>5, <3>1
    <3> QED
      BY <2>2, <3>1, <3>2
  <2>5. i <= Len(q) - n \/ i > Len(q) - n
    BY <1>1
  <2> QED
    BY <2>3, <2>4, <2>5
<1>7. s \o r = t
  <2>1. Len(q) - n + Len(r) = Len(q) + Len(r) - n
    BY <1>1
  <2> QED
    BY <1>4, <1>5, <1>6, <2>1, SeqEqual
<1>8. \A i \in 1..n : (q \o r)[i] = q[i]
  BY <1>1, <1>2
<1> QED
  BY <1>2, <1>7, <1>8 DEF s, t

\* Moving the first of the second to the end of the first.
LEMMA MovedToFirst ==
  ASSUME NEW q \in Seq(Byte), NEW r \in Seq(Byte), r # <<>>
  PROVE  Append(q, r[1]) \o SubSeq(r, 2, Len(r)) = q \o r
<1>1. Len(r) \in Nat /\ Len(r) >= 1 /\ r[1] \in Byte
  <2>1. Len(r) \in Nat /\ Len(r) >= 1
    BY LenProperties, EmptySeq
  <2> QED
    BY <2>1, ElementOfSeq
<1>2. \A i \in 2..Len(r) : r[i] \in Byte
  BY <1>1, ElementOfSeq
<1>3. SubSeq(r, 2, Len(r)) \in Seq(Byte) /\ <<r[1]>> \in Seq(Byte)
  <2>1. 2 \in Int /\ Len(r) \in Int
    BY <1>1
  <2> QED
    BY <1>1, <1>2, <2>1, SubSeqProperties
<1>4. <<r[1]>> \o SubSeq(r, 2, Len(r)) = r
  <2>1. 1 \in 1..Len(r) /\ Len(r) \in 1..Len(r)
    BY <1>1
  <2>2. SubSeq(r, 1, Len(r)) = <<r[1]>> \o SubSeq(r, 1 + 1, Len(r))
    BY <2>1, SubSeqRecursiveFirst
  <2> QED
    BY <2>2, SubSeqFull
<1>5. Append(q, r[1]) = q \o <<r[1]>>
  BY <1>1, AppendIsConcat
<1>6. (q \o <<r[1]>>) \o SubSeq(r, 2, Len(r)) = q \o (<<r[1]>> \o SubSeq(r, 2, Len(r)))
  <2> DEFINE one == <<r[1]>>
             rest == SubSeq(r, 2, Len(r))
  <2>1. one \in Seq(Byte) /\ rest \in Seq(Byte)
    BY <1>3
  <2> HIDE DEF one, rest
  <2>2. (q \o one) \o rest = q \o (one \o rest)
    BY <2>1, ConcatAssociative
  <2> QED
    BY <2>2 DEF one, rest
<1> QED
  BY <1>4, <1>5, <1>6


\* A byte the handler moves to the FIFO stays at its place in the queue.
LEMMA TxMove ==
  ASSUME IInv, IsrTxByte
  PROVE  UNCHANGED TxPipe!vars
<1> DEFINE c == Contents(tx_buf, tx_in, tx_out)
           d == Contents(tx_buf, tx_in, tx_out')
           b == tx_buf[tx_out]
<1>1. /\ tfifo \in Seq(Byte) /\ tfifo' = Append(tfifo, b)
      /\ UNCHANGED <<sent, fetched, tx_buf, tx_in>>
  BY DEF IInv, Fifos, IsrTxByte, host, app
<1>2. c \in Seq(Byte) /\ Len(c) = Held(tx_in, tx_out) /\ Held(tx_in, tx_out) \in Nat
  BY ContentsIs, HeldIs DEF IInv, RingTypes
<1>3. b \in Byte /\ c[1] = b /\ Len(c) >= 1 /\ d = SubSeq(c, 2, Len(c))
  BY <1>2, TxByteTakes
<1>4. Contents(tx_buf, tx_in, tx_out)' = d
  BY <1>1
<1> HIDE DEF c, d, b
<1>5. Append(tfifo, b) \o SubSeq(c, 2, Len(c)) = tfifo \o c
  <2>1. c # <<>>
    BY <1>2, <1>3
  <2> QED
    BY <1>1, <1>2, <1>3, <2>1, MovedToFirst
<1>6. (tfifo \o Contents(tx_buf, tx_in, tx_out))' = tfifo \o Contents(tx_buf, tx_in, tx_out)
  BY <1>1, <1>3, <1>4, <1>5 DEF c
<1> QED
  BY <1>1, <1>6 DEF TxPipe!vars

\* The copy of write() goes to places that hold nothing.
LEMMA TxCopy ==
  ASSUME IInv, WriteCopy
  PROVE  UNCHANGED TxPipe!vars
<1>1. /\ tx_in \in Index /\ tx_out \in Index /\ tx_buf \in [Index -> Byte]
      /\ tx_buf' \in [Index -> Byte] /\ arg.n \in Index
      /\ UNCHANGED <<tfifo, sent, fetched, tx_in, tx_out>>
  <2>1. IInv'
    BY WriteCopyKeeps
  <2> QED
    BY <2>1 DEF IInv, RingTypes, LocalTypes, Args, WriteCopy, device, host
<1>2. /\ tx_in + arg.n <= BUF_LEN /\ Held(tx_in, tx_out) + arg.n < BUF_LEN
      /\ tx_buf' = [i \in Index |-> IF i >= tx_in /\ i < tx_in + arg.n
                                    THEN (sent + i - tx_in) % 2 ELSE tx_buf[i]]
  BY DEF IInv, WritePiece, WriteCopy, At
<1> DEFINE h == Held(tx_in, tx_out)
<1>3. /\ h \in Nat /\ h < BUF_LEN
      /\ h = IF tx_in >= tx_out THEN tx_in - tx_out ELSE tx_in + BUF_LEN - tx_out
      /\ h + arg.n < BUF_LEN
  BY <1>1, <1>2, HeldIs
<1> HIDE DEF h
<1>4. ASSUME NEW i \in 1..h
      PROVE  tx_buf[Place(tx_out, i)] = tx_buf'[Place(tx_out, i)]
  <2>1. i \in 1..BUF_LEN
    BY <1>3, Sizes
  <2>2. /\ Place(tx_out, i) \in Index
        /\ Place(tx_out, i) = IF tx_out + i - 1 < BUF_LEN THEN tx_out + i - 1
                                                ELSE tx_out + i - 1 - BUF_LEN
    BY <1>1, <2>1, PlaceIs
  <2>3. /\ tx_in \in Nat /\ tx_out \in Nat /\ arg.n \in Nat
        /\ tx_in < BUF_LEN /\ tx_out < BUF_LEN
    BY <1>1, Sizes DEF Index
  <2>4. ~(Place(tx_out, i) >= tx_in /\ Place(tx_out, i) < tx_in + arg.n)
    BY <1>2, <1>3, <2>1, <2>2, <2>3, Sizes
  <2> HIDE DEF h
  <2> QED
    BY <1>2, <2>2, <2>4
<1>5. Contents(tx_buf, tx_in, tx_out) = Contents(tx_buf', tx_in, tx_out)
  BY <1>1, <1>4, ContentsSame DEF h
<1>6. (tfifo \o Contents(tx_buf, tx_in, tx_out))' = tfifo \o Contents(tx_buf, tx_in, tx_out)
  BY <1>1, <1>5
<1> QED
  BY <1>1, <1>6 DEF TxPipe!vars

\* Every step puts bytes at the end, takes them from the front, or leaves the queue.
LEMMA TxStep == IInv /\ [Next]_vars => [TxPipe!Next]_(TxPipe!vars)
<1> SUFFICES ASSUME IInv, [Next]_vars PROVE [TxPipe!Next]_(TxPipe!vars)
  OBVIOUS
<1>1. UNCHANGED <<tx_buf, tx_in, tx_out, tfifo, sent, fetched>> => UNCHANGED TxPipe!vars
  BY DEF TxPipe!vars
<1>2. CASE HostFetch
  BY <1>2, TxTake DEF TxPipe!Next
<1>3. CASE WritePublish
  BY <1>3, TxPut DEF TxPipe!Next
<1>4. CASE WriteCopy \/ IsrTxByte
  BY <1>4, TxMove, TxCopy
<1>5. CASE HostType \/ HostPause \/ HostPlug \/ Alarm \/ SetTimeout \/ CloseWait
  BY <1>1, <1>5 DEF HostType, HostPause, HostPlug, Alarm, SetTimeout, CloseWait, ring,
                    device, host, app
<1>6. CASE IsrEnter \/ IsrControl \/ IsrRxByte \/ IsrRxEmpty \/ IsrRxFull \/ IsrRxEnd
           \/ IsrTxEnd
  BY <1>1, <1>6 DEF IsrEnter, IsrControl, IsrRxByte, IsrRxEmpty, IsrRxFull, IsrRxEnd,
                    IsrTxEnd, ring, txring, device, host, app
<1>7. CASE Call("write", "w_loop") \/ Call("read", "r_loop") \/ Call("close", "c_spin")
  BY <1>1, <1>7 DEF Call, ring, device, host
<1>8. CASE WriteMeasure \/ WriteKick \/ WriteSpin \/ WriteCheck \/ WriteReturn
  BY <1>1, <1>8 DEF WriteMeasure, WriteKick, WriteSpin, WriteCheck, WriteReturn, ring,
                    device, host
<1>9. CASE ReadSteps
  BY <1>1, <1>9 DEF ReadSteps, ReadMeasure, ReadCopy, ReadPublish, ReadTest, ReadSpin,
                    ReadCheck, ReadKick, ReadReturn, ring, txring, device, host
<1>10. CASE UNCHANGED vars
  BY <1>1, <1>10 DEF vars, ring, device, host, app
<1> QED
  BY <1>2, <1>3, <1>4, <1>5, <1>6, <1>7, <1>8, <1>9, <1>10
     DEF Next, Isr, AppSteps, WriteSteps

\* Every byte write() takes reaches the host once and in the order it was written,
\* whatever the handler does between two steps of write()
\* (altera_avalon_jtag_uart_write.c:102-193, _init.c:159-195).
THEOREM JtagTransmits == Spec => TxIsPipe
  BY TxInit, TxStep, JtagInvariance, PTL DEF Spec, TxIsPipe, TxPipe!Spec

\* The handler takes a byte from the FIFO: it stays at its place in the queue.
LEMMA RxMove ==
  ASSUME IInv, IsrRxByte
  PROVE  UNCHANGED RxPipe!vars
<1> DEFINE c == Contents(rx_buf, rx_in, rx_out)
<1>1. /\ rfifo \in Seq(Byte) /\ rfifo # <<>> /\ rfifo' = Tail(rfifo)
      /\ UNCHANGED <<rx_out, typed, delivered>>
  BY DEF IInv, Fifos, IsrRxByte, host, app
<1>2. c \in Seq(Byte)
  BY ContentsIs DEF IInv, RingTypes
<1>3. Contents(rx_buf, rx_in, rx_out)' = c \o <<Head(rfifo)>>
  BY <1>1, RxByteAdds
<1> HIDE DEF c
<1>4. (c \o <<Head(rfifo)>>) \o Tail(rfifo) = c \o rfifo
  BY <1>1, <1>2
<1>5. (Contents(rx_buf, rx_in, rx_out) \o rfifo)' = Contents(rx_buf, rx_in, rx_out) \o rfifo
  BY <1>1, <1>3, <1>4 DEF c
<1> QED
  BY <1>1, <1>5 DEF RxPipe!vars

\* A byte from the host goes to the end of the queue, whether the handler is
\* reading the FIFO at that moment or not.
LEMMA RxPut ==
  ASSUME IInv, UNCHANGED <<rx_buf, rx_in, rx_out, delivered>>, Len(rfifo) < ReadDepth,
         rfifo' = Append(rfifo, typed), typed' = 1 - typed
  PROVE  RxPipe!Put
<1> DEFINE c == Contents(rx_buf, rx_in, rx_out)
           e == [i \in 1..1 |-> (typed + i - 1) % 2]
<1>1. rfifo \in Seq(Byte) /\ typed \in Byte
  BY DEF IInv, Fifos, RingTypes
<1>2. /\ c \in Seq(Byte) /\ Len(c) = Held(rx_in, rx_out)
      /\ Held(rx_in, rx_out) \in Nat /\ Held(rx_in, rx_out) < BUF_LEN
  <2>1. rx_in \in Index /\ rx_out \in Index /\ rx_buf \in [Index -> Byte]
    BY DEF IInv, RingTypes
  <2> QED
    BY <2>1, ContentsIs, HeldIs
<1>3. c' = c
  OBVIOUS
<1>4. e = <<typed>> /\ typed' = (typed + 1) % 2
  <2>1. \A i \in 1..1 : (typed + i - 1) % 2 = typed
    BY <1>1 DEF Byte
  <2>2. 1 - typed = (typed + 1) % 2
    BY <1>1 DEF Byte
  <2> QED
    BY <2>1, <2>2
<1> HIDE DEF c, e
<1>5. (c \o rfifo) \o e = c \o Append(rfifo, typed)
  <2> DEFINE one == <<typed>>
  <2>1. one \in Seq(Byte)
    BY <1>1
  <2>2. Append(rfifo, typed) = rfifo \o one
    BY <1>1, AppendIsConcat
  <2> HIDE DEF one
  <2>3. (c \o rfifo) \o one = c \o (rfifo \o one)
    <3>1. c \in Seq(Byte) /\ rfifo \in Seq(Byte) /\ one \in Seq(Byte)
      BY <1>1, <1>2, <2>1
    <3> QED
      BY ONLY <3>1, ConcatAssociative
  <2> QED
    BY <1>4, <2>2, <2>3 DEF one
<1>6. Len(c \o rfifo) = Len(c) + Len(rfifo) /\ Len(rfifo) \in Nat /\ Len(c) \in Nat
  BY <1>1, <1>2, ConcatProperties, LenProperties
<1>7. 1 \in 1..((BUF_LEN - 1 + ReadDepth) - Len(c \o rfifo))
  BY <1>2, <1>6, Sizes
<1>8. (c \o rfifo)' = (c \o rfifo) \o e
  BY <1>3, <1>5
<1> QED
  BY <1>4, <1>7, <1>8 DEF RxPipe!Put, c, e

\* read() gives the first bytes of the queue and takes them away.
LEMMA RxTake ==
  ASSUME IInv, ReadPublish
  PROVE  RxPipe!Take
<1> DEFINE c == Contents(rx_buf, rx_in, rx_out)
           n == arg.n
           got == arg.got
           q == c \o rfifo
           d == Contents(rx_buf, rx_in, rx_out')
<1>1. /\ rfifo \in Seq(Byte) /\ UNCHANGED <<rx_buf, rx_in, rfifo, typed>>
      /\ delivered' = got
  BY DEF IInv, Fifos, ReadPublish, device, host
<1>2. c \in Seq(Byte) /\ Len(c) = Held(rx_in, rx_out) /\ Held(rx_in, rx_out) \in Nat
  <2>1. rx_in \in Index /\ rx_out \in Index /\ rx_buf \in [Index -> Byte]
    BY DEF IInv, RingTypes
  <2> QED
    BY <2>1, ContentsIs, HeldIs
<1>3. /\ n \in 1..Len(c) /\ got \in Seq(Byte) /\ Len(got) = n
      /\ \A i \in 1..n : got[i] = c[i]
      /\ d = SubSeq(c, n + 1, Len(c))
  BY <1>2, ReadPublishTakes
<1>4. Contents(rx_buf, rx_in, rx_out)' = d
  BY <1>1
<1> HIDE DEF c, n, got, d
<1>5. /\ Len(q) = Len(c) + Len(rfifo) /\ \A i \in 1..n : q[i] = c[i]
      /\ SubSeq(c, n + 1, Len(c)) \o rfifo = SubSeq(q, n + 1, Len(q))
  BY <1>1, <1>2, <1>3, TakenFromFirst
<1>6. q \in Seq(Byte) /\ Len(rfifo) \in Nat /\ n \in Nat /\ n \in 1..Len(q)
  <2>1. q \in Seq(Byte) /\ Len(rfifo) \in Nat
    BY <1>1, <1>2, ConcatProperties, LenProperties
  <2> QED
    BY <1>2, <1>3, <1>5, <2>1
<1> HIDE DEF q
<1>7. got = SubSeq(q, 1, n)
  <2>1. /\ SubSeq(q, 1, n) \in Seq(Byte) /\ Len(SubSeq(q, 1, n)) = n
        /\ \A i \in 1..n : SubSeq(q, 1, n)[i] = q[i]
    BY <1>6, SubSeqProperties
  <2>2. \A i \in 1..n : got[i] = SubSeq(q, 1, n)[i]
    BY <1>3, <1>5, <2>1
  <2> QED
    BY <1>3, <2>1, <2>2, SeqEqual
<1>8. d \o rfifo = SubSeq(q, n + 1, Len(q))
  BY <1>3, <1>5
<1>9. (c \o rfifo)' = SubSeq(q, n + 1, Len(q))
  BY <1>1, <1>4, <1>8 DEF c
<1> QED
  BY <1>1, <1>6, <1>7, <1>9 DEF RxPipe!Take, c, n, got, q

LEMMA RxStep == IInv /\ [Next]_vars => [RxPipe!Next]_(RxPipe!vars)
<1> SUFFICES ASSUME IInv, [Next]_vars PROVE [RxPipe!Next]_(RxPipe!vars)
  OBVIOUS
<1>1. UNCHANGED <<rx_buf, rx_in, rx_out, rfifo, typed, delivered>> => UNCHANGED RxPipe!vars
  BY DEF RxPipe!vars
<1>2. CASE HostType
  BY <1>2, RxPut DEF HostType, ring, app, RxPipe!Next
<1>3. CASE ReadPublish
  BY <1>3, RxTake DEF RxPipe!Next
<1>4. CASE IsrRxByte
  BY <1>4, RxMove
<1>5. CASE IsrRxEmpty
  <2>1. UNCHANGED <<ring, delivered>> /\ rfifo = <<>>
    BY <1>5 DEF IsrRxEmpty, app
  <2>2. CASE UNCHANGED <<rfifo, ac, typed>>
    BY <2>1, <2>2, <1>1 DEF ring
  <2>3. CASE rfifo' = <<typed>> /\ typed' = 1 - typed
    <3>1. rfifo' = Append(rfifo, typed) /\ Len(rfifo) < ReadDepth
      BY <2>1, <2>3, Sizes
    <3> QED
      BY <2>1, <2>3, <3>1, RxPut DEF ring, RxPipe!Next
  <2> QED
    BY <1>5, <2>2, <2>3 DEF IsrRxEmpty
<1>6. CASE HostFetch \/ HostPause \/ HostPlug \/ Alarm \/ SetTimeout \/ CloseWait
  BY <1>1, <1>6 DEF HostFetch, HostPause, HostPlug, Alarm, SetTimeout, CloseWait, ring,
                    device, host, app
<1>7. CASE IsrEnter \/ IsrControl \/ IsrRxFull \/ IsrRxEnd \/ IsrTxByte \/ IsrTxEnd
  BY <1>1, <1>7 DEF IsrEnter, IsrControl, IsrRxFull, IsrRxEnd, IsrTxByte, IsrTxEnd, ring,
                    rxring, device, host, app
<1>8. CASE Call("write", "w_loop") \/ Call("read", "r_loop") \/ Call("close", "c_spin")
  BY <1>1, <1>8 DEF Call, ring, device, host
<1>9. CASE WriteSteps
  BY <1>1, <1>9 DEF WriteSteps, WriteMeasure, WriteCopy, WritePublish, WriteKick, WriteSpin,
                    WriteCheck, WriteReturn, ring, rxring, device, host
<1>10. CASE ReadMeasure \/ ReadCopy \/ ReadTest \/ ReadSpin \/ ReadCheck \/ ReadKick
            \/ ReadReturn
  BY <1>1, <1>10 DEF ReadMeasure, ReadCopy, ReadTest, ReadSpin, ReadCheck, ReadKick,
                     ReadReturn, ring, device, host
<1>11. CASE UNCHANGED vars
  BY <1>1, <1>11 DEF vars, ring, device, host, app
<1> QED
  BY <1>2, <1>3, <1>4, <1>5, <1>6, <1>7, <1>8, <1>9, <1>10, <1>11
     DEF Next, Isr, AppSteps, ReadSteps

\* Every byte the host types is returned by read() once and in order, whatever the
\* handler does between two steps of read() (altera_avalon_jtag_uart_read.c:105-213,
\* _init.c:110-157).
THEOREM JtagReceives == Spec => RxIsPipe
  BY RxInit, RxStep, JtagInvariance, PTL DEF Spec, RxIsPipe, RxPipe!Spec

=============================================================================
