--------------------------- MODULE TelecranProofs ---------------------------
(***************************************************************************)
(* The picture, from the frame buffer to the receiver.  First the link:    *)
(* for every geometry, every pixel of the raster reaches the receiver in   *)
(* its place, in whole lines, and none during a sync pulse.  All registers *)
(* are functions of the two counters, and the invariant says which; only   *)
(* the receiver needs more, for it does not know of a reset and counts     *)
(* anything until the next pulses.                                         *)
(*                                                                         *)
(* Then the screen: for every size of the picture, range of the pen and    *)
(* width of the address bus, the frame buffer behaves as a magic screen.   *)
(* The raster only reads it, so none of its variables appears in that      *)
(* invariant.                                                              *)
(*                                                                         *)
(* Last the transmitter: whatever it takes as a write of its configuration *)
(* is an entry of the table or the one word a restart tears, and the table *)
(* moves on only from an entry that arrived.  That invariant follows a     *)
(* byte through the shift register: the bits the transmitter has and those *)
(* still to come make up the byte at every edge.  Of the table it matters  *)
(* only that its words have 16 bits.  Around that it says which word is    *)
(* under way while the table moves or restarts, and what a reset in the    *)
(* middle of it leaves on the bus.                                         *)
(***************************************************************************)
EXTENDS VideoLink, Telecran, HdmiConfigProps, TLAPS

-----------------------------------------------------------------------------
(* The link. *)

\* The counts for which r_h_active and r_v_active are set.
HActive(h) == h_start < h /\ h <= h_end
VActive(v) == v_start < v /\ v <= v_end

\* Pixels of a line that have been counted, and lines.
Pixels(h) == IF h <= h_start THEN 0 ELSE IF h <= h_end THEN h - h_start - 1 ELSE h_res
Line(v) == v - v_start - 1

Counters == r_h_count \in 0..h_total /\ r_v_count \in 0..v_total

Windows == /\ r_h_active <=> HActive(r_h_count)
           /\ r_v_active <=> VActive(r_v_count)

\* o_hdmi_de is a clock behind the windows.
Enable == o_hdmi_de <=> r_h_count > 0 /\ HActive(r_h_count - 1) /\ VActive(r_v_count)

\* The pulses; a count of 0 is also what a reset leaves, with both wires high.
Pulses == /\ r_h_count > h_sync => o_hdmi_hs
          /\ r_h_count <= h_sync /\ (r_h_count > 0 \/ r_v_count > 0) => ~o_hdmi_hs
          /\ r_v_count > v_sync => o_hdmi_vs
          /\ r_v_count <= v_sync /\ r_v_count > 0 => ~o_hdmi_vs

AddressIs == r_pixel_address =
  IF ~VActive(r_v_count) \/ (r_v_count = v_end /\ r_h_count > h_end) THEN 0
  ELSE Line(r_v_count) * h_res + Pixels(r_h_count)

\* What port B puts out while a pixel is sent.
SentIs == o_hdmi_de =>
  sent = Line(r_v_count) * h_res + Pixels(r_h_count - 1)

\* The receiver has seen a pulse of a line at the second pixel, and of a frame
\* in the second line.
ColumnIs == r_v_count > 0 \/ r_h_count > 1 =>
  col = IF r_h_count = 0 THEN IF VActive(r_v_count - 1) THEN h_res ELSE 0
        ELSE IF VActive(r_v_count) THEN Pixels(r_h_count - 1) ELSE 0

RowIs == /\ r_h_count > 0 /\ r_v_count > 0 /\ r_v_count <= v_end =>
              row = IF r_v_count <= v_start THEN 0 ELSE Line(r_v_count)
         /\ r_h_count = 0 /\ r_v_count > 1 /\ r_v_count <= v_end =>
              row = IF r_v_count <= v_start + 1 THEN 0 ELSE Line(r_v_count) - 1

Reception == col \in Nat /\ row \in Nat /\ ColumnIs /\ RowIs

IInv == Counters /\ Windows /\ Enable /\ Pulses /\ AddressIs /\ SentIs /\ Reception

-----------------------------------------------------------------------------

\* What the proofs need of the geometry: every part is there.
LEMMA Geometry ==
  /\ h_res \in Nat /\ h_res >= 1 /\ v_res \in Nat /\ v_res >= 1
  /\ h_sync \in Nat /\ h_start \in Nat /\ h_end \in Nat /\ h_total \in Nat
  /\ 1 <= h_sync /\ h_sync < h_start /\ h_end = h_start + h_res /\ h_end < h_total
  /\ v_sync \in Nat /\ v_start \in Nat /\ v_end \in Nat /\ v_total \in Nat
  /\ 1 <= v_sync /\ v_sync < v_start /\ v_end = v_start + v_res /\ v_end < v_total
<1>1. /\ h_res \in Nat \ {0} /\ v_res \in Nat \ {0} /\ h_sync \in Nat \ {0}
      /\ h_fp \in Nat \ {0} /\ h_bp \in Nat \ {0} /\ v_sync \in Nat \ {0}
      /\ v_fp \in Nat \ {0} /\ v_bp \in Nat \ {0}
  BY GenericsAssumption
<1> QED
  BY <1>1 DEF h_start, h_end, h_total, v_start, v_end, v_total

\* The first cell of a line follows the last one of the line before.
LEMMA NextLine == \A a, b \in Int : (a + 1) * b = a * b + b
  BY Z3

LEMMA InFrame ==
  ASSUME NEW l \in 0..(v_res - 1), NEW c \in 0..h_res, l < v_res - 1 \/ c < h_res
  PROVE  l * h_res + c \in 0..(h_res * v_res - 1)
<1>1. l \in Int /\ c \in Int /\ h_res \in Int /\ v_res \in Int
  BY Geometry
<1>2. l * h_res >= 0
  BY <1>1, Geometry, Z3
<1>3. (v_res - 1) * h_res + h_res = h_res * v_res
  BY <1>1, Z3
<1>4. CASE l < v_res - 1
  <2>1. (l + 1) * h_res <= (v_res - 1) * h_res
    BY <1>1, <1>4, Geometry, Z3
  <2>2. (l + 1) * h_res = l * h_res + h_res
    BY <1>1, NextLine
  <2> QED
    BY <1>1, <1>2, <1>3, <2>1, <2>2, Geometry
<1>5. CASE l = v_res - 1 /\ c < h_res
  BY <1>1, <1>2, <1>3, <1>5, Geometry
<1> QED
  BY <1>4, <1>5, Geometry

\* The FPGA starts in the state of a reset; the receiver's counters are kept.
LEMMA InitInv == LinkInit => IInv
<1> SUFFICES ASSUME LinkInit PROVE IInv
  OBVIOUS
<1> USE Geometry
<1>1. Counters /\ Windows /\ Enable
  BY DEF LinkInit, Init, Counters, Windows, Enable, HActive, VActive
<1>2. Pulses /\ AddressIs /\ SentIs
  BY DEF LinkInit, Init, Pulses, AddressIs, SentIs, VActive
<1>3. Reception
  BY DEF LinkInit, Init, Reception, ColumnIs, RowIs
<1> QED
  BY <1>1, <1>2, <1>3 DEF IInv

LEMMA ResetInv == IInv /\ LinkReset => IInv'
<1> SUFFICES ASSUME IInv, LinkReset PROVE IInv'
  OBVIOUS
<1> USE Geometry
<1>1. Counters' /\ Windows' /\ Enable'
  BY DEF LinkReset, Reset, Counters, Windows, Enable, HActive, VActive
<1>2. Pulses' /\ AddressIs' /\ SentIs'
  BY DEF LinkReset, Reset, Pulses, AddressIs, SentIs, VActive
<1>3. Reception'
  BY DEF LinkReset, Reset, Reception, ColumnIs, RowIs, IInv
<1> QED
  BY <1>1, <1>2, <1>3 DEF IInv

-----------------------------------------------------------------------------
(* A clock edge. *)

LEMMA CountersKept ==
  ASSUME IInv, LinkTick
  PROVE  /\ Counters'
         /\ r_h_count = h_total => /\ r_h_count' = 0
                                   /\ r_v_count' = IF r_v_count = v_total THEN 0
                                                   ELSE r_v_count + 1
         /\ r_h_count # h_total => r_h_count' = r_h_count + 1 /\ r_v_count' = r_v_count
BY Geometry DEF IInv, Counters, LinkTick, Tick, Horizontal, Vertical

LEMMA WindowsKept ==
  ASSUME IInv, LinkTick
  PROVE  Windows'
<1> USE Geometry
<1>1. r_h_active' <=> HActive(r_h_count')
  BY CountersKept
     DEF IInv, Counters, Windows, LinkTick, Tick, Horizontal, Window, HActive
<1>2. r_v_active' <=> VActive(r_v_count')
  <2>1. CASE r_h_count = h_total
    <3>1. r_v_active' <=> r_v_count = v_start \/ (r_v_count # v_end /\ r_v_active)
      BY <2>1 DEF LinkTick, Tick, Vertical, Window
    <3> QED
      BY <2>1, <3>1, CountersKept DEF IInv, Counters, Windows, VActive
  <2>2. CASE r_h_count # h_total
    BY <2>2, CountersKept DEF IInv, Windows, LinkTick, Tick, Vertical
  <2> QED
    BY <2>1, <2>2
<1> QED
  BY <1>1, <1>2 DEF Windows

LEMMA EnableKept ==
  ASSUME IInv, LinkTick
  PROVE  Enable'
<1> USE Geometry
<1>1. o_hdmi_de' <=> HActive(r_h_count) /\ VActive(r_v_count)
  BY DEF IInv, Windows, LinkTick, Tick, DataEnable, ActivePixel
<1>2. CASE r_h_count = h_total
  BY <1>1, <1>2, CountersKept DEF Enable, HActive
<1>3. CASE r_h_count # h_total
  BY <1>1, <1>3, CountersKept DEF Enable, HActive, IInv, Counters
<1> QED
  BY <1>2, <1>3

LEMMA PulsesKept ==
  ASSUME IInv, LinkTick
  PROVE  Pulses'
<1> USE Geometry
<1>1. o_hdmi_hs' <=> r_h_count >= h_sync /\ r_h_count # h_total
  BY DEF LinkTick, Tick, Horizontal
<1>2. /\ r_h_count' > h_sync => o_hdmi_hs'
      /\ r_h_count' <= h_sync => ~o_hdmi_hs'
  BY <1>1, CountersKept DEF IInv, Counters
<1>3. /\ r_v_count' > v_sync => o_hdmi_vs'
      /\ r_v_count' <= v_sync /\ r_v_count' > 0 => ~o_hdmi_vs'
  <2>1. CASE r_h_count = h_total
    <3>1. o_hdmi_vs' <=> r_v_count >= v_sync /\ r_v_count # v_total
      BY <2>1 DEF LinkTick, Tick, Vertical
    <3> QED
      BY <2>1, <3>1, CountersKept DEF IInv, Counters
  <2>2. CASE r_h_count # h_total
    BY <2>2 DEF LinkTick, Tick, Vertical, IInv, Pulses
  <2> QED
    BY <2>1, <2>2
<1> QED
  BY <1>2, <1>3 DEF Pulses

LEMMA AddressKept ==
  ASSUME IInv, LinkTick
  PROVE  AddressIs'
<1> USE Geometry
<1> DEFINE h == r_h_count
           v == r_v_count
           L(x) == Line(x) * h_res
<1>1. h \in 0..h_total /\ v \in 0..v_total
  BY DEF IInv, Counters
<1>2. L(v) \in Int /\ L(v + 1) = L(v) + h_res /\ L(v_start + 1) = 0
  BY <1>1, NextLine DEF Line
<1>3. CASE HActive(h) /\ VActive(v)
  <2>1. h # h_total /\ h' = h + 1 /\ v' = v
    BY <1>3, CountersKept DEF HActive
  <2>2. r_pixel_address' = IF h = h_end /\ v = v_end THEN 0 ELSE r_pixel_address + 1
    BY <1>3 DEF IInv, Windows, LinkTick, Tick, Address, ActivePixel, LastPixel
  <2>3. r_pixel_address = L(v) + h - h_start - 1
    BY <1>1, <1>2, <1>3 DEF IInv, AddressIs, Pixels, HActive
  <2> QED
    BY <1>1, <1>2, <1>3, <2>1, <2>2, <2>3 DEF AddressIs, Pixels, HActive, VActive
<1>4. CASE ~(HActive(h) /\ VActive(v))
  <2>1. r_pixel_address' = r_pixel_address
    BY <1>4 DEF IInv, Windows, LinkTick, Tick, Address, ActivePixel
  <2>2. CASE h # h_total
    BY <1>1, <1>2, <1>4, <2>1, <2>2, CountersKept
       DEF IInv, AddressIs, Pixels, HActive, VActive
  <2>3. CASE h = h_total
    BY <1>1, <1>2, <1>4, <2>1, <2>3, CountersKept
       DEF IInv, AddressIs, Pixels, HActive, VActive
  <2> QED
    BY <2>2, <2>3
<1> QED
  BY <1>3, <1>4

LEMMA SentKept ==
  ASSUME IInv, LinkTick
  PROVE  SentIs'
<1> USE Geometry
<1> SUFFICES ASSUME o_hdmi_de'
             PROVE  sent' = Line(r_v_count') * h_res + Pixels(r_h_count' - 1)
  BY DEF SentIs
<1>1. HActive(r_h_count) /\ VActive(r_v_count)
  BY DEF IInv, Windows, LinkTick, Tick, DataEnable, ActivePixel
<1>2. r_h_count' - 1 = r_h_count /\ r_v_count' = r_v_count
  BY <1>1, CountersKept DEF HActive, IInv, Counters
<1>3. r_pixel_address = Line(r_v_count) * h_res + Pixels(r_h_count)
  BY <1>1 DEF IInv, Counters, AddressIs, HActive
<1> QED
  BY <1>2, <1>3 DEF LinkTick, ReadPortB

\* The column counts the pixels of the line, and the pulse between two lines,
\* which lasts a clock at least, clears it.
LEMMA ColumnKept ==
  ASSUME IInv, LinkTick
  PROVE  col' \in Nat /\ ColumnIs'
<1> USE Geometry
<1> DEFINE h == r_h_count
           v == r_v_count
<1>1. h \in 0..h_total /\ v \in 0..v_total /\ col \in Nat
  BY DEF IInv, Counters, Reception
<1>2. col' = IF ~o_hdmi_hs THEN 0 ELSE IF o_hdmi_de THEN col + 1 ELSE col
  BY DEF LinkTick, Receive
<1>3. col' \in Nat
  BY <1>1, <1>2
<1>4. ~o_hdmi_hs /\ o_hdmi_de => FALSE
  BY <1>1 DEF IInv, Pulses, Enable, HActive
<1>5. CASE h = h_total
  <2>1. o_hdmi_hs /\ (o_hdmi_de <=> h = h_end + 1 /\ VActive(v))
    BY <1>1, <1>5 DEF IInv, Pulses, Enable, HActive
  <2>2. col = IF VActive(v) THEN Pixels(h - 1) ELSE 0
    BY <1>1, <1>5 DEF IInv, Reception, ColumnIs
  <2>3. VActive(v) => col' = h_res
    BY <1>1, <1>2, <1>5, <2>1, <2>2 DEF Pixels
  <2>4. ~VActive(v) => col' = 0
    BY <1>2, <2>1, <2>2
  <2>5. h' = 0 /\ v' = IF v = v_total THEN 0 ELSE v + 1
    BY <1>5, CountersKept
  <2> QED
    BY <1>1, <1>3, <2>3, <2>4, <2>5 DEF ColumnIs
<1>6. CASE h # h_total /\ (v > 0 \/ h > 0)
  <2>1. h' = h + 1 /\ v' = v
    BY <1>6, CountersKept
  <2>2. CASE h <= h_sync
    <3>1. col' = 0
      BY <1>1, <1>2, <1>6, <2>2 DEF IInv, Pulses
    <3> QED
      BY <1>1, <1>3, <2>1, <2>2, <3>1 DEF ColumnIs, Pixels
  <2>3. CASE h > h_sync
    <3>1. o_hdmi_hs /\ (o_hdmi_de <=> HActive(h - 1) /\ VActive(v))
      BY <1>1, <2>3 DEF IInv, Pulses, Enable
    <3>2. col = IF VActive(v) THEN Pixels(h - 1) ELSE 0
      BY <1>1, <2>3 DEF IInv, Reception, ColumnIs
    <3>3. col' = IF VActive(v) THEN Pixels(h) ELSE 0
      BY <1>1, <1>2, <2>3, <3>1, <3>2 DEF Pixels, HActive
    <3> QED
      BY <1>1, <1>3, <2>1, <3>3 DEF ColumnIs
  <2> QED
    BY <1>1, <2>2, <2>3
<1>7. CASE h = 0 /\ v = 0
  BY <1>3, <1>7, CountersKept DEF ColumnIs
<1> QED
  BY <1>1, <1>5, <1>6, <1>7, <1>3

\* The row counts the lines that had a pixel.
LEMMA RowKept ==
  ASSUME IInv, LinkTick
  PROVE  row' \in Nat /\ RowIs'
<1> USE Geometry
<1> DEFINE h == r_h_count
           v == r_v_count
<1>1. h \in 0..h_total /\ v \in 0..v_total /\ col \in Nat /\ row \in Nat
  BY DEF IInv, Counters, Reception
<1>2. row' = IF ~o_hdmi_vs THEN 0 ELSE IF ~o_hdmi_hs /\ col > 0 THEN row + 1 ELSE row
  BY DEF LinkTick, Receive
<1>3. row' \in Nat
  BY <1>1, <1>2
<1>4. CASE h = h_total
  <2>1. h' = 0 /\ v' = IF v = v_total THEN 0 ELSE v + 1
    BY <1>4, CountersKept
  <2>2. v > v_sync => row' = row
    BY <1>1, <1>2, <1>4 DEF IInv, Pulses
  <2>3. v <= v_sync /\ v > 0 => row' = 0
    BY <1>1, <1>2 DEF IInv, Pulses
  <2>4. v > 0 /\ v <= v_end => row = IF v <= v_start THEN 0 ELSE Line(v)
    BY <1>1, <1>4 DEF IInv, Reception, RowIs
  <2> QED
    BY <1>1, <1>3, <2>1, <2>2, <2>3, <2>4 DEF RowIs, Line
<1>5. CASE h # h_total
  <2>1. h' = h + 1 /\ v' = v
    BY <1>5, CountersKept
  <2>2. CASE v = 0 \/ v > v_end
    BY <1>1, <1>3, <2>1, <2>2 DEF RowIs
  <2>3. CASE v > 0 /\ v <= v_sync
    <3>1. row' = 0
      BY <1>1, <1>2, <2>3 DEF IInv, Pulses
    <3> QED
      BY <1>1, <2>1, <2>3, <3>1 DEF RowIs
  <2>4. CASE v > v_sync /\ v <= v_end
    <3>1. o_hdmi_vs
      BY <2>4 DEF IInv, Pulses
    <3>2. CASE h = 0
      <4>1. ~o_hdmi_hs
        BY <1>1, <2>4, <3>2 DEF IInv, Pulses
      <4>2. col = IF VActive(v - 1) THEN h_res ELSE 0
        BY <1>1, <2>4, <3>2 DEF IInv, Reception, ColumnIs
      <4>3. row = IF v <= v_start + 1 THEN 0 ELSE Line(v) - 1
        BY <1>1, <2>4, <3>2 DEF IInv, Reception, RowIs
      <4>4. row' = IF v <= v_start THEN 0 ELSE Line(v)
        BY <1>1, <1>2, <2>4, <3>1, <4>1, <4>2, <4>3 DEF VActive, Line
      <4> QED
        BY <1>1, <1>3, <2>1, <2>4, <3>2, <4>4 DEF RowIs
    <3>3. CASE h > 0
      <4>1. row = IF v <= v_start THEN 0 ELSE Line(v)
        BY <1>1, <2>4, <3>3 DEF IInv, Reception, RowIs
      <4>2. ~o_hdmi_hs => col = 0
        <5>1. ~o_hdmi_hs => h <= h_sync
          BY <1>1 DEF IInv, Pulses
        <5>2. h <= h_sync => Pixels(h - 1) = 0
          BY <1>1, <3>3 DEF Pixels
        <5> QED
          BY <1>1, <2>4, <3>3, <5>1, <5>2 DEF IInv, Reception, ColumnIs
      <4>3. row' = row
        BY <1>2, <3>1, <4>2
      <4> QED
        BY <1>1, <1>3, <2>1, <2>4, <3>3, <4>1, <4>3 DEF RowIs
    <3> QED
      BY <1>1, <3>2, <3>3
  <2> QED
    BY <1>1, <2>2, <2>3, <2>4
<1> QED
  BY <1>4, <1>5

LEMMA TickInv == IInv /\ LinkTick => IInv'
<1> SUFFICES ASSUME IInv, LinkTick PROVE IInv'
  OBVIOUS
<1>1. Counters' /\ Windows' /\ Enable' /\ Pulses'
  BY CountersKept, WindowsKept, EnableKept, PulsesKept
<1>2. AddressIs' /\ SentIs' /\ Reception'
  BY AddressKept, SentKept, ColumnKept, RowKept DEF Reception
<1> QED
  BY <1>1, <1>2 DEF IInv

LEMMA StutterInv == IInv /\ UNCHANGED linkvars => IInv'
<1> SUFFICES ASSUME IInv, UNCHANGED linkvars PROVE IInv'
  OBVIOUS
<1>1. Counters' /\ Windows' /\ Enable' /\ Pulses'
  BY DEF IInv, linkvars, vars, sync, raster, pixel, Counters, Windows, Enable, Pulses
<1>2. AddressIs' /\ SentIs' /\ Reception'
  BY DEF IInv, linkvars, vars, sync, raster, pixel, AddressIs, SentIs, Reception, ColumnIs, RowIs
<1> QED
  BY <1>1, <1>2 DEF IInv

\* All registers follow the two counters, in every reachable state.
THEOREM Invariance == LinkSpec => []IInv
<1>1. IInv /\ [LinkNext]_linkvars => IInv'
  BY TickInv, ResetInv, StutterInv DEF LinkNext
<1> QED
  BY <1>1, InitInv, PTL DEF LinkSpec

\* The address that goes to the frame buffer stays inside it
\* (hdmi_controler.vhd:142-147), whatever the picture's size.
THEOREM AddressTheorem == LinkSpec => [](r_pixel_address \in 0..(h_res * v_res - 1))
<1>1. IInv => r_pixel_address \in 0..(h_res * v_res - 1)
  <2> SUFFICES ASSUME IInv PROVE r_pixel_address \in 0..(h_res * v_res - 1)
    OBVIOUS
  <2> USE Geometry
  <2>1. r_h_count \in 0..h_total /\ r_v_count \in 0..v_total
    BY DEF IInv, Counters
  <2>2. CASE ~VActive(r_v_count) \/ (r_v_count = v_end /\ r_h_count > h_end)
    <3>1. 0 * h_res + 0 = 0
      OBVIOUS
    <3>2. 0 * h_res + 0 \in 0..(h_res * v_res - 1)
      BY InFrame
    <3> QED
      BY <2>2, <3>1, <3>2 DEF IInv, AddressIs
  <2>3. CASE VActive(r_v_count) /\ ~(r_v_count = v_end /\ r_h_count > h_end)
    <3>1. /\ Line(r_v_count) \in 0..(v_res - 1) /\ Pixels(r_h_count) \in 0..h_res
          /\ Line(r_v_count) < v_res - 1 \/ Pixels(r_h_count) < h_res
      BY <2>1, <2>3 DEF Line, Pixels, VActive
    <3>2. Line(r_v_count) * h_res + Pixels(r_h_count) \in 0..(h_res * v_res - 1)
      BY <3>1, InFrame
    <3> QED
      BY <2>3, <3>2 DEF IInv, AddressIs
  <2> QED
    BY <2>2, <2>3
<1> QED
  BY <1>1, Invariance, PTL

\* For every geometry no pixel is sent during a sync pulse.
THEOREM BlankTheorem == LinkSpec => []BlankDuringSync
<1>1. IInv => BlankDuringSync
  BY Geometry DEF IInv, Counters, Pulses, Enable, HActive, VActive, BlankDuringSync
<1> QED
  BY <1>1, Invariance, PTL

\* For every geometry the pixel that port B puts out is the one of the column and
\* the line where the receiver is.
THEOREM AlignedTheorem == LinkSpec => []PictureAligned
<1>1. IInv => PictureAligned
  <2> SUFFICES ASSUME IInv, o_hdmi_de
               PROVE  /\ col \in 0..(h_res - 1) /\ row \in 0..(v_res - 1)
                      /\ sent = row * h_res + col
    BY DEF PictureAligned
  <2> USE Geometry
  <2>1. /\ r_h_count \in 0..h_total /\ r_v_count \in 0..v_total
        /\ r_h_count > 0 /\ HActive(r_h_count - 1) /\ VActive(r_v_count)
    BY DEF IInv, Counters, Enable
  <2>2. col = Pixels(r_h_count - 1) /\ row = Line(r_v_count)
    BY <2>1 DEF IInv, Reception, ColumnIs, RowIs, VActive
  <2>3. sent = Line(r_v_count) * h_res + Pixels(r_h_count - 1)
    BY DEF IInv, SentIs
  <2>4. Pixels(r_h_count - 1) \in 0..(h_res - 1) /\ Line(r_v_count) \in 0..(v_res - 1)
    BY <2>1 DEF Pixels, Line, HActive, VActive
  <2> QED
    BY <2>2, <2>3, <2>4
<1> QED
  BY <1>1, Invariance, PTL

\* For every geometry a line that starts is sent in full.
THEOREM WholeLinesTheorem == LinkSpec => WholeLines
<1> DEFINE Whole == LinkTick /\ o_hdmi_de /\ ~o_hdmi_de' => col = h_res - 1
<1>1. IInv /\ [LinkNext]_linkvars => [Whole]_linkvars
  <2> SUFFICES ASSUME IInv, LinkTick, o_hdmi_de, ~o_hdmi_de' PROVE col = h_res - 1
    OBVIOUS
  <2> USE Geometry
  <2>1. /\ r_h_count \in 0..h_total /\ r_v_count \in 0..v_total
        /\ r_h_count > 0 /\ HActive(r_h_count - 1) /\ VActive(r_v_count)
    BY DEF IInv, Counters, Enable
  <2>2. ~HActive(r_h_count)
    BY <2>1 DEF IInv, Windows, LinkTick, Tick, DataEnable, ActivePixel
  <2>3. r_h_count = h_end + 1
    BY <2>1, <2>2 DEF HActive
  <2>4. col = Pixels(r_h_count - 1)
    BY <2>1 DEF IInv, Reception, ColumnIs, VActive
  <2> QED
    BY <2>3, <2>4 DEF Pixels
<1> QED
  BY <1>1, Invariance, PTL DEF LinkSpec, WholeLines

-----------------------------------------------------------------------------
(* The screen. *)

\* The inductive invariant: the types of the 50 MHz domain, and the cells the
\* sweep has passed are out.
DrawType == /\ s_coord_x \in 0..MaxCoord /\ s_coord_y \in 0..MaxCoord
            /\ r_erase_active \in BOOLEAN /\ i_left_pb \in BOOLEAN
            /\ r_erase_addr \in Cells
            /\ lit \subseteq Cells

DrawInv == DrawType /\ SweptCellsAreOut

-----------------------------------------------------------------------------

LEMMA MemSizeType == MemSize \in Nat /\ MemSize > 0 /\ Cells \subseteq Nat /\ 0 \in Cells
<1>1. h_res \in Nat /\ v_res \in Nat /\ h_res > 0 /\ v_res > 0
  BY GenericsAssumption
<1>2. h_res * v_res \in Nat /\ h_res * v_res > 0
  BY <1>1
<1> QED BY <1>2 DEF MemSize, Cells

\* A pen inside the picture has a cell of its own: x + y * h_res is in range.
LEMMA OnScreenCell ==
  ASSUME NEW x \in Nat, NEW y \in Nat, x < h_res, y < v_res
  PROVE  x + y * h_res \in Cells
<1>1. h_res \in Nat /\ v_res \in Nat
  BY GenericsAssumption
<1>2. (y + 1) * h_res <= v_res * h_res
  BY <1>1
<1>3. (y + 1) * h_res = y * h_res + h_res /\ v_res * h_res = h_res * v_res
  BY <1>1
<1>4. y * h_res \in Nat /\ h_res * v_res \in Nat
  BY <1>1
<1> QED BY <1>1, <1>2, <1>3, <1>4 DEF Cells, MemSize

\* The bus carries the address of a cell unchanged.
LEMMA BusCarriesCells == \A a \in Cells : a % AddrSpan = a
BY MemSizeType, TelecranAssumption DEF Cells

-----------------------------------------------------------------------------

LEMMA DrawInit == TelecranInit => DrawInv
<1> SUFFICES ASSUME TelecranInit PROVE DrawInv
  OBVIOUS
<1>1. r_erase_active = FALSE /\ i_left_pb \in BOOLEAN
  BY Zenon DEF TelecranInit
<1>2. r_erase_active \in BOOLEAN /\ SweptCellsAreOut
  BY <1>1, Zenon DEF SweptCellsAreOut
<1>3. /\ s_coord_x \in 0..MaxCoord /\ s_coord_y \in 0..MaxCoord
      /\ r_erase_addr \in Cells /\ lit \subseteq Cells
  BY MemSizeType, TelecranAssumption DEF TelecranInit
<1> QED BY <1>1, <1>2, <1>3 DEF DrawInv, DrawType

LEMMA DrawStep == DrawInv /\ [TelecranNext]_tvars => DrawInv'
<1> SUFFICES ASSUME DrawInv, [TelecranNext]_tvars PROVE DrawInv'
  OBVIOUS
<1> USE MemSizeType DEF DrawInv, DrawType, pen, erase
<1>1. CASE Clk50
  <2>1. (s_coord_x \in 0..MaxCoord)' /\ (s_coord_y \in 0..MaxCoord)' /\ (i_left_pb \in BOOLEAN)'
    BY <1>1 DEF Clk50, Encs, Near
  <2>2. (r_erase_active \in BOOLEAN)' /\ (r_erase_addr \in Cells)'
    <3>1. Erase /\ r_erase_active \in BOOLEAN
      BY <1>1 DEF Clk50
    <3>2. \/ r_erase_active' = TRUE
          \/ r_erase_active' = FALSE
          \/ r_erase_active' = r_erase_active
      BY <3>1, Zenon DEF Erase
    <3>3. (r_erase_active \in BOOLEAN)'
      BY <3>1, <3>2, Zenon
    <3>4. (r_erase_addr \in Cells)'
      BY <3>1 DEF Erase, Cells
    <3> QED BY <3>3, <3>4
  <2>3. (lit \subseteq Cells)'
    BY <1>1 DEF Clk50, PortA
  <2>4. SweptCellsAreOut'
    <3>1. CASE ~i_left_pb
      BY <1>1, <2>3, <3>1 DEF Clk50, Erase, SweptCellsAreOut, Cells
    <3>2. CASE i_left_pb /\ r_erase_active
      <4>1. BusAddress = r_erase_addr
        BY <3>2, BusCarriesCells DEF BusAddress, MuxAddress
      <4>2. lit' = lit \ {r_erase_addr}
        BY <1>1, <3>2, <4>1 DEF Clk50, PortA
      <4>3. \A c \in lit : c >= r_erase_addr /\ c \in Nat
        BY <3>2 DEF SweptCellsAreOut
      <4>4. r_erase_active' => r_erase_addr' = r_erase_addr + 1
        BY <1>1, <3>2 DEF Clk50, Erase
      <4> QED BY <4>2, <4>3, <4>4 DEF SweptCellsAreOut
    <3>3. CASE i_left_pb /\ ~r_erase_active
      BY <1>1, <3>3 DEF Clk50, Erase, SweptCellsAreOut
    <3> QED BY <3>1, <3>2, <3>3
  <2> QED BY <2>1, <2>2, <2>3, <2>4
<1>2. CASE Clk27
  BY <1>2 DEF Clk27, SweptCellsAreOut
<1>3. CASE PllUnlock
  BY <1>3 DEF PllUnlock, SweptCellsAreOut
<1>4. CASE SystemReset
  <2>1. r_erase_active' = FALSE /\ i_left_pb' = i_left_pb
    BY <1>4, Zenon DEF SystemReset
  <2>2. (r_erase_active \in BOOLEAN)' /\ (i_left_pb \in BOOLEAN)' /\ SweptCellsAreOut'
    BY <2>1, Zenon DEF SweptCellsAreOut
  <2>3. /\ (s_coord_x \in 0..MaxCoord)' /\ (s_coord_y \in 0..MaxCoord)'
        /\ (r_erase_addr \in Cells)' /\ (lit \subseteq Cells)'
    BY <1>4, TelecranAssumption DEF SystemReset
  <2> QED BY <2>2, <2>3
<1>5. CASE Button
  BY <1>5 DEF Button, SweptCellsAreOut
<1>6. CASE UNCHANGED tvars
  BY <1>6 DEF tvars, SweptCellsAreOut
<1> QED BY <1>1, <1>2, <1>3, <1>4, <1>5, <1>6 DEF TelecranNext

LEMMA DrawInvariance == TelecranSpec => []DrawInv
BY DrawInit, DrawStep, PTL DEF TelecranSpec

\* While a wipe runs, every cell below the sweep is out, in every picture
\* (telecran.vhd:183-199).
THEOREM SweepTheorem == TelecranSpec => []SweptCellsAreOut
<1>1. DrawInv => SweptCellsAreOut
  BY DEF DrawInv
<1> QED BY <1>1, DrawInvariance, PTL

-----------------------------------------------------------------------------

\* An edge of the 50 MHz clock draws, or wipes one cell.
LEMMA Clk50Simulation == DrawInv /\ Clk50 => Screen!Next
<1> SUFFICES ASSUME DrawInv, Clk50 PROVE Screen!Next
  OBVIOUS
<1> USE MemSizeType DEF DrawInv, DrawType
<1>0. Cells = Screen!Cells /\ PenAddress = Screen!PenCell
  BY DEF Cells, MemSize, Screen!Cells, PenAddress, Screen!PenCell
<1>1. Screen!MovePen
  BY DEF Clk50, Encs, Near, Screen!MovePen, Screen!Near
<1>2. CASE r_erase_active
  <2>1. lit' = lit \ {r_erase_addr}
    BY <1>2, BusCarriesCells DEF Clk50, PortA, BusAddress, MuxAddress
  <2>2. ~r_erase_active' => lit' = {}
    <3>1. ~r_erase_active' => r_erase_addr = MemSize - 1
      BY <1>2 DEF Clk50, Erase, erase
    <3>2. r_erase_addr = MemSize - 1 => \A c \in lit : c = r_erase_addr
      BY <1>2 DEF SweptCellsAreOut, Cells
    <3> QED BY <2>1, <3>1, <3>2
  <2>3. r_erase_active' \in BOOLEAN
    BY <1>2 DEF Clk50, Erase, erase
  <2>4. Screen!Wipe
    BY <1>1, <1>2, <2>1, <2>2, <2>3 DEF Screen!Wipe
  <2> QED BY <2>4 DEF Screen!Next
<1>3. CASE ~r_erase_active
  <2>1. MuxAddress = PenAddress
    BY <1>3 DEF MuxAddress
  <2>2. CASE Screen!OnScreen
    <3>1. PenAddress \in Cells
      BY <2>2, OnScreenCell DEF Screen!OnScreen, PenAddress
    <3>2. BusAddress = PenAddress
      BY <2>1, <3>1, BusCarriesCells DEF BusAddress
    <3>3. lit' = lit \cup {PenAddress}
      BY <1>3, <3>1, <3>2 DEF Clk50, PortA
    <3>4. Screen!Draw
      BY <1>0, <1>1, <1>3, <2>2, <3>3 DEF Screen!Draw
    <3> QED BY <3>4 DEF Screen!Next
  <2>3. CASE ~Screen!OnScreen
    <3>1. lit' = lit \/ \E c \in Cells : lit' = lit \cup {c}
      BY <1>3 DEF Clk50, PortA
    <3>2. \E c \in Screen!Cells : lit' = lit \cup {c} \/ lit' = lit
      BY <1>0, <3>1
    <3>3. Screen!Draw
      BY <1>1, <1>3, <2>3, <3>2 DEF Screen!Draw
    <3> QED BY <3>3 DEF Screen!Next
  <2> QED BY <2>2, <2>3
<1> QED BY <1>2, <1>3

LEMMA ScreenSimulation == DrawInv /\ [TelecranNext]_tvars => [Screen!Next]_(Screen!vars)
<1> SUFFICES ASSUME DrawInv, [TelecranNext]_tvars PROVE [Screen!Next]_(Screen!vars)
  OBVIOUS
<1>1. CASE Clk50
  BY <1>1, Clk50Simulation
<1>2. CASE Clk27 \/ PllUnlock \/ Button \/ UNCHANGED tvars
  BY <1>2 DEF Clk27, PllUnlock, Button, tvars, pen, erase, Screen!vars
<1>3. CASE SystemReset
  <2>1. Screen!Reset
    BY <1>3 DEF SystemReset, Screen!Reset
  <2> QED BY <2>1 DEF Screen!Next
<1> QED BY <1>1, <1>2, <1>3 DEF TelecranNext

\* The frame buffer, its writer and its wipe implement the magic screen of
\* README.md:267 and 422-424: no gap in a trail, no pixel lost, and a wipe that
\* ends leaves nothing (telecran.vhd:177-214).
THEOREM ScreenRefinement == TelecranSpec => IsMagicScreen
<1>1. TelecranInit => Screen!Init
  BY DEF TelecranInit, Screen!Init, Cells, MemSize, Screen!Cells
<1> QED BY <1>1, DrawInvariance, ScreenSimulation, PTL
        DEF TelecranSpec, IsMagicScreen, Screen!Spec

-----------------------------------------------------------------------------
(* The configuration of the transmitter: the invariant. *)

\* What the bus may carry: entries, and the torn word.
Last == Entry(LUT_SIZE - 1)
Entries == {Entry(i) : i \in 0..(LUT_SIZE - 1)}
TornWord == (Last \div 256) * 256 + (Entry(0) % 256)
Words == Entries \cup {TornWord}

\* What the transmitter makes of the bits it has.
Decoded ==
  written = IF Len(bits) = 27 /\ bits[9] + bits[18] + bits[27] = 0
            THEN <<Value(1), 256 * Value(10) + Value(19)>> ELSE <<>>

\* The table automaton asks for an entry until it is answered.
Asks ==
  /\ mI2C_GO <=> mSetup_ST = 1
  /\ mSetup_ST # 0 => LUT_INDEX < LUT_SIZE /\ mI2C_DATA = Entry(LUT_INDEX)
  /\ LUT_INDEX = LUT_SIZE => mSetup_ST = 0 /\ mI2C_DATA = Last
  /\ ST # 0 => mI2C_DATA \in Entries

\* The writer: at rest, in one of the bits, at the stop.
Resting == ST \in {1, 30, 31}
InBits == ST \in 2..5
Stopping == ST \in 6..9

\* Its registers and the lines it drives, state by state.
WriterLines ==
  /\ ST \in {30, 31} => END_OK
  /\ ST \in 1..9 => ~END_OK
  /\ ST = 1 => ~ACK_OK
  /\ Resting => SDAO = 1 /\ SCLO = 1 /\ CNT = 0 /\ BYTE = 0
  /\ ST \in 2..4 => CNT <= 8
  /\ ST \in {3, 4, 7} => SCLO = 0
  /\ ST = 5 => SCLO = 1 /\ CNT >= 1
  /\ InBits => Len(bits) = 9 * BYTE + CNT
  /\ Stopping => BYTE = 2 /\ Len(bits) = 27

\* Of the byte b, c bits are on the bus from bits[f] on, and t is twice what is left.
Shifted(b, f, c, t) ==
  /\ c = 0 => t = 2 * Byte9(b)
  /\ c = 1 => 1024 * bits[f] + t = 4 * Byte9(b)
  /\ c = 2 => 1024 * (2 * bits[f] + bits[f + 1]) + t = 8 * Byte9(b)
  /\ c = 3 => 1024 * (4 * bits[f] + 2 * bits[f + 1] + bits[f + 2]) + t = 16 * Byte9(b)
  /\ c = 4 => 1024 * (8 * bits[f] + 4 * bits[f + 1] + 2 * bits[f + 2] + bits[f + 3]) + t
                = 32 * Byte9(b)
  /\ c = 5 => 1024 * (16 * bits[f] + 8 * bits[f + 1] + 4 * bits[f + 2] + 2 * bits[f + 3]
                        + bits[f + 4]) + t = 64 * Byte9(b)
  /\ c = 6 => 1024 * (32 * bits[f] + 16 * bits[f + 1] + 8 * bits[f + 2] + 4 * bits[f + 3]
                        + 2 * bits[f + 4] + bits[f + 5]) + t = 128 * Byte9(b)
  /\ c = 7 => 1024 * (64 * bits[f] + 32 * bits[f + 1] + 16 * bits[f + 2] + 8 * bits[f + 3]
                        + 4 * bits[f + 4] + 2 * bits[f + 5] + bits[f + 6]) + t = 256 * Byte9(b)
  /\ c = 8 => Value(f) = b /\ t = 512
  /\ c = 9 => Value(f) = b

\* In state 4 the next bit has left the shift register for SDA.
TwiceLeft == IF ST = 4 THEN 512 * SDAO + A ELSE 2 * A
InByte(b, f) == Shifted(b, f, CNT, TwiceLeft)

\* Asked for an entry other than the first, the word under way is that entry.
Steady(p) == mSetup_ST = 1 /\ LUT_INDEX > 0 => p = mI2C_DATA

\* The byte under way, and those before it.
SendsSlave ==
  /\ InBits /\ BYTE = 0 => InByte(SLAVE, 1)
  /\ (InBits /\ BYTE > 0) \/ Stopping => Value(1) = SLAVE

\* The word of the table, or the last one after a restart put the first in its place.
Loaded(d) == d = mI2C_DATA \/ (LUT_INDEX = 0 /\ d = Last /\ mI2C_DATA = Entry(0))

SendsHigh ==
  InBits /\ BYTE = 1 => \E d \in Entries : InByte(d \div 256, 10) /\ Loaded(d)

SendsLow ==
  InBits /\ BYTE = 2 =>
    \E p \in Words : Value(10) = p \div 256 /\ InByte(p % 256, 19) /\ Steady(p)

\* The word the transmitter has.
Word == 256 * Value(10) + Value(19)
HasSent == Stopping => Word \in Words /\ Steady(Word)

\* ACK_OK low: every byte so far was acknowledged.
Acks ==
  /\ ST = 5 /\ CNT = 9 => SDAO = 1
  /\ ~ACK_OK =>
       /\ InBits /\ BYTE >= 1 => bits[9] = 0
       /\ InBits /\ BYTE = 2 => bits[18] = 0
       /\ Stopping => bits[9] = 0 /\ bits[18] = 0 /\ bits[27] = 0

\* After a reset the writer may clock one more bit in.
Parked == ST = 0 \/ Resting => (Len(bits) >= 26 + SCLO => Value(1) = SLAVE /\ Word \in Words)

\* Where the table is while the writer is there: an entry other than the first is
\* left only after the writer ended it, and the first may be left untried.
Together ==
  /\ ST = 0 => LUT_INDEX = 0 /\ (mSetup_ST = 1 => END_OK) /\ mSetup_ST # 2
  /\ mSetup_ST = 0 /\ LUT_INDEX < LUT_SIZE =>
       \/ ST \in {0, 1, 30, 31}
       \/ ST = 2 /\ BYTE = 0 /\ CNT = 0
       \/ LUT_INDEX = 0 /\ mI2C_DATA = Last
  /\ mSetup_ST = 0 /\ LUT_INDEX \in 1..(LUT_SIZE - 1) /\ ST = 30 => ACK_OK
  /\ mSetup_ST = 1 /\ LUT_INDEX > 0 =>
       /\ ST = 31 => ACK_OK
       /\ ST = 30 /\ ~ACK_OK => written = TheEntry(LUT_INDEX)
  /\ mSetup_ST = 2 =>
       \/ LUT_INDEX = 0 /\ ST \in {1, 30}
       \/ ST = 30 /\ written = TheEntry(LUT_INDEX)

ConfigInv ==
  /\ ConfigTypeOK /\ Decoded /\ Asks /\ WriterLines
  /\ SendsSlave /\ SendsHigh /\ SendsLow /\ HasSent /\ Acks /\ Parked /\ Together

-----------------------------------------------------------------------------
(* Words and bytes. *)

LEMMA BelowIs == ASSUME NEW n \in Nat PROVE \A x : x \in Below(n) <=> x \in Nat /\ x < n
  BY DEF Below

LEMMA Halves ==
  ASSUME NEW p \in Nat, p < 65536
  PROVE  /\ p \div 256 \in Nat /\ p \div 256 < 256
         /\ p % 256 \in Nat /\ p % 256 < 256
         /\ 256 * (p \div 256) + (p % 256) = p
  OBVIOUS

LEMMA Joined ==
  ASSUME NEW h \in Nat, NEW l \in Nat, h < 256, l < 256
  PROVE  /\ 256 * h + l \in Nat /\ 256 * h + l < 65536
         /\ (256 * h + l) \div 256 = h /\ (256 * h + l) % 256 = l
  OBVIOUS

\* All that matters of LUT: it is not empty, and its words have 16 bits.
LEMMA TableTyped ==
  /\ LUT_SIZE \in Nat /\ LUT_SIZE > 0 /\ Last \in Entries /\ Entry(0) \in Entries
  /\ \A i \in 0..(LUT_SIZE - 1) : Entry(i) \in Entries
  /\ \A d \in Entries : d \in Nat /\ d < 65536
<1>1. LUT \in Seq({x \in Nat : x < 65536}) /\ Len(LUT) > 0
  BY DEF LUT
<1>2. \A i \in 0..(LUT_SIZE - 1) : Entry(i) \in Nat /\ Entry(i) < 65536
  BY <1>1 DEF Entry, LUT_SIZE
<1>3. LUT_SIZE \in Nat /\ LUT_SIZE > 0
  BY <1>1 DEF LUT_SIZE
<1>4. QED
  BY <1>2, <1>3 DEF Last, Entries

\* The torn word has the high byte of the last entry and the low byte of the first.
LEMMA TornTyped ==
  /\ TornWord \in Nat /\ TornWord < 65536
  /\ TornWord \div 256 = Last \div 256 /\ TornWord % 256 = Entry(0) % 256
<1> DEFINE h == Last \div 256
           l == Entry(0) % 256
<1>1. h \in Nat /\ h < 256 /\ l \in Nat /\ l < 256
  BY TableTyped, Halves
<1>2. TornWord = 256 * h + l
  BY <1>1 DEF TornWord
<1> HIDE DEF h, l
<1>3. /\ TornWord \in Nat /\ TornWord < 65536
      /\ TornWord \div 256 = h /\ TornWord % 256 = l
  BY <1>1, <1>2, Joined
<1>4. QED
  BY <1>3 DEF h, l

LEMMA WordsTyped == \A p \in Words : p \in Nat /\ p < 65536
  BY TableTyped, TornTyped DEF Words

-----------------------------------------------------------------------------
(* The bus. *)

\* When the lines tell the transmitter something.
LEMMA Wire ==
  ASSUME ConfigTypeOK, WriterLines, Writer, Decode
  PROVE  /\ ST = 1 => bits' = <<>> /\ written' = <<>>
         /\ ST = 4 => Clocked /\ ~Started
         /\ ST = 0 => ~Started
         /\ ST \notin {0, 1, 4} => UNCHANGED chip
<1> USE DEF ConfigTypeOK, To
<1>1. CASE AtReset
  BY <1>1 DEF AtReset, Started
<1>2. CASE Start
  BY <1>2 DEF Start, Started, Decode, WriterLines, Resting
<1>3. CASE BitLow \/ BitEnd \/ ByteEnd
  <2>1. SCLO' = 0 /\ ST \notin {0, 1, 4}
    BY <1>3 DEF BitLow, BitEnd, ByteEnd, NextByte
  <2>2. QED
    BY <2>1 DEF Started, Clocked, Decode
<1>4. CASE BitOut
  BY <1>4 DEF BitOut, WriterLines, Started, Clocked, Decode
<1>5. CASE Rearm \/ Again
  BY <1>5 DEF Rearm, Again, Started, Clocked, Decode
<1>6. CASE BitHigh
  BY <1>6 DEF BitHigh, WriterLines, InBits, Started, Clocked
<1>7. CASE Stop \/ End
  <2>1. Len(bits) = 27 /\ ST \notin {0, 1, 4}
    BY <1>7 DEF Stop, End, WriterLines, Stopping
  <2>2. SCLO = 0 \/ SCLO' = 0 \/ SDAO' = 1
    BY <1>7 DEF Stop, End, WriterLines
  <2>3. QED
    BY <2>1, <2>2 DEF Started, Clocked, Decode
<1>8. QED
  BY <1>1, <1>2, <1>3, <1>4, <1>5, <1>6, <1>7 DEF Writer

\* A clock takes one more bit and keeps the others.
LEMMA OneMore ==
  ASSUME ConfigTypeOK, SDAO' \in {0, 1}, Decode, ~Started, Clocked
  PROVE  \E z \in {0, 1} :
           /\ bits' = Append(bits, z) /\ bits' \in Seq({0, 1}) /\ Len(bits') = Len(bits) + 1
           /\ \A i \in 1..Len(bits) : bits'[i] = bits[i]
           /\ bits'[Len(bits) + 1] = z
           /\ Len(bits) % 9 # 8 => z = SDAO'
<1> DEFINE z == IF acking /\ Len(bits) % 9 = 8 THEN 0 ELSE SDAO'
<1>1. z \in {0, 1} /\ (Len(bits) % 9 # 8 => z = SDAO')
  OBVIOUS
<1>2. bits' = Append(bits, z)
  BY DEF Decode
<1> HIDE DEF z
<1>3. QED
  BY <1>1, <1>2 DEF ConfigTypeOK

\* The bytes the transmitter has are not changed by the bits that follow.
LEMMA SameValue ==
  ASSUME NEW f \in Nat, f > 0, f + 7 <= Len(bits), bits \in Seq({0, 1}),
         \A i \in 1..Len(bits) : bits'[i] = bits[i]
  PROVE  Value(f)' = Value(f)
<1>1. \A k \in 0..7 : f + k \in 1..Len(bits)
  OBVIOUS
<1>2. /\ bits'[f] = bits[f] /\ bits'[f + 1] = bits[f + 1] /\ bits'[f + 2] = bits[f + 2]
      /\ bits'[f + 3] = bits[f + 3] /\ bits'[f + 4] = bits[f + 4] /\ bits'[f + 5] = bits[f + 5]
      /\ bits'[f + 6] = bits[f + 6] /\ bits'[f + 7] = bits[f + 7]
  BY <1>1
<1>3. QED
  BY <1>2, SMTT(40) DEF Value

\* A write is taken with its last bit, and only then.
LEMMA DecodedKept ==
  ASSUME ConfigTypeOK, SDAO' \in {0, 1}, Decoded, Decode
  PROVE  Decoded'
<1>1. CASE Started
  BY <1>1 DEF Decode, Decoded
<1>2. CASE ~Started /\ ~Clocked
  <2>1. UNCHANGED chip
    BY <1>2 DEF Decode
  <2>2. QED
    BY <2>1 DEF chip, Decoded, Value
<1>3. CASE ~Started /\ Clocked
  <2>1. PICK z \in {0, 1} :
           /\ bits' = Append(bits, z) /\ bits' \in Seq({0, 1}) /\ Len(bits') = Len(bits) + 1
           /\ \A i \in 1..Len(bits) : bits'[i] = bits[i]
           /\ bits'[Len(bits) + 1] = z
    BY <1>3, OneMore
  <2>2. PICK n \in Nat : Len(bits) = n
    BY DEF ConfigTypeOK
  <2>3. n < 27 /\ written = <<>>
    BY <1>3, <2>2 DEF Decoded, Clocked
  <2>4. CASE n # 26
    <3>1. written' = <<>>
      BY <1>3, <2>2, <2>3, <2>4 DEF Decode
    <3>2. PICK m \in Nat : Len(bits') = m /\ m = n + 1
      BY <2>1, <2>2
    <3>3. m # 27
      BY <2>4, <3>2
    <3>4. QED
      BY <3>1, <3>2, <3>3 DEF Decoded
  <2>5. CASE n = 26
    <3> bits \in Seq({0, 1})
      BY DEF ConfigTypeOK
    <3>1. \A f \in 1..19 : Value(f)' = Value(f)
      <4> TAKE f \in 1..19
      <4>1. f \in Nat /\ f > 0 /\ f + 7 <= Len(bits)
        BY <2>2, <2>5
      <4>2. QED
        BY <2>1, <4>1, SameValue
    <3>2. bits'[9] = bits[9] /\ bits'[18] = bits[18] /\ Len(bits') = 27
      BY <2>1, <2>2, <2>5
    <3>3. QED
      BY <1>3, <2>2, <2>3, <2>5, <3>1, <3>2 DEF Decode, Decoded
  <2>6. QED
    BY <2>4, <2>5
<1>4. QED
  BY <1>1, <1>2, <1>3

-----------------------------------------------------------------------------
(* Types, the table and the lines. *)

\* Every register keeps its range: CNT stops at 9 for no byte has more clocks.
LEMMA ConfigTyped ==
  ASSUME ConfigInv, ConfigTick
  PROVE  ConfigTypeOK'
<1> USE DEF ConfigInv
<1>1. /\ LUT_INDEX' \in 0..LUT_SIZE /\ mSetup_ST' \in 0..2
      /\ mI2C_GO' \in BOOLEAN /\ READY' \in BOOLEAN
  <2>1. PICK HDMI_TX_INT \in BOOLEAN : Config(HDMI_TX_INT)
    BY DEF ConfigTick
  <2>2. READY' \in BOOLEAN
    BY <2>1 DEF Config
  <2>3. CASE LUT_INDEX < LUT_SIZE /\ Ask
    BY <2>2, <2>3 DEF ConfigTypeOK, Ask
  <2>4. CASE LUT_INDEX < LUT_SIZE /\ Await
    <3>1. AfterEnd(ACK_OK) \in {0, 2}
      BY DEF AfterEnd
    <3>2. CASE END_OK
      <4>1. mSetup_ST' \in {0, 2} /\ mI2C_GO' = FALSE /\ LUT_INDEX' = LUT_INDEX
        BY <2>4, <3>1, <3>2, Zenon DEF Await
      <4>2. mSetup_ST' \in 0..2 /\ LUT_INDEX' \in 0..LUT_SIZE
        BY <4>1 DEF ConfigTypeOK
      <4>3. mI2C_GO' \in BOOLEAN
        BY <4>1, Zenon
      <4>4. QED
        BY <2>2, <4>2, <4>3, Zenon
    <3>3. CASE ~END_OK
      BY <2>2, <2>4, <3>3 DEF ConfigTypeOK, Await
    <3>4. QED
      BY <3>2, <3>3
  <2>5. CASE LUT_INDEX < LUT_SIZE /\ Advance
    BY <2>2, <2>5, TableTyped DEF ConfigTypeOK, Advance
  <2>6. CASE LUT_INDEX >= LUT_SIZE /\ Done(HDMI_TX_INT)
    <3>1. LUT_INDEX' \in {LUT_INDEX, 0} /\ UNCHANGED <<mSetup_ST, mI2C_GO>>
      BY <2>6, Zenon DEF Done
    <3>2. QED
      BY <2>2, <3>1, TableTyped DEF ConfigTypeOK
  <2>7. QED
    BY <2>1, <2>3, <2>4, <2>5, <2>6, TableTyped DEF Config, ConfigTypeOK
<1>2. mI2C_DATA' \in Below(65536)
  BY TableTyped, BelowIs DEF ConfigTypeOK, ConfigTick, Config, Ask, Await, Advance, Done
<1>3. ST' \in 0..9 \cup {30, 31}
  BY DEF ConfigTypeOK, ConfigTick, Writer, AtReset, Start, BitLow, BitOut, BitHigh, BitEnd,
         ByteEnd, NextByte, Stop, End, Rearm, Again, To
<1>4. SCLO' \in {0, 1}
  BY DEF ConfigTypeOK, ConfigTick, Writer, AtReset, Start, BitLow, BitOut, BitHigh, BitEnd,
         ByteEnd, NextByte, Stop, End, Rearm, Again, To
<1>5. END_OK' \in BOOLEAN /\ ACK_OK' \in BOOLEAN
  <2>1. END_OK \in BOOLEAN /\ ACK_OK \in BOOLEAN
    BY DEF ConfigTypeOK
  <2>2. Nacked \in BOOLEAN
    BY DEF Nacked
  <2>3. CASE AtReset \/ Again
    BY <2>3 DEF AtReset, Again
  <2>4. CASE Start \/ BitLow \/ BitOut \/ BitHigh \/ BitEnd \/ Stop \/ Rearm
    <3>1. UNCHANGED <<END_OK, ACK_OK>>
      BY <2>4, Zenon DEF Start, BitLow, BitOut, BitHigh, BitEnd, Stop, Rearm, flags
    <3>2. QED
      BY <3>1 DEF ConfigTypeOK
  <2>5. CASE ByteEnd
    <3>1. ACK_OK' = Nacked /\ END_OK' = END_OK
      BY <2>5, Zenon DEF ByteEnd
    <3>2. QED
      BY <2>1, <2>2, <3>1, Zenon
  <2>6. CASE End
    <3>1. ACK_OK' = ACK_OK /\ END_OK' = TRUE
      BY <2>6, Zenon DEF End
    <3>2. QED
      BY <2>1, <3>1, Zenon
  <2>7. QED
    BY <2>3, <2>4, <2>5, <2>6 DEF ConfigTick, Writer
<1>6. CNT' \in 0..9 /\ BYTE' \in 0..2
  <2>1. CNT' \in 0..9
    BY DEF ConfigTypeOK, WriterLines, ConfigTick, Writer, AtReset, Start, BitLow, BitOut, BitHigh,
           BitEnd, ByteEnd, NextByte, Stop, End, Rearm, Again, count
  <2>2. BYTE' \in 0..2
    BY DEF ConfigTypeOK, ConfigTick, Writer, AtReset, Start, BitLow, BitOut, BitHigh, BitEnd,
           ByteEnd, NextByte, Stop, End, Rearm, Again, count
  <2>3. QED
    BY <2>1, <2>2
<1>7. A \in Nat /\ A < 512
  BY BelowIs DEF ConfigTypeOK
<1>8. SDAO' \in {0, 1}
  BY <1>7 DEF ConfigTypeOK, ConfigTick, Writer, AtReset, Start, BitLow, BitOut, BitHigh, BitEnd,
         ByteEnd, NextByte, Stop, End, Rearm, Again, To
<1>9. A' \in Below(512)
  <2>1. HighByte \in Nat /\ HighByte < 256 /\ LowByte \in Nat /\ LowByte < 256
    BY BelowIs, Halves DEF ConfigTypeOK, HighByte, LowByte
  <2>2. /\ Byte9(HighByte) \in Below(512) /\ Byte9(LowByte) \in Below(512)
        /\ Byte9(SLAVE) \in Below(512)
    BY <2>1, BelowIs DEF Byte9, SLAVE
  <2>3. (2 * A) % 512 \in Below(512)
    BY <1>7, BelowIs
  <2>4. QED
    BY <2>2, <2>3
       DEF ConfigTypeOK, ConfigTick, Writer, AtReset, Start, BitLow, BitOut, BitHigh, BitEnd,
         ByteEnd, NextByte, Stop, End, Rearm, Again, To, count
<1>10. bits' \in Seq({0, 1}) /\ Len(bits') <= 27
  <2>1. CASE Started
    BY <2>1 DEF ConfigTick, Decode
  <2>2. CASE ~Started /\ ~Clocked
    BY <2>2 DEF ConfigTypeOK, ConfigTick, Decode, chip
  <2>3. CASE ~Started /\ Clocked
    BY <2>3, <1>8, OneMore DEF ConfigTypeOK, ConfigTick, Clocked
  <2>4. QED
    BY <2>2, <2>1, <2>3
<1>11. acking' \in BOOLEAN
  BY DEF ConfigTick
<1>12. QED
  BY <1>1, <1>2, <1>3, <1>8, <1>9, <1>10, <1>11, <1>4, <1>5, <1>6 DEF ConfigTypeOK

LEMMA AsksKept ==
  ASSUME ConfigInv, ConfigTick
  PROVE  Asks'
<1> USE DEF ConfigInv
<1>1. PICK HDMI_TX_INT \in BOOLEAN : Config(HDMI_TX_INT)
  BY DEF ConfigTick
<1>2. ST = 0 /\ ~mI2C_GO => ST' = 0
  BY DEF ConfigTick, Writer, AtReset, Start, BitLow, BitOut, BitHigh, BitEnd,
         ByteEnd, NextByte, Stop, End, Rearm, Again, To
<1>3. CASE LUT_INDEX < LUT_SIZE /\ Ask
  BY <1>3, TableTyped DEF Asks, Ask, ConfigTypeOK
<1>4. CASE LUT_INDEX < LUT_SIZE /\ Await
  <2>1. CASE END_OK
    <3>1. mSetup_ST' \in {0, 2} /\ mI2C_GO' = FALSE /\ UNCHANGED <<LUT_INDEX, mI2C_DATA>>
      BY <1>4, <2>1, Zenon DEF Await, AfterEnd
    <3>2. QED
      BY <1>2, <1>4, <3>1, TableTyped DEF Asks, ConfigTypeOK, Await
  <2>2. CASE ~END_OK
    BY <1>2, <1>4, <2>2, TableTyped DEF Asks, Await, ConfigTypeOK
  <2>3. QED
    BY <2>1, <2>2
<1>5. CASE LUT_INDEX < LUT_SIZE /\ Advance
  BY <1>2, <1>5, TableTyped DEF Asks, Advance, ConfigTypeOK, Last
<1>6. CASE LUT_INDEX >= LUT_SIZE /\ Done(HDMI_TX_INT)
  <2>1. /\ LUT_INDEX' \in {LUT_INDEX, 0} /\ UNCHANGED <<mSetup_ST, mI2C_GO, mI2C_DATA>>
    BY <1>6, Zenon DEF Done
  <2>2. QED
    BY <1>2, <1>6, <2>1, TableTyped DEF Asks, ConfigTypeOK
<1>7. QED
  BY <1>1, <1>3, <1>4, <1>5, <1>6, TableTyped DEF Config, ConfigTypeOK

LEMMA BitClocked ==
  ASSUME ConfigInv, ConfigTick, ST = 4
  PROVE  Len(bits') = Len(bits) + 1
<1>1. Clocked /\ ~Started
  BY Wire, ConfigTyped DEF ConfigInv, ConfigTick
<1>2. SDAO' \in {0, 1}
  BY ConfigTyped DEF ConfigTypeOK
<1>3. QED
  BY <1>1, <1>2, OneMore DEF ConfigInv, ConfigTick

LEMMA LinesKept ==
  ASSUME ConfigInv, ConfigTick
  PROVE  WriterLines'
<1> USE DEF ConfigInv, To, flags, count, ConfigTypeOK
<1>1. Writer /\ Decode /\ SDAO' \in {0, 1}
  BY ConfigTyped DEF ConfigTick
<1>2. CASE AtReset
  BY <1>2 DEF AtReset, WriterLines, Resting, InBits, Stopping
<1>3. CASE Start
  <2>1. bits' = <<>>
    BY <1>1, <1>3, Wire DEF Start
  <2>2. QED
    BY <1>3, <2>1 DEF Start, WriterLines, Resting, InBits, Stopping
<1>4. CASE BitLow \/ BitOut
  <2>1. bits' = bits
    BY <1>1, <1>4, Wire DEF BitLow, BitOut, chip
  <2>2. QED
    BY <1>4, <2>1, SMTT(40) DEF BitLow, BitOut, WriterLines, Resting, InBits, Stopping
<1>5. CASE BitHigh
  <2>1. Len(bits') = Len(bits) + 1
    BY <1>5, BitClocked DEF BitHigh
  <2>2. /\ ST = 4 /\ ST' = 5 /\ SCLO' = 1 /\ CNT' = CNT + 1
        /\ UNCHANGED <<BYTE, END_OK, ACK_OK>>
    BY <1>5 DEF BitHigh
  <2>3. ~END_OK /\ CNT <= 8 /\ Len(bits) = 9 * BYTE + CNT
    BY <2>2 DEF WriterLines, InBits
  <2>4. QED
    BY <2>1, <2>2, <2>3, SMTT(40) DEF WriterLines, Resting, InBits, Stopping
<1>6. CASE BitEnd \/ ByteEnd
  <2>1. bits' = bits
    BY <1>1, <1>6, Wire DEF BitEnd, ByteEnd, chip
  <2>2. CASE BitEnd
    BY <2>1, <2>2 DEF BitEnd, ByteDone, WriterLines, Resting, InBits, Stopping
  <2>3. CASE ByteEnd
    <3>1. PICK n \in Nat : Len(bits) = n
      OBVIOUS
    <3>2. ~END_OK /\ CNT = 9 /\ n = 9 * BYTE + 9 /\ BYTE \in 0..2
      BY <2>3, <3>1 DEF ByteEnd, ByteDone, WriterLines, InBits
    <3>3. CASE BYTE = 2
      BY <2>1, <2>3, <3>1, <3>2, <3>3 DEF ByteEnd, WriterLines, Resting, InBits, Stopping
    <3>4. CASE BYTE # 2
      BY <2>1, <2>3, <3>1, <3>2, <3>4 DEF ByteEnd, NextByte, WriterLines, Resting, InBits, Stopping
    <3>5. QED
      BY <3>3, <3>4
  <2>4. QED
    BY <1>6, <2>2, <2>3
<1>7. CASE Stop \/ End
  <2>1. bits' = bits
    BY <1>1, <1>7, Wire DEF Stop, End, chip
  <2>2. QED
    BY <1>7, <2>1, SMTT(40) DEF Stop, End, WriterLines, Resting, InBits, Stopping
<1>8. CASE Rearm \/ Again
  BY <1>8, SMTT(40) DEF Rearm, Again, WriterLines, Resting, InBits, Stopping
<1>9. QED
  BY <1>1, <1>2, <1>3, <1>4, <1>5, <1>6, <1>7, <1>8 DEF Writer

-----------------------------------------------------------------------------
(* A byte on its way. *)

\* With c bits sent, t left: z is the next bit on the bus, n bits are sent and u is left.
ShiftsOut(c, t, z, n, u) ==
  \E s \in {0, 1}, a \in Nat :
    /\ a < 512 /\ t = 512 * s + a /\ (c < 8 => z = s) /\ n = c + 1 /\ u = 2 * a

\* A clock takes the bit that was shifted out.
LEMMA NextBit ==
  ASSUME NEW b \in Nat, NEW f \in Nat, f > 0, NEW c \in 0..8, NEW t \in Nat,
         NEW z \in {0, 1}, NEW n, NEW u, Shifted(b, f, c, t), ShiftsOut(c, t, z, n, u),
         bits \in Seq({0, 1}), Len(bits) = f - 1 + c,
         \A i \in 1..Len(bits) : bits'[i] = bits[i], bits'[Len(bits) + 1] = z
  PROVE  Shifted(b, f, n, u)'
<1> SUFFICES ASSUME NEW s \in {0, 1}, NEW a \in Nat, a < 512, t = 512 * s + a,
                    c < 8 => z = s, n = c + 1, u = 2 * a
             PROVE  Shifted(b, f, n, u)'
  BY DEF ShiftsOut
<1>1. \A k \in Nat : k < c => bits'[f + k] = bits[f + k] /\ bits[f + k] \in {0, 1}
  <2> TAKE k \in Nat
  <2> HAVE k < c
  <2>1. f + k \in 1..Len(bits)
    OBVIOUS
  <2>2. QED
    BY <2>1
<1>2. bits'[f + c] = z
  OBVIOUS
<1>3. CASE c = 0
  <2>1. bits'[f] = z
    BY <1>2, <1>3
  <2>2. t = 2 * (2 * b + 1)
    BY <1>3 DEF Shifted, Byte9
  <2>3. 1024 * (z) + 2 * a = 4 * (2 * b + 1)
    BY <1>3, <2>2
  <2>4. QED
    BY <1>3, <2>1, <2>3 DEF Shifted, Byte9
<1>4. CASE c = 1
  <2>1. /\ bits'[f] = bits[f] /\ bits[f] \in Nat
    BY <1>1, <1>4
  <2>2. PICK x0 \in Nat :
           /\ bits[f] = x0 /\ bits'[f] = x0
    BY <2>1, Zenon
  <2>3. bits'[f + 1] = z
    BY <1>2, <1>4
  <2>4. 1024 * (x0) + t = 4 * (2 * b + 1)
    BY <2>2, <1>4 DEF Shifted, Byte9
  <2>5. 1024 * (2 * x0 + z) + 2 * a = 8 * (2 * b + 1)
    BY <1>4, <2>4
  <2>6. QED
    BY <1>4, <2>2, <2>3, <2>5 DEF Shifted, Byte9
<1>5. CASE c = 2
  <2>1. /\ bits'[f] = bits[f] /\ bits[f] \in Nat
        /\ bits'[f + 1] = bits[f + 1] /\ bits[f + 1] \in Nat
    BY <1>1, <1>5
  <2>2. PICK x0, x1 \in Nat :
           /\ bits[f] = x0 /\ bits'[f] = x0
           /\ bits[f + 1] = x1 /\ bits'[f + 1] = x1
    BY <2>1, Zenon
  <2>3. bits'[f + 2] = z
    BY <1>2, <1>5
  <2>4. 1024 * (2 * x0 + x1) + t = 8 * (2 * b + 1)
    BY <2>2, <1>5 DEF Shifted, Byte9
  <2>5. 1024 * (4 * x0 + 2 * x1 + z) + 2 * a = 16 * (2 * b + 1)
    BY <1>5, <2>4
  <2>6. QED
    BY <1>5, <2>2, <2>3, <2>5 DEF Shifted, Byte9
<1>6. CASE c = 3
  <2>1. /\ bits'[f] = bits[f] /\ bits[f] \in Nat
        /\ bits'[f + 1] = bits[f + 1] /\ bits[f + 1] \in Nat
        /\ bits'[f + 2] = bits[f + 2] /\ bits[f + 2] \in Nat
    BY <1>1, <1>6
  <2>2. PICK x0, x1, x2 \in Nat :
           /\ bits[f] = x0 /\ bits'[f] = x0
           /\ bits[f + 1] = x1 /\ bits'[f + 1] = x1
           /\ bits[f + 2] = x2 /\ bits'[f + 2] = x2
    BY <2>1, Zenon
  <2>3. bits'[f + 3] = z
    BY <1>2, <1>6
  <2>4. 1024 * (4 * x0 + 2 * x1 + x2) + t = 16 * (2 * b + 1)
    BY <2>2, <1>6 DEF Shifted, Byte9
  <2>5. 1024 * (8 * x0 + 4 * x1 + 2 * x2 + z) + 2 * a = 32 * (2 * b + 1)
    BY <1>6, <2>4
  <2>6. QED
    BY <1>6, <2>2, <2>3, <2>5 DEF Shifted, Byte9
<1>7. CASE c = 4
  <2>1. /\ bits'[f] = bits[f] /\ bits[f] \in Nat
        /\ bits'[f + 1] = bits[f + 1] /\ bits[f + 1] \in Nat
        /\ bits'[f + 2] = bits[f + 2] /\ bits[f + 2] \in Nat
        /\ bits'[f + 3] = bits[f + 3] /\ bits[f + 3] \in Nat
    BY <1>1, <1>7
  <2>2. PICK x0, x1, x2, x3 \in Nat :
           /\ bits[f] = x0 /\ bits'[f] = x0
           /\ bits[f + 1] = x1 /\ bits'[f + 1] = x1
           /\ bits[f + 2] = x2 /\ bits'[f + 2] = x2
           /\ bits[f + 3] = x3 /\ bits'[f + 3] = x3
    BY <2>1, Zenon
  <2>3. bits'[f + 4] = z
    BY <1>2, <1>7
  <2>4. 1024 * (8 * x0 + 4 * x1 + 2 * x2 + x3) + t = 32 * (2 * b + 1)
    BY <2>2, <1>7 DEF Shifted, Byte9
  <2>5. 1024 * (16 * x0 + 8 * x1 + 4 * x2 + 2 * x3 + z) + 2 * a = 64 * (2 * b + 1)
    BY <1>7, <2>4
  <2>6. QED
    BY <1>7, <2>2, <2>3, <2>5 DEF Shifted, Byte9
<1>8. CASE c = 5
  <2>1. /\ bits'[f] = bits[f] /\ bits[f] \in Nat
        /\ bits'[f + 1] = bits[f + 1] /\ bits[f + 1] \in Nat
        /\ bits'[f + 2] = bits[f + 2] /\ bits[f + 2] \in Nat
    BY <1>1, <1>8
  <2>2. /\ bits'[f + 3] = bits[f + 3] /\ bits[f + 3] \in Nat
        /\ bits'[f + 4] = bits[f + 4] /\ bits[f + 4] \in Nat
    BY <1>1, <1>8
  <2>3. PICK x0, x1, x2, x3, x4 \in Nat :
           /\ bits[f] = x0 /\ bits'[f] = x0
           /\ bits[f + 1] = x1 /\ bits'[f + 1] = x1
           /\ bits[f + 2] = x2 /\ bits'[f + 2] = x2
           /\ bits[f + 3] = x3 /\ bits'[f + 3] = x3
           /\ bits[f + 4] = x4 /\ bits'[f + 4] = x4
    BY <2>1, <2>2, Zenon
  <2>4. bits'[f + 5] = z
    BY <1>2, <1>8
  <2>5. 1024 * (16 * x0 + 8 * x1 + 4 * x2 + 2 * x3 + x4) + t = 64 * (2 * b + 1)
    BY <2>3, <1>8 DEF Shifted, Byte9
  <2>6. 1024 * (32 * x0 + 16 * x1 + 8 * x2 + 4 * x3 + 2 * x4 + z) + 2 * a = 128 * (2 * b + 1)
    BY <1>8, <2>5
  <2>7. QED
    BY <1>8, <2>3, <2>4, <2>6 DEF Shifted, Byte9
<1>9. CASE c = 6
  <2>1. /\ bits'[f] = bits[f] /\ bits[f] \in Nat
        /\ bits'[f + 1] = bits[f + 1] /\ bits[f + 1] \in Nat
        /\ bits'[f + 2] = bits[f + 2] /\ bits[f + 2] \in Nat
    BY <1>1, <1>9
  <2>2. /\ bits'[f + 3] = bits[f + 3] /\ bits[f + 3] \in Nat
        /\ bits'[f + 4] = bits[f + 4] /\ bits[f + 4] \in Nat
        /\ bits'[f + 5] = bits[f + 5] /\ bits[f + 5] \in Nat
    BY <1>1, <1>9
  <2>3. PICK x0, x1, x2, x3, x4, x5 \in Nat :
           /\ bits[f] = x0 /\ bits'[f] = x0
           /\ bits[f + 1] = x1 /\ bits'[f + 1] = x1
           /\ bits[f + 2] = x2 /\ bits'[f + 2] = x2
           /\ bits[f + 3] = x3 /\ bits'[f + 3] = x3
           /\ bits[f + 4] = x4 /\ bits'[f + 4] = x4
           /\ bits[f + 5] = x5 /\ bits'[f + 5] = x5
    BY <2>1, <2>2, Zenon
  <2>4. bits'[f + 6] = z
    BY <1>2, <1>9
  <2>5. 1024 * (32 * x0 + 16 * x1 + 8 * x2 + 4 * x3 + 2 * x4 + x5) + t = 128 * (2 * b + 1)
    BY <2>3, <1>9 DEF Shifted, Byte9
  <2>6. 1024 * (64 * x0 + 32 * x1 + 16 * x2 + 8 * x3 + 4 * x4 + 2 * x5 + z) + 2 * a
          = 256 * (2 * b + 1)
    BY <1>9, <2>5
  <2>7. QED
    BY <1>9, <2>3, <2>4, <2>6 DEF Shifted, Byte9
<1>10. CASE c = 7
  <2>1. /\ bits'[f] = bits[f] /\ bits[f] \in Nat
        /\ bits'[f + 1] = bits[f + 1] /\ bits[f + 1] \in Nat
        /\ bits'[f + 2] = bits[f + 2] /\ bits[f + 2] \in Nat
    BY <1>1, <1>10
  <2>2. /\ bits'[f + 3] = bits[f + 3] /\ bits[f + 3] \in Nat
        /\ bits'[f + 4] = bits[f + 4] /\ bits[f + 4] \in Nat
        /\ bits'[f + 5] = bits[f + 5] /\ bits[f + 5] \in Nat
    BY <1>1, <1>10
  <2>3. /\ bits'[f + 6] = bits[f + 6] /\ bits[f + 6] \in Nat
    BY <1>1, <1>10
  <2>4. PICK x0, x1, x2, x3, x4, x5, x6 \in Nat :
           /\ bits[f] = x0 /\ bits'[f] = x0
           /\ bits[f + 1] = x1 /\ bits'[f + 1] = x1
           /\ bits[f + 2] = x2 /\ bits'[f + 2] = x2
           /\ bits[f + 3] = x3 /\ bits'[f + 3] = x3
           /\ bits[f + 4] = x4 /\ bits'[f + 4] = x4
           /\ bits[f + 5] = x5 /\ bits'[f + 5] = x5
           /\ bits[f + 6] = x6 /\ bits'[f + 6] = x6
    BY <2>1, <2>2, <2>3, Zenon
  <2>5. bits'[f + 7] = z
    BY <1>2, <1>10
  <2>6. 1024 * (64 * x0 + 32 * x1 + 16 * x2 + 8 * x3 + 4 * x4 + 2 * x5 + x6) + t = 256 * (2 * b + 1)
    BY <2>4, <1>10 DEF Shifted, Byte9
  <2>7. 128 * x0 + 64 * x1 + 32 * x2 + 16 * x3 + 8 * x4 + 4 * x5 + 2 * x6 + z = b /\ 2 * a = 512
    BY <1>10, <2>6
  <2>8. QED
    BY <1>10, <2>4, <2>5, <2>7 DEF Shifted, Value
<1>11. CASE c = 8
  <2>1. /\ bits'[f] = bits[f] /\ bits[f] \in Nat
        /\ bits'[f + 1] = bits[f + 1] /\ bits[f + 1] \in Nat
        /\ bits'[f + 2] = bits[f + 2] /\ bits[f + 2] \in Nat
    BY <1>1, <1>11
  <2>2. /\ bits'[f + 3] = bits[f + 3] /\ bits[f + 3] \in Nat
        /\ bits'[f + 4] = bits[f + 4] /\ bits[f + 4] \in Nat
        /\ bits'[f + 5] = bits[f + 5] /\ bits[f + 5] \in Nat
    BY <1>1, <1>11
  <2>3. /\ bits'[f + 6] = bits[f + 6] /\ bits[f + 6] \in Nat
        /\ bits'[f + 7] = bits[f + 7] /\ bits[f + 7] \in Nat
    BY <1>1, <1>11
  <2>4. PICK x0, x1, x2, x3, x4, x5, x6, x7 \in Nat :
           /\ bits[f] = x0 /\ bits'[f] = x0
           /\ bits[f + 1] = x1 /\ bits'[f + 1] = x1
           /\ bits[f + 2] = x2 /\ bits'[f + 2] = x2
           /\ bits[f + 3] = x3 /\ bits'[f + 3] = x3
           /\ bits[f + 4] = x4 /\ bits'[f + 4] = x4
           /\ bits[f + 5] = x5 /\ bits'[f + 5] = x5
           /\ bits[f + 6] = x6 /\ bits'[f + 6] = x6
           /\ bits[f + 7] = x7 /\ bits'[f + 7] = x7
    BY <2>1, <2>2, <2>3, Zenon
  <2>5. bits'[f + 8] = z
    BY <1>2, <1>11
  <2>6. Value(f) = b /\ t = 512
    BY <1>11 DEF Shifted
  <2>7. Value(f)' = b /\ s = 1
    BY <2>4, <2>6 DEF Value
  <2>8. QED
    BY <1>11, <2>7 DEF Shifted
<1>12. QED
  BY <1>3, <1>4, <1>5, <1>6, <1>7, <1>8, <1>9, <1>10, <1>11

LEMMA SameShifted ==
  ASSUME NEW b, NEW f, NEW c, NEW t, Shifted(b, f, c, t), bits' = bits
  PROVE  Shifted(b, f, c, t)'
  BY DEF Shifted, Value

LEMMA SameByte ==
  ASSUME NEW b \in Nat, NEW f \in Nat, CNT' = CNT, bits' = bits, TwiceLeft' = TwiceLeft, InByte(b, f)
  PROVE  InByte(b, f)'
<1>1. PICK c, t : c = CNT /\ t = TwiceLeft
  OBVIOUS
<1>2. Shifted(b, f, c, t)
  BY <1>1 DEF InByte
<1>3. Shifted(b, f, c, t)'
  BY <1>2, SameShifted
<1>4. c = CNT' /\ t = TwiceLeft'
  BY <1>1
<1>5. QED
  BY <1>3, <1>4 DEF InByte

\* A step inside a byte leaves the byte on its way.
LEMMA InByteKept ==
  ASSUME ConfigTypeOK, WriterLines, Writer, Decode, SDAO' \in {0, 1}, InBits, ~ByteEnd,
         NEW b \in Nat, NEW f \in Nat, f = 9 * BYTE + 1, InByte(b, f)
  PROVE  InByte(b, f)'
<1>1. A \in Nat /\ A < 512 /\ SDAO \in {0, 1} /\ bits \in Seq({0, 1}) /\ CNT \in 0..9
  BY BelowIs DEF ConfigTypeOK
<1>2. CASE ST = 2
  <2>1. BitLow
    BY <1>2 DEF Writer, AtReset, Start, BitOut, BitHigh, BitEnd, ByteEnd, Stop, End, Rearm, Again
  <2>2. CNT' = CNT /\ A' = A /\ ST' = 3
    BY <2>1, Zenon DEF BitLow, To, count
  <2>3. bits' = bits
    BY <1>2, Wire DEF chip
  <2>4. TwiceLeft' = TwiceLeft
    BY <1>2, <2>2 DEF TwiceLeft
  <2>5. QED
    BY <2>2, <2>4, <2>3, SameByte
<1>3. CASE ST = 3
  <2>1. BitOut
    BY <1>3 DEF Writer, AtReset, Start, BitLow, BitHigh, BitEnd, ByteEnd, Stop, End, Rearm, Again
  <2>2. CNT' = CNT /\ A' = (2 * A) % 512 /\ SDAO' = A \div 256 /\ ST' = 4
    BY <2>1, Zenon DEF BitOut, To, count
  <2>3. bits' = bits
    BY <1>3, Wire DEF chip
  <2>4. TwiceLeft' = TwiceLeft
    BY <1>1, <1>3, <2>2 DEF TwiceLeft
  <2>5. QED
    BY <2>2, <2>4, <2>3, SameByte
<1>4. CASE ST = 4
  <2>1. BitHigh
    BY <1>4 DEF Writer, AtReset, Start, BitLow, BitOut, BitEnd, ByteEnd, Stop, End, Rearm, Again
  <2>2. CNT' = CNT + 1 /\ A' = A /\ SDAO' = SDAO /\ ST' = 5
    BY <2>1 DEF BitHigh, To
  <2>3. PICK z \in {0, 1} :
          /\ \A i \in 1..Len(bits) : bits'[i] = bits[i]
          /\ bits'[Len(bits) + 1] = z
          /\ Len(bits) % 9 # 8 => z = SDAO'
    BY <1>4, OneMore, Wire
  <2>4. CNT \in 0..8 /\ Len(bits) = f - 1 + CNT
    BY <1>1, <1>4 DEF WriterLines, ConfigTypeOK
  <2>5. CNT < 8 => z = SDAO
    <3>1. PICK n \in Nat : Len(bits) = n
      BY <1>1
    <3>2. n = 9 * BYTE + CNT /\ BYTE \in 0..2
      BY <2>4, <3>1 DEF ConfigTypeOK
    <3>3. CNT < 8 => n % 9 # 8
      BY <2>4, <3>2
    <3>4. QED
      BY <2>2, <2>3, <3>1, <3>3
  <2>6. PICK c \in 0..8, d \in {0, 1}, a \in Nat : c = CNT /\ d = SDAO /\ a = A /\ a < 512
    BY <1>1, <2>4
  <2>7. 512 * d + a \in Nat /\ TwiceLeft = 512 * d + a /\ TwiceLeft' = 2 * a
    BY <1>4, <2>2, <2>6 DEF TwiceLeft
  <2>8. Shifted(b, f, c, 512 * d + a)
    BY <2>6, <2>7 DEF InByte
  <2>9. f > 0
    BY DEF ConfigTypeOK
  <2>10. PICK t \in Nat, n \in Nat, u \in Nat : t = 512 * d + a /\ n = c + 1 /\ u = 2 * a
    BY <2>7
  <2>11. Shifted(b, f, c, t)
    BY <2>8, <2>10
  <2>12. Len(bits) = f - 1 + c /\ (c < 8 => z = d) /\ a < 512
    BY <2>4, <2>5, <2>6
  <2>13. ShiftsOut(c, t, z, n, u)
    BY <2>6, <2>10, <2>12 DEF ShiftsOut
  <2>14. bits \in Seq({0, 1})
    BY <1>1
  <2>15. Shifted(b, f, n, u)'
    BY <2>3, <2>9, <2>11, <2>12, <2>14, <2>13, NextBit
  <2>16. n = CNT' /\ u = TwiceLeft'
    BY <2>2, <2>6, <2>7, <2>10
  <2>17. QED
    BY <2>15, <2>16 DEF InByte
<1>5. CASE ST = 5
  <2>1. BitEnd
    BY <1>5 DEF Writer, AtReset, Start, BitLow, BitOut, BitHigh, ByteEnd, Stop, End, Rearm, Again
  <2>2. CNT' = CNT /\ A' = A /\ ST' = 2
    BY <2>1, Zenon DEF BitEnd, To, count
  <2>3. bits' = bits
    BY <1>5, Wire DEF chip
  <2>4. TwiceLeft' = TwiceLeft
    BY <1>5, <2>2 DEF TwiceLeft
  <2>5. QED
    BY <2>2, <2>4, <2>3, SameByte
<1>6. QED
  BY <1>2, <1>3, <1>4, <1>5 DEF InBits

-----------------------------------------------------------------------------
(* Words on their way. *)

\* What the table may do while a word is on the bus: wait for the answer, be
\* restarted by the interrupt, or ask for its first entry after that.
TableHolds ==
  \/ UNCHANGED <<LUT_INDEX, mSetup_ST, mI2C_DATA>>
  \/ /\ LUT_INDEX = 0 /\ mI2C_DATA = Last
     /\ LUT_INDEX' = 0 /\ mSetup_ST' = 1 /\ mI2C_DATA' = Entry(0)
  \/ LUT_INDEX > 0 /\ LUT_INDEX' = 0 /\ mSetup_ST = 0 /\ mSetup_ST' = 0 /\ mI2C_DATA' = mI2C_DATA

LEMMA TableWhileSending ==
  ASSUME ConfigInv, ConfigTick, InBits \/ Stopping, ST # 2 \/ CNT > 0 \/ BYTE > 0
  PROVE  TableHolds
<1> USE DEF ConfigInv
<1>1. PICK HDMI_TX_INT \in BOOLEAN : Config(HDMI_TX_INT)
  BY DEF ConfigTick
<1>2. LUT_INDEX \in 0..LUT_SIZE /\ LUT_SIZE \in Nat /\ LUT_SIZE > 0
  BY TableTyped DEF ConfigTypeOK
<1>3. ~END_OK /\ ST \in 2..9
  BY DEF WriterLines, InBits, Stopping
<1>4. CASE LUT_INDEX < LUT_SIZE /\ Ask
  <2>1. LUT_INDEX = 0 /\ mI2C_DATA = Last
    BY <1>3, <1>4 DEF Together, Ask, ConfigTypeOK
  <2>2. QED
    BY <1>4, <2>1, Zenon DEF Ask, TableHolds
<1>5. CASE LUT_INDEX < LUT_SIZE /\ Await
  BY <1>3, <1>5, Zenon DEF Await, TableHolds
<1>6. CASE LUT_INDEX < LUT_SIZE /\ Advance
  BY <1>3, <1>6 DEF Advance, Together
<1>7. CASE LUT_INDEX >= LUT_SIZE /\ Done(HDMI_TX_INT)
  <2>1. LUT_INDEX' \in {LUT_INDEX, 0} /\ UNCHANGED <<mSetup_ST, mI2C_DATA>>
    BY <1>7, Zenon DEF Done
  <2>2. mSetup_ST = 0 /\ LUT_INDEX > 0
    BY <1>2, <1>7 DEF Asks
  <2>3. QED
    BY <2>1, <2>2 DEF TableHolds
<1>8. QED
  BY <1>1, <1>2, <1>4, <1>5, <1>6, <1>7 DEF Config

\* A restart while a word is under way changes neither what was loaded nor the promise.
LEMMA LoadedKept ==
  ASSUME TableHolds, NEW d, Loaded(d)
  PROVE  Loaded(d)'
  BY DEF TableHolds, Loaded

LEMMA SteadyKept ==
  ASSUME TableHolds, NEW p, Steady(p)
  PROVE  Steady(p)'
  BY DEF TableHolds, Steady

\* The part of the bus a step of the writer leaves as it is.
BitsStay ==
  /\ bits' \in Seq({0, 1}) /\ Len(bits) <= Len(bits')
  /\ \A i \in 1..Len(bits) : bits'[i] = bits[i]

\* Only a start takes bits away from the transmitter.
LEMMA BitsKept ==
  ASSUME ConfigInv, ConfigTick, ST # 1
  PROVE  BitsStay
<1> USE DEF ConfigInv
<1>1. Writer /\ Decode /\ SDAO' \in {0, 1}
  BY ConfigTyped DEF ConfigTick, ConfigTypeOK
<1>2. bits \in Seq({0, 1})
  BY DEF ConfigTypeOK
<1>3. CASE bits' = bits
  BY <1>2, <1>3 DEF BitsStay
<1>4. CASE bits' # bits
  <2>1. ~Started /\ Clocked
    BY <1>1, <1>4, Wire DEF Decode, chip
  <2>2. QED
    BY <1>1, <1>2, <2>1, OneMore DEF BitsStay
<1>5. QED
  BY <1>3, <1>4

LEMMA ValueKept ==
  ASSUME BitsStay, bits \in Seq({0, 1}), NEW f \in Nat, f > 0, f + 7 <= Len(bits)
  PROVE  Value(f)' = Value(f)
  BY SameValue DEF BitsStay

\* Where a step of the writer leads.
LEMMA Moves ==
  ASSUME ConfigTypeOK, WriterLines, Writer
  PROVE  /\ ST = 0 => ST' = (IF mI2C_GO THEN 30 ELSE 0) /\ END_OK'
         /\ ST = 1 => ST' = 2 /\ BYTE' = 0 /\ CNT' = 0 /\ A' = Byte9(SLAVE)
         /\ InBits /\ ~ByteEnd => InBits' /\ BYTE' = BYTE /\ ACK_OK' = ACK_OK
         /\ ByteEnd /\ BYTE < 2 => ST' = 2 /\ BYTE' = BYTE + 1 /\ CNT' = 0 /\ SDAO' = SDAO
         /\ ByteEnd /\ BYTE = 2 => ST' = 6 /\ SDAO' = SDAO
         /\ Stopping => ST' = (IF ST = 9 THEN 30 ELSE ST + 1) /\ ACK_OK' = ACK_OK
         /\ ST = 30 => ST' = (IF mI2C_GO THEN 30 ELSE 31) /\ ACK_OK' = ACK_OK
         /\ ST = 31 => ST' = 1
         /\ ByteEnd => InBits /\ ST = 5 /\ CNT = 9 /\ BYTE \in 0..2 /\ ACK_OK' = Nacked
<1> USE DEF To, count, flags
<1>1. CASE AtReset
  BY <1>1 DEF AtReset, InBits, Stopping, ByteEnd
<1>2. CASE Start
  BY <1>2 DEF Start, InBits, Stopping, ByteEnd, WriterLines, Resting
<1>3. CASE BitLow \/ BitOut \/ BitHigh
  BY <1>3 DEF BitLow, BitOut, BitHigh, InBits, Stopping, ByteEnd
<1>4. CASE BitEnd
  BY <1>4 DEF BitEnd, InBits, Stopping, ByteEnd
<1>5. CASE ByteEnd
  BY <1>5 DEF ByteEnd, ByteDone, NextByte, InBits, Stopping, ConfigTypeOK
<1>6. CASE Stop
  BY <1>6 DEF Stop, InBits, Stopping, ByteEnd
<1>7. CASE End \/ Rearm \/ Again
  BY <1>7 DEF End, Rearm, Again, InBits, Stopping, ByteEnd
<1>8. QED
  BY <1>1, <1>2, <1>3, <1>4, <1>5, <1>6, <1>7 DEF Writer

LEMMA SendsSlaveKept ==
  ASSUME ConfigInv, ConfigTick
  PROVE  SendsSlave'
<1> USE DEF ConfigInv
<1>1. Writer /\ Decode /\ SDAO' \in {0, 1}
  BY ConfigTyped DEF ConfigTick, ConfigTypeOK
<1>2. CASE ST = 1
  <2>1. ST' = 2 /\ BYTE' = 0 /\ CNT' = 0 /\ A' = Byte9(SLAVE)
    BY <1>1, <1>2, Moves
  <2>2. TwiceLeft' = 2 * Byte9(SLAVE)
    BY <2>1 DEF TwiceLeft
  <2>3. InByte(SLAVE, 1)'
    BY <2>1, <2>2 DEF InByte, Shifted
  <2>4. QED
    BY <2>1, <2>3 DEF SendsSlave, InBits, Stopping
<1>3. CASE InBits /\ ~ByteEnd /\ BYTE = 0
  <2>1. InByte(SLAVE, 1)'
    BY <1>1, <1>3, InByteKept DEF SendsSlave, SLAVE
  <2>2. InBits' /\ BYTE' = 0
    BY <1>1, <1>3, Moves
  <2>3. QED
    BY <2>1, <2>2 DEF SendsSlave, InBits, Stopping
<1>4. CASE ByteEnd \/ (InBits /\ BYTE > 0) \/ Stopping
  <2>1. ST # 1 /\ Len(bits) >= 8 /\ bits \in Seq({0, 1})
    <3>1. PICK n \in Nat : Len(bits) = n
      BY DEF ConfigTypeOK
    <3>2. ByteEnd => InBits /\ CNT = 9
      BY <1>1, Moves
    <3>3. ST # 1 /\ n >= 8
      BY <1>4, <3>1, <3>2 DEF WriterLines, InBits, Stopping, ConfigTypeOK
    <3>4. QED
      BY <3>1, <3>3 DEF ConfigTypeOK
  <2>2. Value(1)' = Value(1)
    BY <2>1, BitsKept, ValueKept
  <2>3. Value(1) = SLAVE
    <3>1. CASE ByteEnd /\ BYTE = 0
      <4>1. InByte(SLAVE, 1) /\ CNT = 9
        BY <1>1, <3>1, Moves DEF SendsSlave
      <4>2. QED
        BY <4>1 DEF InByte, Shifted
    <3>2. CASE ~(ByteEnd /\ BYTE = 0)
      <4>1. ByteEnd => InBits /\ BYTE > 0
        BY <1>1, <3>2, Moves
      <4>2. QED
        BY <1>4, <4>1 DEF SendsSlave
    <3>3. QED
      BY <3>1, <3>2
  <2>4. InBits' => BYTE' > 0
    BY <1>1, <1>4, Moves DEF InBits, Stopping
  <2>5. QED
    BY <2>2, <2>3, <2>4 DEF SendsSlave
<1>5. CASE ST \in {0, 30, 31}
  <2>1. ST' \in {0, 1, 30, 31}
    BY <1>1, <1>5, Moves
  <2>2. QED
    BY <2>1 DEF SendsSlave, InBits, Stopping
<1>6. QED
  BY <1>2, <1>3, <1>4, <1>5 DEF ConfigTypeOK, InBits, Stopping

\* The byte a ByteEnd puts in the shift register.
LEMMA Loading ==
  ASSUME ConfigInv, ConfigTick, ByteEnd
  PROVE  /\ BYTE = 0 => TwiceLeft' = 2 * Byte9(mI2C_DATA \div 256)
         /\ BYTE = 1 => TwiceLeft' = 2 * Byte9(mI2C_DATA % 256)
<1>1. BYTE \in {0, 1} => ST' = 2
  BY Moves DEF ConfigInv, ConfigTick
<1>2. /\ BYTE = 0 => A' = Byte9(mI2C_DATA \div 256)
      /\ BYTE = 1 => A' = Byte9(mI2C_DATA % 256)
  BY DEF ByteEnd, NextByte, HighByte, LowByte
<1>3. QED
  BY <1>1, <1>2 DEF TwiceLeft

LEMMA SendsHighKept ==
  ASSUME ConfigInv, ConfigTick
  PROVE  SendsHigh'
<1> USE DEF ConfigInv
<1>1. Writer /\ Decode /\ SDAO' \in {0, 1}
  BY ConfigTyped DEF ConfigTick, ConfigTypeOK
<1>2. CASE InBits /\ ~ByteEnd /\ BYTE = 1
  <2>1. PICK d \in Entries : InByte(d \div 256, 10) /\ Loaded(d)
    BY <1>2 DEF SendsHigh
  <2>2. PICK b \in Nat : b = d \div 256
    BY TableTyped, Halves
  <2>3. InByte(b, 10)'
    BY <1>1, <1>2, <2>1, <2>2, InByteKept
  <2>4. Loaded(d)'
    BY <1>2, <2>1, TableWhileSending, LoadedKept
  <2>5. InByte(d \div 256, 10)'
    BY <2>2, <2>3
  <2>6. QED
    BY <2>4, <2>5 DEF SendsHigh
<1>3. CASE ByteEnd /\ BYTE = 0
  <2>1. PICK d \in Entries : d = mI2C_DATA
    BY <1>1, <1>3, Moves DEF Asks
  <2>2. Loaded(d)
    BY <2>1 DEF Loaded
  <2>3. Loaded(d)'
    BY <1>1, <1>3, <2>2, Moves, TableWhileSending, LoadedKept
  <2>4. CNT' = 0 /\ TwiceLeft' = 2 * Byte9(d \div 256)
    BY <1>1, <1>3, <2>1, Moves, Loading
  <2>5. InByte(d \div 256, 10)'
    BY <2>4 DEF InByte, Shifted
  <2>6. QED
    BY <2>3, <2>5 DEF SendsHigh
<1>4. CASE ~(InBits' /\ BYTE' = 1)
  BY <1>4 DEF SendsHigh
<1>5. QED
  <2>1. ST = 1 => BYTE' = 0
    BY <1>1, Moves
  <2>2. ST \in {0, 30, 31} \/ Stopping => ~InBits'
    BY <1>1, Moves DEF InBits, Stopping
  <2>3. InBits /\ ~ByteEnd => BYTE' = BYTE
    BY <1>1, Moves
  <2>4. ByteEnd /\ BYTE # 0 => BYTE' # 1 \/ ~InBits'
    BY <1>1, Moves DEF InBits
  <2>5. QED
    BY <1>2, <1>3, <1>4, <2>1, <2>2, <2>3, <2>4 DEF ConfigTypeOK, InBits, Stopping

\* The low byte is loaded later than the high one: this is where a word is torn.
LEMMA SendsLowKept ==
  ASSUME ConfigInv, ConfigTick
  PROVE  SendsLow'
<1> USE DEF ConfigInv
<1>1. Writer /\ Decode /\ SDAO' \in {0, 1}
  BY ConfigTyped DEF ConfigTick, ConfigTypeOK
<1>2. CASE InBits /\ ~ByteEnd /\ BYTE = 2
  <2>1. PICK p \in Words : Value(10) = p \div 256 /\ InByte(p % 256, 19) /\ Steady(p)
    BY <1>2 DEF SendsLow
  <2>2. PICK b \in Nat : b = p % 256
    BY WordsTyped, Halves
  <2>3. InByte(b, 19)'
    BY <1>1, <1>2, <2>1, <2>2, InByteKept
  <2>4. InByte(p % 256, 19)'
    BY <2>2, <2>3
  <2>5. Steady(p)'
    BY <1>2, <2>1, TableWhileSending, SteadyKept
  <2>6. Value(10)' = Value(10)
    <3>1. PICK n \in Nat : Len(bits) = n
      BY DEF ConfigTypeOK
    <3>2. ST # 1 /\ n >= 17
      BY <1>2, <3>1 DEF WriterLines, InBits, ConfigTypeOK
    <3>3. QED
      BY <3>1, <3>2, BitsKept, ValueKept DEF ConfigTypeOK
  <2>7. QED
    BY <2>1, <2>4, <2>5, <2>6 DEF SendsLow
<1>3. CASE ByteEnd /\ BYTE = 1
  <2>1. PICK d \in Entries : InByte(d \div 256, 10) /\ Loaded(d)
    BY <1>1, <1>3, Moves DEF SendsHigh
  <2>2. CNT = 9 /\ ST = 5
    BY <1>1, <1>3, Moves
  <2>3. Value(10) = d \div 256
    BY <2>1, <2>2 DEF InByte, Shifted
  <2>4. PICK p \in Words : /\ p \div 256 = d \div 256 /\ p % 256 = mI2C_DATA % 256
                           /\ Steady(p)
    <3>1. CASE d = mI2C_DATA
      BY <2>1, <3>1 DEF Words, Steady
    <3>2. CASE LUT_INDEX = 0 /\ d = Last /\ mI2C_DATA = Entry(0)
      BY <3>2, TornTyped DEF Words, Steady
    <3>3. QED
      BY <2>1, <3>1, <3>2 DEF Loaded
  <2>5. Steady(p)'
    BY <1>1, <1>3, <2>4, Moves, TableWhileSending, SteadyKept
  <2>6. Value(10)' = Value(10)
    <3>1. bits' = bits
      BY <1>1, <2>2, Wire DEF chip
    <3>2. QED
      BY <3>1 DEF Value
  <2>7. CNT' = 0 /\ TwiceLeft' = 2 * Byte9(p % 256)
    BY <1>1, <1>3, <2>4, Moves, Loading
  <2>8. InByte(p % 256, 19)'
    BY <2>7 DEF InByte, Shifted
  <2>9. QED
    BY <2>3, <2>4, <2>5, <2>6, <2>8 DEF SendsLow
<1>4. CASE ~(InBits' /\ BYTE' = 2)
  BY <1>4 DEF SendsLow
<1>5. QED
  <2>1. ST = 1 => BYTE' = 0
    BY <1>1, Moves
  <2>2. ST \in {0, 30, 31} \/ Stopping => ~InBits'
    BY <1>1, Moves DEF InBits, Stopping
  <2>3. InBits /\ ~ByteEnd => BYTE' = BYTE
    BY <1>1, Moves
  <2>4. ByteEnd /\ BYTE # 1 => BYTE' # 2 \/ ~InBits'
    BY <1>1, Moves DEF InBits
  <2>5. QED
    BY <1>2, <1>3, <1>4, <2>1, <2>2, <2>3, <2>4 DEF ConfigTypeOK, InBits, Stopping

LEMMA HasSentKept ==
  ASSUME ConfigInv, ConfigTick
  PROVE  HasSent'
<1> USE DEF ConfigInv
<1>1. Writer /\ Decode
  BY DEF ConfigTick
<1>2. CASE (ByteEnd /\ BYTE = 2) \/ Stopping
  <2>1. ST \notin {0, 1, 2, 4} /\ (InBits \/ Stopping)
    BY <1>1, <1>2, Moves DEF Stopping
  <2>2. bits' = bits
    BY <1>1, <2>1, Wire DEF chip
  <2>3. Word' = Word
    BY <2>2 DEF Word, Value
  <2>4. PICK p \in Words : Word = p /\ Steady(p)
    <3>1. CASE ByteEnd /\ BYTE = 2
      <4>1. PICK p \in Words : Value(10) = p \div 256 /\ InByte(p % 256, 19) /\ Steady(p)
        BY <1>1, <3>1, Moves DEF SendsLow
      <4>2. Value(19) = p % 256
        BY <1>1, <3>1, <4>1, Moves DEF InByte, Shifted
      <4>3. Word = p
        BY <4>1, <4>2, WordsTyped, Halves DEF Word
      <4>4. QED
        BY <4>1, <4>3
    <3>2. CASE Stopping
      BY <3>2 DEF HasSent, Steady
    <3>3. QED
      BY <1>2, <3>1, <3>2
  <2>5. Steady(p)'
    BY <2>1, <2>4, TableWhileSending, SteadyKept
  <2>6. QED
    BY <2>3, <2>4, <2>5 DEF HasSent, Steady
<1>3. CASE ~(ByteEnd /\ BYTE = 2) /\ ~Stopping
  <2>1. ~Stopping'
    BY <1>1, <1>3, Moves DEF InBits, Stopping, ConfigTypeOK
  <2>2. QED
    BY <2>1 DEF HasSent
<1>4. QED
  BY <1>2, <1>3

\* The ninth clock finds SDA released, so the writer reads what the transmitter answers.
LEMMA AcksKept ==
  ASSUME ConfigInv, ConfigTick
  PROVE  Acks'
<1> USE DEF ConfigInv
<1>1. Writer /\ Decode /\ SDAO \in {0, 1} /\ A \in Nat /\ A < 512
  BY BelowIs DEF ConfigTick, ConfigTypeOK
<1>2. ST' = 5 /\ CNT' = 9 => SDAO' = 1
  <2>1. SUFFICES ASSUME ST' = 5, CNT' = 9 PROVE SDAO' = 1
    OBVIOUS
  <2>2. ST = 4 /\ CNT = 8 /\ SDAO' = SDAO
    BY <1>1, <2>1 DEF Writer, AtReset, Start, BitLow, BitOut, BitHigh, BitEnd, ByteEnd, NextByte,
                      Stop, End, Rearm, Again, To, ConfigTypeOK
  <2>3. PICK b, f : InByte(b, f)
    BY <2>2 DEF InBits, SendsSlave, SendsHigh, SendsLow, ConfigTypeOK
  <2>4. 512 * SDAO + A = 512
    BY <2>2, <2>3 DEF InByte, Shifted, TwiceLeft
  <2>5. QED
    BY <1>1, <2>2, <2>4
<1>3. SUFFICES ASSUME ~ACK_OK'
               PROVE  /\ InBits' /\ BYTE' >= 1 => bits'[9] = 0
                      /\ InBits' /\ BYTE' = 2 => bits'[18] = 0
                      /\ Stopping' => bits'[9] = 0 /\ bits'[18] = 0 /\ bits'[27] = 0
  BY <1>2 DEF Acks
<1>4. PICK n \in Nat : Len(bits) = n
  BY DEF ConfigTypeOK
<1>5. CASE ST = 1
  BY <1>1, <1>5, Moves DEF Stopping
<1>6. CASE ST \in {0, 30, 31}
  BY <1>1, <1>6, Moves DEF InBits, Stopping
<1>7. CASE InBits /\ ~ByteEnd
  <2>1. InBits' /\ BYTE' = BYTE /\ ~ACK_OK /\ ST # 1
    BY <1>1, <1>3, <1>7, Moves DEF InBits
  <2>2. n >= 9 * BYTE /\ BYTE \in 0..2
    BY <1>4, <1>7 DEF WriterLines, ConfigTypeOK
  <2>3. BYTE >= 1 => bits'[9] = bits[9]
    BY <1>4, <2>1, <2>2, BitsKept DEF BitsStay
  <2>4. BYTE = 2 => bits'[18] = bits[18]
    BY <1>4, <2>1, <2>2, BitsKept DEF BitsStay
  <2>5. QED
    BY <1>7, <2>1, <2>3, <2>4 DEF Acks, InBits, Stopping
<1>8. CASE ByteEnd
  <2>1. /\ InBits /\ ST = 5 /\ CNT = 9 /\ BYTE \in 0..2 /\ ACK_OK' = Nacked
    BY <1>1, <1>8, Moves
  <2>2. ~ACK_OK /\ ~SDAI /\ SDAO = 1
    BY <1>3, <2>1 DEF Nacked, Acks
  <2>3. n = 9 * BYTE + 9
    BY <1>4, <2>1 DEF WriterLines
  <2>4. bits' = bits
    BY <1>1, <2>1, Wire DEF chip
  <2>5. bits[n] = 0
    BY <1>4, <2>2, <2>3, <2>1 DEF SDAI, ConfigTypeOK
  <2>6. QED
    BY <1>1, <1>8, <2>1, <2>2, <2>3, <2>4, <2>5, Moves DEF Acks, InBits, Stopping
<1>9. CASE Stopping
  <2>1. ~ACK_OK /\ bits' = bits
    BY <1>1, <1>3, <1>9, Moves, Wire DEF Stopping, chip
  <2>2. QED
    BY <1>1, <1>9, <2>1, Moves DEF Acks, InBits, Stopping
<1>10. QED
  BY <1>5, <1>6, <1>7, <1>8, <1>9 DEF ConfigTypeOK, InBits, Stopping

-----------------------------------------------------------------------------
(* Table and writer together, and the reset. *)

\* The writes the transmitter may take.
Sound == Value(1) = SLAVE /\ Word \in Words

\* A write whose bits are all on the bus is one of them.
LEMMA Complete ==
  ASSUME ConfigInv, Len(bits) >= 26 + SCLO
  PROVE  Sound
<1> USE DEF ConfigInv
<1>1. PICK n \in Nat : Len(bits) = n
  BY DEF ConfigTypeOK
<1>2. CASE ST = 0 \/ Resting
  BY <1>2 DEF Parked, Sound
<1>3. CASE Stopping
  BY <1>3 DEF SendsSlave, HasSent, Sound
<1>4. CASE InBits
  <2>1. BYTE = 2 /\ CNT \in {8, 9}
    BY <1>1, <1>4 DEF WriterLines, ConfigTypeOK
  <2>2. PICK p \in Words : Value(10) = p \div 256 /\ InByte(p % 256, 19)
    BY <1>4, <2>1 DEF SendsLow
  <2>3. Value(19) = p % 256
    BY <2>1, <2>2 DEF InByte, Shifted
  <2>4. Word = p
    BY <2>2, <2>3, WordsTyped, Halves DEF Word
  <2>5. QED
    BY <1>4, <2>1, <2>4 DEF SendsSlave, Sound
<1>5. QED
  BY <1>2, <1>3, <1>4 DEF ConfigTypeOK, Resting, InBits, Stopping

LEMMA ParkedKept ==
  ASSUME ConfigInv, ConfigTick
  PROVE  Parked'
<1> USE DEF ConfigInv
<1>1. Writer /\ Decode /\ SDAO' \in {0, 1} /\ SCLO' \in {0, 1}
  BY ConfigTyped DEF ConfigTick, ConfigTypeOK
<1>2. SUFFICES ASSUME ST' = 0 \/ Resting', Len(bits') >= 26 + SCLO'
               PROVE  Sound'
  BY DEF Parked, Sound
<1>3. PICK n \in Nat : Len(bits) = n
  BY DEF ConfigTypeOK
<1>4. ST \in {0, 9, 30, 31} /\ SCLO' >= SCLO
  <2>1. ST \in {0, 9, 30, 31}
    <3>1. ST' \in {0, 1, 30, 31}
      BY <1>2 DEF Resting
    <3>2. ~InBits
      <4>1. ~InBits'
        BY <3>1 DEF InBits
      <4>2. ~ByteEnd
        BY <1>1, <3>1, Moves
      <4>3. QED
        BY <1>1, <4>1, <4>2, Moves
    <3>3. ST # 1
      BY <1>1, <3>1, Moves
    <3>4. Stopping => ST = 9
      BY <1>1, <3>1, Moves DEF Stopping
    <3>5. QED
      BY <3>2, <3>3, <3>4 DEF InBits, Stopping, ConfigTypeOK
  <2>2. SCLO' \in {SCLO, 1}
    BY <1>1, <2>1 DEF Writer, AtReset, Start, BitLow, BitOut, BitHigh, BitEnd, ByteEnd, Stop, End,
                      Rearm, Again, To
  <2>3. QED
    BY <1>1, <2>1, <2>2 DEF ConfigTypeOK
<1>5. CASE bits' = bits
  <2>1. n >= 26 + SCLO
    BY <1>1, <1>2, <1>3, <1>4, <1>5 DEF ConfigTypeOK
  <2>2. Sound
    BY <1>3, <2>1, Complete
  <2>3. QED
    BY <1>5, <2>2 DEF Sound, Value, Word
<1>6. CASE bits' # bits
  <2>1. ST = 0 /\ ~Started /\ Clocked
    BY <1>1, <1>4, <1>6, Wire DEF Decode, chip
  <2>2. Len(bits') = n + 1 /\ SCLO = 0 /\ SCLO' = 1
    BY <1>1, <1>3, <2>1, OneMore DEF Clocked
  <2>3. n >= 26
    BY <1>2, <1>3, <2>2
  <2>4. Sound
    BY <1>3, <2>2, <2>3, Complete
  <2>5. BitsStay /\ bits \in Seq({0, 1})
    BY <2>1, BitsKept DEF ConfigTypeOK
  <2>6. Value(1)' = Value(1) /\ Value(10)' = Value(10) /\ Value(19)' = Value(19)
    BY <1>3, <2>3, <2>5, ValueKept
  <2>7. QED
    BY <2>4, <2>6 DEF Sound, Word
<1>7. QED
  BY <1>5, <1>6

LEMMA TogetherKept ==
  ASSUME ConfigInv, ConfigTick
  PROVE  Together'
<1> USE DEF ConfigInv
<1>1. Writer /\ Decode
  BY DEF ConfigTick
<1>2. PICK HDMI_TX_INT \in BOOLEAN : Config(HDMI_TX_INT)
  BY DEF ConfigTick
<1>3. /\ LUT_INDEX \in 0..LUT_SIZE /\ LUT_SIZE \in Nat /\ LUT_SIZE > 0
      /\ ST \in 0..9 \cup {30, 31} /\ mSetup_ST \in 0..2
  BY TableTyped DEF ConfigTypeOK
<1>4. ST' = 0 => ST = 0 /\ ~mI2C_GO /\ END_OK'
  BY <1>1, Moves DEF InBits, Stopping, ConfigTypeOK
<1>5. CASE LUT_INDEX < LUT_SIZE /\ Ask
  <2>1. /\ mSetup_ST = 0 /\ mSetup_ST' = 1 /\ LUT_INDEX' = LUT_INDEX /\ ~mI2C_GO
    BY <1>5 DEF Ask, Asks
  <2>2. ST' = 0 => LUT_INDEX' = 0
    BY <1>4, <2>1 DEF Together
  <2>3. ASSUME LUT_INDEX' > 0
        PROVE  (ST' = 31 => ACK_OK') /\ ST' # 30
    <3>1. ST \in {1, 30, 31} \/ (ST = 2 /\ BYTE = 0 /\ CNT = 0)
      BY <1>3, <1>5, <2>1, <2>3 DEF Together
    <3>2. ST = 30 => ACK_OK
      BY <1>3, <1>5, <2>1, <2>3 DEF Together
    <3>3. CASE ST = 2
      <4>1. ST' = 3
        BY <1>1, <3>3 DEF Writer, AtReset, Start, BitLow, BitOut, BitHigh, BitEnd, ByteEnd, Stop,
                          End, Rearm, Again, To
      <4>2. QED
        BY <4>1
    <3>4. CASE ST \in {1, 30, 31}
      BY <1>1, <2>1, <3>2, <3>4, Moves
    <3>5. QED
      BY <3>1, <3>3, <3>4
  <2>4. QED
    BY <1>4, <2>1, <2>2, <2>3 DEF Together
<1>6. CASE LUT_INDEX < LUT_SIZE /\ Await /\ END_OK
  <2>1. mSetup_ST = 1 /\ LUT_INDEX' = LUT_INDEX /\ mSetup_ST' = (IF ACK_OK THEN 0 ELSE 2) /\ mI2C_GO
    BY <1>6 DEF Await, AfterEnd, Asks
  <2>2. ST \in {0, 30, 31}
    BY <1>3, <1>6 DEF WriterLines
  <2>3. /\ ST = 0 => ST' = 30 /\ LUT_INDEX = 0
        /\ ST = 30 => ST' = 30 /\ ACK_OK' = ACK_OK
        /\ ST = 31 => ST' = 1
    BY <1>1, <2>1, Moves DEF Together
  <2>4. CASE ACK_OK
    <3>1. mSetup_ST' = 0 /\ ST' \in {1, 30}
      BY <2>1, <2>2, <2>3, <2>4
    <3>2. LUT_INDEX' > 0 /\ ST' = 30 => ACK_OK'
      <4>1. LUT_INDEX' > 0 /\ ST' = 30 => ST = 30
        BY <2>1, <2>2, <2>3
      <4>2. QED
        BY <2>3, <2>4, <4>1, Zenon
    <3>3. QED
      BY <1>3, <3>1, <3>2 DEF Together
  <2>5. CASE ~ACK_OK
    <3>1. written' = written \/ ST = 0
      BY <1>1, <2>2, Wire DEF chip
    <3>2. LUT_INDEX = 0 \/ (ST = 30 /\ written = TheEntry(LUT_INDEX))
      BY <1>3, <2>1, <2>2, <2>3, <2>5 DEF Together
    <3>3. (LUT_INDEX' = 0 /\ ST' \in {1, 30}) \/ (ST' = 30 /\ written' = TheEntry(LUT_INDEX'))
      BY <2>1, <2>2, <2>3, <3>1, <3>2 DEF TheEntry, Entry
    <3>4. QED
      BY <2>1, <2>3, <2>2, <2>5, <3>3 DEF Together
  <2>6. QED
    BY <2>4, <2>5
<1>7. CASE LUT_INDEX < LUT_SIZE /\ Await /\ ~END_OK
  <2>1. mSetup_ST = 1 /\ LUT_INDEX' = LUT_INDEX /\ mSetup_ST' = 1
    BY <1>7 DEF Await
  <2>2. ST \in 1..9
    BY <1>3, <1>7, <2>1 DEF WriterLines, Together
  <2>3. ST' # 31 /\ ST' # 0 /\ (ST' = 30 => ST = 9 /\ ACK_OK' = ACK_OK)
    BY <1>1, <2>2, Moves DEF InBits, Stopping
  <2>4. ASSUME LUT_INDEX > 0, ST' = 30, ~ACK_OK'
        PROVE  written' = TheEntry(LUT_INDEX')
    <3>1. Stopping /\ ~ACK_OK /\ ST = 9
      BY <2>3, <2>4 DEF Stopping
    <3>2. bits[9] = 0 /\ bits[18] = 0 /\ bits[27] = 0 /\ Len(bits) = 27
      BY <3>1 DEF Acks, WriterLines
    <3>3. written = <<Value(1), Word>>
      BY <3>2 DEF Decoded, Word
    <3>4. Value(1) = SLAVE /\ Word = Entry(LUT_INDEX)
      BY <2>1, <2>4, <3>1 DEF SendsSlave, HasSent, Steady, Asks
    <3>5. written' = written
      BY <1>1, <3>1, Wire DEF chip
    <3>6. QED
      BY <2>1, <3>3, <3>4, <3>5 DEF TheEntry, Entry
  <2>5. QED
    BY <2>1, <2>3, <2>4 DEF Together
<1>8. CASE LUT_INDEX < LUT_SIZE /\ Advance
  <2>1. mSetup_ST = 2 /\ LUT_INDEX' = LUT_INDEX + 1 /\ mSetup_ST' = 0 /\ ~mI2C_GO
    BY <1>8 DEF Advance, Asks
  <2>2. ST \in {1, 30}
    BY <2>1 DEF Together
  <2>3. (ST = 1 /\ ST' = 2 /\ BYTE' = 0 /\ CNT' = 0) \/ (ST = 30 /\ ST' = 31)
    BY <1>1, <2>1, <2>2, Moves
  <2>4. QED
    BY <2>1, <2>3 DEF Together
<1>9. CASE LUT_INDEX >= LUT_SIZE /\ Done(HDMI_TX_INT)
  <2>1. LUT_INDEX' \in {LUT_INDEX, 0} /\ mSetup_ST' = mSetup_ST /\ mI2C_DATA' = mI2C_DATA
    BY <1>9, Zenon DEF Done
  <2>2. LUT_INDEX = LUT_SIZE /\ mSetup_ST = 0 /\ mI2C_DATA = Last /\ ST # 0
    BY <1>3, <1>9 DEF Asks, Together
  <2>3. Last' = Last /\ LUT_SIZE' = LUT_SIZE
    BY DEF Last, Entry, LUT_SIZE
  <2>4. QED
    BY <1>3, <1>4, <2>1, <2>2, <2>3 DEF Together
<1>10. QED
  BY <1>2, <1>5, <1>6, <1>7, <1>8, <1>9, <1>3 DEF Config, ConfigTypeOK

-----------------------------------------------------------------------------
(* The configuration of the transmitter: the theorems. *)

LEMMA ConfigStarts ==
  ASSUME ConfigInit
  PROVE  ConfigInv
<1> USE DEF ConfigInit
<1>1. ConfigTypeOK
  <2>1. LUT_INDEX \in 0..LUT_SIZE /\ mSetup_ST \in 0..2 /\ ST \in 0..9 \cup {30, 31}
    BY TableTyped
  <2>2. mI2C_DATA \in Below(65536) /\ A \in Below(512) /\ CNT \in 0..9 /\ BYTE \in 0..2
    BY BelowIs
  <2>3. /\ mI2C_GO \in BOOLEAN /\ READY \in BOOLEAN /\ acking \in BOOLEAN
        /\ END_OK \in BOOLEAN /\ ACK_OK \in BOOLEAN
    BY Zenon
  <2>4. SDAO \in {0, 1} /\ SCLO \in {0, 1} /\ bits \in Seq({0, 1}) /\ Len(bits) <= 27
    OBVIOUS
  <2>5. QED
    BY <2>1, <2>2, <2>3, <2>4 DEF ConfigTypeOK
<1>2. Decoded /\ Asks
  BY TableTyped DEF Decoded, Asks
<1>3. WriterLines /\ SendsSlave /\ SendsHigh /\ SendsLow /\ HasSent /\ Acks
  BY DEF WriterLines, SendsSlave, SendsHigh, SendsLow, HasSent, Acks, Resting, InBits, Stopping
<1>4. Parked /\ Together
  BY TableTyped DEF Parked, Together, Resting
<1>5. QED
  BY <1>1, <1>2, <1>3, <1>4 DEF ConfigInv

LEMMA ConfigTicks ==
  ASSUME ConfigInv, ConfigTick
  PROVE  ConfigInv'
<1>1. Decoded'
  BY ConfigTyped, DecodedKept DEF ConfigInv, ConfigTick, ConfigTypeOK
<1>2. QED
  BY <1>1, ConfigTyped, AsksKept, LinesKept, SendsSlaveKept, SendsHighKept, SendsLowKept,
     HasSentKept, AcksKept, ParkedKept, TogetherKept DEF ConfigInv

\* A reset parks the writer and leaves the bits where they are.
LEMMA ConfigResets ==
  ASSUME ConfigInv, ConfigReset
  PROVE  ConfigInv'
<1> USE DEF ConfigInv
<1>1. /\ ST' = 0 /\ LUT_INDEX' = 0 /\ mSetup_ST' = 0 /\ mI2C_GO' = FALSE /\ READY' = FALSE
      /\ UNCHANGED <<SDAO, SCLO, END_OK, ACK_OK, CNT, BYTE, A, mI2C_DATA, bits, written, acking>>
  BY DEF ConfigReset, flags, count, chip
<1>2. ConfigTypeOK'
  <2>1. LUT_INDEX' \in 0..LUT_SIZE /\ mSetup_ST' \in 0..2 /\ ST' \in 0..9 \cup {30, 31}
    BY <1>1, TableTyped
  <2>2. mI2C_GO' \in BOOLEAN /\ READY' \in BOOLEAN
    BY <1>1, Zenon
  <2>3. QED
    BY <1>1, <2>1, <2>2 DEF ConfigTypeOK
<1>3. Decoded' /\ Asks'
  BY <1>1, TableTyped DEF Decoded, Asks, Value
<1>4. WriterLines' /\ SendsSlave' /\ SendsHigh' /\ SendsLow' /\ HasSent' /\ Acks'
  BY <1>1 DEF WriterLines, SendsSlave, SendsHigh, SendsLow, HasSent, Acks, Resting, InBits, Stopping
<1>5. Parked'
  <2>1. Len(bits) >= 26 + SCLO => Value(1)' = SLAVE /\ Word' \in Words
    BY <1>1, Complete DEF Sound, Word, Value
  <2>2. QED
    BY <1>1, <2>1 DEF Parked
<1>6. Together'
  BY <1>1, TableTyped DEF Together
<1>7. QED
  BY <1>2, <1>3, <1>4, <1>5, <1>6

LEMMA ConfigStays ==
  ASSUME ConfigInv, UNCHANGED configVars
  PROVE  ConfigInv'
  BY DEF configVars, config, writer, flags, count, chip, ConfigInv, ConfigTypeOK, Decoded, Asks,
         WriterLines, SendsSlave, SendsHigh, SendsLow, HasSent, Acks, Parked, Together,
         Resting, InBits, Stopping, Value, InByte, Shifted, TwiceLeft, Loaded, Steady, Word

\* The invariant holds in every reachable state.
THEOREM ConfigSafe == ConfigSpec => []ConfigInv
<1>1. ConfigInv /\ [ConfigNext]_configVars => ConfigInv'
  BY ConfigTicks, ConfigResets, ConfigStays DEF ConfigNext
<1>2. QED
  BY <1>1, ConfigStarts, PTL DEF ConfigSpec

\* Every register of the table automaton and of the bus writer keeps its range, and no
\* transfer has more than 27 bits (I2C_WRITE_WDATA.v:24-104).
THEOREM ConfigTypeCorrect == ConfigSpec => []ConfigTypeOK
<1>1. ConfigInv => ConfigTypeOK
  BY DEF ConfigInv
<1>2. QED
  BY <1>1, ConfigSafe, PTL

\* Whatever the transmitter takes as a write is an entry of the table or the one word
\* a restart tears, under resets and refused bytes at any edge.
THEOREM WritesAreEntries == ConfigSpec => []OnlyTableEntries
<1>1. ConfigInv => OnlyTableEntries
  <2>1. SUFFICES ASSUME ConfigInv, written # <<>>
                 PROVE  written = Torn \/ \E i \in 0..(LUT_SIZE - 1) : written = TheEntry(i)
    BY DEF OnlyTableEntries
  <2>2. Len(bits) = 27 /\ written = <<Value(1), Word>>
    BY <2>1 DEF ConfigInv, Decoded, Word
  <2>3. Len(bits) >= 26 + SCLO
    BY <2>1, <2>2 DEF ConfigInv, ConfigTypeOK
  <2>4. Value(1) = SLAVE /\ Word \in Words
    BY <2>1, <2>3, Complete DEF Sound
  <2>5. CASE Word = TornWord
    BY <2>2, <2>4, <2>5 DEF Torn, TornWord, Last
  <2>6. CASE Word \in Entries
    BY <2>2, <2>4, <2>6 DEF Entries, TheEntry
  <2>7. QED
    BY <2>4, <2>5, <2>6 DEF Words
<1>2. QED
  BY <1>1, ConfigSafe, PTL

\* The table leaves an entry other than the first only when the transmitter has it,
\* whole and acknowledged.
THEOREM AdvancesWhenWritten == ConfigSpec => EntryWritten
<1>1. ASSUME ConfigInv, [ConfigNext]_configVars, LUT_INDEX' = LUT_INDEX + 1, LUT_INDEX > 0
      PROVE  written = TheEntry(LUT_INDEX)
  <2>1. LUT_INDEX \in 0..LUT_SIZE /\ LUT_SIZE \in Nat
    BY <1>1, TableTyped DEF ConfigInv, ConfigTypeOK
  <2>2. ConfigTick
    BY <1>1, <2>1 DEF ConfigNext, ConfigReset, configVars, config
  <2>3. PICK HDMI_TX_INT \in BOOLEAN : Config(HDMI_TX_INT)
    BY <2>2 DEF ConfigTick
  <2>4. mSetup_ST = 2
    BY <1>1, <2>1, <2>3 DEF Config, Ask, Await, Advance, Done
  <2>5. QED
    BY <1>1, <2>1, <2>4 DEF ConfigInv, Together
<1>2. ConfigInv /\ [ConfigNext]_configVars =>
        [LUT_INDEX' = LUT_INDEX + 1 /\ LUT_INDEX > 0 => written = TheEntry(LUT_INDEX)]_configVars
  BY <1>1
<1>3. QED
  BY <1>2, ConfigSafe, PTL DEF ConfigSpec, EntryWritten
=============================================================================
