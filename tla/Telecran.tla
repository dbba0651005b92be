------------------------------ MODULE Telecran ------------------------------
(***************************************************************************)
(* telecran/telecran.vhd: the magic screen.  Two clock domains share the   *)
(* frame buffer: at 50 MHz the pen or the wipe writes a cell per edge      *)
(* through port A, at 27 MHz the raster reads a cell per edge through port *)
(* B.  The clocks are unrelated, so their edges interleave in any order.   *)
(*                                                                         *)
(* The two coordinates are those of the abstract pen that EncoderManager   *)
(* implements: at each edge each moves by one at most, within its range.   *)
(***************************************************************************)
EXTENDS HdmiControler

CONSTANTS MaxCoord,   \* last value of a coordinate, 1023 in the code
          AddrSpan    \* codes of the synthesised address bus, 2^19 in the code

MemSize == h_res * v_res

ASSUME TelecranAssumption == /\ MaxCoord \in Nat \ {0}
                             /\ AddrSpan \in Nat /\ AddrSpan >= MemSize

VARIABLES s_coord_x, s_coord_y,
          i_left_pb,          \* TRUE: released (the button is active low)
          r_erase_active, r_erase_addr,
          lit,                \* the cells of the frame buffer that hold x"FF"
          shown, s_pixel_data \* port B: address behind o_q_b, and is it lit

hdmi == vars
pen == <<s_coord_x, s_coord_y>>
erase == <<r_erase_active, r_erase_addr>>
portb == <<shown, s_pixel_data>>
tvars == <<hdmi, pen, i_left_pb, erase, lit, portb>>

Cells == 0..(MemSize - 1)

TelecranInit == /\ Init
                /\ s_coord_x = 0 /\ s_coord_y = 0
                /\ i_left_pb \in BOOLEAN
                /\ r_erase_active = FALSE /\ r_erase_addr = 0
                /\ lit \in SUBSET Cells        \* the memory is not initialised
                /\ shown = 0 /\ s_pixel_data \in BOOLEAN

\* encs: what the decoder does to the coordinates at an edge.
Near(c) == {c - 1, c, c + 1} \cap 0..MaxCoord
Encs == s_coord_x' \in Near(s_coord_x) /\ s_coord_y' \in Near(s_coord_y)

\* Mutant: the sweep stops one cell early.
EraseShort ==
  IF ~i_left_pb THEN r_erase_active' = TRUE /\ r_erase_addr' = 0
  ELSE IF ~r_erase_active THEN UNCHANGED erase
  ELSE IF r_erase_addr >= MemSize - 2
       THEN r_erase_active' = FALSE /\ UNCHANGED r_erase_addr
       ELSE r_erase_addr' = r_erase_addr + 1 /\ UNCHANGED r_erase_active

\* Mutant: a new press does not bring the sweep back to the first cell.
EraseNoRewind ==
  IF ~i_left_pb /\ ~r_erase_active THEN r_erase_active' = TRUE /\ UNCHANGED r_erase_addr
  ELSE IF ~r_erase_active THEN UNCHANGED erase
  ELSE IF r_erase_addr = MemSize - 1
       THEN r_erase_active' = FALSE /\ UNCHANGED r_erase_addr
       ELSE r_erase_addr' = r_erase_addr + 1 /\ UNCHANGED r_erase_active

\* Mutant: the sweep wraps around instead of stopping.
EraseForever ==
  IF ~i_left_pb THEN r_erase_active' = TRUE /\ r_erase_addr' = 0
  ELSE IF ~r_erase_active THEN UNCHANGED erase
  ELSE r_erase_addr' = (r_erase_addr + 1) % MemSize /\ UNCHANGED r_erase_active

\* Automate d'effacement: a pressed button (re)starts the sweep at cell 0.
Erase ==
  IF ~i_left_pb THEN r_erase_active' = TRUE /\ r_erase_addr' = 0
  ELSE IF ~r_erase_active THEN UNCHANGED erase
  ELSE IF r_erase_addr = MemSize - 1
       THEN r_erase_active' = FALSE /\ UNCHANGED r_erase_addr
       ELSE r_erase_addr' = r_erase_addr + 1 /\ UNCHANGED r_erase_active

\* The multiplexer of port A, before and after the bus cuts the address.
PenAddress == s_coord_x + s_coord_y * h_res
MuxAddress == IF r_erase_active THEN r_erase_addr ELSE PenAddress
BusAddress == MuxAddress % AddrSpan

\* Port A writes at every edge.  What a write beyond the memory does is left
\* open by the code: nothing, or a hit in some cell.
PortA == IF BusAddress \in Cells
         THEN lit' = IF r_erase_active THEN lit \ {BusAddress} ELSE lit \cup {BusAddress}
         ELSE lit' = lit \/ \E c \in Cells : lit' = lit \cup {c}

\* An edge of i_clk_50.
Clk50 == Encs /\ Erase /\ PortA /\ UNCHANGED <<hdmi, i_left_pb, portb>>

\* An edge of s_clk_27.
PortB == shown' = r_pixel_address /\ s_pixel_data' = (r_pixel_address \in lit)
Clk27 == Tick /\ PortB /\ UNCHANGED <<pen, i_left_pb, erase, lit>>

\* The PLL loses its lock: the raster alone is reset.
PllUnlock == Reset /\ UNCHANGED <<pen, i_left_pb, erase, lit, portb>>

\* i_rst_n: both domains are reset, the memory is not.
SystemReset == /\ Reset
               /\ s_coord_x' = 0 /\ s_coord_y' = 0
               /\ r_erase_active' = FALSE /\ r_erase_addr' = 0
               /\ UNCHANGED <<i_left_pb, lit, portb>>

\* The user presses or releases the button of the left encoder.
Button == /\ i_left_pb' = ~i_left_pb
          /\ UNCHANGED <<hdmi, pen, erase, lit, portb>>

TelecranNext == Clk50 \/ Clk27 \/ PllUnlock \/ SystemReset \/ Button

\* Both oscillators run; the rest is up to the user and to the board.
TelecranSpec == /\ TelecranInit /\ [][TelecranNext]_tvars
                /\ WF_tvars(Clk50) /\ WF_tvars(Clk27)

-----------------------------------------------------------------------------

\* The signals keep their declared ranges, s_mux_addr_a apart (MuxInRange).
TelecranTypeOK == /\ TypeOK
                  /\ s_coord_x \in 0..MaxCoord /\ s_coord_y \in 0..MaxCoord
                  /\ {i_left_pb, r_erase_active, s_pixel_data} \subseteq BOOLEAN
                  /\ r_erase_addr \in Cells /\ shown \in Cells
                  /\ lit \subseteq Cells

\* The cells the sweep has passed are out, whatever the pen does meanwhile and
\* however often the button restarts it (telecran.vhd:183-199).
SweptCellsAreOut == r_erase_active => \A c \in lit : c >= r_erase_addr

\* The screen behaves as a magic screen: trails have no gap, lit pixels stay
\* lit, and a wipe that is not cut by a reset ends with an empty screen.
Screen == INSTANCE MagicScreen WITH
            Columns <- h_res, Rows <- v_res,
            x <- s_coord_x, y <- s_coord_y, wiping <- r_erase_active

IsMagicScreen == Screen!Spec

\* A wipe ends once the button is released for good and no reset comes.
NoMoreReset == <>[][~SystemReset]_tvars
WipeEnds == NoMoreReset /\ <>[]i_left_pb => <>[]~r_erase_active

\* A cell that stays lit is shown white again and again, at its place in the
\* picture, while the other clock keeps writing (telecran.vhd:202-217).
VideoRuns == <>[][~Reset]_hdmi
LitIsShown == VideoRuns => \A c \in Cells :
                <>[](c \in lit) => []<>(o_hdmi_de /\ shown = c /\ s_pixel_data)

\* telecran.vhd:121: s_mux_addr_a is declared natural range 0 to 720*480 - 1.
MuxInRange == MuxAddress \in Cells
=============================================================================
