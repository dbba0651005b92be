--------------------------- MODULE HdmiControler ---------------------------
(***************************************************************************)
(* telecran/hdmi_controler.vhd: the raster.  Two counters scan the frame,  *)
(* blanking included; sync pulses, the active window, the address of the   *)
(* pixel to read and its coordinates are registered from them, all on one  *)
(* pixel clock.  std_logic signals are booleans.  o_pixel_en is assigned   *)
(* what o_hdmi_de is, and is not kept apart from it.                       *)
(***************************************************************************)
EXTENDS Integers

CONSTANTS h_res, v_res,          \* active pixels and lines
          h_sync, h_fp, h_bp,    \* horizontal blanking
          v_sync, v_fp, v_bp     \* vertical blanking

\* The generics are declared positive.
ASSUME GenericsAssumption ==
  {h_res, v_res, h_sync, h_fp, h_bp, v_sync, v_fp, v_bp} \subseteq Nat \ {0}

VARIABLES r_h_count, r_v_count, r_h_active, r_v_active,
          o_hdmi_hs, o_hdmi_vs, o_hdmi_de,
          r_pixel_address, o_x_counter, o_y_counter

sync == <<o_hdmi_hs, o_hdmi_vs>>
raster == <<r_h_count, r_v_count, r_h_active, r_v_active>>
pixel == <<o_hdmi_de, r_pixel_address, o_x_counter, o_y_counter>>
vars == <<sync, raster, pixel>>

h_start == h_sync + h_fp
h_end   == h_start + h_res
h_total == h_end + h_bp
v_start == v_sync + v_fp
v_end   == v_start + v_res
v_total == v_end + v_bp

ActivePixel == r_h_active /\ r_v_active

\* The FPGA starts in the reset state: the PLL holds the reset until it locks.
Init == /\ r_h_count = 0 /\ r_v_count = 0
        /\ r_h_active = FALSE /\ r_v_active = FALSE
        /\ o_hdmi_hs = TRUE /\ o_hdmi_vs = TRUE /\ o_hdmi_de = FALSE
        /\ r_pixel_address = 0 /\ o_x_counter = 0 /\ o_y_counter = 0

Window(active, count, first, last) ==
  IF count = first THEN TRUE ELSE IF count = last THEN FALSE ELSE active

\* Mutant: the active window closes one pixel late.
HorizontalWide ==
  /\ r_h_count' = IF r_h_count = h_total THEN 0 ELSE r_h_count + 1
  /\ o_hdmi_hs' = (r_h_count >= h_sync /\ r_h_count # h_total)
  /\ r_h_active' = Window(r_h_active, r_h_count, h_start, h_end + 1)

Horizontal ==
  /\ r_h_count' = IF r_h_count = h_total THEN 0 ELSE r_h_count + 1
  /\ o_hdmi_hs' = (r_h_count >= h_sync /\ r_h_count # h_total)
  /\ r_h_active' = Window(r_h_active, r_h_count, h_start, h_end)

\* The vertical registers move at the end of a line only.
Vertical ==
  IF r_h_count = h_total
  THEN /\ r_v_count' = IF r_v_count = v_total THEN 0 ELSE r_v_count + 1
       /\ o_hdmi_vs' = (r_v_count >= v_sync /\ r_v_count # v_total)
       /\ r_v_active' = Window(r_v_active, r_v_count, v_start, v_end)
  ELSE UNCHANGED <<r_v_count, o_hdmi_vs, r_v_active>>

DataEnable == o_hdmi_de' = ActivePixel

LastPixel == r_h_count = h_end /\ r_v_count = v_end

\* Mutant: the address of a new frame starts at one.
AddressOffByOne ==
  IF ActivePixel
  THEN /\ o_x_counter' = r_h_count - h_start
       /\ o_y_counter' = r_v_count - v_start
       /\ r_pixel_address' = IF LastPixel THEN 1 ELSE r_pixel_address + 1
  ELSE UNCHANGED <<o_x_counter, o_y_counter, r_pixel_address>>

Address ==
  IF ActivePixel
  THEN /\ o_x_counter' = r_h_count - h_start
       /\ o_y_counter' = r_v_count - v_start
       /\ r_pixel_address' = IF LastPixel THEN 0 ELSE r_pixel_address + 1
  ELSE UNCHANGED <<o_x_counter, o_y_counter, r_pixel_address>>

\* One edge of the pixel clock, the five processes together.
Tick == Horizontal /\ Vertical /\ DataEnable /\ Address

\* i_rst_n falls: the PLL has lost its lock.
Reset == /\ r_h_count' = 0 /\ r_v_count' = 0
         /\ r_h_active' = FALSE /\ r_v_active' = FALSE
         /\ o_hdmi_hs' = TRUE /\ o_hdmi_vs' = TRUE /\ o_hdmi_de' = FALSE
         /\ r_pixel_address' = 0 /\ o_x_counter' = 0 /\ o_y_counter' = 0

Next == Tick \/ Reset

Spec == Init /\ [][Next]_vars /\ WF_vars(Tick)

-----------------------------------------------------------------------------

\* The counters keep the ranges they are declared with, and the address that
\* goes to the frame buffer stays inside it (hdmi_controler.vhd:142).
TypeOK == /\ r_h_count \in 0..h_total /\ r_v_count \in 0..v_total
          /\ {r_h_active, r_v_active, o_hdmi_hs, o_hdmi_vs, o_hdmi_de} \subseteq BOOLEAN
          /\ r_pixel_address \in 0..(h_res * v_res - 1)
          /\ o_x_counter \in 0..h_res /\ o_y_counter \in 0..v_res

\* No pixel is sent during a sync pulse.
BlankDuringSync == ~o_hdmi_hs \/ ~o_hdmi_vs => ~o_hdmi_de
=============================================================================
