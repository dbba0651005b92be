----------------------------- MODULE VideoLink -----------------------------
(***************************************************************************)
(* The raster with what it is wired to in telecran.vhd: port B of the      *)
(* frame buffer (dpram.vhd:47-55), whose registered output is the pixel,   *)
(* and the receiver of the picture, which knows of the raster only hs, vs  *)
(* and de.  `sent' is the address whose cell port B puts out.              *)
(***************************************************************************)
EXTENDS HdmiControler

VARIABLES sent,     \* address behind o_q_b
          col, row  \* receiver: place of the pixel on its wires

linkvars == <<vars, sent, col, row>>

LinkInit == Init /\ sent = 0 /\ col = 0 /\ row = 0

\* Port B reads the address it is given at the same edge.
ReadPortB == sent' = r_pixel_address

\* The receiver samples the wires: a low hs starts a line, a low vs a frame.
Receive ==
  /\ col' = IF ~o_hdmi_hs THEN 0 ELSE IF o_hdmi_de THEN col + 1 ELSE col
  /\ row' = IF ~o_hdmi_vs THEN 0 ELSE IF ~o_hdmi_hs /\ col > 0 THEN row + 1 ELSE row

LinkTick == Tick /\ ReadPortB /\ Receive

LinkReset == Reset /\ UNCHANGED <<sent, col, row>>

LinkNext == LinkTick \/ LinkReset

LinkSpec == LinkInit /\ [][LinkNext]_linkvars

-----------------------------------------------------------------------------

\* The picture is aligned: the pixel sent at column i of line j, as the
\* receiver counts them, is cell j * h_res + i of the frame buffer.  The delay
\* of the registered read and the one of o_hdmi_de are the same, and a reset in
\* the middle of a frame does not shift the next one (telecran.vhd:202-214).
PictureAligned == o_hdmi_de => /\ col \in 0..(h_res - 1) /\ row \in 0..(v_res - 1)
                               /\ sent = row * h_res + col

\* Every line that starts is sent in full: de falls after h_res pixels.
WholeLines == [][LinkTick /\ o_hdmi_de /\ ~o_hdmi_de' => col = h_res - 1]_linkvars
=============================================================================
