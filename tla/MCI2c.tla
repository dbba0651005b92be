------------------------------- MODULE MCI2c -------------------------------
(***************************************************************************)
(* The calls of the I2C run: each operation, polled and under interrupts,  *)
(* receiving one byte more than a FIFO holds; and an empty transmission.   *)
(***************************************************************************)
EXTENDS I2cDriver

MCCalls ==
  LET Ask(o, i, s, r) == [op |-> o, irq |-> i, n |-> s, m |-> r]
  IN UNION {{Ask("tx", i, 2, 0), Ask("rx", i, 0, Depth + 1),
             Ask("tx_rx", i, 1, 1)} : i \in BOOLEAN}
     \cup {Ask("tx", FALSE, 0, 0)}
=============================================================================
