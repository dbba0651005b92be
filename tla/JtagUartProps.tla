--------------------------- MODULE JtagUartProps ---------------------------
(***************************************************************************)
(* What the JTAG UART driver has to keep, whatever the interleaving of the *)
(* application, the handler, the alarm, the device and the host.           *)
(***************************************************************************)
EXTENDS JtagUart

\* The indexes stay inside their rings and the FIFOs within their depths: the
\* handler never writes to a full FIFO, where the device would drop the byte
\* (altera_avalon_jtag_uart_init.c:173-185).
TypeOK == /\ {tx_in, tx_out, rx_in, rx_out} \subseteq Index
          /\ tx_buf \in [Index -> Byte] /\ rx_buf \in [Index -> Byte]
          /\ irq_enable \subseteq {"RE", "WE"}
          /\ host_inactive \in 0..InactiveMax /\ timeout \in Timeouts[use] \cup {INT_MAX}
          /\ Len(tfifo) <= WriteDepth /\ Len(rfifo) <= ReadDepth
          /\ {ac, pause, connected} \subseteq BOOLEAN
          /\ arg.n \in Index /\ arg.left \in 0..MaxCount
          /\ ctl.space \in 0..WriteDepth

\* Both directions are byte pipes: what write() accepted reaches the host once
\* and in order, what the host typed reaches read() once and in order.
TxPipe == INSTANCE BytePipe WITH
            Capacity <- BUF_LEN - 1 + WriteDepth, next <- sent,
            queue <- tfifo \o Contents(tx_buf, tx_in, tx_out), out <- fetched
RxPipe == INSTANCE BytePipe WITH
            Capacity <- BUF_LEN - 1 + ReadDepth, next <- typed,
            queue <- Contents(rx_buf, rx_in, rx_out) \o rfifo, out <- delivered

\* Every byte write() takes is fetched by the host once and in the order it was
\* written, whatever the handler does between two of write()'s steps.
TxIsPipe == TxPipe!Spec

\* Every byte the host types is returned by read() once and in order.
RxIsPipe == RxPipe!Spec

\* Bytes never stay in the transmit ring with nobody to move them: transmit
\* interrupts are on, or the handler or write() has still to look at the ring.
TxNeverStranded ==
  (isr = "idle" /\ tx_in # tx_out /\ pc \notin {"w_loop", "w_copy", "w_publish", "w_kick"})
    => "WE" \in irq_enable

\* A host that stays, or one that stays away while an alarm counts its seconds up
\* to a timeout, lets every write() and close() end.
HostSettles == <>[]connected \/ <>[](~connected /\ timeout <= InactiveMax)
WriterReturns == HostSettles => [](use = "out" /\ pc # "idle" => <>(pc = "idle"))

\* A read() that waits while bytes are in the device does not wait for ever.
ReaderWakes == HostSettles => [](pc = "r_spin" /\ rfifo # <<>> => <>(pc # "r_spin"))
=============================================================================
