-------------------------- MODULE HdmiConfigProps --------------------------
(***************************************************************************)
(* What the configuration of the HDMI transmitter has to achieve, told by  *)
(* what the transmitter decodes from the bus.                              *)
(***************************************************************************)
EXTENDS HdmiConfig

\* The numbers a register of so many values can hold.
Below(n) == 0..(n - 1)

\* Ranges of the registers; a byte has at most nine clocks, a write three bytes.
ConfigTypeOK ==
  /\ LUT_INDEX \in 0..LUT_SIZE /\ mSetup_ST \in 0..2 /\ mI2C_DATA \in Below(65536)
  /\ mI2C_GO \in BOOLEAN /\ READY \in BOOLEAN /\ acking \in BOOLEAN
  /\ ST \in 0..9 \cup {30, 31} /\ SDAO \in {0, 1} /\ SCLO \in {0, 1}
  /\ END_OK \in BOOLEAN /\ ACK_OK \in BOOLEAN
  /\ CNT \in 0..9 /\ BYTE \in 0..2 /\ A \in Below(512)
  /\ bits \in Seq({0, 1}) /\ Len(bits) <= 27

TheEntry(index) == <<SLAVE, Entry(index)>>

\* The table moves on from an entry other than the first only when the
\* transmitter has got that entry, whole and acknowledged: a refused byte, a
\* reset or a restart in the middle of a transfer makes it start again.
EntryWritten ==
  [][LUT_INDEX' = LUT_INDEX + 1 /\ LUT_INDEX > 0 => written = TheEntry(LUT_INDEX)]_configVars

\* The done table goes on sending its last entry, and a restart by interrupt
\* changes the word in the middle of it: sub-address of the last entry, value of
\* the first.
Torn == <<SLAVE, (Entry(LUT_SIZE - 1) \div 256) * 256 + (Entry(0) % 256)>>

\* Whatever the transmitter takes as a write is an entry of the table or the one
\* write a restart can tear: refused bytes and resets cut writes short and never
\* mix two.
OnlyTableEntries ==
  written # <<>> => written = Torn \/ \E i \in 0..(LUT_SIZE - 1) : written = TheEntry(i)

\* Once the transmitter acknowledges and resets stop, the table gets done,
\* after every restart too (I2C_HDMI_Config.v:67-114).
ConfigEnds == (<>[]acking /\ <>[][~ConfigReset]_configVars) => []<>READY
=============================================================================
