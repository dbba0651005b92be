----------------------------- MODULE HdmiConfig -----------------------------
(***************************************************************************)
(* Configuration of the HDMI transmitter over I2C: the table automaton     *)
(* (I2C_HDMI_Config.v) asks with GO for one register write after another,  *)
(* the bus writer (I2C_WRITE_WDATA.v) sends it bit by bit and answers with *)
(* END and ACK.  Both work on the edges of the same divided clock          *)
(* mI2C_CTRL_CLK, each reading what the other held before the edge.        *)
(*                                                                         *)
(* The transmitter is outside the source: it decodes the two lines of the  *)
(* bus as any I2C slave does, and acknowledges a byte or does not.         *)
(***************************************************************************)
EXTENDS Integers, Sequences

VARIABLES LUT_INDEX, mSetup_ST, mI2C_GO, mI2C_DATA, READY,   \* table automaton
          ST, SDAO, SCLO, END_OK, ACK_OK, CNT, BYTE, A,     \* bus writer
          bits, written, acking   \* transmitter

config == <<LUT_INDEX, mSetup_ST, mI2C_GO, mI2C_DATA, READY>>
flags == <<END_OK, ACK_OK>>
count == <<CNT, BYTE>>
writer == <<ST, SDAO, SCLO, flags, count, A>>
chip == <<bits, written>>
configVars == <<config, writer, chip, acking>>

\* LUT_DATA: sub-address and value in one word.
LUT == << \h9803, \h0100, \h0218, \h0300, \h1470, \h1520, \h1630, \h1846,
          \h4080, \h4110, \h49A8, \h5510, \h5608, \h96F6, \h7307, \h761F,
          \h9803, \h9902, \h9AE0, \h9C30, \h9D61, \hA2A4, \hA3A4, \hA504,
          \hAB40, \hAF16, \hBA60, \hD1FF, \hDE10, \hE460, \hFA7D >>
LUT_SIZE == Len(LUT)
Entry(index) == LUT[index + 1]

SLAVE == \h72

-----------------------------------------------------------------------------
(* The table automaton. *)

Ask == /\ mSetup_ST = 0
       /\ mI2C_DATA' = Entry(LUT_INDEX) /\ mI2C_GO' = TRUE /\ mSetup_ST' = 1
       /\ UNCHANGED LUT_INDEX

\* mI2C_ACK high means that some byte was not acknowledged: ask again.
AfterEnd(ack) == IF ack THEN 0 ELSE 2

Await == /\ mSetup_ST = 1
         /\ IF END_OK THEN mSetup_ST' = AfterEnd(ACK_OK) /\ mI2C_GO' = FALSE
            ELSE UNCHANGED <<mSetup_ST, mI2C_GO>>
         /\ UNCHANGED <<LUT_INDEX, mI2C_DATA>>

Advance == /\ mSetup_ST = 2
           /\ LUT_INDEX' = LUT_INDEX + 1 /\ mSetup_ST' = 0
           /\ UNCHANGED <<mI2C_GO, mI2C_DATA>>

\* The table is done; an interrupt of the transmitter starts it again.
Done(HDMI_TX_INT) ==
  /\ LUT_INDEX' = IF HDMI_TX_INT THEN LUT_INDEX ELSE 0
  /\ UNCHANGED <<mSetup_ST, mI2C_GO, mI2C_DATA>>

Config(HDMI_TX_INT) ==
  /\ READY' = (LUT_INDEX >= LUT_SIZE)
  /\ IF LUT_INDEX < LUT_SIZE THEN Ask \/ Await \/ Advance ELSE Done(HDMI_TX_INT)

-----------------------------------------------------------------------------
(* The bus writer.  A is a shift register of nine bits, the last one the   *)
(* released line under which the transmitter acknowledges.                 *)

Byte9(b) == 2 * b + 1
\* Mutant: the value is sent in place of the sub-address.
HighByteSwapped == mI2C_DATA % 256

HighByte == mI2C_DATA \div 256
LowByte == mI2C_DATA % 256

\* SDA as the writer reads it while SCL is high: what the transmitter saw.
SDAI == SDAO = 1 /\ bits # <<>> /\ bits[Len(bits)] = 1

\* The next state, with the levels of SDA and SCL.
To(state, sda, scl) == ST' = state /\ SDAO' = sda /\ SCLO' = scl

\* Mutant: eight clocks for each byte.
ByteDoneEarly == CNT = 8

ByteDone == CNT = 9

\* Mutant: a byte that is not acknowledged is forgotten by the next one.
NackedLast == SDAI

Nacked == ACK_OK \/ SDAI

AtReset == /\ ST = 0 /\ To(IF mI2C_GO THEN 30 ELSE 0, 1, 1)
           /\ END_OK' = TRUE /\ ACK_OK' = FALSE /\ CNT' = 0 /\ BYTE' = 0
           /\ UNCHANGED A

Start == /\ ST = 1 /\ To(2, 0, 1)
         /\ A' = Byte9(SLAVE) /\ UNCHANGED <<flags, count>>

\* States 2 to 5 are a bit: SCL low, the bit, SCL high.
BitLow == ST = 2 /\ To(3, 0, 0) /\ UNCHANGED <<flags, count, A>>

BitOut == /\ ST = 3 /\ To(4, A \div 256, SCLO)
          /\ A' = (2 * A) % 512 /\ UNCHANGED <<flags, count>>

BitHigh == /\ ST = 4 /\ To(5, SDAO, 1)
           /\ CNT' = CNT + 1 /\ UNCHANGED <<flags, BYTE, A>>

BitEnd == ST = 5 /\ ~ByteDone /\ To(2, SDAO, 0) /\ UNCHANGED <<flags, count, A>>

NextByte(b) == To(2, SDAO, 0) /\ CNT' = 0 /\ BYTE' = BYTE + 1 /\ A' = Byte9(b)

ByteEnd == /\ ST = 5 /\ ByteDone /\ ACK_OK' = Nacked /\ UNCHANGED END_OK
           /\ \/ BYTE = 0 /\ NextByte(HighByte)
              \/ BYTE = 1 /\ NextByte(LowByte)
              \/ BYTE = 2 /\ To(6, SDAO, 0) /\ UNCHANGED <<count, A>>

Stop == /\ \/ ST = 6 /\ To(7, 0, 0)
           \/ ST = 7 /\ To(8, 0, 1)
           \/ ST = 8 /\ To(9, 1, 1)
        /\ UNCHANGED <<flags, count, A>>

End == /\ ST = 9 /\ To(30, 1, 1)
       /\ END_OK' = TRUE /\ CNT' = 0 /\ BYTE' = 0 /\ UNCHANGED <<ACK_OK, A>>

\* Waits for GO to go low, and starts.
Rearm == /\ ST = 30 /\ To(IF mI2C_GO THEN 30 ELSE 31, SDAO, SCLO)
         /\ UNCHANGED <<flags, count, A>>

Again == /\ ST = 31 /\ To(1, SDAO, SCLO)
         /\ END_OK' = FALSE /\ ACK_OK' = FALSE /\ UNCHANGED <<count, A>>

Writer == \/ AtReset \/ Start \/ BitLow \/ BitOut \/ BitHigh \/ BitEnd \/ ByteEnd
          \/ Stop \/ End \/ Rearm \/ Again

-----------------------------------------------------------------------------
(* The transmitter. *)

Value(first) ==
  128 * bits[first] + 64 * bits[first + 1] + 32 * bits[first + 2] + 16 * bits[first + 3]
    + 8 * bits[first + 4] + 4 * bits[first + 5] + 2 * bits[first + 6] + bits[first + 7]

Started == SCLO = 1 /\ SCLO' = 1 /\ SDAO = 1 /\ SDAO' = 0
Clocked == SCLO = 0 /\ SCLO' = 1 /\ Len(bits) < 27

\* A start empties the register; each clock shifts a bit in, and every ninth is
\* the acknowledge; the third byte acknowledged, the write is done.
Decode ==
  IF Started THEN bits' = <<>> /\ written' = <<>>
  ELSE IF Clocked
       THEN /\ bits' = Append(bits, IF acking /\ Len(bits) % 9 = 8 THEN 0 ELSE SDAO')
            /\ written' = IF Len(bits) = 26 /\ bits[9] + bits[18] + bits'[27] = 0
                          THEN <<Value(1), 256 * Value(10) + Value(19)>> ELSE written
       ELSE UNCHANGED chip

-----------------------------------------------------------------------------

\* An edge of the divided clock.
ConfigTick ==
  /\ \E HDMI_TX_INT \in BOOLEAN : Config(HDMI_TX_INT)
  /\ Writer /\ Decode
  /\ acking' \in BOOLEAN

\* iRST_N goes low and up again; the lines keep their levels until the next edge.
ConfigReset ==
  /\ LUT_INDEX' = 0 /\ mSetup_ST' = 0 /\ mI2C_GO' = FALSE /\ READY' = FALSE
  /\ ST' = 0
  /\ UNCHANGED <<SDAO, SCLO, flags, count, A, mI2C_DATA, chip, acking>>

ConfigInit ==
  /\ LUT_INDEX = 0 /\ mSetup_ST = 0 /\ mI2C_GO = FALSE /\ mI2C_DATA = 0 /\ READY = FALSE
  /\ ST = 0 /\ CNT = 0 /\ BYTE = 0 /\ A = 0
  /\ SDAO \in {0, 1} /\ SCLO \in {0, 1} /\ END_OK \in BOOLEAN /\ ACK_OK \in BOOLEAN
  /\ bits = <<>> /\ written = <<>> /\ acking \in BOOLEAN

ConfigNext == ConfigTick \/ ConfigReset

ConfigSpec == ConfigInit /\ [][ConfigNext]_configVars /\ WF_configVars(ConfigTick)
=============================================================================
