------------------------------- MODULE UARTtx -------------------------------
(***************************************************************************)
(* IO/UARTtx.v: the UART transmitter.  The state machine runs at the       *)
(* falling edge; o_Tx_Done_l, which the memory unit waits for, follows     *)
(* r_Tx_Done at the rising edge.  A byte is a function from bit numbers.   *)
(***************************************************************************)
EXTENDS Integers

CONSTANTS CLKS_PER_BIT,  \* 217 in the code
          Bits           \* 8

BitAssumption ==
  /\ CLKS_PER_BIT \in 2 .. 256   \* r_Clock_Count has eight bits
  /\ Bits \in Nat \ {0}

TxByte == [0 .. Bits - 1 -> {0, 1}]
NoByte == [i \in 0 .. Bits - 1 |-> 0]

VARIABLES r_SM_Main, r_Clock_Count, r_Bit_Index, r_Tx_Data, r_Tx_Done,
          o_Tx_Serial, o_Tx_Done_l

txvars == <<r_SM_Main, r_Clock_Count, r_Bit_Index, r_Tx_Data, r_Tx_Done,
            o_Tx_Serial, o_Tx_Done_l>>

TxInit ==
  /\ r_SM_Main = "IDLE" /\ r_Clock_Count = 0 /\ r_Bit_Index = 0
  /\ r_Tx_Data = NoByte /\ r_Tx_Done = FALSE
  /\ o_Tx_Serial = 0 /\ o_Tx_Done_l = FALSE

\* Falling edge.
TxReset ==
  /\ r_SM_Main' = "IDLE" /\ r_Clock_Count' = 0 /\ r_Bit_Index' = 0
  /\ r_Tx_Data' = NoByte /\ r_Tx_Done' = FALSE /\ o_Tx_Serial' = 0

TxIdle(dv, byte) ==
  /\ r_SM_Main = "IDLE"
  /\ o_Tx_Serial' = 1 /\ r_Tx_Done' = FALSE
  /\ r_Clock_Count' = 0 /\ r_Bit_Index' = 0
  /\ IF dv THEN r_SM_Main' = "START_BIT" /\ r_Tx_Data' = byte
     ELSE UNCHANGED <<r_SM_Main, r_Tx_Data>>

\* What the three states that send drive on the line.
Line ==
  CASE r_SM_Main = "START_BIT" -> 0
    [] r_SM_Main = "DATA_BITS" -> r_Tx_Data[r_Bit_Index]
    [] r_SM_Main = "STOP_BIT" -> 1

Sending == {"START_BIT", "DATA_BITS", "STOP_BIT"}

\* The counter has eight bits.
CountUp_Narrow == (r_Clock_Count + 1) % 4
CountUp == (r_Clock_Count + 1) % 256

TxHold ==
  /\ r_SM_Main \in Sending /\ r_Clock_Count < CLKS_PER_BIT - 1
  /\ o_Tx_Serial' = Line
  /\ r_Clock_Count' = CountUp
  /\ UNCHANGED <<r_SM_Main, r_Bit_Index, r_Tx_Data, r_Tx_Done>>

LastBit_Long == r_Bit_Index >= Bits
LastBit == r_Bit_Index >= Bits - 1

Done_Early == r_Tx_Done \/ (r_SM_Main = "DATA_BITS" /\ LastBit)
Done == r_Tx_Done \/ r_SM_Main = "STOP_BIT"

TxBit ==
  /\ r_SM_Main \in Sending /\ r_Clock_Count >= CLKS_PER_BIT - 1
  /\ o_Tx_Serial' = Line
  /\ r_Clock_Count' = 0
  /\ r_SM_Main' = CASE r_SM_Main = "START_BIT" -> "DATA_BITS"
                    [] r_SM_Main = "DATA_BITS" ->
                         IF LastBit THEN "STOP_BIT" ELSE "DATA_BITS"
                    [] r_SM_Main = "STOP_BIT" -> "CLEANUP"
  /\ r_Bit_Index' = IF r_SM_Main # "DATA_BITS" THEN r_Bit_Index
                    ELSE IF LastBit THEN 0 ELSE r_Bit_Index + 1
  /\ r_Tx_Done' = Done
  /\ UNCHANGED r_Tx_Data

TxCleanup ==
  /\ r_SM_Main = "CLEANUP"
  /\ r_SM_Main' = "IDLE" /\ r_Tx_Done' = TRUE
  /\ UNCHANGED <<r_Clock_Count, r_Bit_Index, r_Tx_Data, o_Tx_Serial>>

TxNeg(reset, dv, byte) ==
  /\ \/ reset /\ TxReset
     \/ ~reset /\ (TxIdle(dv, byte) \/ TxHold \/ TxBit \/ TxCleanup)
  /\ UNCHANGED o_Tx_Done_l

\* Rising edge.
TxPos(reset) ==
  /\ o_Tx_Done_l' = (~reset /\ r_Tx_Done)
  /\ UNCHANGED <<r_SM_Main, r_Clock_Count, r_Bit_Index, r_Tx_Data, r_Tx_Done,
                 o_Tx_Serial>>

TxTypeOK ==
  /\ r_SM_Main \in {"IDLE", "CLEANUP"} \cup Sending
  /\ r_Clock_Count \in 0 .. CLKS_PER_BIT - 1 /\ r_Bit_Index \in 0 .. Bits - 1
  /\ r_Tx_Data \in TxByte /\ o_Tx_Serial \in {0, 1}
  /\ r_Tx_Done \in BOOLEAN /\ o_Tx_Done_l \in BOOLEAN
=============================================================================
