------------------------------- MODULE UARTrx -------------------------------
(***************************************************************************)
(* IO/UARTrx.v: the UART receiver, at the rising edge.  Its assignments    *)
(* are simultaneous outside reset; o_Rx_DV and o_Rx_Byte are r_Rx_DV and   *)
(* r_Rx_Byte.                                                              *)
(***************************************************************************)
EXTENDS Integers

CONSTANTS CLKS_PER_BIT, Bits

VARIABLES r_Rx_Data_R, r_Rx_Data, r_SM_Main, r_Clock_Count, r_Bit_Index,
          r_Rx_Byte, r_Rx_DV

rxvars == <<r_Rx_Data_R, r_Rx_Data, r_SM_Main, r_Clock_Count, r_Bit_Index,
            r_Rx_Byte, r_Rx_DV>>

NoByte == [i \in 0 .. Bits - 1 |-> 0]

RxInit ==
  /\ r_Rx_Data_R = 1 /\ r_Rx_Data = 1
  /\ r_SM_Main = "IDLE" /\ r_Clock_Count = 0 /\ r_Bit_Index = 0
  /\ r_Rx_Byte = NoByte /\ r_Rx_DV = FALSE

RxReset ==
  /\ r_Rx_Data_R' = 1 /\ r_Rx_Data' = 1
  /\ r_SM_Main' = "IDLE" /\ r_Clock_Count' = 0 /\ r_Bit_Index' = 0
  /\ r_Rx_Byte' = NoByte /\ r_Rx_DV' = FALSE

RxIdle ==
  /\ r_SM_Main = "IDLE"
  /\ r_Rx_DV' = FALSE /\ r_Clock_Count' = 0 /\ r_Bit_Index' = 0
  /\ r_SM_Main' = IF r_Rx_Data = 0 THEN "START_BIT" ELSE "IDLE"
  /\ UNCHANGED r_Rx_Byte

Middle_Late == CLKS_PER_BIT - 1
Middle == (CLKS_PER_BIT - 1) \div 2

RxStart ==
  /\ r_SM_Main = "START_BIT"
  /\ IF r_Clock_Count # Middle
     THEN r_Clock_Count' = (r_Clock_Count + 1) % 256 /\ UNCHANGED r_SM_Main
     ELSE IF r_Rx_Data = 0
          THEN r_Clock_Count' = 0 /\ r_SM_Main' = "DATA_BITS"
          ELSE r_SM_Main' = "IDLE" /\ UNCHANGED r_Clock_Count
  /\ UNCHANGED <<r_Bit_Index, r_Rx_Byte, r_Rx_DV>>

RxHold ==
  /\ r_SM_Main \in {"DATA_BITS", "STOP_BIT"}
  /\ r_Clock_Count < CLKS_PER_BIT - 1
  /\ r_Clock_Count' = (r_Clock_Count + 1) % 256
  /\ UNCHANGED <<r_SM_Main, r_Bit_Index, r_Rx_Byte, r_Rx_DV>>

LastBit == r_Bit_Index >= Bits - 1

RxBit ==
  /\ r_SM_Main = "DATA_BITS" /\ r_Clock_Count >= CLKS_PER_BIT - 1
  /\ r_Clock_Count' = 0
  /\ r_Rx_Byte' = [r_Rx_Byte EXCEPT ![r_Bit_Index] = r_Rx_Data]
  /\ r_Bit_Index' = IF LastBit THEN 0 ELSE r_Bit_Index + 1
  /\ r_SM_Main' = IF LastBit THEN "STOP_BIT" ELSE "DATA_BITS"
  /\ UNCHANGED r_Rx_DV

RxStop ==
  /\ r_SM_Main = "STOP_BIT" /\ r_Clock_Count >= CLKS_PER_BIT - 1
  /\ r_Rx_DV' = TRUE /\ r_Clock_Count' = 0 /\ r_SM_Main' = "CLEANUP"
  /\ UNCHANGED <<r_Bit_Index, r_Rx_Byte>>

RxCleanup ==
  /\ r_SM_Main = "CLEANUP" /\ r_SM_Main' = "IDLE"
  /\ UNCHANGED <<r_Clock_Count, r_Bit_Index, r_Rx_Byte, r_Rx_DV>>

RxPos(reset, i_Rx_Serial) ==
  \/ reset /\ RxReset
  \/ /\ ~reset
     /\ r_Rx_Data_R' = i_Rx_Serial /\ r_Rx_Data' = r_Rx_Data_R
     /\ RxIdle \/ RxStart \/ RxHold \/ RxBit \/ RxStop \/ RxCleanup

RxTypeOK ==
  /\ {r_Rx_Data_R, r_Rx_Data} \subseteq {0, 1}
  /\ r_SM_Main \in {"IDLE", "START_BIT", "DATA_BITS", "STOP_BIT", "CLEANUP"}
  /\ r_Clock_Count \in 0 .. CLKS_PER_BIT - 1 /\ r_Bit_Index \in 0 .. Bits - 1
  /\ r_Rx_Byte \in [0 .. Bits - 1 -> {0, 1}] /\ r_Rx_DV \in BOOLEAN
=============================================================================
