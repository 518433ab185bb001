------------------------------ MODULE UARTlink ------------------------------
(***************************************************************************)
(* A UART transmitter, the line, and a receiver at the other end, with the *)
(* memory unit's use of the transmitter: the byte is held until Tx_Done is *)
(* seen (MemoryUnit.v:360-361,526-534).  Both ends run from one clock; the *)
(* transmitter's board may be reset while it is not sending.               *)
(***************************************************************************)
EXTENDS Integers, Sequences

CONSTANTS
  CLKS_PER_BIT, Bits,
  ResetClocks,  \* longest reset, in clocks: 16 in the code (DtrReset.v)
  Settle,       \* clocks from a reset, or power-up, to the program's first store
  MaxBytes      \* bound: bytes sent in a behaviour

VARIABLES
  clk, reset, since,     \* the clock, the reset line, and clocks since it rose
  dv, byte, unanswered,  \* the access: i_Tx_DV, i_Tx_Byte, busy
  tx_state, tx_count, tx_index, r_Tx_Data, r_Tx_Done, o_Tx_Serial, o_Tx_Done_l,
  r_Rx_Data_R, r_Rx_Data, rx_state, rx_count, rx_index, r_Rx_Byte, r_Rx_DV,
  sent, got              \* history: the bytes asked for, and those received

Tx == INSTANCE UARTtx
        WITH r_SM_Main <- tx_state, r_Clock_Count <- tx_count, r_Bit_Index <- tx_index
Rx == INSTANCE UARTrx
        WITH r_SM_Main <- rx_state, r_Clock_Count <- rx_count, r_Bit_Index <- rx_index

\* With fewer clocks per bit the receiver is not done with a byte when the
\* memory unit answers, and may miss the start of the next.
ASSUME LineAssumption == Tx!BitAssumption /\ CLKS_PER_BIT >= 6 /\ MaxBytes \in Nat

\* A reset is too short to look like a start bit, and the receiver, which sees
\* it three clocks late, has dismissed it when the program, which starts over,
\* sends its first byte.
ASSUME ResetAssumption ==
  /\ ResetClocks \in Nat \ {0} /\ ResetClocks < (CLKS_PER_BIT - 1) \div 2
  /\ Settle \in Nat /\ Settle > ResetClocks + (CLKS_PER_BIT - 1) \div 2 + 3

transmitter == <<tx_state, tx_count, tx_index, r_Tx_Data, r_Tx_Done, o_Tx_Serial,
                 o_Tx_Done_l>>
receiver == <<r_Rx_Data_R, r_Rx_Data, rx_state, rx_count, rx_index, r_Rx_Byte,
              r_Rx_DV>>
access == <<dv, byte, unanswered>>
vars == <<clk, reset, since, access, transmitter, receiver, sent, got>>

Init ==
  /\ clk = "low" /\ reset = FALSE /\ since = 0
  /\ dv = FALSE /\ byte = Tx!NoByte /\ unanswered = FALSE
  /\ Tx!TxInit /\ Rx!RxInit
  /\ sent = <<>> /\ got = <<>>

\* Rising edge: the CPU starts an access or leaves one that is answered.
Ask(b) ==
  /\ ~dv /\ since = Settle /\ ~reset' /\ Len(sent) < MaxBytes
  /\ dv' = TRUE /\ byte' = b /\ sent' = Append(sent, b)
Leave == dv /\ ~unanswered /\ dv' = FALSE /\ UNCHANGED <<byte, sent>>
Other == (dv => unanswered) /\ UNCHANGED <<dv, byte, sent>>

\* The reset line may rise between frames.
ResetLine ==
  /\ reset' \in BOOLEAN
  /\ reset' => /\ ~dv /\ tx_state = "IDLE"
               /\ IF reset THEN since < ResetClocks ELSE since = Settle
  /\ since' = IF reset' /\ ~reset THEN 1
              ELSE IF since < Settle THEN since + 1 ELSE since

PosEdge ==
  /\ clk = "low" /\ clk' = "high"
  /\ ResetLine
  /\ (\E b \in Tx!TxByte : Ask(b)) \/ Leave \/ Other
  /\ Tx!TxPos(reset)
  /\ Rx!RxPos(FALSE, o_Tx_Serial)
  /\ got' = IF r_Rx_DV' /\ ~r_Rx_DV /\ Len(got) <= MaxBytes
            THEN Append(got, r_Rx_Byte') ELSE got
  /\ UNCHANGED unanswered

\* Falling edge: the memory unit answers when it sees Tx_Done.
NegEdge ==
  /\ clk = "high" /\ clk' = "low"
  /\ unanswered' = ((unanswered \/ dv) /\ ~(unanswered /\ o_Tx_Done_l))
  /\ Tx!TxNeg(reset, dv, byte)
  /\ UNCHANGED <<reset, since, dv, byte, receiver, sent, got>>

Next == PosEdge \/ NegEdge

Spec == Init /\ [][Next]_vars
\* The clock does not stop.
FairSpec == Spec /\ WF_vars(Next)

-----------------------------------------------------------------------------
TypeOK ==
  /\ clk \in {"low", "high"} /\ reset \in BOOLEAN /\ since \in 0 .. Settle
  /\ dv \in BOOLEAN /\ byte \in Tx!TxByte /\ unanswered \in BOOLEAN
  /\ Tx!TxTypeOK /\ Rx!RxTypeOK

\* UARTtx.v:82-167, UARTrx.v:69-160.  The receiver gets the bytes that were
\* sent, in order, each once, and nothing from a reset or from power-up, while
\* the transmitter drives the line low.
Delivered ==
  /\ Len(got) \in {Len(sent), Len(sent) - 1}
  /\ \A i \in 1 .. Len(got) : got[i] = sent[i]

\* UARTtx.v:145-166, MemoryUnit.v:526-534.  When the CPU's store to the UART
\* is answered the other end has the byte: no flow control is needed.
AnsweredWhenReceived == dv /\ ~unanswered /\ clk = "low" => got = sent

\* Every store to the UART is answered, so that the CPU goes on.
StoreEnds == dv ~> ~dv
=============================================================================
