---------------------------- MODULE Devices_proofs ----------------------------
(***************************************************************************)
(* Proofs about two devices, each in a world of its own: UARTlink, the     *)
(* serial line from one transmitter to one receiver, and TimerAccess, a    *)
(* timer that a program uses through the memory unit.  The two share no    *)
(* constant, no variable and no assumption.                                *)
(***************************************************************************)
EXTENDS UARTlink, TimerAccess, TLAPS

-----------------------------------------------------------------------------
(* UARTlink: every byte arrives once and in order, and has arrived when    *)
(* its store is answered, for every number of clocks per bit (from six)    *)
(* and of bits, and for every admissible length of a reset.                *)
(*                                                                         *)
(* The inductive invariant.  The receiver is a fixed number of clocks      *)
(* behind the transmitter, from the start bit to the stop bit, and so is   *)
(* what is on the line and in its two flip-flops.                          *)

C == CLKS_PER_BIT
M == Rx!Middle
Half == IF clk = "low" THEN 1 ELSE 0

\* Where the transmitter is in a frame: the slot, 0 for the start bit, 1 to Bits
\* for the data, then the stop bit and what is left to do after it; and the
\* clocks it has been there.
Slot ==
  IF tx_state = "START_BIT" THEN 0
  ELSE IF tx_state = "DATA_BITS" THEN tx_index + 1
  ELSE IF tx_state = "STOP_BIT" THEN Bits + 1
  ELSE Bits + 2
Tick ==
  IF tx_state = "CLEANUP" THEN 0
  ELSE IF tx_state = "IDLE" THEN 1
  ELSE tx_count

\* It is n clocks past the beginning of slot s.
Past(s, n) ==
  \/ Slot = s /\ Tick = n
  \/ Slot = s + 1 /\ Tick = n - C
  \/ Slot = s + 2 /\ Tick = n - 2 * C

\* The bit of a slot, and what a place on the line that is d clocks away has.
BitOf(s) == IF s = 0 THEN 0 ELSE IF s \in 1 .. Bits THEN byte[s - 1] ELSE 1
Wire(d) == IF Tick >= d THEN BitOf(Slot) ELSE BitOf(Slot - 1)

\* No frame: the line is low only shortly after a reset, or after power-up, and
\* what the receiver takes for a start bit it dismisses in time.
Quiet ==
  /\ tx_state = "IDLE" /\ ~dv /\ ~unanswered /\ ~r_Tx_Done /\ got = sent
  /\ reset => since <= ResetClocks
  /\ o_Tx_Serial = 0 => since <= ResetClocks + 1 - Half
  /\ r_Rx_Data_R = 0 => since \in 1 .. ResetClocks + 1
  /\ r_Rx_Data = 0 => since \in 2 .. ResetClocks + 2
  /\ rx_state \in {"IDLE", "START_BIT"}
  /\ rx_state = "START_BIT" => since \in rx_count + 3 .. rx_count + ResetClocks + 3

\* The CPU has asked for a byte to be sent.
Asked ==
  /\ clk = "high" /\ tx_state = "IDLE" /\ dv /\ ~unanswered /\ ~r_Tx_Done /\ ~o_Tx_Done_l
  /\ rx_state = "IDLE" /\ {o_Tx_Serial, r_Rx_Data_R, r_Rx_Data} = {1}
  /\ sent = Append(got, byte)

\* The transmitter and the memory unit in a frame.
Sends ==
  /\ tx_state # "IDLE" => dv /\ unanswered /\ r_Tx_Data = byte
  /\ tx_state \in Tx!Sending => ~r_Tx_Done /\ ~o_Tx_Done_l
  /\ tx_state = "CLEANUP" => r_Tx_Done /\ (o_Tx_Done_l <=> clk = "high")
  /\ tx_state = "IDLE" => ~unanswered /\ r_Tx_Done /\ (dv <=> clk = "low")
  /\ tx_state \in {"START_BIT", "STOP_BIT"} => tx_index = 0

\* The line and the receiver's flip-flops.
Lines ==
  /\ o_Tx_Serial = Wire(1)
  /\ r_Rx_Data_R = Wire(1 + Half)
  /\ r_Rx_Data = Wire(2 + Half)

Pending == sent = Append(got, byte)
\* The receiver in a frame.
Receives ==
  /\ rx_state = "IDLE" =>
       \/ Slot = 0 /\ Tick <= 2 + Half /\ Pending
       \/ /\ \/ Slot = Bits + 1 /\ Tick >= M + 5 + Half
             \/ Slot = Bits + 2 /\ Tick + C >= M + 5 + Half
          /\ got = sent
  /\ rx_state = "START_BIT" => Past(0, rx_count + 3 + Half) /\ Pending
  /\ rx_state = "DATA_BITS" =>
       /\ Past(rx_index, rx_count + M + 4 + Half) /\ Pending
       /\ \A i \in 0 .. rx_index - 1 : r_Rx_Byte[i] = byte[i]
  /\ rx_state = "STOP_BIT" =>
       Past(Bits, rx_count + M + 4 + Half) /\ Pending /\ r_Rx_Byte = byte
  /\ rx_state = "CLEANUP" => Past(Bits + 1, M + 4 + Half) /\ got = sent

Frame == Sends /\ Lines /\ Receives

Counts ==
  /\ rx_state = "START_BIT" => rx_count <= M /\ rx_index = 0
  /\ rx_state \in {"START_BIT", "DATA_BITS", "STOP_BIT"} => ~r_Rx_DV
  /\ rx_state = "CLEANUP" => r_Rx_DV

History ==
  /\ sent \in Seq(Tx!TxByte) /\ got \in Seq(Tx!TxByte)
  /\ Len(sent) <= MaxBytes

IInv ==
  /\ TypeOK /\ Counts /\ History
  /\ Quiet \/ (since = Settle /\ ~reset /\ (Asked \/ Frame))

-----------------------------------------------------------------------------
(* Arithmetic, and the types that the steps of a frame need.               *)

LEMMA Arithmetic ==
  /\ C \in Nat /\ C >= 6 /\ C <= 256 /\ Bits \in Nat /\ Bits >= 1
  /\ M \in Nat /\ M >= 2 /\ M <= C - 4
  /\ ResetClocks \in Nat /\ ResetClocks >= 1 /\ ResetClocks < M
  /\ Settle \in Nat /\ Settle > ResetClocks + M + 3
  /\ MaxBytes \in Nat
<1>1. C \in Nat /\ C >= 6 /\ C <= 256 /\ Bits \in Nat /\ Bits >= 1 /\ MaxBytes \in Nat
  BY LineAssumption DEF C, Tx!BitAssumption
<1>2. M \in Nat /\ M >= 2 /\ 2 * M <= C - 1
  BY <1>1 DEF M, C, Rx!Middle
<1> QED BY <1>1, <1>2, ResetAssumption DEF M, C, Rx!Middle

LEMMA NoOverflow == \A n \in 0 .. 254 : (n + 1) % 256 = n + 1
OBVIOUS

\* The types that need arithmetic, apart from those of the flags.
Numbers ==
  /\ clk \in {"low", "high"} /\ since \in 0 .. Settle /\ byte \in Tx!TxByte
  /\ tx_state \in {"IDLE", "CLEANUP"} \cup Tx!Sending
  /\ tx_count \in 0 .. C - 1 /\ tx_index \in 0 .. Bits - 1
  /\ r_Tx_Data \in Tx!TxByte /\ o_Tx_Serial \in {0, 1}
  /\ r_Rx_Data_R \in {0, 1} /\ r_Rx_Data \in {0, 1}
  /\ rx_state \in {"IDLE", "START_BIT", "DATA_BITS", "STOP_BIT", "CLEANUP"}
  /\ rx_count \in 0 .. C - 1 /\ rx_index \in 0 .. Bits - 1
  /\ r_Rx_Byte \in [0 .. Bits - 1 -> {0, 1}]
Flags ==
  /\ reset \in BOOLEAN /\ dv \in BOOLEAN /\ unanswered \in BOOLEAN
  /\ r_Tx_Done \in BOOLEAN /\ o_Tx_Done_l \in BOOLEAN /\ r_Rx_DV \in BOOLEAN

LEMMA TypeParts == TypeOK <=> Numbers /\ Flags
BY DEF TypeOK, Numbers, Flags, Tx!TxTypeOK, Rx!RxTypeOK, C

LEMMA FlagsStep == ASSUME Flags, [Next]_vars PROVE Flags'
<1>1. CASE PosEdge
  BY <1>1, Zenon DEF Flags, PosEdge, ResetLine, Ask, Leave, Other, Tx!TxPos, Rx!RxPos,
     Rx!RxIdle, Rx!RxStart, Rx!RxHold, Rx!RxBit, Rx!RxStop, Rx!RxCleanup
<1>2. CASE NegEdge
  BY <1>2, Zenon DEF Flags, NegEdge, receiver, Tx!TxNeg, Tx!TxReset, Tx!TxIdle,
     Tx!TxHold, Tx!TxBit, Tx!TxCleanup, Tx!Done
<1>3. CASE UNCHANGED vars
  BY <1>3, Zenon DEF Flags, vars, access, transmitter, receiver
<1> QED BY <1>1, <1>2, <1>3 DEF Next

LEMMA SinceStep ==
  ASSUME ResetLine
  PROVE  /\ reset' /\ ~reset => since' = 1
         /\ ~(reset' /\ ~reset) /\ since < Settle => since' = since + 1
         /\ ~(reset' /\ ~reset) /\ ~(since < Settle) => since' = since
BY DEF ResetLine

LEMMA TxBitStep ==
  ASSUME Tx!TxBit
  PROVE  /\ tx_state \in Tx!Sending /\ tx_count >= C - 1 /\ tx_count' = 0
         /\ o_Tx_Serial' = Tx!Line /\ r_Tx_Data' = r_Tx_Data
         /\ tx_state = "START_BIT" => tx_state' = "DATA_BITS" /\ tx_index' = tx_index
         /\ tx_state = "DATA_BITS" =>
              IF Tx!LastBit THEN tx_state' = "STOP_BIT" /\ tx_index' = 0
              ELSE tx_state' = "DATA_BITS" /\ tx_index' = tx_index + 1
         /\ tx_state = "STOP_BIT" => tx_state' = "CLEANUP" /\ tx_index' = tx_index
<1>1. /\ tx_state \in Tx!Sending /\ tx_count >= C - 1 /\ tx_count' = 0
      /\ o_Tx_Serial' = Tx!Line /\ r_Tx_Data' = r_Tx_Data
  BY DEF Tx!TxBit, C
<1>2. CASE tx_state = "START_BIT"
  BY <1>1, <1>2 DEF Tx!TxBit
<1>3. CASE tx_state = "DATA_BITS"
  <2>1. CASE Tx!LastBit
    <3>1. tx_state' = "STOP_BIT"
      BY <1>3, <2>1 DEF Tx!TxBit
    <3>2. tx_index' = 0
      BY <1>3, <2>1 DEF Tx!TxBit
    <3> QED BY <1>1, <1>3, <2>1, <3>1, <3>2
  <2>2. CASE ~Tx!LastBit
    <3>1. tx_state' = "DATA_BITS"
      BY <1>3, <2>2 DEF Tx!TxBit
    <3>2. tx_index' = tx_index + 1
      BY <1>3, <2>2 DEF Tx!TxBit
    <3> QED BY <1>1, <1>3, <2>2, <3>1, <3>2
  <2> QED BY <2>1, <2>2
<1>4. CASE tx_state = "STOP_BIT"
  BY <1>1, <1>4 DEF Tx!TxBit
<1> QED BY <1>1, <1>2, <1>3, <1>4 DEF Tx!Sending

LEMMA NumbersStep == ASSUME Numbers, Counts, [Next]_vars PROVE Numbers'
<1> USE Arithmetic
<1>1. CASE PosEdge
  <2>1. clk' \in {"low", "high"} /\ since' \in 0 .. Settle /\ byte' \in Tx!TxByte
    <3>1. since' \in 0 .. Settle
      BY <1>1, SinceStep DEF Numbers, PosEdge
    <3> QED BY <1>1, <3>1 DEF Numbers, PosEdge, Ask, Leave, Other
  <2>2. /\ tx_state' = tx_state /\ tx_count' = tx_count /\ tx_index' = tx_index
        /\ r_Tx_Data' = r_Tx_Data /\ o_Tx_Serial' = o_Tx_Serial
    BY <1>1 DEF PosEdge, Tx!TxPos
  <2>3. r_Rx_Data_R' \in {0, 1} /\ r_Rx_Data' \in {0, 1}
    BY <1>1 DEF Numbers, PosEdge, Rx!RxPos
  <2>4. /\ rx_state' \in {"IDLE", "START_BIT", "DATA_BITS", "STOP_BIT", "CLEANUP"}
        /\ rx_count' \in 0 .. C - 1 /\ rx_index' \in 0 .. Bits - 1
        /\ r_Rx_Byte' \in [0 .. Bits - 1 -> {0, 1}]
    <3>1. CASE Rx!RxIdle
      BY <3>1 DEF Numbers, Rx!RxIdle
    <3>2. CASE Rx!RxStart
      BY <3>2, NoOverflow DEF Numbers, Counts, Rx!RxStart, M
    <3>3. CASE Rx!RxHold
      BY <3>3, NoOverflow DEF Numbers, Rx!RxHold, C
    <3>4. CASE Rx!RxBit
      BY <3>4 DEF Numbers, Rx!RxBit, Rx!LastBit
    <3>5. CASE Rx!RxStop
      BY <3>5 DEF Numbers, Rx!RxStop
    <3>6. CASE Rx!RxCleanup
      BY <3>6 DEF Numbers, Rx!RxCleanup
    <3> QED BY <1>1, <3>1, <3>2, <3>3, <3>4, <3>5, <3>6 DEF PosEdge, Rx!RxPos
  <2> QED BY <2>1, <2>2, <2>3, <2>4 DEF Numbers
<1>2. CASE NegEdge
  <2>1. /\ clk' \in {"low", "high"} /\ UNCHANGED <<since, byte, receiver>>
        /\ UNCHANGED <<rx_state, rx_count, rx_index, r_Rx_Byte, r_Rx_Data, r_Rx_Data_R>>
    BY <1>2 DEF Numbers, NegEdge, receiver
  <2>2. /\ tx_state' \in {"IDLE", "CLEANUP"} \cup Tx!Sending
        /\ tx_count' \in 0 .. C - 1 /\ tx_index' \in 0 .. Bits - 1
        /\ r_Tx_Data' \in Tx!TxByte /\ o_Tx_Serial' \in {0, 1}
    <3>1. CASE Tx!TxReset
      BY <3>1 DEF Numbers, Tx!TxReset, Tx!NoByte, Tx!TxByte
    <3>2. CASE Tx!TxIdle(dv, byte)
      BY <3>2 DEF Numbers, Tx!TxIdle, Tx!Sending
    <3>3. ASSUME tx_state \in Tx!Sending PROVE Tx!Line \in {0, 1}
      BY <3>3 DEF Numbers, Tx!Line, Tx!Sending, Tx!TxByte
    <3>4. CASE Tx!TxHold
      BY <3>3, <3>4, NoOverflow DEF Numbers, Tx!TxHold, Tx!CountUp, C
    <3>5. CASE Tx!TxBit
      <4>1. tx_state \in Tx!Sending /\ o_Tx_Serial' = Tx!Line
        BY <3>5, TxBitStep
      <4> QED BY <3>3, <3>5, <4>1, TxBitStep DEF Numbers, Tx!LastBit, Tx!Sending
    <3>6. CASE Tx!TxCleanup
      BY <3>6 DEF Numbers, Tx!TxCleanup
    <3> QED BY <1>2, <3>1, <3>2, <3>4, <3>5, <3>6 DEF NegEdge, Tx!TxNeg
  <2> QED BY <2>1, <2>2 DEF Numbers
<1>3. CASE UNCHANGED vars
  BY <1>3 DEF Numbers, vars, access, transmitter, receiver
<1> QED BY <1>1, <1>2, <1>3 DEF Next

-----------------------------------------------------------------------------
(* A falling edge in a frame moves the transmitter by one clock.           *)

Advances ==
  \/ Slot' = Slot /\ Tick' = Tick + 1
  \/ Slot' = Slot + 1 /\ Tick' = 0 /\ Tick = C - 1

LEMMA Position ==
  ASSUME Numbers, Sends
  PROVE  /\ Slot \in 0 .. Bits + 2 /\ Tick \in 0 .. C - 1
         /\ Slot = Bits + 2 => Tick \in {0, 1}
         /\ Slot = Bits + 2 <=> tx_state \in {"CLEANUP", "IDLE"}
BY Arithmetic DEF Numbers, Sends, Slot, Tick, Tx!Sending

LEMMA SenderAdvances ==
  ASSUME Numbers, Sends, o_Tx_Serial = Wire(1), ~reset, NegEdge, tx_state # "IDLE"
  PROVE  Advances /\ o_Tx_Serial' = BitOf(Slot) /\ byte' = byte
<1> USE Arithmetic
<1>1. byte' = byte /\ (Tx!TxHold \/ Tx!TxBit \/ Tx!TxCleanup)
  BY DEF NegEdge, Tx!TxNeg, Tx!TxIdle
<1>2. r_Tx_Data = byte
  BY DEF Sends
<1>3. tx_state \in Tx!Sending => Tx!Line = BitOf(Slot)
  <2>1. CASE tx_state = "START_BIT"
    BY <2>1 DEF Tx!Line, BitOf, Slot
  <2>2. CASE tx_state = "DATA_BITS"
    <3>1. Tx!Line = byte[tx_index]
      BY <1>2, <2>2 DEF Tx!Line
    <3>2. Slot = tx_index + 1 /\ Slot \in 1 .. Bits /\ Slot - 1 = tx_index
      BY <2>2 DEF Slot, Numbers
    <3> QED BY <3>1, <3>2 DEF BitOf
  <2>3. CASE tx_state = "STOP_BIT"
    BY <2>3 DEF Tx!Line, BitOf, Slot
  <2> QED BY <2>1, <2>2, <2>3 DEF Tx!Sending
<1>4. CASE Tx!TxHold
  BY <1>1, <1>3, <1>4, NoOverflow
     DEF Numbers, Tx!TxHold, Tx!CountUp, Advances, Slot, Tick, Tx!Sending, C
<1>5. CASE Tx!TxBit
  <2>1. tx_count = C - 1 /\ tx_state \in Tx!Sending /\ o_Tx_Serial' = BitOf(Slot)
    BY <1>3, <1>5, TxBitStep DEF Numbers
  <2>2. CASE tx_state = "START_BIT"
    BY <1>5, <2>1, <2>2, <1>1, TxBitStep DEF Sends, Advances, Slot, Tick
  <2>3. CASE tx_state = "DATA_BITS" /\ Tx!LastBit
    BY <1>5, <2>1, <2>3, <1>1, TxBitStep DEF Numbers, Tx!LastBit, Advances, Slot, Tick
  <2>4. CASE tx_state = "DATA_BITS" /\ ~Tx!LastBit
    BY <1>5, <2>1, <2>4, <1>1, TxBitStep DEF Numbers, Advances, Slot, Tick
  <2>5. CASE tx_state = "STOP_BIT"
    BY <1>5, <2>1, <2>5, <1>1, TxBitStep DEF Advances, Slot, Tick
  <2> QED BY <2>1, <2>2, <2>3, <2>4, <2>5 DEF Tx!Sending
<1>6. CASE Tx!TxCleanup
  <2>1. Slot = Bits + 2 /\ Tick = 0 /\ Slot' = Bits + 2 /\ Tick' = 1
    BY <1>6 DEF Tx!TxCleanup, Slot, Tick
  <2>2. o_Tx_Serial' = BitOf(Slot - 1)
    BY <1>6, <2>1 DEF Tx!TxCleanup, Wire
  <2>3. BitOf(Slot) = 1 /\ BitOf(Slot - 1) = 1
    BY <2>1 DEF BitOf
  <2> QED BY <1>1, <2>1, <2>2, <2>3 DEF Advances
<1> QED BY <1>1, <1>4, <1>5, <1>6

LEMMA SendsNeg ==
  ASSUME Numbers, Sends, ~reset, NegEdge, tx_state # "IDLE"
  PROVE  Sends'
<1> USE Arithmetic
<1>1. /\ byte' = byte /\ dv' = dv /\ dv /\ unanswered /\ o_Tx_Done_l' = o_Tx_Done_l
      /\ clk = "high" /\ clk' = "low" /\ r_Tx_Data = byte
      /\ Tx!TxHold \/ Tx!TxBit \/ Tx!TxCleanup
  BY DEF NegEdge, Tx!TxNeg, Tx!TxIdle, Sends
<1>2. unanswered' <=> ~o_Tx_Done_l
  BY <1>1 DEF NegEdge
<1>3. CASE Tx!TxHold
  BY <1>1, <1>2, <1>3 DEF Tx!TxHold, Sends, Tx!Sending
<1>4. CASE Tx!TxBit
  <2>1. r_Tx_Done' <=> Tx!Done
    BY <1>4 DEF Tx!TxBit
  <2>2. ~r_Tx_Done /\ ~o_Tx_Done_l /\ r_Tx_Data' = byte
    BY <1>4, <1>1, TxBitStep DEF Sends
  <2>3. CASE tx_state = "START_BIT"
    BY <1>1, <1>2, <1>4, <2>1, <2>2, <2>3, TxBitStep DEF Sends, Tx!Done, Tx!Sending
  <2>4. CASE tx_state = "DATA_BITS"
    BY <1>1, <1>2, <1>4, <2>1, <2>2, <2>4, TxBitStep DEF Sends, Tx!Done, Tx!Sending
  <2>5. CASE tx_state = "STOP_BIT"
    BY <1>1, <1>2, <1>4, <2>1, <2>2, <2>5, TxBitStep DEF Sends, Tx!Done, Tx!Sending
  <2> QED BY <1>4, <2>3, <2>4, <2>5, TxBitStep DEF Tx!Sending
<1>5. CASE Tx!TxCleanup
  BY <1>1, <1>2, <1>5 DEF Tx!TxCleanup, Sends, Tx!Sending
<1> QED BY <1>1, <1>3, <1>4, <1>5

\* What was at one place on the line is at the next one clock later.
LEMMA WireAdvances ==
  ASSUME Numbers, Sends, Advances, byte' = byte, NEW d \in 1 .. C - 1
  PROVE  Wire(d + 1)' = Wire(d)
<1> USE Arithmetic
<1>1. Slot \in Int /\ Tick \in 0 .. C - 1
  BY Position
<1>2. CASE Slot' = Slot /\ Tick' = Tick + 1
  BY <1>1, <1>2 DEF Wire, BitOf
<1>3. CASE Slot' = Slot + 1 /\ Tick' = 0 /\ Tick = C - 1
  <2>1. (Slot - 1)' = Slot /\ ~(Tick' >= d + 1) /\ Tick >= d
    BY <1>1, <1>3
  <2> QED BY <2>1 DEF Wire, BitOf
<1> QED BY <1>2, <1>3 DEF Advances

LEMMA PastAdvances ==
  ASSUME Numbers, Sends, Advances
  PROVE  \A s, n \in Nat : n < 3 * C - 1 /\ Past(s, n) =>
           \/ Slot' = s /\ Tick' = n + 1
           \/ Slot' = s + 1 /\ Tick' = n + 1 - C
           \/ Slot' = s + 2 /\ Tick' = n + 1 - 2 * C
<1>1. Slot \in Int /\ Tick \in 0 .. C - 1
  BY Position
<1> QED BY <1>1, Arithmetic DEF Past, Advances

LEMMA ReceivesNeg ==
  ASSUME Numbers, Sends, Advances, Receives, Counts, ~reset, NegEdge
  PROVE  Receives'
<1> USE Arithmetic
<1>1. /\ byte' = byte /\ sent' = sent /\ got' = got /\ rx_state' = rx_state
      /\ rx_count' = rx_count /\ rx_index' = rx_index /\ r_Rx_Byte' = r_Rx_Byte
      /\ clk = "high" /\ clk' = "low"
  BY DEF NegEdge, receiver
<1>2. Half = 0 /\ Half' = 1
  BY <1>1 DEF Half
<1>3. Slot \in Int /\ Tick \in 0 .. C - 1
  BY Position
<1>4. Pending' <=> Pending
  BY <1>1 DEF Pending
<1>5. rx_count \in 0 .. C - 1 /\ rx_index \in Nat
  BY DEF Numbers
<1>6. CASE rx_state = "IDLE"
  <2>1. Receives' <=> (\/ Slot' = 0 /\ Tick' <= 3 /\ Pending
                      \/ /\ \/ Slot' = Bits + 1 /\ Tick' >= M + 6
                            \/ Slot' = Bits + 2 /\ Tick' + C >= M + 6
                         /\ got = sent)
    BY <1>1, <1>2, <1>4, <1>6 DEF Receives
  <2>2. CASE Slot = 0 /\ Tick <= 2 /\ Pending
    BY <1>3, <2>1, <2>2 DEF Advances
  <2>3. CASE Slot = Bits + 1 /\ Tick >= M + 5 /\ got = sent
    BY <1>3, <2>1, <2>3 DEF Advances
  <2>4. CASE Slot = Bits + 2 /\ Tick + C >= M + 5 /\ got = sent
    <3>1. Tick' = Tick + 1 /\ Slot' = Slot
      BY <2>4, Position DEF Advances
    <3> QED BY <1>3, <2>1, <2>4, <3>1
  <2> QED BY <1>2, <1>6, <2>2, <2>3, <2>4 DEF Receives
<1>7. CASE rx_state = "START_BIT"
  <2>1. rx_count + 3 \in Nat /\ rx_count + 3 < 3 * C - 1 /\ Past(0, rx_count + 3)
    BY <1>2, <1>5, <1>7 DEF Receives
  <2>2. \/ Slot' = 0 /\ Tick' = (rx_count + 3) + 1
        \/ Slot' = (0) + 1 /\ Tick' = (rx_count + 3) + 1 - C
        \/ Slot' = (0) + 2 /\ Tick' = (rx_count + 3) + 1 - 2 * C
    BY <1>5, <2>1, PastAdvances
  <2> QED BY <1>1, <1>2, <1>4, <1>5, <1>7, <2>2 DEF Receives, Past
<1>8. CASE rx_state = "DATA_BITS"
  <2>1. rx_count + M + 4 \in Nat /\ rx_count + M + 4 < 3 * C - 1 /\ Past(rx_index, rx_count + M + 4)
    BY <1>2, <1>5, <1>8 DEF Receives
  <2>2. \/ Slot' = rx_index /\ Tick' = (rx_count + M + 4) + 1
        \/ Slot' = (rx_index) + 1 /\ Tick' = (rx_count + M + 4) + 1 - C
        \/ Slot' = (rx_index) + 2 /\ Tick' = (rx_count + M + 4) + 1 - 2 * C
    BY <1>5, <2>1, PastAdvances
  <2> QED BY <1>1, <1>2, <1>4, <1>5, <1>8, <2>2 DEF Receives, Past
<1>9. CASE rx_state = "STOP_BIT"
  <2>1. rx_count + M + 4 \in Nat /\ rx_count + M + 4 < 3 * C - 1 /\ Past(Bits, rx_count + M + 4)
    BY <1>2, <1>5, <1>9 DEF Receives
  <2>2. \/ Slot' = Bits /\ Tick' = (rx_count + M + 4) + 1
        \/ Slot' = (Bits) + 1 /\ Tick' = (rx_count + M + 4) + 1 - C
        \/ Slot' = (Bits) + 2 /\ Tick' = (rx_count + M + 4) + 1 - 2 * C
    BY <1>5, <2>1, PastAdvances
  <2> QED BY <1>1, <1>2, <1>4, <1>5, <1>9, <2>2 DEF Receives, Past
<1>10. CASE rx_state = "CLEANUP"
  <2>1. M + 4 \in Nat /\ M + 4 < 3 * C - 1 /\ Past(Bits + 1, M + 4)
    BY <1>2, <1>5, <1>10 DEF Receives
  <2>2. \/ Slot' = Bits + 1 /\ Tick' = (M + 4) + 1
        \/ Slot' = (Bits + 1) + 1 /\ Tick' = (M + 4) + 1 - C
        \/ Slot' = (Bits + 1) + 2 /\ Tick' = (M + 4) + 1 - 2 * C
    BY <1>5, <2>1, PastAdvances
  <2> QED BY <1>1, <1>2, <1>4, <1>5, <1>10, <2>2 DEF Receives, Past
<1> QED BY <1>6, <1>7, <1>8, <1>9, <1>10 DEF Numbers

LEMMA FrameNeg ==
  ASSUME Numbers, Counts, Frame, ~reset, NegEdge, tx_state # "IDLE"
  PROVE  Frame'
<1> USE Arithmetic
<1>1. Half = 0 /\ Half' = 1 /\ r_Rx_Data_R' = r_Rx_Data_R /\ r_Rx_Data' = r_Rx_Data
  BY DEF NegEdge, receiver, Half
<1>2. Advances /\ o_Tx_Serial' = BitOf(Slot) /\ byte' = byte
  BY SenderAdvances DEF Frame, Lines
<1>3. Slot \in Int /\ Tick \in 0 .. C - 1
  BY Position DEF Frame
<1>4. Wire(2)' = Wire(1) /\ Wire(3)' = Wire(2)
  BY <1>2, WireAdvances DEF Frame
<1>5. o_Tx_Serial' = Wire(1)'
  BY <1>2, <1>3 DEF Wire, BitOf, Advances
<1>6. Lines'
  BY <1>1, <1>4, <1>5 DEF Frame, Lines
<1> QED BY <1>2, <1>6, SendsNeg, ReceivesNeg DEF Frame

-----------------------------------------------------------------------------
(* A rising edge in a frame moves the line into the receiver, and the      *)
(* receiver by one clock; the transmitter stays where it is.               *)

\* What a rising edge leaves alone in a frame, and the line that moves.
PosFrame ==
  /\ Numbers /\ Counts /\ History /\ Frame /\ PosEdge
  /\ ~reset' /\ since' = Settle /\ byte' = byte /\ sent' = sent
  /\ Slot' = Slot /\ Tick' = Tick /\ Half = 1 /\ Half' = 0
  /\ r_Rx_Data = Wire(3)

LEMMA FrameStands ==
  ASSUME Numbers, Counts, History, Frame, since = Settle, ~reset, PosEdge
  PROVE  PosFrame /\ Sends' /\ Lines'
<1> USE Arithmetic
<1>1. clk = "low" /\ clk' = "high" /\ Half = 1 /\ Half' = 0
  BY DEF PosEdge, Half
<1>2. dv
  BY <1>1 DEF Frame, Sends
<1>3. ~reset' /\ since' = Settle
  BY <1>2, SinceStep DEF PosEdge, ResetLine
<1>4. byte' = byte /\ sent' = sent /\ (dv' <=> unanswered)
  BY <1>2 DEF PosEdge, Ask, Leave, Other
<1>5. /\ tx_state' = tx_state /\ tx_count' = tx_count /\ tx_index' = tx_index
      /\ r_Tx_Data' = r_Tx_Data /\ o_Tx_Serial' = o_Tx_Serial
  BY DEF PosEdge, Tx!TxPos
<1>6. Slot' = Slot /\ Tick' = Tick
  BY <1>5 DEF Slot, Tick
<1>7. r_Tx_Done' = r_Tx_Done /\ (o_Tx_Done_l' <=> r_Tx_Done) /\ unanswered' = unanswered
  BY DEF PosEdge, Tx!TxPos
<1>8. r_Rx_Data = Wire(3) /\ r_Rx_Data_R = Wire(2) /\ o_Tx_Serial = Wire(1)
  BY <1>1 DEF Frame, Lines
<1>9. r_Rx_Data_R' = o_Tx_Serial /\ r_Rx_Data' = r_Rx_Data_R
  BY DEF PosEdge, Rx!RxPos
<1>10. Lines'
  BY <1>1, <1>4, <1>5, <1>6, <1>8, <1>9 DEF Lines, Wire, BitOf
<1>11. Sends'
  BY <1>1, <1>4, <1>5, <1>7 DEF Frame, Sends
<1> QED BY <1>1, <1>3, <1>4, <1>5, <1>6, <1>8, <1>10, <1>11 DEF PosFrame

PosGoal == Receives' /\ Counts' /\ History'

\* No byte is complete: nothing is received.
LEMMA NothingReceived ==
  ASSUME PosFrame, r_Rx_DV' => r_Rx_DV
  PROVE  got' = got /\ History' /\ (Pending' <=> Pending)
<1>1. got' = got
  BY DEF PosFrame, PosEdge
<1> QED BY <1>1 DEF PosFrame, History, Pending

LEMMA IdleFrame == ASSUME PosFrame, Rx!RxIdle PROVE PosGoal
<1> USE Arithmetic
<1>0. Slot \in 0 .. Bits + 2 /\ Tick \in 0 .. C - 1
  BY Position DEF PosFrame, Frame
<1>1. got' = got /\ sent' = sent /\ History' /\ (Pending' <=> Pending)
  BY NothingReceived DEF Rx!RxIdle, PosFrame
<1>2. rx_state = "IDLE" /\ rx_count' = 0 /\ rx_index' = 0 /\ ~r_Rx_DV'
      /\ rx_state' = IF r_Rx_Data = 0 THEN "START_BIT" ELSE "IDLE"
  BY DEF Rx!RxIdle
<1>3. Counts'
  BY <1>2 DEF Counts
<1>4. Slot' = Slot /\ Tick' = Tick /\ Half' = 0 /\ Half = 1 /\ r_Rx_Data = Wire(3)
  BY DEF PosFrame
<1>5. CASE Slot = 0 /\ Tick <= 3 /\ Pending
  <2>1. r_Rx_Data = 0 <=> Tick = 3
    BY <1>0, <1>4, <1>5 DEF Wire, BitOf
  <2>2. CASE Tick = 3
    BY <1>1, <1>2, <1>3, <1>4, <1>5, <2>1, <2>2 DEF PosGoal, Receives, Past
  <2>3. CASE Tick # 3
    BY <1>0, <1>1, <1>2, <1>3, <1>4, <1>5, <2>1, <2>3 DEF PosGoal, Receives
  <2> QED BY <2>2, <2>3
<1>6. CASE /\ \/ Slot = Bits + 1 /\ Tick >= M + 6
              \/ Slot = Bits + 2 /\ Tick + C >= M + 6
           /\ got = sent
  <2>1. r_Rx_Data = 1
    BY <1>0, <1>4, <1>6 DEF Wire, BitOf
  <2> QED BY <1>0, <1>1, <1>2, <1>3, <1>4, <1>6, <2>1 DEF PosGoal, Receives
<1> QED BY <1>2, <1>4, <1>5, <1>6 DEF PosFrame, Frame, Receives

LEMMA StartFrame == ASSUME PosFrame, Rx!RxStart PROVE PosGoal
<1> USE Arithmetic
<1>0. Slot \in 0 .. Bits + 2 /\ Tick \in 0 .. C - 1
  BY Position DEF PosFrame, Frame
<1>1. got' = got /\ sent' = sent /\ History' /\ (Pending' <=> Pending)
  BY NothingReceived DEF Rx!RxStart, PosFrame
<1>2. rx_state = "START_BIT" /\ rx_index' = 0 /\ ~r_Rx_DV' /\ rx_count \in 0 .. M
  BY DEF Rx!RxStart, PosFrame, Numbers, Counts
<1>3. Past(0, rx_count + 4) /\ Pending
  BY <1>2 DEF PosFrame, Frame, Receives
<1>4. Slot' = Slot /\ Tick' = Tick /\ Half' = 0 /\ r_Rx_Data = Wire(3)
  BY DEF PosFrame
<1>5. CASE rx_count # M
  <2>1. rx_count' = rx_count + 1 /\ rx_state' = "START_BIT"
    BY <1>2, <1>5, NoOverflow DEF Rx!RxStart, M
  <2> QED BY <1>1, <1>2, <1>3, <1>4, <1>5, <2>1 DEF PosGoal, Receives, Past, Counts
<1>6. CASE rx_count = M
  <2>1. r_Rx_Data = 0
    BY <1>0, <1>3, <1>4, <1>6 DEF Past, Wire, BitOf
  <2>2. rx_count' = 0 /\ rx_state' = "DATA_BITS"
    BY <1>2, <1>6, <2>1 DEF Rx!RxStart, M
  <2> QED BY <1>1, <1>2, <1>3, <1>4, <1>6, <2>2 DEF PosGoal, Receives, Past, Counts
<1> QED BY <1>5, <1>6

LEMMA HoldFrame == ASSUME PosFrame, Rx!RxHold PROVE PosGoal
<1> USE Arithmetic
<1>1. got' = got /\ sent' = sent /\ History' /\ (Pending' <=> Pending)
  BY NothingReceived DEF Rx!RxHold, PosFrame
<1>2. /\ rx_state \in {"DATA_BITS", "STOP_BIT"} /\ rx_state' = rx_state
      /\ rx_count \in Nat /\ rx_index' = rx_index /\ rx_index \in Nat
      /\ r_Rx_Byte' = r_Rx_Byte /\ r_Rx_DV' = r_Rx_DV
  BY DEF Rx!RxHold, PosFrame, Numbers
<1>3. rx_count' = rx_count + 1
  BY NoOverflow DEF Rx!RxHold, PosFrame, Numbers, C
<1>4. Slot' = Slot /\ Tick' = Tick /\ Half' = 0 /\ Half = 1 /\ byte' = byte
  BY DEF PosFrame
<1>5. Counts'
  BY <1>2 DEF PosFrame, Counts
<1>6. CASE rx_state = "DATA_BITS"
  BY <1>1, <1>2, <1>3, <1>4, <1>5, <1>6 DEF PosFrame, Frame, PosGoal, Receives, Past
<1>7. CASE rx_state = "STOP_BIT"
  BY <1>1, <1>2, <1>3, <1>4, <1>5, <1>7 DEF PosFrame, Frame, PosGoal, Receives, Past
<1> QED BY <1>2, <1>6, <1>7

\* The receiver takes the bit that the transmitter sent.
LEMMA BitFrame == ASSUME PosFrame, Rx!RxBit PROVE PosGoal
<1> USE Arithmetic
<1>0. Slot \in 0 .. Bits + 2 /\ Tick \in 0 .. C - 1
  BY Position DEF PosFrame, Frame
<1>1. got' = got /\ sent' = sent /\ History' /\ (Pending' <=> Pending)
  BY NothingReceived DEF Rx!RxBit, PosFrame
<1>2. /\ rx_state = "DATA_BITS" /\ rx_count = C - 1 /\ rx_count' = 0
      /\ rx_index \in 0 .. Bits - 1 /\ ~r_Rx_DV'
      /\ r_Rx_Byte \in [0 .. Bits - 1 -> {0, 1}] /\ byte \in [0 .. Bits - 1 -> {0, 1}]
      /\ r_Rx_Byte' = [r_Rx_Byte EXCEPT ![rx_index] = r_Rx_Data]
  BY DEF Rx!RxBit, PosFrame, Numbers, Counts, C, Tx!TxByte
<1>3. /\ Past(rx_index, C + M + 4) /\ Pending
      /\ \A i \in 0 .. rx_index - 1 : r_Rx_Byte[i] = byte[i]
  BY <1>2 DEF PosFrame, Frame, Receives
<1>4. Slot' = Slot /\ Tick' = Tick /\ Half' = 0 /\ byte' = byte /\ r_Rx_Data = Wire(3)
  BY DEF PosFrame
<1>5. r_Rx_Data = byte[rx_index]
  <2>1. r_Rx_Data = BitOf(rx_index + 1)
    BY <1>0, <1>2, <1>3, <1>4 DEF Past, Wire
  <2> QED BY <1>2, <2>1 DEF BitOf
<1>6. \A i \in 0 .. rx_index : r_Rx_Byte'[i] = byte[i]
  BY <1>2, <1>3, <1>5
<1>7. \/ Slot = rx_index + 1 /\ Tick = M + 4
      \/ Slot = rx_index + 2 /\ Tick = M + 4 - C
  BY <1>0, <1>2, <1>3 DEF Past
<1>8. CASE rx_index = Bits - 1
  <2>1. rx_state' = "STOP_BIT" /\ rx_index' = 0
    BY <1>8 DEF Rx!RxBit, Rx!LastBit
  <2>2. r_Rx_Byte' = byte
    BY <1>2, <1>6, <1>8
  <2> QED BY <1>1, <1>2, <1>3, <1>4, <1>7, <1>8, <2>1, <2>2
          DEF PosGoal, Receives, Past, Counts
<1>9. CASE rx_index # Bits - 1
  <2>1. rx_state' = "DATA_BITS" /\ rx_index' = rx_index + 1
    BY <1>2, <1>9 DEF Rx!RxBit, Rx!LastBit
  <2>2. \A i \in 0 .. rx_index' - 1 : r_Rx_Byte'[i] = byte'[i]
    BY <1>2, <1>4, <1>6, <2>1
  <2> QED BY <1>1, <1>2, <1>3, <1>4, <1>7, <2>1, <2>2 DEF PosGoal, Receives, Past, Counts
<1> QED BY <1>8, <1>9

\* The byte is complete.
LEMMA StopFrame == ASSUME PosFrame, Rx!RxStop PROVE PosGoal
<1> USE Arithmetic
<1>0. Slot \in 0 .. Bits + 2 /\ Tick \in 0 .. C - 1
  BY Position DEF PosFrame, Frame
<1>1. /\ rx_state = "STOP_BIT" /\ rx_count = C - 1 /\ rx_state' = "CLEANUP"
      /\ ~r_Rx_DV /\ r_Rx_DV' /\ r_Rx_Byte' = r_Rx_Byte
  BY DEF Rx!RxStop, PosFrame, Numbers, Counts, C
<1>2. Past(Bits, C + M + 4) /\ sent = Append(got, byte) /\ r_Rx_Byte = byte
  BY <1>1 DEF PosFrame, Frame, Receives, Pending
<1>3. Slot' = Slot /\ Tick' = Tick /\ Half' = 0 /\ sent' = sent /\ byte \in Tx!TxByte
  BY DEF PosFrame, Numbers
<1>4. sent \in Seq(Tx!TxByte) /\ got \in Seq(Tx!TxByte) /\ Len(sent) <= MaxBytes
  BY DEF PosFrame, History
<1>5. Len(got) <= MaxBytes
  BY <1>2, <1>3, <1>4
<1>6. got' = sent
  BY <1>1, <1>2, <1>5 DEF PosFrame, PosEdge
<1>7. Past(Bits + 1, M + 4)'
  BY <1>0, <1>2, <1>3 DEF Past
<1>8. History' /\ Counts'
  BY <1>1, <1>3, <1>4, <1>6 DEF History, Counts
<1> QED BY <1>1, <1>3, <1>6, <1>7, <1>8 DEF PosGoal, Receives

LEMMA CleanupFrame == ASSUME PosFrame, Rx!RxCleanup PROVE PosGoal
<1> USE Arithmetic
<1>0. Slot \in 0 .. Bits + 2 /\ Tick \in 0 .. C - 1
  BY Position DEF PosFrame, Frame
<1>1. got' = got /\ sent' = sent /\ History'
  BY NothingReceived DEF Rx!RxCleanup, PosFrame
<1>2. rx_state = "CLEANUP" /\ rx_state' = "IDLE"
  BY DEF Rx!RxCleanup
<1>3. Past(Bits + 1, M + 5) /\ got = sent
  BY <1>2 DEF PosFrame, Frame, Receives
<1>4. Slot' = Slot /\ Tick' = Tick /\ Half' = 0
  BY DEF PosFrame
<1>5. \/ Slot = Bits + 1 /\ Tick >= M + 5
      \/ Slot = Bits + 2 /\ Tick + C >= M + 5
  BY <1>0, <1>3 DEF Past
<1> QED BY <1>1, <1>2, <1>3, <1>4, <1>5 DEF PosGoal, Receives, Counts

LEMMA FramePos ==
  ASSUME Numbers, Counts, History, Frame, since = Settle, ~reset, PosEdge
  PROVE  Frame' /\ Counts' /\ History' /\ since' = Settle /\ ~reset'
<1>1. PosFrame /\ Sends' /\ Lines'
  BY FrameStands
<1>2. PosGoal
  BY <1>1, IdleFrame, StartFrame, HoldFrame, BitFrame, StopFrame, CleanupFrame
     DEF PosFrame, PosEdge, Rx!RxPos
<1> QED BY <1>1, <1>2 DEF PosGoal, PosFrame, Frame

-----------------------------------------------------------------------------
(* Outside a frame.                                                        *)

\* A frame ends: the receiver is idle, it needs the stop bit to have been long
\* enough.
LEMMA FrameEnds ==
  ASSUME Numbers, Counts, Frame, ~reset, NegEdge, tx_state = "IDLE"
  PROVE  Quiet'
<1> USE Arithmetic
<1>1. clk = "high" /\ clk' = "low" /\ Half = 0 /\ Slot = Bits + 2 /\ Tick = 1 /\ ~unanswered /\ ~dv
  BY DEF NegEdge, Half, Slot, Tick, Frame, Sends
<1>2. rx_state = "IDLE" /\ got = sent
  <2>1. rx_count \in 0 .. C - 1 /\ rx_index \in 0 .. Bits - 1
    BY DEF Numbers
  <2>2. rx_state # "START_BIT"
    BY <1>1, <2>1 DEF Counts, Frame, Receives, Past
  <2>3. rx_state # "DATA_BITS"
    BY <1>1, <2>1 DEF Frame, Receives, Past
  <2>4. rx_state # "STOP_BIT"
    BY <1>1, <2>1 DEF Frame, Receives, Past
  <2>5. rx_state # "CLEANUP"
    BY <1>1, <2>1 DEF Frame, Receives, Past
  <2>6. rx_state = "IDLE"
    BY <2>2, <2>3, <2>4, <2>5 DEF Numbers
  <2> QED BY <1>1, <2>6 DEF Frame, Receives
<1>3. r_Rx_Data = 1 /\ r_Rx_Data_R = 1
  BY <1>1 DEF Frame, Lines, Wire, BitOf
<1>4. /\ tx_state' = "IDLE" /\ o_Tx_Serial' = 1 /\ ~r_Tx_Done' /\ ~dv' /\ ~unanswered' /\ ~reset'
      /\ got' = got /\ sent' = sent /\ rx_state' = rx_state
      /\ r_Rx_Data' = r_Rx_Data /\ r_Rx_Data_R' = r_Rx_Data_R
  BY <1>1 DEF NegEdge, receiver, Tx!TxNeg, Tx!TxIdle, Tx!TxHold, Tx!TxBit,
     Tx!TxCleanup, Tx!Sending
<1> QED BY <1>2, <1>3, <1>4 DEF Quiet

LEMMA QuietNeg == ASSUME Numbers, Quiet, NegEdge PROVE Quiet'
<1> USE Arithmetic
<1>1. clk = "high" /\ clk' = "low" /\ Half = 0 /\ Half' = 1
  BY DEF NegEdge, Half
<1>2. /\ reset' = reset /\ since' = since /\ ~dv' /\ ~unanswered'
      /\ got' = got /\ sent' = sent /\ rx_state' = rx_state /\ rx_count' = rx_count
      /\ r_Rx_Data' = r_Rx_Data /\ r_Rx_Data_R' = r_Rx_Data_R
  BY DEF Quiet, NegEdge, receiver
<1>3. tx_state' = "IDLE" /\ ~r_Tx_Done' /\ (o_Tx_Serial' = 0 => reset)
  BY DEF Quiet, NegEdge, Tx!TxNeg, Tx!TxReset, Tx!TxIdle, Tx!TxHold, Tx!TxBit,
     Tx!TxCleanup, Tx!Sending
<1> QED BY <1>1, <1>2, <1>3 DEF Numbers, Quiet

LEMMA AskedNeg ==
  ASSUME Numbers, Counts, Asked, ~reset, NegEdge PROVE Frame'
<1> USE Arithmetic
<1>1. /\ clk = "high" /\ clk' = "low" /\ Half' = 1 /\ dv' = dv /\ dv /\ byte' = byte
      /\ got' = got /\ sent' = sent /\ rx_state' = "IDLE"
      /\ r_Rx_Data' = 1 /\ r_Rx_Data_R' = 1
  BY DEF Asked, NegEdge, receiver, Half
<1>2. unanswered' /\ ~o_Tx_Done_l'
  BY DEF Asked, NegEdge, Tx!TxNeg
<1>3. /\ tx_state' = "START_BIT" /\ ~r_Tx_Done' /\ o_Tx_Serial' = 1
      /\ tx_count' = 0 /\ tx_index' = 0 /\ r_Tx_Data' = byte
  BY DEF Asked, NegEdge, Tx!TxNeg, Tx!TxIdle, Tx!TxHold, Tx!TxBit, Tx!TxCleanup,
     Tx!Sending
<1>4. Slot' = 0 /\ Tick' = 0
  BY <1>3 DEF Slot, Tick
<1>5. Sends'
  BY <1>1, <1>2, <1>3 DEF Sends
<1>6. Lines'
  BY <1>1, <1>3, <1>4 DEF Lines, Wire, BitOf
<1>7. Receives'
  BY <1>1, <1>4 DEF Receives, Pending, Asked
<1> QED BY <1>5, <1>6, <1>7 DEF Frame

\* The receiver between frames: a start bit that a reset imitates is dismissed.
LEMMA QuietReceiver ==
  ASSUME Numbers, Counts, Quiet, PosEdge
  PROVE  /\ rx_state' \in {"IDLE", "START_BIT"} /\ ~r_Rx_DV'
         /\ rx_state' = "START_BIT" =>
              /\ rx_index' = 0 /\ rx_count' \in 0 .. M
              /\ \/ rx_count' = 0 /\ r_Rx_Data = 0
                 \/ rx_state = "START_BIT" /\ rx_count' = rx_count + 1
<1> USE Arithmetic
<1>1. rx_state \in {"IDLE", "START_BIT"}
  BY DEF Quiet
<1>2. CASE rx_state = "IDLE"
  <2>1. Rx!RxIdle
    BY <1>2 DEF PosEdge, Rx!RxPos, Rx!RxStart, Rx!RxHold, Rx!RxBit, Rx!RxStop,
       Rx!RxCleanup
  <2> QED BY <1>2, <2>1 DEF Rx!RxIdle
<1>3. CASE rx_state = "START_BIT"
  <2>1. Rx!RxStart
    BY <1>3 DEF PosEdge, Rx!RxPos, Rx!RxIdle, Rx!RxHold, Rx!RxBit, Rx!RxStop,
       Rx!RxCleanup
  <2>2. rx_count \in 0 .. M /\ rx_index' = 0 /\ ~r_Rx_DV'
    BY <1>3, <2>1 DEF Counts, Numbers, Rx!RxStart
  <2>3. CASE rx_count # M
    <3>1. rx_count' = rx_count + 1 /\ rx_state' = "START_BIT"
      BY <1>3, <2>1, <2>2, <2>3, NoOverflow DEF Rx!RxStart, M
    <3> QED BY <1>3, <2>2, <2>3, <3>1
  <2>4. CASE rx_count = M
    <3>1. since >= M + 3
      BY <1>3, <2>4 DEF Quiet, Numbers
    <3>2. r_Rx_Data # 0
      BY <3>1 DEF Quiet
    <3>3. rx_state' = "IDLE"
      BY <2>1, <2>4, <3>2 DEF Rx!RxStart, M
    <3> QED BY <2>2, <3>3
  <2> QED BY <2>3, <2>4
<1> QED BY <1>1, <1>2, <1>3

LEMMA QuietPos ==
  ASSUME Numbers, Counts, History, Quiet, PosEdge
  PROVE  /\ Counts' /\ History'
         /\ Quiet' \/ (since' = Settle /\ ~reset' /\ Asked')
<1> USE Arithmetic
<1>1. clk = "low" /\ clk' = "high" /\ Half = 1 /\ Half' = 0
  BY DEF PosEdge, Half
<1>2. ~r_Rx_DV' /\ got' = got /\ Counts'
  <2>1. ~r_Rx_DV' /\ Counts'
    BY QuietReceiver DEF Counts
  <2>2. got' = got
    BY <2>1 DEF PosEdge
  <2> QED BY <2>1, <2>2
<1>3. /\ tx_state' = "IDLE" /\ o_Tx_Serial' = o_Tx_Serial /\ ~r_Tx_Done' /\ ~unanswered'
      /\ ~o_Tx_Done_l' /\ got = sent
      /\ r_Rx_Data_R' = o_Tx_Serial /\ r_Rx_Data' = r_Rx_Data_R
  BY DEF Quiet, PosEdge, Tx!TxPos, Rx!RxPos
<1>4. since \in Nat /\ since <= Settle
  BY DEF Numbers
<1>5. ASSUME NEW b \in Tx!TxByte, Ask(b)
      PROVE  History' /\ since' = Settle /\ ~reset' /\ Asked'
  <2>1. /\ since = Settle /\ ~reset' /\ Len(sent) < MaxBytes
        /\ dv' /\ byte' = b /\ sent' = Append(sent, b)
    BY <1>5 DEF Ask
  <2>2. since' = Settle
    BY <2>1, SinceStep DEF PosEdge
  <2>3. o_Tx_Serial = 1 /\ r_Rx_Data_R = 1 /\ r_Rx_Data = 1
    BY <1>1, <2>1 DEF Quiet, Numbers
  <2>4. rx_state # "START_BIT"
    BY <2>1 DEF Quiet, Counts, Numbers
  <2>5. rx_state' = "IDLE"
    BY <2>3, <2>4, QuietReceiver
  <2>6. History'
    BY <1>2, <2>1 DEF History
  <2>7. Asked'
    BY <1>1, <1>2, <1>3, <2>1, <2>3, <2>5 DEF Asked
  <2> QED BY <2>1, <2>2, <2>6, <2>7
<1>6. ASSUME Other PROVE History' /\ Quiet'
  <2>1. ~dv' /\ sent' = sent
    BY <1>6 DEF Other, Quiet
  <2>2. History'
    BY <1>2, <2>1 DEF History
  <2>3. CASE reset' /\ ~reset
    <3>1. since' = 1 /\ since = Settle
      BY <2>3, SinceStep DEF PosEdge, ResetLine
    <3>2. o_Tx_Serial = 1 /\ r_Rx_Data_R = 1 /\ r_Rx_Data = 1
      BY <1>1, <3>1 DEF Quiet, Numbers
    <3>3. rx_state' = "IDLE"
      BY <1>4, <3>1, <3>2, QuietReceiver DEF Quiet, Counts, Numbers
    <3> QED BY <1>1, <1>2, <1>3, <2>1, <2>2, <2>3, <3>1, <3>2, <3>3 DEF Quiet
  <2>4. CASE ~(reset' /\ ~reset)
    <3>1. since' \in {since + 1, since} /\ (since' = since => since = Settle)
      BY <1>4, <2>4, SinceStep DEF PosEdge
    <3>2. reset' => since' <= ResetClocks
      BY <2>4, <1>4, <3>1 DEF PosEdge, ResetLine
    <3>3. since = Settle => o_Tx_Serial = 1 /\ r_Rx_Data_R = 1 /\ r_Rx_Data = 1
      BY <1>1 DEF Quiet, Numbers
    <3>4. since = Settle => rx_state' = "IDLE"
      BY <1>4, <3>3, QuietReceiver DEF Quiet, Counts, Numbers
    <3>5. /\ o_Tx_Serial' = 0 => since' <= ResetClocks + 1 - Half'
          /\ r_Rx_Data_R' = 0 => since' \in 1 .. ResetClocks + 1
          /\ r_Rx_Data' = 0 => since' \in 2 .. ResetClocks + 2
      BY <1>1, <1>3, <1>4, <3>1, <3>3 DEF Quiet, Numbers
    <3>6. rx_state' = "START_BIT" => since' \in rx_count' + 3 .. rx_count' + ResetClocks + 3
      <4>1. CASE rx_count' = 0 /\ r_Rx_Data = 0 /\ rx_state' = "START_BIT"
        BY <1>4, <3>1, <3>3, <4>1 DEF Quiet
      <4>2. CASE rx_state = "START_BIT" /\ rx_count' = rx_count + 1 /\ rx_state' = "START_BIT"
        <5>1. since' = since + 1 /\ rx_count \in Nat
          BY <3>1, <3>4, <4>2 DEF Numbers
        <5> QED BY <1>4, <4>2, <5>1 DEF Quiet
      <4> QED BY <4>1, <4>2, QuietReceiver
    <3> QED BY <1>2, <1>3, <2>1, <2>2, <3>2, <3>5, <3>6, QuietReceiver DEF Quiet
  <2> QED BY <2>3, <2>4
<1>7. ~Leave
  BY DEF Quiet, Leave
<1> QED BY <1>2, <1>5, <1>6, <1>7 DEF PosEdge

-----------------------------------------------------------------------------
(* The theorems.                                                           *)

LEMMA InitIInv == Init => IInv
<1> SUFFICES ASSUME Init PROVE IInv
  OBVIOUS
<1> USE Arithmetic DEF Init, Tx!TxInit, Rx!RxInit
<1>1. Numbers
  BY DEF Numbers, Tx!NoByte, Rx!NoByte, Tx!TxByte
<1>2. Flags
  BY Zenon DEF Flags
<1>3. Quiet
  BY DEF Quiet, Half
<1>4. Counts /\ History
  BY DEF Counts, History
<1> QED BY <1>1, <1>2, <1>3, <1>4, TypeParts DEF IInv

LEMMA StepIInv == IInv /\ [Next]_vars => IInv'
<1> SUFFICES ASSUME IInv, [Next]_vars PROVE IInv'
  OBVIOUS
<1>1. Numbers /\ Flags /\ Counts /\ History
  BY TypeParts DEF IInv
<1>2. TypeOK'
  <2>1. Numbers' /\ Flags'
    BY <1>1, FlagsStep, NumbersStep
  <2> QED BY <2>1 DEF TypeOK, Numbers, Flags, Tx!TxTypeOK, Rx!RxTypeOK, C
<1>3. CASE PosEdge
  <2>1. CASE Quiet
    BY <1>1, <1>2, <1>3, <2>1, QuietPos DEF IInv
  <2>2. CASE since = Settle /\ ~reset /\ Frame
    BY <1>1, <1>2, <1>3, <2>2, FramePos DEF IInv
  <2>3. ~Asked
    BY <1>3 DEF PosEdge, Asked
  <2> QED BY <2>1, <2>2, <2>3 DEF IInv
<1>4. CASE NegEdge
  <2>1. Counts' /\ History' /\ since' = since /\ reset' = reset
    BY <1>1, <1>4 DEF NegEdge, receiver, Counts, History
  <2>2. CASE Quiet
    BY <1>1, <1>2, <1>4, <2>1, <2>2, QuietNeg DEF IInv
  <2>3. CASE since = Settle /\ ~reset /\ Asked
    BY <1>1, <1>2, <1>4, <2>1, <2>3, AskedNeg DEF IInv
  <2>4. CASE since = Settle /\ ~reset /\ Frame /\ tx_state = "IDLE"
    BY <1>1, <1>2, <1>4, <2>1, <2>4, FrameEnds DEF IInv
  <2>5. CASE since = Settle /\ ~reset /\ Frame /\ tx_state # "IDLE"
    BY <1>1, <1>2, <1>4, <2>1, <2>5, FrameNeg DEF IInv
  <2> QED BY <2>2, <2>3, <2>4, <2>5 DEF IInv
<1>5. CASE UNCHANGED vars
  <2>1. Counts' /\ History'
    BY <1>1, <1>5 DEF vars, access, transmitter, receiver, Counts, History
  <2> USE <1>5 DEF vars, access, transmitter, receiver
  <2>2. Quiet' = Quiet /\ Asked' = Asked /\ since' = since /\ reset' = reset
    BY DEF Quiet, Asked, Half
  <2>3. Slot' = Slot /\ Tick' = Tick /\ Half' = Half /\ (Pending' <=> Pending)
    BY DEF Slot, Tick, Half, Pending
  <2>4. ASSUME Frame PROVE Frame'
    <3>1. Sends'
      BY <2>4 DEF Frame, Sends
    <3>2. Lines'
      BY <2>3, <2>4 DEF Frame, Lines, Wire, BitOf
    <3>3. Receives'
      BY <2>3, <2>4 DEF Frame, Receives, Past
    <3> QED BY <3>1, <3>2, <3>3 DEF Frame
  <2> QED BY <1>2, <2>1, <2>2, <2>4 DEF IInv
<1> QED BY <1>3, <1>4, <1>5 DEF Next

\* The invariant holds in every state, for every number of clocks per bit from
\* six, every width of a byte and every length of a reset that the assumptions
\* allow.
THEOREM Invariance == Spec => []IInv
<1>1. Init => IInv
  BY InitIInv
<1>2. IInv /\ [Next]_vars => IInv'
  BY StepIInv
<1> QED BY <1>1, <1>2, PTL DEF Spec

\* The types; in particular neither counter passes the clocks of a bit, and
\* neither index the bits of a byte.
THEOREM TypeCorrect == Spec => []TypeOK
<1>1. IInv => TypeOK
  BY DEF IInv
<1> QED BY <1>1, Invariance, PTL

LEMMA SentOrPending == IInv => got = sent \/ Pending
<1> SUFFICES ASSUME IInv PROVE got = sent \/ Pending
  OBVIOUS
<1>1. Numbers
  BY TypeParts DEF IInv
<1>2. CASE Quiet
  BY <1>2 DEF Quiet
<1>3. CASE Asked
  BY <1>3 DEF Asked, Pending
<1>4. CASE Frame
  BY <1>1, <1>4 DEF Frame, Receives, Numbers
<1> QED BY <1>2, <1>3, <1>4 DEF IInv

\* UARTtx.v:82-167, UARTrx.v:69-160.  What was received is what was sent, but
\* for the byte on its way: none is lost, doubled or changed, and neither
\* power-up nor a reset delivers one.
THEOREM EveryByteArrives == Spec => []Delivered
<1>1. IInv => Delivered
  <2> SUFFICES ASSUME IInv PROVE Delivered
    OBVIOUS
  <2>1. sent \in Seq(Tx!TxByte) /\ got \in Seq(Tx!TxByte) /\ byte \in Tx!TxByte
    BY DEF IInv, History, TypeOK
  <2>2. CASE got = sent
    BY <2>1, <2>2 DEF Delivered
  <2>3. CASE sent = Append(got, byte)
    BY <2>1, <2>3 DEF Delivered
  <2> QED BY <2>2, <2>3, SentOrPending DEF Pending
<1> QED BY <1>1, Invariance, PTL

\* UARTtx.v:145-166, MemoryUnit.v:526-534.  When a store to the UART is answered
\* the other end has the byte.
THEOREM AnswerMeansReceived == Spec => []AnsweredWhenReceived
<1>1. IInv => AnsweredWhenReceived
  <2> SUFFICES ASSUME IInv, dv, ~unanswered, clk = "low" PROVE got = sent
    BY DEF AnsweredWhenReceived
  <2>1. Numbers /\ Frame
    BY TypeParts DEF IInv, Quiet, Asked
  <2>2. tx_state = "IDLE"
    BY <2>1 DEF Frame, Sends
  <2>3. Slot = Bits + 2 /\ Tick = 1 /\ Half = 1
    BY <2>2 DEF Slot, Tick, Half
  <2>4. rx_count \in 0 .. C - 1 /\ rx_index \in 0 .. Bits - 1
    BY <2>1 DEF Numbers
  <2>5. rx_state \notin {"START_BIT", "DATA_BITS", "STOP_BIT"}
    BY <2>1, <2>3, <2>4, Arithmetic DEF Frame, Receives, Past, IInv, Counts
  <2> QED BY <2>1, <2>3, <2>5, Arithmetic DEF Frame, Receives, Numbers
<1> QED BY <1>1, Invariance, PTL

-----------------------------------------------------------------------------
(* TimerAccess: the interrupt comes on time and is seen once, for every    *)
(* divider, every set of values and every program that stores and          *)
(* triggers, with resets at any time.                                      *)

(* The inductive invariant.  A unit of the value is delay + 1 edges; what  *)
(* has run down of the value in force, in edges, is Elapsed.               *)

Unit == delay + 1
Elapsed == (asked - counterValue) * Unit

CpuTyped == instr \in Instr /\ stage \in Stage
TimerTyped == CpuTyped /\ TimerTypeOK /\ asked \in Nat /\ edges \in Nat

\* The edges since the trigger are the units that ran down and what is gone of
\* the present one; a store of the value comes in the middle of a unit.
Runs ==
  state = "start" =>
    /\ counterValue <= asked
    /\ direct => edges = Elapsed + (delay - delayCounter)
    /\ ~direct => /\ Elapsed - delayCounter <= edges
                  /\ edges <= Elapsed + (delay - delayCounter)

\* A value that has run down did so at the end of a unit, or was stored as 0.
AtEnd ==
  state = "start" /\ counterValue = 0 =>
    delayCounter = delay \/ (asked = 0 /\ edges = 0 /\ ~direct)

\* The line is low until the timer expires.
LineLow == state \in {"idle", "start"} => ~interrupt

TimerIInv == TimerTyped /\ Runs /\ AtEnd /\ LineLow

-----------------------------------------------------------------------------
\* A store of the value carries one of Values.
LEMMA StoredValue ==
  ASSUME CpuTyped, setValue PROVE timerValue \in Values
<1>1. stage = "writeBack" /\ instr.op \in {"WRITE", "COPY"} /\ instr.to = "t_value"
  BY DEF setValue, we, address
<1>2. instr.op = "WRITE" /\ instr.d \in Values
  BY <1>1, StoredAssumption DEF CpuTyped
<1> QED BY <1>2 DEF timerValue, data

LEMMA ElapsedNat ==
  ASSUME NEW v \in Nat, NEW a \in Nat, v <= a
  PROVE  /\ (a - v) * Unit \in Nat
         /\ v = a => (a - v) * Unit = 0
         /\ v > 0 => (a - (v - 1)) * Unit = (a - v) * Unit + Unit
         /\ a * Unit \in Nat
         /\ (a - 1) * Unit = a * Unit - Unit
<1>1. Unit \in Nat
  BY TimerAssumption DEF Unit
<1>2. \A m \in Nat : m * Unit \in Nat
  BY <1>1
<1>3. \A m \in Int : (m + 1) * Unit = m * Unit + Unit /\ (m - 1) * Unit = m * Unit - Unit
  BY <1>1
<1>4. a - v \in Nat /\ a - (v - 1) = (a - v) + 1
  OBVIOUS
<1>5. v = a => (a - v) * Unit = 0
  BY <1>1
<1> QED BY <1>1, <1>2, <1>3, <1>4, <1>5

-----------------------------------------------------------------------------
\* The values that a value still to run down may have.
Left == {v \in 0 .. counterValue : \E w \in Values : v <= w}

LEMMA TypedFacts ==
  ASSUME TimerTyped
  PROVE  /\ counterValue \in Nat /\ delayCounter \in 0 .. delay /\ delay \in Nat
         /\ keepInterruptHighCounter \in 0 .. 15
         /\ \E w \in Values : counterValue <= w
         /\ state \in {"idle", "start", "done"}
         /\ interrupt \in BOOLEAN
BY TimerAssumption DEF TimerTyped, TimerTypeOK, Ot!OtTypeOK

LEMMA LeftValue ==
  ASSUME NEW v \in Nat, \E w \in Values : v <= w
  PROVE  v \in {u \in 0 .. v : \E w \in Values : u <= w}
OBVIOUS

LEMMA LeastValue == \E w \in Values : 0 <= w
<1>1. PICK w \in Values : TRUE
  BY TimerAssumption
<1>2. w \in Nat
  BY TimerAssumption
<1> QED BY <1>2

\* A value that is stored is within the values.
LEMMA ValueWithin ==
  ASSUME CpuTyped, setValue
  PROVE  timerValue \in Nat /\ \E w \in Values : timerValue <= w
<1>1. timerValue \in Values /\ timerValue \in Nat
  BY StoredValue, TimerAssumption
<1> QED BY <1>1

LEMMA TimerInitIInv == TimerInit => TimerIInv
<1> SUFFICES ASSUME TimerInit PROVE TimerIInv
  OBVIOUS
<1> USE DEF TimerInit, CpuInit, MuInit, Ot!OtInit
<1>1. CpuTyped
  BY InstrAssumption DEF CpuTyped, Stage
<1>2. Ot!OtTypeOK(Left)
  <2>1. counterValue \in Left
    BY LeastValue DEF Left
  <2>2. interrupt \in BOOLEAN
    BY Zenon
  <2> QED BY <2>1, <2>2, TimerAssumption DEF Ot!OtTypeOK
<1>3. TimerTypeOK
  BY <1>1, <1>2 DEF TimerTypeOK, CpuTyped, Left
<1> QED BY <1>1, <1>3 DEF TimerIInv, TimerTyped, Runs, AtEnd, LineLow

LEMMA TimerPosIInv == ASSUME TimerIInv, TimerPos PROVE TimerIInv'
<1> USE DEF TimerPos, timer, history, muvars
<1>1. CpuTyped'
  <2>1. stage' \in Stage
    BY DEF TimerIInv, TimerTyped, CpuTyped, CpuPos, TimerStep, Stage, StageAfter
  <2>2. instr' \in Instr
    BY InstrAssumption DEF TimerIInv, TimerTyped, CpuTyped, CpuPos
  <2> QED BY <2>1, <2>2 DEF CpuTyped
<1>2. Ot!OtTypeOK(Left)'
  BY DEF TimerIInv, TimerTyped, TimerTypeOK, Ot!OtTypeOK, Left
<1>3. TimerTypeOK'
  BY <1>1, <1>2 DEF TimerIInv, TimerTyped, TimerTypeOK, CpuTyped, Left
<1> QED BY <1>1, <1>3 DEF TimerIInv, TimerTyped, Runs, Elapsed, AtEnd, LineLow

-----------------------------------------------------------------------------
(* The falling edge: one lemma for each action of the timer.               *)

TimerGoal ==
  /\ counterValue' \in Nat /\ (\E w \in Values : counterValue' <= w)
  /\ state' \in {"idle", "start", "done"} /\ delayCounter' \in 0 .. delay
  /\ keepInterruptHighCounter' \in 0 .. 15 /\ interrupt' \in BOOLEAN
  /\ asked' \in Nat /\ edges' \in Nat
  /\ Runs' /\ AtEnd' /\ LineLow'

LEMMA CountedTyped ==
  ASSUME TimerIInv, Counted, counterValue' \in Nat
  PROVE  asked' \in Nat /\ edges' \in Nat
<1>1. CASE state' = "start" /\ state # "start"
  BY <1>1 DEF Counted
<1>2. CASE ~(state' = "start" /\ state # "start") /\ state = "start" /\ setValue
  BY <1>2, ValueWithin DEF Counted, TimerIInv, TimerTyped
<1>3. CASE ~(state' = "start" /\ state # "start") /\ state = "start" /\ ~setValue
  BY <1>3 DEF Counted, TimerIInv, TimerTyped
<1>4. CASE ~(state' = "start" /\ state # "start") /\ state # "start"
  BY <1>4 DEF Counted
<1> QED BY <1>1, <1>2, <1>3, <1>4

\* Out of the state start the invariant says nothing about the counters.
LEMMA StoppedGoal ==
  ASSUME TimerIInv, Counted, state' \in {"idle", "done"},
         counterValue' \in Nat, \E w \in Values : counterValue' <= w,
         delayCounter' \in 0 .. delay, keepInterruptHighCounter' \in 0 .. 15,
         interrupt' \in BOOLEAN, state' = "idle" => ~interrupt'
  PROVE  TimerGoal
BY CountedTyped DEF TimerGoal, Runs, AtEnd, LineLow

\* When the timer starts it has its value, and a whole unit, before it.
LEMMA StartGoal ==
  ASSUME TimerIInv, Counted, state # "start", state' = "start",
         counterValue' \in Nat, \E w \in Values : counterValue' <= w,
         delayCounter' = delay, keepInterruptHighCounter' \in 0 .. 15, ~interrupt',
         interrupt' \in BOOLEAN
  PROVE  TimerGoal
<1>1. asked' = counterValue' /\ edges' = 0 /\ direct' = TRUE
  BY DEF Counted
<1>2. Elapsed' = 0
  BY <1>1, ElapsedNat DEF Elapsed, Unit
<1> QED BY <1>1, <1>2, TimerAssumption, CountedTyped DEF TimerGoal, Runs, AtEnd, LineLow

LEMMA ResetGoal == ASSUME TimerIInv, Ot!OtReset, Counted PROVE TimerGoal
<1>1. \E w \in Values : 0 <= w
  BY LeastValue
<1>2. interrupt' \in BOOLEAN
  BY Zenon DEF Ot!OtReset
<1> QED BY <1>1, <1>2, TimerAssumption, StoppedGoal DEF Ot!OtReset

LEMMA IdleGoal ==
  ASSUME TimerIInv, Ot!OtIdle(setValue, timerValue, trigger), Counted PROVE TimerGoal
<1>1. counterValue' \in Nat /\ \E w \in Values : counterValue' <= w
  BY TypedFacts, ValueWithin DEF TimerIInv, TimerTyped, Ot!OtIdle
<1>2. /\ interrupt' \in BOOLEAN /\ ~interrupt'
      /\ keepInterruptHighCounter' \in 0 .. 15
  BY TypedFacts DEF TimerIInv, LineLow, Ot!OtIdle
<1>3. CASE trigger
  BY <1>1, <1>2, <1>3, StartGoal DEF Ot!OtIdle
<1>4. CASE ~trigger
  <2>1. state' = "idle" /\ delayCounter' \in 0 .. delay
    BY <1>4, TypedFacts DEF TimerIInv, Ot!OtIdle
  <2> QED BY <1>1, <1>2, <2>1, StoppedGoal
<1> QED BY <1>3, <1>4

LEMMA SetGoal ==
  ASSUME TimerIInv, Ot!OtSet(setValue, timerValue), Counted PROVE TimerGoal
<1>1. /\ counterValue' = timerValue
      /\ counterValue' \in Nat /\ \E w \in Values : counterValue' <= w
  BY ValueWithin DEF TimerIInv, TimerTyped, Ot!OtSet
<1>2. /\ state' = state /\ interrupt' = interrupt
      /\ delayCounter' = delayCounter /\ delayCounter \in 0 .. delay
      /\ keepInterruptHighCounter' \in 0 .. 15 /\ interrupt' \in BOOLEAN
  BY TypedFacts DEF TimerIInv, Ot!OtSet
<1>3. CASE state = "done"
  BY <1>1, <1>2, <1>3, StoppedGoal
<1>4. CASE state = "start"
  <2>1. asked' = timerValue /\ edges' = 0 /\ direct' = FALSE
    BY <1>2, <1>4 DEF Counted, Ot!OtSet
  <2>2. Elapsed' = 0
    BY <1>1, <2>1, ElapsedNat DEF Elapsed, Unit
  <2>3. ~interrupt'
    BY <1>2, <1>4 DEF TimerIInv, LineLow
  <2> QED BY <1>1, <1>2, <1>4, <2>1, <2>2, <2>3, TimerAssumption
          DEF TimerGoal, Runs, AtEnd, LineLow
<1> QED BY <1>3, <1>4 DEF Ot!OtSet

LEMMA CountGoal ==
  ASSUME TimerIInv, Ot!OtCount(setValue), Counted PROVE TimerGoal
<1>0. /\ counterValue \in Nat /\ counterValue > 0 /\ asked \in Nat /\ edges \in Nat
      /\ counterValue <= asked /\ delay \in Nat /\ delayCounter \in 0 .. delay
  BY TypedFacts DEF TimerIInv, TimerTyped, Runs, Ot!OtCount
<1>1. /\ state = "start" /\ state' = "start" /\ ~interrupt' /\ interrupt' \in BOOLEAN
      /\ keepInterruptHighCounter' \in 0 .. 15
  BY TypedFacts DEF TimerIInv, LineLow, Ot!OtCount
<1>2. asked' = asked /\ edges' = edges + 1 /\ direct' = direct
  BY <1>1 DEF Counted, Ot!OtCount
<1>3. /\ direct => edges = Elapsed + (delay - delayCounter)
      /\ ~direct => /\ Elapsed - delayCounter <= edges
                    /\ edges <= Elapsed + (delay - delayCounter)
      /\ Elapsed \in Nat
  BY <1>0, <1>1, ElapsedNat DEF TimerIInv, Runs, Elapsed
<1>4. CASE delayCounter = 0
  <2>1. counterValue' = counterValue - 1 /\ delayCounter' = delay
    BY <1>4 DEF Ot!OtCount
  <2>2. Elapsed' = Elapsed + delay + 1
    <3>1. Elapsed' = (asked - (counterValue - 1)) * Unit
      BY <1>2, <2>1 DEF Elapsed, Unit
    <3>2. Elapsed' = Elapsed + Unit
      BY <1>0, <3>1, ElapsedNat DEF Elapsed
    <3> QED BY <3>2, <1>0, <1>3 DEF Unit
  <2>3. counterValue' \in Nat /\ \E w \in Values : counterValue' <= w
    BY <1>0, <2>1, TypedFacts, TimerAssumption DEF TimerIInv
  <2>4. Runs'
    BY <1>0, <1>2, <1>3, <1>4, <2>1, <2>2 DEF Runs
  <2> QED BY <1>0, <1>1, <1>2, <2>1, <2>3, <2>4 DEF TimerGoal, AtEnd, LineLow
<1>5. CASE delayCounter # 0
  <2>1. counterValue' = counterValue /\ delayCounter' = delayCounter - 1
    BY <1>5 DEF Ot!OtCount
  <2>2. Elapsed' = Elapsed
    BY <1>2, <2>1 DEF Elapsed, Unit
  <2>3. Runs'
    BY <1>0, <1>2, <1>3, <1>5, <2>1, <2>2 DEF Runs
  <2>4. \E w \in Values : counterValue' <= w
    BY <2>1, TypedFacts DEF TimerIInv
  <2> QED BY <1>0, <1>1, <1>2, <1>5, <2>1, <2>3, <2>4 DEF TimerGoal, AtEnd, LineLow
<1> QED BY <1>4, <1>5

LEMMA ExpireGoal ==
  ASSUME TimerIInv, Ot!OtExpire(setValue), Counted PROVE TimerGoal
<1>1. /\ counterValue' \in Nat /\ \E w \in Values : counterValue' <= w
      /\ state' = "done" /\ delayCounter' \in 0 .. delay
      /\ keepInterruptHighCounter' \in 0 .. 15
  BY TypedFacts DEF TimerIInv, Ot!OtExpire
<1>2. interrupt' \in BOOLEAN
  BY Zenon DEF Ot!OtExpire
<1> QED BY <1>1, <1>2, StoppedGoal

LEMMA AgainGoal ==
  ASSUME TimerIInv, Ot!OtAgain(setValue, trigger), Counted PROVE TimerGoal
<1>1. /\ counterValue' \in Nat /\ \E w \in Values : counterValue' <= w
      /\ keepInterruptHighCounter' \in 0 .. 15
  BY TypedFacts DEF TimerIInv, Ot!OtAgain
<1>2. interrupt' \in BOOLEAN /\ ~interrupt'
  BY Zenon DEF Ot!OtAgain
<1> QED BY <1>1, <1>2, StartGoal DEF Ot!OtAgain

LEMMA PulseGoal ==
  ASSUME TimerIInv, Ot!OtPulse(setValue, trigger), Counted PROVE TimerGoal
<1>1. /\ counterValue' \in Nat /\ \E w \in Values : counterValue' <= w
      /\ delayCounter' \in 0 .. delay
  BY TypedFacts DEF TimerIInv, Ot!OtPulse
<1>2. CASE keepInterruptHighCounter = 15
  <2>1. interrupt' \in BOOLEAN /\ ~interrupt'
    BY <1>2, Zenon DEF Ot!OtPulse
  <2>2. state' = "idle" /\ keepInterruptHighCounter' \in 0 .. 15
    BY <1>2, TypedFacts DEF TimerIInv, Ot!OtPulse
  <2> QED BY <1>1, <2>1, <2>2, StoppedGoal
<1>3. CASE keepInterruptHighCounter # 15
  <2>1. /\ state' = "done" /\ interrupt' \in BOOLEAN
        /\ keepInterruptHighCounter' \in 0 .. 15
    BY <1>3, TypedFacts DEF TimerIInv, Ot!OtPulse
  <2> QED BY <1>1, <2>1, StoppedGoal
<1> QED BY <1>2, <1>3

LEMMA TimerNegIInv == ASSUME TimerIInv, TimerNeg PROVE TimerIInv'
<1>1. Counted /\ Ot!OtNeg(cpu_reset, setValue, timerValue, trigger)
  BY DEF TimerNeg
<1>2. TimerGoal
  BY <1>1, ResetGoal, IdleGoal, SetGoal, CountGoal, ExpireGoal, AgainGoal, PulseGoal
  DEF Ot!OtNeg
<1>3. CpuTyped' /\ clock' = "low" /\ cpu_reset' = cpu_reset
  BY DEF TimerIInv, TimerTyped, CpuTyped, TimerNeg, cpuvars
<1>4. busy' \in BOOLEAN
  BY DEF TimerIInv, TimerTyped, TimerTypeOK, TimerNeg, MuNeg, MuReset, Finish, Wait
<1>5. counterValue' \in Left'
  BY <1>2 DEF TimerGoal, Left
<1>6. TimerTypeOK'
  BY <1>2, <1>3, <1>4, <1>5
  DEF TimerIInv, TimerTyped, TimerTypeOK, Ot!OtTypeOK, CpuTyped, TimerGoal, Left
<1> QED BY <1>2, <1>3, <1>6 DEF TimerIInv, TimerTyped, TimerGoal

-----------------------------------------------------------------------------
(* The theorems.                                                           *)

\* The invariant holds for every program and every reset.
THEOREM TimerInvariance == TimerSpec => []TimerIInv
<1>1. TimerInit => TimerIInv
  BY TimerInitIInv
<1>2. TimerIInv /\ [TimerNext]_timervars => TimerIInv'
  <2> SUFFICES ASSUME TimerIInv, [TimerNext]_timervars PROVE TimerIInv'
    OBVIOUS
  <2>1. CASE TimerPos
    BY <2>1, TimerPosIInv
  <2>2. CASE TimerNeg
    BY <2>2, TimerNegIInv
  <2>3. CASE UNCHANGED timervars
    BY <2>3
    DEF timervars, cpuvars, muvars, timer, history, TimerIInv, TimerTyped, CpuTyped, TimerTypeOK,
        Ot!OtTypeOK, Runs, Elapsed, AtEnd, LineLow
  <2> QED BY <2>1, <2>2, <2>3 DEF TimerNext
<1> QED BY <1>1, <1>2, PTL DEF TimerSpec

\* OStimer.v:25-40.  The registers keep their widths: the divider stays within
\* a unit, the counter at or below the largest value stored.
THEOREM TimerTypeCorrect == TimerSpec => []TimerTypeOK
<1>1. TimerIInv => TimerTypeOK
  BY DEF TimerIInv, TimerTyped
<1> QED BY <1>1, TimerInvariance, PTL

\* When the timer expires the edges since the trigger, or the store, are right.
LEMMA ExpiresOnTime ==
  ASSUME TimerIInv, Ot!OtExpire(setValue), Counted
  PROVE  /\ edges' <= asked * Unit + 1
         /\ direct => edges' = asked * Unit + 1
         /\ edges' > (asked - 1) * Unit + 1
<1>1. /\ state = "start" /\ ~setValue /\ counterValue = 0 /\ state' = "done"
      /\ asked \in Nat /\ edges \in Nat /\ delay \in Nat
      /\ delayCounter \in 0 .. delay
  BY TypedFacts DEF TimerIInv, TimerTyped, Ot!OtExpire
<1>2. edges' = edges + 1
  BY <1>1 DEF Counted
<1>3. /\ Elapsed = asked * Unit /\ asked * Unit \in Nat
      /\ (asked - 1) * Unit = asked * Unit - (delay + 1)
      /\ asked = 0 => asked * Unit = 0
  <2>1. asked - 0 = asked
    BY <1>1
  <2> QED BY <1>1, <2>1, ElapsedNat DEF Elapsed, Unit
<1>4. /\ direct => edges = Elapsed + (delay - delayCounter)
      /\ ~direct => /\ Elapsed - delayCounter <= edges
                    /\ edges <= Elapsed + (delay - delayCounter)
      /\ delayCounter = delay \/ (asked = 0 /\ edges = 0 /\ ~direct)
  BY <1>1 DEF TimerIInv, Runs, AtEnd
<1>5. edges <= asked * Unit /\ (direct => edges = asked * Unit)
  BY <1>1, <1>3, <1>4
<1>6. edges > asked * Unit - (delay + 1)
  BY <1>1, <1>3, <1>4
<1> QED BY <1>1, <1>2, <1>3, <1>5, <1>6

\* The line rises, and the state becomes done, only when the timer expires.
LEMMA RisesAtExpiry ==
  ASSUME TimerIInv, TimerNeg, (~interrupt /\ interrupt') \/ (state # "done" /\ state' = "done")
  PROVE  Ot!OtExpire(setValue) /\ Counted /\ asked' = asked /\ direct' = direct
<1>1. Ot!OtExpire(setValue)
  BY DEF TimerNeg, Ot!OtNeg, Ot!OtReset, Ot!OtIdle, Ot!OtSet, Ot!OtCount, Ot!OtAgain,
         Ot!OtPulse
<1> QED BY <1>1 DEF TimerNeg, Counted, Ot!OtExpire

\* OStimer.v:58-83.  The interrupt comes when it is due, for every value and
\* every divider, whatever the program does to the timer in the meantime.
THEOREM ComesOnTime == TimerSpec => OnTime
<1> DEFINE A == ~interrupt /\ interrupt' =>
                  /\ edges' <= asked * (delay + 1) + 1
                  /\ direct => edges' = asked * (delay + 1) + 1
                  /\ edges' > (asked - 1) * (delay + 1) + 1
<1>1. TimerIInv /\ [TimerNext]_timervars => [A]_timervars
  <2> SUFFICES ASSUME TimerIInv, TimerNext PROVE A
    OBVIOUS
  <2>1. CASE TimerPos
    BY <2>1 DEF TimerPos, timer
  <2>2. CASE TimerNeg
    BY <2>2, RisesAtExpiry, ExpiresOnTime DEF Unit
  <2> QED BY <2>1, <2>2 DEF TimerNext
<1> QED BY <1>1, TimerInvariance, PTL DEF TimerSpec, OnTime

\* OStimer.v:70-73,90-96.  Each time the timer expires its line rises, so the
\* interrupt controller sees one edge for each.
THEOREM EachSeenOnce == TimerSpec => SeenOnce
<1> DEFINE A == state # "done" /\ state' = "done" => ~interrupt
<1>1. TimerIInv /\ [TimerNext]_timervars => [A]_timervars
  <2> SUFFICES ASSUME TimerIInv, TimerNext, state # "done", state' = "done" PROVE ~interrupt
    OBVIOUS
  <2>1. CASE TimerPos
    BY <2>1 DEF TimerPos, timer
  <2>2. CASE TimerNeg
    BY <2>2, RisesAtExpiry DEF TimerIInv, LineLow, Ot!OtExpire
  <2> QED BY <2>1, <2>2 DEF TimerNext
<1> QED BY <1>1, TimerInvariance, PTL DEF TimerSpec, SeenOnce
=============================================================================
