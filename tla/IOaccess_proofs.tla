--------------------------- MODULE IOaccess_proofs ---------------------------
(***************************************************************************)
(* Proofs about IOaccess: each access has its own effect, once, and its    *)
(* own answer, for every program, every width of a byte that the port's    *)
(* counter allows, every divider and every number of clocks per bit.       *)
(***************************************************************************)
EXTENDS IOaccess, TLAPS

-----------------------------------------------------------------------------
(* The inductive invariant.  An access begins after a rising edge, with    *)
(* busy low; after the next falling edge busy is high; the falling edge    *)
(* that sees the device ready makes it low again; and the rising edge      *)
(* after that changes the stage.                                           *)

\* A store to r is on the bus.
Storing(r) == Selected(r) /\ we
\* Before its first falling edge, and until it is answered.
Fresh == clk = "high" /\ ~busy
Open == clk = "high" \/ busy

Bus ==
  /\ busy => start
  /\ we /\ instr.op = "COPY" /\ Open => q = operand

\* The transmitter is at rest but for a store to it.
Uart ==
  /\ ~Storing("UART_TX") =>
       tx_state = "IDLE" /\ frames = <<>> /\ (clk = "low" => ~r_Tx_Done)
  /\ Storing("UART_TX") /\ Fresh =>
       tx_state = "IDLE" /\ frames = <<>> /\ ~r_Tx_Done /\ ~o_Tx_Done_l
  /\ Storing("UART_TX") /\ busy =>
       /\ tx_state # "IDLE" /\ frames = <<Stored.lo>>
       /\ tx_state \in Tx!Sending => ~r_Tx_Done /\ ~o_Tx_Done_l
       /\ tx_state = "CLEANUP" => r_Tx_Done /\ (o_Tx_Done_l <=> clk = "high")
  /\ Storing("UART_TX") /\ ~Open => tx_state = "IDLE" /\ frames = <<Stored.lo>>

\* So is the SPI port but for a store to it; in a transfer the device has the
\* bits that went, the port those still to go, and each has risen on spi_clk
\* once.
Fallen == Bits - s_count
Moves ==
  /\ edges = IF Spi!slow_clk THEN Fallen + 1 ELSE Fallen
  /\ \A i \in 0 .. Bits - 1 :
       /\ i < edges => peerIn[i] = Stored.lo[Bits - edges + i]
       /\ i >= Fallen => s_mosi_d[i] = Stored.lo[i - Fallen]
  /\ s_count = 0 => s_counter = 0 /\ clk = "high"

SpiPort ==
  /\ s_miso_d = reply
  /\ s_state \notin {"load", "transact"} => s_count = 0
  /\ s_state \notin {"transact", "unload"} => s_out = reply
  /\ ~Storing("SPI") => s_state \in {"rst", "idle"} /\ edges = 0 /\ ~s_busy
  /\ s_state = "rst" => reply = Spi!NoBits /\ (stage = "init" \/ (stage = "fetch" /\ Fresh))
  /\ Storing("SPI") /\ Fresh => s_state = "idle" /\ edges = 0 /\ ~s_busy
  /\ Storing("SPI") /\ busy =>
       /\ s_state \in {"load", "transact", "unload", "cooldown"}
       /\ s_state = "load" =>
            /\ s_busy /\ edges = 0
            /\ s_count = 0 \/ /\ clk = "high" /\ s_count = Bits /\ s_counter = 0
                              /\ s_mosi_d = Stored.lo
       /\ s_state = "transact" => s_busy /\ Moves
       /\ s_state \in {"unload", "cooldown"} => edges = Bits /\ peerIn = Stored.lo
       /\ s_state = "unload" => s_busy
       /\ s_state = "cooldown" => (s_busy <=> s_cooldown = 1)
  /\ Storing("SPI") /\ ~Open =>
       s_state = "idle" /\ edges = Bits /\ peerIn = Stored.lo /\ ~s_busy

Vram ==
  /\ start /\ Selected("VRAM") /\ busy => ram_q = ram[address.cell]
  /\ Storing("VRAM") /\ busy => ram[address.cell] = Stored
  /\ OwnAnswer

Typed ==
  /\ clk \in {"low", "high"} /\ stage \in Stage /\ instr \in Instr
  /\ q \in Word /\ operand \in Word /\ GPO \in High /\ ram \in [Cells -> Word]
  /\ peerOut \in Spi!Byte /\ peerIn \in Spi!Byte /\ edges \in 0 .. Bits
  /\ s_state \in {"rst", "idle", "load", "transact", "unload", "cooldown"}
  /\ s_counter \in 0 .. DIVISOR - 1 /\ s_count \in 0 .. Bits /\ s_cooldown \in 0 .. 1
  /\ s_mosi_d \in Spi!Byte /\ s_miso_d \in Spi!Byte /\ s_out \in Spi!Byte

Flags ==
  /\ busy \in BOOLEAN /\ enableSPI3 \in BOOLEAN /\ s_busy \in BOOLEAN
  /\ r_Tx_Done \in BOOLEAN /\ o_Tx_Done_l \in BOOLEAN

IInv == Typed /\ Flags /\ Tx!TxTypeOK /\ Bus /\ Uart /\ SpiPort /\ Vram

-----------------------------------------------------------------------------
(* What the constants give, and the CASE expressions of the unit.          *)

LEMMA Arithmetic ==
  /\ Bits \in Nat /\ Bits >= 1 /\ Bits <= 15
  /\ DIVISOR \in Nat /\ DIVISOR >= 2
  /\ DIVISOR \div 2 \in 1 .. DIVISOR - 1
BY WidthAssumption DEF Spi!SpiAssumption

LEMMA Words ==
  /\ ZeroWord \in Word /\ ZeroWord.lo = Spi!NoBits /\ Replies \subseteq Spi!Byte
  /\ \A i \in Instr : i.d \in Word /\ IsAddress(i.pc) /\ IsAddress(i.from) /\ IsAddress(i.to)
BY WordAssumption

LEMMA LowWord ==
  \A b \in Spi!Byte : Low(b) \in Word /\ Low(b).lo = b
<1> TAKE b \in Spi!Byte
<1>1. ZeroWord \in [hi : High, lo : Spi!Byte]
  BY Words DEF Word
<1> QED BY <1>1 DEF Low, Word

LEMMA Readiness ==
  ASSUME NEW r, NEW dev
  PROVE  /\ r = "UART_TX" => Ready(r, dev) = dev.Tx_Done
         /\ r = "SPI" => Ready(r, dev) = ~dev.s_busy
         /\ r = "VRAM" => Ready(r, dev)
<1>1. ASSUME r = "UART_TX" PROVE Ready(r, dev) = dev.Tx_Done
  BY <1>1 DEF Ready
<1>2. ASSUME r = "SPI" PROVE Ready(r, dev) = ~dev.s_busy
  BY <1>2 DEF Ready
<1>3. ASSUME r = "VRAM" PROVE Ready(r, dev)
  BY <1>3 DEF Ready
<1> QED BY <1>1, <1>2, <1>3

-----------------------------------------------------------------------------
(* The CPU.                                                                *)

LEMMA CpuStays ==
  ASSUME Typed, Bus, busy, CpuPos(busy, FALSE)
  PROVE  stage' = stage /\ instr' = instr
BY DEF Typed, Bus, start, CpuPos, TimerStep, BusStage

LEMMA CpuMoves ==
  ASSUME Typed, ~busy, CpuPos(busy, FALSE)
  PROVE  /\ stage' \in Stage /\ stage' # stage /\ instr' \in Instr
         /\ stage' = "writeBack" <=> stage = "readMem"
         /\ stage' = "fetch" <=> stage \in {"init", "writeBack"}
         /\ stage' # "fetch" => instr' = instr
         /\ stage' # "init"
<1>1. stage' = StageAfter[stage]
  BY DEF CpuPos, TimerStep
<1>2. /\ stage = "init" => stage' = "fetch"
      /\ stage = "fetch" => stage' = "getRegs"
      /\ stage = "getRegs" => stage' = "readMem"
      /\ stage = "readMem" => stage' = "writeBack"
      /\ stage = "writeBack" => stage' = "fetch"
  BY <1>1 DEF StageAfter
<1>3. /\ stage' = "fetch" /\ stage # "fetch" => instr' \in Instr
      /\ stage' \notin {"init", "fetch"} => instr' = instr
  BY DEF CpuPos
<1> QED BY <1>2, <1>3 DEF Typed, Stage

LEMMA AddressKnown == ASSUME Typed PROVE IsAddress(address)
<1>1. CASE stage = "fetch"
  BY <1>1, Words DEF Typed, address
<1>2. CASE stage = "writeBack"
  BY <1>2, Words DEF Typed, address
<1>3. CASE stage \notin {"fetch", "writeBack"}
  BY <1>3, Words DEF Typed, address
<1> QED BY <1>1, <1>2, <1>3

LEMMA StoredWord == ASSUME Typed PROVE Stored \in Word
BY Words DEF Typed, Stored

LEMMA DataStored ==
  ASSUME Bus, Open, we PROVE data(q) = Stored
BY DEF Bus, data, Stored, we

LEMMA FlagsStep == ASSUME Flags, [Next]_vars PROVE Flags'
<1>1. CASE PosEdge
  BY <1>1, Zenon DEF Flags, PosEdge, muvars, Tx!TxPos, Spi!SpiPos
<1>2. CASE NegEdge
  <2>1. busy' \in BOOLEAN /\ enableSPI3' \in BOOLEAN
    BY <1>2, Zenon DEF Flags, NegEdge, MuNeg, MuReset, Finish, Wait
  <2>2. s_busy' \in BOOLEAN
    BY <1>2 DEF Flags, NegEdge, Spi!SpiNeg
  <2>3. r_Tx_Done' \in BOOLEAN /\ o_Tx_Done_l' \in BOOLEAN
    BY <1>2, Zenon DEF Flags, NegEdge, Tx!TxNeg, Tx!TxReset, Tx!TxIdle, Tx!TxHold,
       Tx!TxBit, Tx!TxCleanup, Tx!Done
  <2> QED BY <2>1, <2>2, <2>3 DEF Flags
<1>3. CASE UNCHANGED vars
  BY <1>3, Zenon DEF Flags, vars, muvars, spi, uart
<1> QED BY <1>1, <1>2, <1>3 DEF Next

-----------------------------------------------------------------------------
(* The SPI port's clock.                                                   *)

LEMMA Divider ==
  ASSUME s_counter \in 0 .. DIVISOR - 1, s_counter' = Spi!NextCounter(FALSE)
  PROVE  /\ s_counter' \in 0 .. DIVISOR - 1
         /\ Spi!slow_clk /\ ~Spi!slow_clk' => s_counter' = 0
         /\ s_counter = 0 => ~Spi!slow_clk
         /\ s_counter' = 0 => ~Spi!slow_clk' /\ Spi!slow_clk
BY Arithmetic DEF Spi!NextCounter, Spi!slow_clk

LEMMA Shifts ==
  \A b \in Spi!Byte : \A x \in {0, 1} : Spi!ShiftIn(b, x) \in Spi!Byte
BY Arithmetic DEF Spi!ShiftIn, Spi!Byte

LEMMA TopBit == \A b \in Spi!Byte : b[Bits - 1] \in {0, 1}
BY Arithmetic DEF Spi!Byte

-----------------------------------------------------------------------------
(* A rising edge while an access is open: the stage stays.                 *)

LEMMA OpenPos ==
  ASSUME Typed, Bus, busy, PosEdge
  PROVE  /\ stage' = stage /\ instr' = instr /\ busy' = busy /\ q' = q /\ GPO' = GPO
         /\ operand' = operand /\ start' = start /\ we' = we /\ address' = address
         /\ Stored' = Stored /\ frames' = frames /\ PeerStep
         /\ clk = "low" /\ clk' = "high" /\ ~Fresh' /\ Bus'
         /\ \A r : Storing(r)' <=> Storing(r)
<1>1. /\ stage' = stage /\ instr' = instr /\ busy' = busy /\ q' = q /\ GPO' = GPO
      /\ operand' = operand /\ clk = "low" /\ clk' = "high"
      /\ frames' = frames /\ PeerStep
  BY CpuStays DEF PosEdge, muvars
<1>2. start' = start /\ we' = we /\ address' = address /\ Stored' = Stored
  BY <1>1 DEF start, we, address, Stored
<1>3. \A r : Storing(r)' <=> Storing(r)
  BY <1>2 DEF Storing, Selected
<1>4. Bus'
  BY <1>1, <1>2 DEF Bus, Open
<1> QED BY <1>1, <1>2, <1>3, <1>4 DEF Fresh

LEMMA UartOpenPos ==
  ASSUME Typed, Bus, busy, PosEdge, Uart PROVE Uart'
<1>1. tx_state' = tx_state /\ r_Tx_Done' = r_Tx_Done /\ (o_Tx_Done_l' <=> r_Tx_Done)
  BY DEF PosEdge, Tx!TxPos
<1>2. CASE Storing("UART_TX")
  BY <1>1, <1>2, OpenPos DEF Uart, Open
<1>3. CASE ~Storing("UART_TX")
  BY <1>1, <1>3, OpenPos DEF Uart
<1> QED BY <1>2, <1>3

\* The device takes a bit when spi_clk rises and gives the next when it falls.
LEMMA QuietPeer ==
  ASSUME PeerStep, ~Spi!spi_clk, ~Spi!spi_clk'
  PROVE  peerIn' = peerIn /\ peerOut' = peerOut /\ edges' = edges /\ reply' = reply
BY DEF PeerStep

LEMMA TransferPos ==
  ASSUME Typed, Bus, busy, PosEdge, SpiPort, Storing("SPI"), s_state = "transact"
  PROVE  /\ Moves' /\ s_miso_d' = reply'
         /\ s_count' \in 0 .. Bits /\ edges' \in 0 .. Bits
         /\ s_mosi_d' \in Spi!Byte /\ s_miso_d' \in Spi!Byte
         /\ peerIn' \in Spi!Byte /\ peerOut' \in Spi!Byte
<1> USE Arithmetic
<1>1. /\ Moves /\ s_miso_d = reply /\ s_state' = s_state
      /\ s_counter' = Spi!NextCounter(FALSE) /\ PeerStep /\ Stored' = Stored
  BY OpenPos DEF PosEdge, Spi!SpiPos, SpiPort
<1>2. /\ Spi!spi_clk <=> Spi!slow_clk
      /\ Spi!spi_clk' <=> Spi!slow_clk'
  BY <1>1 DEF Spi!spi_clk
<1>3. /\ s_counter \in 0 .. DIVISOR - 1 /\ s_count \in 0 .. Bits /\ edges \in 0 .. Bits
      /\ s_mosi_d \in Spi!Byte /\ s_miso_d \in Spi!Byte /\ peerIn \in Spi!Byte
      /\ peerOut \in Spi!Byte
  BY DEF Typed
<1>4. /\ clk = "low" /\ clk' = "high" /\ s_count > 0 /\ s_mosi_d[Bits - 1] \in {0, 1}
      /\ peerOut[Bits - 1] \in {0, 1}
  BY <1>1, <1>3, TopBit DEF Moves, PosEdge
<1>5. CASE ~Spi!slow_clk /\ Spi!slow_clk'
  <2>1. /\ peerIn' = Spi!ShiftIn(peerIn, s_mosi_d[Bits - 1])
        /\ edges' = edges + 1 /\ peerOut' = peerOut
        /\ reply' = Spi!ShiftIn(reply, peerOut[Bits - 1])
        /\ s_mosi_d' = s_mosi_d /\ s_count' = s_count
        /\ s_miso_d' = Spi!ShiftIn(s_miso_d, peerOut[Bits - 1])
    BY <1>1, <1>2, <1>5 DEF PeerStep, PosEdge, Spi!SpiPos, Spi!mosi
  <2>2. edges = Fallen /\ Fallen \in 0 .. Bits - 1 /\ Fallen' = Fallen
    BY <1>1, <1>3, <1>4, <1>5, <2>1 DEF Moves, Fallen
  <2>3. s_mosi_d[Bits - 1] = Stored.lo[Bits - 1 - Fallen]
    BY <1>1, <2>2 DEF Moves
  <2>4. ASSUME NEW i \in 0 .. Bits - 1, i < edges + 1
        PROVE  peerIn'[i] = Stored.lo[Bits - (edges + 1) + i]
    <3>1. CASE i = 0
      BY <2>1, <2>2, <2>3, <3>1 DEF Spi!ShiftIn
    <3>2. CASE i # 0
      <4>1. peerIn'[i] = peerIn[i - 1]
        BY <2>1, <3>2 DEF Spi!ShiftIn
      <4>2. peerIn[i - 1] = Stored.lo[Bits - edges + (i - 1)]
        BY <1>1, <1>3, <2>4, <3>2 DEF Moves
      <4>3. Bits - edges + (i - 1) = Bits - (edges + 1) + i
        BY <1>3
      <4> QED BY <4>1, <4>2, <4>3
    <3> QED BY <3>1, <3>2
  <2>5. Moves'
    BY <1>1, <1>4, <1>5, <2>1, <2>2, <2>4 DEF Moves
  <2>6. peerIn' \in Spi!Byte /\ s_miso_d' \in Spi!Byte
    BY <1>3, <1>4, <2>1, Shifts
  <2> QED BY <1>1, <1>3, <2>1, <2>2, <2>5, <2>6
<1>6. CASE Spi!slow_clk /\ ~Spi!slow_clk'
  <2>1. /\ peerIn' = peerIn /\ edges' = edges /\ reply' = reply
        /\ peerOut' \in Replies \cup {Spi!ShiftIn(peerOut, 0)}
        /\ s_miso_d' = s_miso_d
    BY <1>1, <1>2, <1>6 DEF PeerStep, PosEdge, Spi!SpiPos
  <2>2. s_mosi_d' = Spi!ShiftIn(s_mosi_d, 0)
    BY <1>6 DEF PosEdge, Spi!SpiPos
  <2>3. s_count' = s_count - 1
    <3>1. s_count' = (s_count - 1) % 16
      BY <1>6 DEF PosEdge, Spi!SpiPos
    <3> QED BY <1>3, <1>4, <3>1
  <2>4. edges = Fallen + 1 /\ Fallen' = Fallen + 1 /\ Fallen \in 0 .. Bits - 1
    BY <1>1, <1>3, <1>4, <1>6, <2>3 DEF Moves, Fallen
  <2>5. ASSUME NEW i \in 0 .. Bits - 1, i >= Fallen'
        PROVE  s_mosi_d'[i] = Stored.lo[i - Fallen']
    <3>1. i # 0 /\ s_mosi_d'[i] = s_mosi_d[i - 1]
      BY <2>2, <2>4, <2>5 DEF Spi!ShiftIn
    <3>2. s_mosi_d[i - 1] = Stored.lo[(i - 1) - Fallen]
      BY <1>1, <2>4, <2>5, <3>1 DEF Moves
    <3>3. (i - 1) - Fallen = i - Fallen'
      BY <2>4
    <3> QED BY <3>1, <3>2, <3>3
  <2>6. s_counter' = 0
    BY <1>1, <1>3, <1>6, Divider
  <2>7. Moves'
    BY <1>1, <1>4, <1>6, <2>1, <2>4, <2>5, <2>6 DEF Moves
  <2>8. s_mosi_d' \in Spi!Byte /\ peerOut' \in Spi!Byte
    BY <1>3, <2>1, <2>2, Shifts, Words
  <2> QED BY <1>1, <1>3, <1>4, <2>1, <2>3, <2>7, <2>8
<1>7. CASE Spi!slow_clk <=> Spi!slow_clk'
  <2>1. /\ peerIn' = peerIn /\ peerOut' = peerOut /\ edges' = edges /\ reply' = reply
        /\ s_mosi_d' = s_mosi_d /\ s_count' = s_count /\ s_miso_d' = s_miso_d
    BY <1>1, <1>2, <1>7 DEF PeerStep, PosEdge, Spi!SpiPos
  <2>2. Fallen' = Fallen
    BY <2>1 DEF Fallen
  <2>3. Moves'
    BY <1>1, <1>4, <1>7, <2>1, <2>2 DEF Moves
  <2> QED BY <1>1, <1>3, <2>1, <2>3
<1> QED BY <1>5, <1>6, <1>7

\* The types of the SPI port and its device.
SpiTyped ==
  /\ peerOut \in Spi!Byte /\ peerIn \in Spi!Byte /\ edges \in 0 .. Bits
  /\ s_state \in {"rst", "idle", "load", "transact", "unload", "cooldown"}
  /\ s_counter \in 0 .. DIVISOR - 1 /\ s_count \in 0 .. Bits /\ s_cooldown \in 0 .. 1
  /\ s_mosi_d \in Spi!Byte /\ s_miso_d \in Spi!Byte /\ s_out \in Spi!Byte

\* Out of a transfer spi_clk is low, and a rising edge can only fill the port.
LEMMA PortStands ==
  ASSUME Typed, Spi!SpiPos(FALSE, d_in, peerOut[Bits - 1]), s_state # "transact"
  PROVE  /\ ~Spi!spi_clk /\ ~Spi!spi_clk' /\ s_miso_d' = s_miso_d
         /\ s_state' = s_state /\ s_out' = s_out /\ s_busy' = s_busy
         /\ s_cooldown' = s_cooldown /\ s_counter' \in 0 .. DIVISOR - 1
         /\ s_state # "load" => s_mosi_d' = s_mosi_d /\ s_count' \in {s_count, 0}
         /\ s_state = "load" =>
              \/ s_mosi_d' = d_in /\ s_count' = Bits /\ s_counter' = 0
              \/ s_mosi_d' = s_mosi_d /\ s_count' = s_count
<1>1. /\ ~Spi!spi_clk /\ ~Spi!spi_clk' /\ s_state' = s_state /\ s_out' = s_out
      /\ s_busy' = s_busy /\ s_cooldown' = s_cooldown
      /\ s_counter' = Spi!NextCounter(FALSE)
  BY DEF Spi!SpiPos, Spi!spi_clk
<1>2. s_miso_d' = s_miso_d
  BY <1>1 DEF Spi!SpiPos
<1>3. /\ s_counter' \in 0 .. DIVISOR - 1
      /\ Spi!slow_clk /\ ~Spi!slow_clk' => s_counter' = 0
  BY <1>1, Divider DEF Typed
<1>4. CASE ~(Spi!slow_clk /\ ~Spi!slow_clk')
  <2>1. s_mosi_d' = s_mosi_d /\ s_count' = s_count
    BY <1>4 DEF Spi!SpiPos
  <2> QED BY <1>1, <1>2, <1>3, <2>1
<1>5. CASE Spi!slow_clk /\ ~Spi!slow_clk'
  <2>1. CASE s_state = "load"
    <3>1. s_mosi_d' = d_in /\ s_count' = Bits
      BY <1>5, <2>1 DEF Spi!SpiPos
    <3> QED BY <1>1, <1>2, <1>3, <1>5, <2>1, <3>1
  <2>2. CASE s_state = "idle"
    <3>1. s_mosi_d' = s_mosi_d /\ s_count' = 0
      BY <1>5, <2>2 DEF Spi!SpiPos
    <3> QED BY <1>1, <1>2, <1>3, <2>2, <3>1
  <2>3. CASE s_state \notin {"load", "idle", "transact"}
    <3>1. s_mosi_d' = s_mosi_d /\ s_count' = s_count
      BY <1>5, <2>3 DEF Spi!SpiPos
    <3> QED BY <1>1, <1>2, <1>3, <2>3, <3>1
  <2> QED BY <2>1, <2>2, <2>3
<1> QED BY <1>4, <1>5

LEMMA SpiOpenPos ==
  ASSUME Typed, Bus, busy, PosEdge, SpiPort
  PROVE  SpiPort' /\ SpiTyped'
<1> USE Arithmetic
<1>1. Spi!SpiPos(FALSE, d_in, peerOut[Bits - 1])
  BY DEF PosEdge
<1>2. /\ stage' = stage /\ Stored' = Stored /\ busy' = busy /\ PeerStep
      /\ (Storing("SPI")' <=> Storing("SPI")) /\ clk = "low" /\ clk' = "high"
  BY OpenPos
<1>3. SpiTyped
  BY DEF Typed, SpiTyped
<1>4. CASE s_state = "transact"
  <2>1. Storing("SPI")
    BY <1>4 DEF SpiPort
  <2>2. /\ Moves' /\ s_miso_d' = reply' /\ s_state' = s_state /\ s_out' = s_out
        /\ s_busy' = s_busy /\ s_cooldown' = s_cooldown
    BY <1>1, <1>4, <2>1, TransferPos DEF Spi!SpiPos
  <2>3. s_counter' \in 0 .. DIVISOR - 1
    BY <1>1, Divider DEF Typed, Spi!SpiPos
  <2>4. SpiTyped'
    BY <1>3, <1>4, <2>1, <2>2, <2>3, TransferPos DEF SpiTyped
  <2>5. SpiPort'
    BY <1>2, <1>4, <2>1, <2>2 DEF SpiPort, Fresh, Open
  <2> QED BY <2>4, <2>5
<1>5. CASE s_state = "load"
  <2>1. Storing("SPI")
    BY <1>5 DEF SpiPort
  <2>2. d_in = Stored.lo /\ d_in \in Spi!Byte
    BY <2>1, DataStored, StoredWord DEF Storing, d_in, Open, Word
  <2>3. peerIn' = peerIn /\ peerOut' = peerOut /\ edges' = edges /\ reply' = reply
    BY <1>1, <1>2, <1>5, PortStands, QuietPeer
  <2>4. s_count = 0
    BY <1>2, <1>5, <2>1 DEF SpiPort
  <2>5. SpiTyped'
    BY <1>1, <1>3, <1>5, <2>2, <2>3, PortStands DEF SpiTyped
  <2>6. SpiPort'
    BY <1>1, <1>2, <1>5, <2>1, <2>2, <2>3, <2>4, PortStands DEF SpiPort, Fresh, Open
  <2> QED BY <2>5, <2>6
<1>6. CASE s_state \notin {"transact", "load"}
  <2>1. peerIn' = peerIn /\ peerOut' = peerOut /\ edges' = edges /\ reply' = reply
    BY <1>1, <1>2, <1>6, PortStands, QuietPeer
  <2>2. SpiTyped'
    BY <1>1, <1>3, <1>6, <2>1, PortStands DEF SpiTyped
  <2>3. s_count' = 0
    BY <1>1, <1>6, PortStands DEF SpiPort
  <2>4. SpiPort'
    BY <1>1, <1>2, <1>6, <2>1, <2>3, PortStands DEF SpiPort, Fresh, Open
  <2> QED BY <2>2, <2>4
<1> QED BY <1>4, <1>5, <1>6

-----------------------------------------------------------------------------
(* A rising edge with busy low: the stage moves, and an access may begin.  *)

LEMMA MovePos ==
  ASSUME Typed, ~busy, PosEdge
  PROVE  /\ stage' # stage /\ ~busy' /\ clk = "low" /\ clk' = "high" /\ q' = q /\ GPO' = GPO
         /\ ram' = ram /\ frames' = <<>> /\ edges' = 0 /\ ~Open /\ Fresh'
         /\ peerIn' = peerIn /\ peerOut' = peerOut /\ reply' = reply
         /\ operand' \in {operand, q} /\ Bus'
         /\ \A r : Storing(r)' => stage = "readMem" /\ ~we
<1>1. /\ stage' # stage /\ ~busy' /\ clk = "low" /\ clk' = "high" /\ q' = q /\ GPO' = GPO
      /\ ram' = ram /\ frames' = <<>> /\ edges' = 0
      /\ peerIn' = peerIn /\ peerOut' = peerOut /\ reply' = reply
  BY CpuMoves DEF PosEdge, muvars, vram
<1>2. operand' = IF stage' = "writeBack" /\ stage = "readMem" THEN q ELSE operand
  BY DEF PosEdge
<1>3. we' => stage = "readMem" /\ ~we /\ operand' = q
  BY <1>2, CpuMoves DEF we, PosEdge
<1>4. Bus'
  BY <1>1, <1>3 DEF Bus
<1> QED BY <1>1, <1>2, <1>3, <1>4 DEF Fresh, Open, Storing

LEMMA UartMovePos ==
  ASSUME Typed, ~busy, PosEdge, Uart PROVE Uart'
<1>1. tx_state' = tx_state /\ r_Tx_Done' = r_Tx_Done /\ (o_Tx_Done_l' <=> r_Tx_Done)
  BY DEF PosEdge, Tx!TxPos
<1>2. tx_state = "IDLE"
  BY MovePos DEF Uart
<1>3. Storing("UART_TX")' => ~r_Tx_Done
  BY MovePos DEF Uart, Storing
<1>4. frames' = <<>> /\ ~busy' /\ clk' = "high"
  BY MovePos
<1> QED BY <1>1, <1>2, <1>3, <1>4 DEF Uart, Open

LEMMA SpiMovePos ==
  ASSUME Typed, ~busy, PosEdge, SpiPort
  PROVE  SpiPort' /\ SpiTyped'
<1> USE Arithmetic
<1>1. Spi!SpiPos(FALSE, d_in, peerOut[Bits - 1])
  BY DEF PosEdge
<1>2. s_state \in {"rst", "idle"} /\ ~s_busy
  BY MovePos DEF SpiPort
<1>3. s_state = "rst" => stage = "init"
  BY MovePos DEF SpiPort, Fresh
<1>4. stage = "init" => stage' = "fetch"
  BY CpuMoves DEF PosEdge
<1>5. SpiTyped'
  BY <1>1, <1>2, MovePos, PortStands DEF Typed, SpiTyped
<1>6. s_count' = 0
  BY <1>1, <1>2, PortStands DEF SpiPort
<1>7. SpiPort'
  BY <1>1, <1>2, <1>3, <1>4, <1>6, MovePos, PortStands DEF SpiPort, Fresh, Open
<1> QED BY <1>5, <1>7

LEMMA PosIInv == ASSUME IInv, PosEdge PROVE IInv'
<1>1. CASE busy
  <2>1. Bus' /\ Uart' /\ SpiPort' /\ SpiTyped'
    BY <1>1, OpenPos, UartOpenPos, SpiOpenPos DEF IInv
  <2>2. Typed'
    BY <1>1, <2>1, OpenPos DEF IInv, Typed, SpiTyped, PosEdge, vram
  <2>3. Vram'
    <3>1. ram' = ram /\ ram_q' = ram_q
      BY DEF PosEdge, vram
    <3>2. /\ busy' = busy /\ start' = start /\ address' = address /\ we' = we
          /\ Stored' = Stored /\ clk' = "high"
      BY <1>1, OpenPos DEF IInv
    <3> QED BY <3>1, <3>2 DEF IInv, Vram, OwnAnswer, AnsweredNow, Selected, Storing
  <2>4. Tx!TxTypeOK'
    BY Zenon DEF IInv, Tx!TxTypeOK, PosEdge, Tx!TxPos
  <2>5. Flags'
    BY FlagsStep DEF IInv, Next
  <2> QED BY <2>1, <2>2, <2>3, <2>4, <2>5 DEF IInv
<1>2. CASE ~busy
  <2>1. Bus' /\ Uart' /\ SpiPort' /\ SpiTyped'
    BY <1>2, MovePos, UartMovePos, SpiMovePos DEF IInv
  <2>2. Typed'
    BY <1>2, <2>1, MovePos, CpuMoves DEF IInv, Typed, SpiTyped, PosEdge
  <2>3. Vram'
    BY <1>2, MovePos DEF IInv, Vram, OwnAnswer, AnsweredNow
  <2>4. Tx!TxTypeOK'
    BY Zenon DEF IInv, Tx!TxTypeOK, PosEdge, Tx!TxPos
  <2>5. Flags'
    BY FlagsStep DEF IInv, Next
  <2> QED BY <2>1, <2>2, <2>3, <2>4, <2>5 DEF IInv
<1> QED BY <1>1, <1>2

-----------------------------------------------------------------------------
(* The falling edge: the memory unit opens an access, waits, or answers.   *)

Opens == ~busy /\ start /\ busy'
Waits == busy /\ ~Ready(address.r, Dev) /\ busy'
AnswersIt == busy /\ Ready(address.r, Dev) /\ ~busy'
NoAccess == ~busy /\ ~start /\ ~busy'

LEMMA UnitNeg ==
  ASSUME NegEdge
  PROVE  /\ clk = "high" /\ clk' = "low" /\ Open /\ ~Fresh' /\ (Open' <=> busy')
         /\ stage' = stage /\ instr' = instr /\ operand' = operand
         /\ start' = start /\ we' = we /\ address' = address /\ Stored' = Stored
         /\ \A r : Storing(r)' <=> Storing(r)
         /\ Opens \/ Waits \/ AnswersIt \/ NoAccess
         /\ AnswersIt => /\ q' = Answer(address.r, data(q), Dev)
                         /\ GPO' = IF address.r = "GPIO" /\ we THEN data(q).hi ELSE GPO
         /\ ~AnswersIt => q' = q /\ GPO' = GPO
<1>1. /\ clk = "high" /\ clk' = "low"
      /\ stage' = stage /\ instr' = instr /\ operand' = operand
  BY DEF NegEdge, cpuvars
<1>2. start' = start /\ we' = we /\ address' = address /\ Stored' = Stored
  BY <1>1 DEF start, we, address, Stored
<1>3. \A r : Storing(r)' <=> Storing(r)
  BY <1>2 DEF Storing, Selected
<1>4. \/ Finish(address.r, we, data(q), Dev)
      \/ Wait(start, address.r, Dev)
  BY DEF NegEdge, MuNeg
<1>5. CASE Finish(address.r, we, data(q), Dev)
  BY <1>1, <1>2, <1>3, <1>5
     DEF Finish, Open, Fresh, Opens, Waits, AnswersIt, NoAccess
<1>6. CASE Wait(start, address.r, Dev)
  <2>1. busy' <=> busy \/ start
    BY <1>6 DEF Wait
  <2>2. ~(busy /\ Ready(address.r, Dev)) /\ q' = q /\ GPO' = GPO
    BY <1>6 DEF Wait
  <2> QED BY <1>1, <1>2, <1>3, <2>1, <2>2
          DEF Open, Fresh, Opens, Waits, AnswersIt, NoAccess
<1> QED BY <1>4, <1>5, <1>6

LEMMA BusNeg == ASSUME Bus, NegEdge PROVE Bus'
<1>1. busy' => start'
  BY UnitNeg DEF Opens, Waits, AnswersIt, NoAccess, Bus
<1>2. busy' => q' = q
  BY UnitNeg DEF AnswersIt
<1> QED BY <1>1, <1>2, UnitNeg DEF Bus

LEMMA UartNeg == ASSUME Bus, Uart, NegEdge PROVE Uart'
<1>1. /\ r_Tx_DV <=> Storing("UART_TX")
      /\ o_Tx_Done_l' = o_Tx_Done_l
      /\ \/ Tx!TxIdle(r_Tx_DV, data(q).lo) \/ Tx!TxHold \/ Tx!TxBit \/ Tx!TxCleanup
      /\ frames' = IF tx_state = "IDLE" /\ tx_state' = "START_BIT"
                   THEN Append(frames, r_Tx_Data') ELSE frames
  BY DEF r_Tx_DV, Storing, start, we, NegEdge, Tx!TxNeg
<1>2. CASE ~Storing("UART_TX")
  <2>1. tx_state = "IDLE" /\ frames = <<>>
    BY <1>2 DEF Uart
  <2>2. tx_state' = "IDLE" /\ ~r_Tx_Done'
    BY <1>1, <1>2, <2>1 DEF Tx!TxIdle, Tx!TxHold, Tx!TxBit, Tx!TxCleanup, Tx!Sending
  <2>3. frames' = <<>>
    BY <1>1, <2>1, <2>2
  <2> QED BY <1>2, <2>2, <2>3, UnitNeg DEF Uart
<1>3. CASE Storing("UART_TX") /\ ~busy
  <2>1. tx_state = "IDLE" /\ frames = <<>> /\ ~o_Tx_Done_l /\ Opens
    BY <1>3, UnitNeg DEF Uart, Fresh, Opens, Waits, AnswersIt, NoAccess, Storing, start, we
  <2>2. tx_state' = "START_BIT" /\ ~r_Tx_Done' /\ r_Tx_Data' = data(q).lo
    BY <1>1, <1>3, <2>1 DEF Tx!TxIdle, Tx!TxHold, Tx!TxBit, Tx!TxCleanup, Tx!Sending
  <2>3. data(q) = Stored
    BY <1>3, DataStored, UnitNeg DEF Storing
  <2>4. frames' = <<Stored.lo>>
    BY <1>1, <2>1, <2>2, <2>3
  <2> QED BY <1>1, <1>3, <2>1, <2>2, <2>4, UnitNeg DEF Uart, Opens, Tx!Sending
<1>4. CASE Storing("UART_TX") /\ busy
  <2>1. /\ tx_state # "IDLE" /\ frames = <<Stored.lo>> /\ frames' = frames
        /\ Ready(address.r, Dev) = o_Tx_Done_l
    BY <1>1, <1>4, Readiness DEF Uart, Dev, Storing, Selected
  <2>2. CASE tx_state = "CLEANUP"
    <3>1. tx_state' = "IDLE" /\ AnswersIt
      BY <1>1, <1>4, <2>1, <2>2, UnitNeg
         DEF Uart, Tx!TxIdle, Tx!TxHold, Tx!TxBit, Tx!TxCleanup, Tx!Sending,
             Opens, Waits, AnswersIt, NoAccess
    <3> QED BY <1>4, <2>1, <3>1, UnitNeg DEF Uart, AnswersIt
  <2>3. CASE tx_state # "CLEANUP"
    <3>1. tx_state \in Tx!Sending /\ (Tx!TxHold \/ Tx!TxBit)
      BY <1>1, <2>1, <2>3 DEF Tx!TxIdle, Tx!TxHold, Tx!TxBit, Tx!TxCleanup, Tx!Sending
    <3>2. ~r_Tx_Done /\ ~o_Tx_Done_l /\ Waits
      BY <1>4, <2>1, <3>1, UnitNeg DEF Uart, Opens, Waits, AnswersIt, NoAccess
    <3>3. CASE Tx!TxHold
      <4>1. tx_state' = tx_state /\ r_Tx_Done' = r_Tx_Done
        BY <3>3 DEF Tx!TxHold
      <4> QED BY <1>1, <1>4, <2>1, <3>1, <3>2, <4>1, UnitNeg DEF Uart, Waits, Tx!Sending
    <3>4. CASE Tx!TxBit
      <4>1. r_Tx_Done' <=> tx_state = "STOP_BIT"
        BY <3>2, <3>4 DEF Tx!TxBit, Tx!Done
      <4>2. tx_state = "STOP_BIT" => tx_state' = "CLEANUP"
        BY <3>4 DEF Tx!TxBit
      <4>3. tx_state # "STOP_BIT" => tx_state' \in Tx!Sending
        <5>1. CASE tx_state = "START_BIT"
          BY <3>4, <5>1 DEF Tx!TxBit, Tx!Sending
        <5>2. CASE tx_state = "DATA_BITS"
          BY <3>4, <5>2 DEF Tx!TxBit, Tx!Sending
        <5> QED BY <3>1, <5>1, <5>2 DEF Tx!Sending
      <4> QED BY <1>1, <1>4, <2>1, <3>1, <3>2, <4>1, <4>2, <4>3, UnitNeg
              DEF Uart, Waits, Tx!Sending
    <3> QED BY <3>1, <3>3, <3>4
  <2> QED BY <2>2, <2>3
<1> QED BY <1>2, <1>3, <1>4

\* The port's state machine, state by state.
LEMMA PortNeg ==
  ASSUME NEW t_start0, NEW miso, Spi!SpiNeg(t_start0, miso)
  PROVE  /\ s_counter' = s_counter /\ s_mosi_d' = s_mosi_d /\ s_count' = s_count
         /\ s_state = "rst" => s_state' = "idle" /\ s_out' = Spi!NoBits
                               /\ s_busy' = s_busy /\ s_cooldown' = s_cooldown
         /\ s_state = "idle" /\ ~t_start0 =>
              s_state' = "idle" /\ s_out' = s_out /\ s_busy' = s_busy
              /\ s_cooldown' = s_cooldown
         /\ s_state = "idle" /\ t_start0 =>
              s_state' = "load" /\ s_out' = s_out /\ s_busy' /\ s_cooldown' = s_cooldown
         /\ s_state = "load" =>
              /\ s_state' = IF s_count # 0 THEN "transact" ELSE "load"
              /\ s_out' = s_out /\ s_busy' = s_busy /\ s_cooldown' = s_cooldown
         /\ s_state = "transact" =>
              /\ s_state' = IF s_count = 0 THEN "unload" ELSE "transact"
              /\ s_out' = s_out /\ s_busy' = s_busy /\ s_cooldown' = s_cooldown
         /\ s_state = "unload" =>
              s_state' = "cooldown" /\ s_out' = s_miso_d /\ s_busy' = s_busy
              /\ s_cooldown' = 1
         /\ s_state = "cooldown" =>
              /\ s_state' = IF s_cooldown = 0 THEN "idle" ELSE "cooldown"
              /\ s_out' = s_out /\ ~s_busy'
              /\ s_cooldown' = IF s_cooldown # 0 THEN s_cooldown - 1 ELSE s_cooldown
<1>1. s_counter' = s_counter /\ s_mosi_d' = s_mosi_d /\ s_count' = s_count
  BY DEF Spi!SpiNeg
<1>2. CASE s_state = "rst"
  BY <1>1, <1>2 DEF Spi!SpiNeg, Spi!NextState
<1>3. CASE s_state = "idle" /\ ~t_start0
  BY <1>1, <1>3 DEF Spi!SpiNeg, Spi!NextState
<1>4. CASE s_state = "idle" /\ t_start0
  BY <1>1, <1>4 DEF Spi!SpiNeg, Spi!NextState
<1>5. CASE s_state = "load"
  BY <1>1, <1>5 DEF Spi!SpiNeg, Spi!NextState
<1>6. CASE s_state = "transact"
  BY <1>1, <1>6 DEF Spi!SpiNeg, Spi!NextState
<1>7. CASE s_state = "unload"
  BY <1>1, <1>7 DEF Spi!SpiNeg, Spi!NextState
<1>8. CASE s_state = "cooldown"
  BY <1>1, <1>8 DEF Spi!SpiNeg, Spi!NextState
<1>9. CASE s_state \notin {"rst", "idle", "load", "transact", "unload", "cooldown"}
  BY <1>1, <1>9
<1> QED BY <1>2, <1>3, <1>4, <1>5, <1>6, <1>7, <1>8, <1>9

\* No falling edge moves spi_clk: a transfer begins and ends while it is low.
LEMMA ClockNeg ==
  ASSUME Typed, SpiPort, NegEdge
  PROVE  /\ Spi!slow_clk' <=> Spi!slow_clk
         /\ s_miso_d' = s_miso_d /\ peerIn' = peerIn /\ peerOut' = peerOut
         /\ edges' = edges /\ reply' = reply
<1>1. Spi!SpiNeg(t_start, peerOut[Bits - 1]) /\ PeerStep
  BY DEF NegEdge
<1>2. s_counter' = s_counter /\ (Spi!slow_clk' <=> Spi!slow_clk)
  BY <1>1, PortNeg DEF Spi!slow_clk
<1>3. s_counter = 0 => ~Spi!slow_clk
  BY Arithmetic DEF Spi!slow_clk
<1>4. Spi!spi_clk' <=> Spi!spi_clk
  <2>1. CASE s_state = "transact" /\ s_count # 0
    BY <1>1, <1>2, <2>1, PortNeg DEF Spi!spi_clk
  <2>2. CASE s_state = "transact" /\ s_count = 0
    <3>1. Storing("SPI") /\ busy
      BY <2>2 DEF SpiPort, Open, Fresh, NegEdge
    <3>2. s_counter = 0
      BY <2>2, <3>1 DEF SpiPort, Moves
    <3> QED BY <1>1, <1>2, <1>3, <2>2, <3>2, PortNeg DEF Spi!spi_clk
  <2>3. CASE s_state = "load" /\ s_count # 0
    <3>1. Storing("SPI") /\ busy
      BY <2>3 DEF SpiPort, Open, Fresh, NegEdge
    <3>2. s_counter = 0
      BY <2>3, <3>1 DEF SpiPort
    <3> QED BY <1>1, <1>2, <1>3, <2>3, <3>2, PortNeg DEF Spi!spi_clk
  <2>4. CASE s_state = "load" /\ s_count = 0
    BY <1>1, <2>4, PortNeg DEF Spi!spi_clk
  <2>5. CASE s_state \in {"rst", "idle", "unload", "cooldown"}
    BY <1>1, <2>5, PortNeg DEF Spi!spi_clk
  <2> QED BY <2>1, <2>2, <2>3, <2>4, <2>5 DEF Typed
<1>5. s_miso_d' = s_miso_d
  BY <1>1, <1>4 DEF Spi!SpiNeg
<1> QED BY <1>1, <1>2, <1>4, <1>5 DEF PeerStep

LEMMA SpiNeg ==
  ASSUME Typed, Flags, Bus, SpiPort, NegEdge
  PROVE  SpiPort' /\ SpiTyped'
<1> USE Arithmetic
<1>1. /\ t_start <=> Storing("SPI")
      /\ Spi!SpiNeg(t_start, peerOut[Bits - 1])
  BY DEF NegEdge, t_start, Storing, start, we
<1>2. /\ stage' = stage /\ Stored' = Stored /\ (Storing("SPI")' <=> Storing("SPI"))
      /\ clk = "high" /\ clk' = "low" /\ Open /\ (Open' <=> busy') /\ ~Fresh'
  BY UnitNeg
<1>3. /\ s_miso_d' = s_miso_d /\ peerIn' = peerIn /\ peerOut' = peerOut
      /\ edges' = edges /\ reply' = reply /\ (Spi!slow_clk' <=> Spi!slow_clk)
  BY ClockNeg
<1>4. /\ s_counter' = s_counter /\ s_mosi_d' = s_mosi_d /\ s_count' = s_count
      /\ Fallen' = Fallen
  BY <1>1, PortNeg DEF Fallen
<1>5. SpiTyped'
  <2>1. Spi!NoBits \in Spi!Byte
    BY DEF Spi!NoBits, Spi!Byte
  <2>2. /\ s_state' \in {"rst", "idle", "load", "transact", "unload", "cooldown"}
        /\ s_cooldown' \in 0 .. 1
        /\ s_out' \in {s_out, s_miso_d, Spi!NoBits}
    BY <1>1, PortNeg DEF Typed
  <2> QED BY <1>3, <1>4, <2>1, <2>2 DEF Typed, SpiTyped
<1>6. CASE ~Storing("SPI")
  <2>1. s_state \in {"rst", "idle"} /\ edges = 0 /\ ~s_busy /\ s_out = reply
    BY <1>6 DEF SpiPort
  <2>2. s_state' = "idle" /\ ~s_busy' /\ s_out' \in {s_out, Spi!NoBits}
        /\ (s_out' # s_out => s_state = "rst")
    BY <1>1, <1>6, <2>1, PortNeg
  <2>3. s_state = "rst" => s_out' = reply
    BY <1>1, <2>1, PortNeg DEF SpiPort
  <2> QED BY <1>2, <1>3, <1>4, <1>5, <1>6, <2>1, <2>2, <2>3 DEF SpiPort
<1>7. CASE Storing("SPI") /\ ~busy
  <2>1. s_state = "idle" /\ edges = 0 /\ ~s_busy /\ s_count = 0 /\ s_out = reply /\ busy'
    BY <1>2, <1>7, UnitNeg
       DEF SpiPort, Fresh, Opens, Waits, AnswersIt, NoAccess, Storing, start, we
  <2>2. s_state' = "load" /\ s_out' = s_out /\ s_busy'
    BY <1>1, <1>7, <2>1, PortNeg
  <2> QED BY <1>2, <1>3, <1>4, <1>5, <1>7, <2>1, <2>2 DEF SpiPort
<1>8. CASE Storing("SPI") /\ busy
  <2>1. Ready(address.r, Dev) = ~s_busy
    BY <1>8, Readiness DEF Dev, Storing, Selected
  <2>2. s_state \in {"load", "transact", "unload", "cooldown"}
    BY <1>8 DEF SpiPort
  <2>3. s_busy => busy'
    BY <1>8, <2>1, UnitNeg DEF Opens, Waits, AnswersIt, NoAccess
  <2>4. ~s_busy => ~busy'
    BY <1>8, <2>1, UnitNeg DEF Opens, Waits, AnswersIt, NoAccess
  <2>5. CASE s_state = "load" /\ s_count = 0
    <3>1. s_state' = "load" /\ s_out' = s_out /\ s_busy' /\ busy'
      BY <1>1, <1>8, <2>3, <2>5, PortNeg DEF SpiPort
    <3> QED BY <1>2, <1>3, <1>4, <1>5, <1>8, <2>5, <3>1 DEF SpiPort
  <2>6. CASE s_state = "load" /\ s_count # 0
    <3>1. s_state' = "transact" /\ s_out' = s_out /\ s_busy' /\ busy'
      BY <1>1, <1>8, <2>3, <2>6, PortNeg DEF SpiPort
    <3>2. s_count = Bits /\ s_counter = 0 /\ s_mosi_d = Stored.lo /\ edges = 0
      BY <1>8, <2>6 DEF SpiPort
    <3>3. ~Spi!slow_clk /\ Fallen = 0
      BY <3>2 DEF Spi!slow_clk, Fallen
    <3>4. Moves'
      BY <1>2, <1>3, <1>4, <3>2, <3>3 DEF Moves
    <3> QED BY <1>2, <1>3, <1>4, <1>5, <1>8, <2>6, <3>1, <3>4 DEF SpiPort
  <2>7. CASE s_state = "transact" /\ s_count # 0
    <3>1. s_state' = "transact" /\ s_busy' /\ busy'
      BY <1>1, <1>8, <2>3, <2>7, PortNeg DEF SpiPort
    <3>2. Moves
      BY <1>8, <2>7 DEF SpiPort
    <3>3. Moves'
      BY <1>2, <1>3, <1>4, <2>7, <3>2 DEF Moves
    <3> QED BY <1>2, <1>3, <1>4, <1>5, <1>8, <2>7, <3>1, <3>3 DEF SpiPort
  <2>8. CASE s_state = "transact" /\ s_count = 0
    <3>1. s_state' = "unload" /\ s_busy' /\ busy'
      BY <1>1, <1>8, <2>3, <2>8, PortNeg DEF SpiPort
    <3>2. Moves
      BY <1>8, <2>8 DEF SpiPort
    <3>3. edges = Bits
      BY <2>8, <3>2 DEF Moves, Fallen, Spi!slow_clk
    <3>4. peerIn = Stored.lo
      <4>1. Stored.lo \in Spi!Byte /\ peerIn \in Spi!Byte
        BY StoredWord DEF Word, Typed
      <4>2. \A i \in 0 .. Bits - 1 : peerIn[i] = Stored.lo[i]
        BY <3>2, <3>3 DEF Moves
      <4> QED BY <4>1, <4>2 DEF Spi!Byte
    <3> QED BY <1>2, <1>3, <1>4, <1>5, <1>8, <2>8, <3>1, <3>3, <3>4 DEF SpiPort
  <2>9. CASE s_state = "unload"
    <3>1. s_state' = "cooldown" /\ s_busy' /\ busy' /\ s_out' = reply' /\ s_cooldown' = 1
      BY <1>1, <1>3, <1>8, <2>3, <2>9, PortNeg DEF SpiPort
    <3> QED BY <1>2, <1>3, <1>4, <1>5, <1>8, <2>9, <3>1 DEF SpiPort
  <2>10. CASE s_state = "cooldown" /\ s_cooldown = 1
    <3>1. s_state' = "cooldown" /\ ~s_busy' /\ busy' /\ s_out' = s_out /\ s_cooldown' = 0
      BY <1>1, <1>8, <2>3, <2>10, PortNeg DEF SpiPort
    <3> QED BY <1>2, <1>3, <1>4, <1>5, <1>8, <2>10, <3>1 DEF SpiPort
  <2>11. CASE s_state = "cooldown" /\ s_cooldown # 1
    <3>1. s_cooldown = 0
      BY <2>11 DEF Typed
    <3>2. s_state' = "idle" /\ ~s_busy' /\ ~busy' /\ s_out' = s_out
      BY <1>1, <1>8, <2>4, <2>11, <3>1, PortNeg DEF SpiPort
    <3> QED BY <1>2, <1>3, <1>4, <1>5, <1>8, <2>11, <3>2 DEF SpiPort
  <2> QED BY <2>2, <2>5, <2>6, <2>7, <2>8, <2>9, <2>10, <2>11
<1> QED BY <1>5, <1>6, <1>7, <1>8

LEMMA VramStep ==
  ASSUME Typed, NegEdge
  PROVE  /\ Storing("VRAM") =>
              /\ ram' = [ram EXCEPT ![address.cell] = data(q)] /\ ram_q' = data(q)
         /\ ~Storing("VRAM") => ram' = ram /\ ram_q' = ram[address.cell]
         /\ Selected("VRAM") => address.cell \in Cells
<1>1. vram_we <=> Storing("VRAM")
  BY DEF vram_we, Storing
<1> QED BY <1>1, AddressKnown DEF NegEdge, VramNeg, IsAddress, Selected

LEMMA Answers ==
  /\ address.r = "VRAM" => Answer(address.r, data(q), Dev) = Dev.ram_q
  /\ address.r = "ROM" => Answer(address.r, data(q), Dev) = Dev.ram_q
  /\ address.r = "SPI" => Answer(address.r, data(q), Dev) = Low(Dev.s_out)
  /\ address.r = "REGISTER" => Answer(address.r, data(q), Dev) = Low(Dev.input)
  /\ address.r = "GPIO" => Answer(address.r, data(q), Dev) = [hi |-> GPO, lo |-> Dev.GPI]
  /\ address.r = "SPI3_ENABLE" =>
       Answer(address.r, data(q), Dev) = Low([ZeroWord.lo EXCEPT ![0] = data(q).lo[0]])
  /\ address.r \in {"TIMER", "UART_TX", "NOTHING"} =>
       Answer(address.r, data(q), Dev) = ZeroWord
<1>1. CASE address.r = "VRAM"
  BY <1>1 DEF Answer
<1>2. CASE address.r = "ROM"
  BY <1>2 DEF Answer
<1>3. CASE address.r = "SPI"
  BY <1>3 DEF Answer
<1>4. CASE address.r = "REGISTER"
  BY <1>4 DEF Answer
<1>5. CASE address.r = "GPIO"
  BY <1>5 DEF Answer
<1>6. CASE address.r = "SPI3_ENABLE"
  BY <1>6 DEF Answer
<1>7. CASE address.r \in {"TIMER", "UART_TX", "NOTHING"}
  BY <1>7 DEF Answer
<1> QED BY <1>1, <1>2, <1>3, <1>4, <1>5, <1>6, <1>7

\* The registers answer with words.
LEMMA AnswerWord ==
  ASSUME Typed, SpiPort, Bus, Vram, NegEdge, AnswersIt
  PROVE  /\ q' \in Word /\ GPO' \in High
         /\ Selected("VRAM") => q' = ram_q
         /\ Selected("SPI") => q'.lo = s_out
<1>1. /\ q' = Answer(address.r, data(q), Dev)
      /\ GPO' = IF address.r = "GPIO" /\ we THEN data(q).hi ELSE GPO
  BY UnitNeg
<1>2. data(q) \in Word
  BY Words DEF Typed, data
<1>3. GPO' \in High
  BY <1>1, <1>2 DEF Typed, Word
<1>4. address.r \in Device \ {"SDRAM", "FLASH"}
  BY AddressKnown DEF IsAddress
<1>5. /\ Dev.ram_q = IF Selected("ROM") THEN ZeroWord ELSE ram_q
      /\ Dev.s_out = s_out /\ Dev.input = ZeroWord.lo /\ Dev.GPI = ZeroWord.lo
  BY DEF Dev
<1>6. ZeroWord.lo \in Spi!Byte /\ s_out \in Spi!Byte
  BY Words DEF Word, Typed
<1>7. CASE address.r = "VRAM"
  <2>1. q' = ram_q
    BY <1>1, <1>5, <1>7, Answers DEF Selected
  <2>2. ram_q = ram[address.cell] /\ address.cell \in Cells
    BY <1>7, VramStep DEF Vram, AnswersIt, Bus, Selected
  <2> QED BY <1>3, <1>7, <2>1, <2>2 DEF Typed, Selected
<1>8. CASE address.r = "ROM"
  <2>1. q' = ZeroWord
    BY <1>1, <1>5, <1>8, Answers DEF Selected
  <2> QED BY <1>3, <1>8, <2>1, Words DEF Selected
<1>9. CASE address.r = "SPI"
  <2>1. q' = Low(s_out)
    BY <1>1, <1>5, <1>9, Answers
  <2> QED BY <1>3, <1>6, <1>9, <2>1, LowWord DEF Selected
<1>10. CASE address.r = "REGISTER"
  <2>1. q' = Low(ZeroWord.lo)
    BY <1>1, <1>5, <1>10, Answers
  <2> QED BY <1>3, <1>6, <1>10, <2>1, LowWord DEF Selected
<1>11. CASE address.r = "GPIO"
  <2>1. q' = [hi |-> GPO, lo |-> ZeroWord.lo]
    BY <1>1, <1>5, <1>11, Answers
  <2> QED BY <1>3, <1>6, <1>11, <2>1 DEF Selected, Typed, Word
<1>12. CASE address.r = "SPI3_ENABLE"
  <2>1. q' = Low([ZeroWord.lo EXCEPT ![0] = data(q).lo[0]])
    BY <1>1, <1>12, Answers
  <2>2. data(q).lo[0] \in {0, 1}
    BY <1>2, Arithmetic DEF Word, Spi!Byte
  <2>3. [ZeroWord.lo EXCEPT ![0] = data(q).lo[0]] \in Spi!Byte
    BY <1>6, <2>2 DEF Spi!Byte
  <2> QED BY <1>3, <1>12, <2>1, <2>3, LowWord DEF Selected
<1>13. CASE address.r \in {"TIMER", "UART_TX", "NOTHING"}
  <2>1. q' = ZeroWord
    BY <1>1, <1>13, Answers
  <2> QED BY <1>3, <1>13, <2>1, Words DEF Selected
<1> QED BY <1>4, <1>7, <1>8, <1>9, <1>10, <1>11, <1>12, <1>13 DEF Device

LEMMA VramNegStep ==
  ASSUME Typed, Bus, SpiPort, Vram, NegEdge
  PROVE  Vram'
<1>1. /\ start' = start /\ we' = we /\ address' = address /\ Stored' = Stored
      /\ clk = "high" /\ clk' = "low" /\ Open
      /\ Opens \/ Waits \/ AnswersIt \/ NoAccess
  BY UnitNeg
<1>2. we => data(q) = Stored
  BY <1>1, DataStored
<1>3. ram \in [Cells -> Word]
  BY DEF Typed
<1>4. Selected("VRAM") => address.cell \in Cells
  BY VramStep
<1>5. Storing("VRAM") => ram'[address.cell] = Stored /\ ram_q' = Stored
  BY <1>2, <1>3, <1>4, VramStep DEF Storing
<1>6. ~Storing("VRAM") => ram' = ram /\ ram_q' = ram[address.cell]
  BY VramStep
<1>7. Selected("VRAM") => ram_q' = ram'[address.cell]
  BY <1>5, <1>6
<1>8. ASSUME AnsweredNow', Selected("VRAM"), ~we PROVE q' = ram'[address.cell]
  <2>1. AnswersIt /\ start
    BY <1>1, <1>8 DEF AnsweredNow, Opens, Waits, NoAccess
  <2>2. ram_q = ram[address.cell]
    BY <1>8, <2>1 DEF Vram, AnswersIt
  <2> QED BY <1>6, <1>8, <2>1, <2>2, AnswerWord DEF Storing
<1>9. ASSUME AnsweredNow', Selected("SPI"), ~we PROVE q'.lo = reply'
  <2>1. AnswersIt
    BY <1>1, <1>9 DEF AnsweredNow, Opens, Waits, NoAccess
  <2>2. s_out = reply
    BY <1>9 DEF SpiPort, Storing
  <2>3. reply' = reply
    BY ClockNeg
  <2> QED BY <1>9, <2>1, <2>2, <2>3, AnswerWord
<1>10. OwnAnswer'
  BY <1>1, <1>5, <1>8, <1>9 DEF OwnAnswer, Selected, Storing
<1> QED BY <1>1, <1>5, <1>7, <1>10 DEF Vram, Selected, Storing

-----------------------------------------------------------------------------
(* The transmitter's registers.                                            *)

TxNumbers ==
  /\ tx_state \in {"IDLE", "CLEANUP"} \cup Tx!Sending
  /\ tx_count \in 0 .. CLKS_PER_BIT - 1 /\ tx_index \in 0 .. Bits - 1
  /\ r_Tx_Data \in Tx!TxByte /\ o_Tx_Serial \in {0, 1}

LEMMA TxParts ==
  Tx!TxTypeOK <=> TxNumbers /\ r_Tx_Done \in BOOLEAN /\ o_Tx_Done_l \in BOOLEAN
BY Zenon DEF Tx!TxTypeOK, TxNumbers

LEMMA TxRegisters ==
  ASSUME TxNumbers, NegEdge, data(q).lo \in Tx!TxByte PROVE TxNumbers'
<1>1. CLKS_PER_BIT \in 2 .. 256
  BY WidthAssumption DEF Tx!BitAssumption
<1>2. \A n \in 0 .. 254 : (n + 1) % 256 = n + 1
  OBVIOUS
<1> USE Arithmetic
<1>3. Tx!TxIdle(r_Tx_DV, data(q).lo) \/ Tx!TxHold \/ Tx!TxBit \/ Tx!TxCleanup
  BY DEF NegEdge, Tx!TxNeg
<1>4. CASE Tx!TxIdle(r_Tx_DV, data(q).lo)
  BY <1>1, <1>4 DEF TxNumbers, Tx!TxIdle, Tx!Sending
<1>5. ASSUME tx_state \in Tx!Sending PROVE Tx!Line \in {0, 1}
  BY <1>5 DEF TxNumbers, Tx!Line, Tx!Sending, Tx!TxByte
<1>6. CASE Tx!TxHold
  BY <1>1, <1>2, <1>5, <1>6 DEF TxNumbers, Tx!TxHold, Tx!CountUp
<1>7. CASE Tx!TxBit
  <2>1. tx_state \in Tx!Sending /\ o_Tx_Serial' = Tx!Line /\ tx_count' = 0 /\ r_Tx_Data' = r_Tx_Data
    BY <1>7 DEF Tx!TxBit
  <2>2. tx_state' \in {"IDLE", "CLEANUP"} \cup Tx!Sending
    <3>1. CASE tx_state = "START_BIT"
      BY <1>7, <3>1 DEF Tx!TxBit, Tx!Sending
    <3>2. CASE tx_state = "DATA_BITS"
      BY <1>7, <3>2 DEF Tx!TxBit, Tx!Sending
    <3>3. CASE tx_state = "STOP_BIT"
      BY <1>7, <3>3 DEF Tx!TxBit, Tx!Sending
    <3> QED BY <2>1, <3>1, <3>2, <3>3 DEF Tx!Sending
  <2>3. tx_index' \in 0 .. Bits - 1
    BY <1>7 DEF TxNumbers, Tx!TxBit, Tx!LastBit
  <2> QED BY <1>1, <1>5, <2>1, <2>2, <2>3 DEF TxNumbers
<1>8. CASE Tx!TxCleanup
  BY <1>8 DEF TxNumbers, Tx!TxCleanup
<1> QED BY <1>3, <1>4, <1>6, <1>7, <1>8

-----------------------------------------------------------------------------
(* The invariant holds at the start and stays.                             *)

LEMMA NegIInv == ASSUME IInv, NegEdge PROVE IInv'
<1>1. /\ clk' = "low" /\ stage' = stage /\ instr' = instr /\ operand' = operand
      /\ ~AnswersIt => q' = q /\ GPO' = GPO
  BY UnitNeg
<1>2. Bus' /\ Uart'
  BY BusNeg, UartNeg DEF IInv
<1>3. SpiPort' /\ SpiTyped'
  BY SpiNeg DEF IInv
<1>4. Vram'
  BY VramNegStep DEF IInv
<1>5. data(q) \in Word
  BY Words DEF IInv, Typed, data
<1>6. q' \in Word /\ GPO' \in High
  BY <1>1, AnswerWord DEF IInv, Typed
<1>7. ram' \in [Cells -> Word]
  BY <1>5, VramStep DEF IInv, Typed
<1>8. Typed'
  BY <1>1, <1>3, <1>6, <1>7 DEF IInv, Typed, SpiTyped
<1>9. Flags'
  BY FlagsStep DEF IInv, Next
<1>10. TxNumbers'
  BY <1>5, TxParts, TxRegisters DEF IInv, Word, Spi!Byte, Tx!TxByte
<1>11. Tx!TxTypeOK'
  BY <1>9, <1>10, Zenon DEF Flags, TxNumbers, Tx!TxTypeOK
<1> QED BY <1>2, <1>3, <1>4, <1>8, <1>9, <1>11 DEF IInv

LEMMA InitIInv == Init => IInv
<1> SUFFICES ASSUME Init PROVE IInv
  OBVIOUS
<1> USE Arithmetic, Words
<1>1. /\ clk = "low" /\ stage = "init" /\ instr = NoInstr /\ ~start /\ ~we
      /\ frames = <<>> /\ edges = 0
  BY DEF Init, CpuInit, start, we
<1>2. /\ busy = FALSE /\ q = ZeroWord /\ GPO = ZeroWord.hi /\ enableSPI3 = FALSE
  BY DEF Init, MuInit
<1>3. /\ s_state = "rst" /\ s_counter = 0 /\ s_count = 0 /\ s_cooldown = 0
      /\ s_mosi_d = Spi!NoBits /\ s_miso_d = Spi!NoBits /\ s_out = Spi!NoBits
      /\ s_busy = FALSE /\ reply = Spi!NoBits
  BY DEF Init, Spi!SpiInit
<1>4. Spi!NoBits \in Spi!Byte
  BY DEF Spi!NoBits, Spi!Byte
<1>5. Typed
  <2>1. /\ stage \in Stage /\ instr \in Instr
    BY <1>1, InstrAssumption DEF Stage
  <2>2. ram \in [Cells -> Word] /\ operand \in Word /\ peerIn = Spi!NoBits
        /\ peerOut \in Spi!Byte
    BY DEF Init
  <2>3. ZeroWord.hi \in High
    BY DEF High
  <2> QED BY <1>1, <1>2, <1>3, <1>4, <2>1, <2>2, <2>3 DEF Typed
<1>6. Flags
  BY Zenon DEF Init, MuInit, Spi!SpiInit, Tx!TxInit, Flags
<1>7. Tx!TxTypeOK
  <2>1. TxNumbers
    BY WidthAssumption DEF Init, Tx!TxInit, TxNumbers, Tx!NoByte, Tx!TxByte, Tx!BitAssumption
  <2> QED BY <1>6, <2>1, TxParts DEF Flags
<1>8. Bus
  BY <1>1, <1>2 DEF Bus
<1>9. Uart
  <2>1. tx_state = "IDLE" /\ ~r_Tx_Done
    BY DEF Init, Tx!TxInit
  <2> QED BY <1>1, <2>1 DEF Uart, Storing
<1>10. SpiPort
  BY <1>1, <1>3 DEF SpiPort, Storing
<1>11. Vram
  BY <1>1 DEF Vram, Storing, OwnAnswer, AnsweredNow
<1> QED BY <1>5, <1>6, <1>7, <1>8, <1>9, <1>10, <1>11 DEF IInv

LEMMA StutterIInv == ASSUME IInv, UNCHANGED vars PROVE IInv'
<1>1. /\ UNCHANGED <<clk, stage, instr, busy, q, GPO, enableSPI3, frames, ram, ram_q,
                     operand, peerIn, peerOut, edges, reply>>
      /\ UNCHANGED <<s_state, s_counter, s_mosi_d, s_miso_d, s_count, s_out, s_busy,
                     s_cooldown>>
      /\ UNCHANGED <<tx_state, tx_count, tx_index, r_Tx_Data, r_Tx_Done, o_Tx_Serial,
                     o_Tx_Done_l>>
  BY DEF vars, cpuvars, muvars, spi, peer, uart, vram
<1>2. /\ start' = start /\ we' = we /\ address' = address /\ Stored' = Stored
      /\ Fallen' = Fallen /\ (Fresh' <=> Fresh) /\ (Open' <=> Open)
      /\ (Spi!slow_clk' <=> Spi!slow_clk)
  BY <1>1 DEF start, we, address, Stored, Fallen, Fresh, Open, Spi!slow_clk
<1>3. \A r : (Selected(r)' <=> Selected(r)) /\ (Storing(r)' <=> Storing(r))
  BY <1>2 DEF Selected, Storing
<1>4. (AnsweredNow' <=> AnsweredNow) /\ (Moves' <=> Moves)
  BY <1>1, <1>2 DEF AnsweredNow, Moves
<1>5. Typed'
  BY <1>1 DEF IInv, Typed
<1>6. Flags'
  BY FlagsStep DEF IInv
<1>7. Tx!TxTypeOK'
  BY <1>1, Zenon DEF IInv, Tx!TxTypeOK
<1>8. Bus' /\ Uart'
  BY <1>1, <1>2, <1>3 DEF IInv, Bus, Uart
<1>9. SpiPort'
  BY <1>1, <1>2, <1>3, <1>4 DEF IInv, SpiPort
<1>10. Vram'
  BY <1>1, <1>2, <1>3, <1>4 DEF IInv, Vram, OwnAnswer
<1> QED BY <1>5, <1>6, <1>7, <1>8, <1>9, <1>10 DEF IInv

\* The inductive invariant holds of every behaviour.
THEOREM Invariance == Spec => []IInv
<1>1. IInv /\ [Next]_vars => IInv'
  BY PosIInv, NegIInv, StutterIInv DEF Next
<1> QED BY <1>1, InitIInv, PTL DEF Spec

-----------------------------------------------------------------------------

\* The types; in particular the port's count of four bits and the transmitter's
\* of eight hold what they must, and an access moves at most one byte.
THEOREM TypeCorrect == Spec => []TypeOK
<1>1. IInv => TypeOK
  BY DEF IInv, TypeOK, Typed, Flags, Spi!SpiTypeOK
<1> QED BY <1>1, Invariance, PTL

\* SimpleSPI.v:69-114, MemoryUnit.v:423-424,554-559.  A store to the SPI port
\* that is answered has moved one whole byte each way, and no other access
\* moves anything.
THEOREM OneByteEachWay == Spec => []SpiExchange
<1>1. IInv => SpiExchange
  <2> SUFFICES ASSUME IInv, AnsweredNow PROVE SpiExchange
    BY DEF SpiExchange
  <2>1. ~Open
    BY DEF AnsweredNow, Open
  <2> QED BY <2>1 DEF IInv, SpiPort, SpiExchange, Storing
<1> QED BY <1>1, Invariance, PTL

\* UARTtx.v:82-171, MemoryUnit.v:417-418,526-534.  A store to the UART that is
\* answered has sent one frame with its byte; no other access sends any.
THEOREM OneFrameSent == Spec => []OneFrame
<1>1. IInv => OneFrame
  <2> SUFFICES ASSUME IInv, AnsweredNow PROVE OneFrame
    BY DEF OneFrame
  <2>1. ~Open
    BY DEF AnsweredNow, Open
  <2> QED BY <2>1 DEF IInv, Uart, OneFrame, Storing
<1> QED BY <1>1, Invariance, PTL

\* VRAM.v:28-36, MemoryUnit.v:391-401,470-482.  A load of video memory or of the
\* SPI port that is answered has the word that is there, and a store has
\* replaced its own word.
THEOREM EachItsOwnAnswer == Spec => []OwnAnswer
<1>1. IInv => OwnAnswer
  BY DEF IInv, Vram
<1> QED BY <1>1, Invariance, PTL
=============================================================================
