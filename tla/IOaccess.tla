------------------------------ MODULE IOaccess ------------------------------
(***************************************************************************)
(* The CPU, the memory unit and its input and output: an SPI port with a   *)
(* device at the other end, the UART transmitter, video memory, the GPIO   *)
(* pins and the registers that answer at once (all inputs low).  A program *)
(* makes any sequence of accesses.  The reset line stays low.              *)
(***************************************************************************)
EXTENDS CPUbus, MemoryUnit, Integers, Sequences

CONSTANTS
  Bits, DIVISOR, CLKS_PER_BIT,
  Cells,   \* words of video memory
  Replies  \* what the SPI device may send

VARIABLES
  clk,
  s_state, s_counter, s_mosi_d, s_miso_d, s_count, s_out, s_busy, s_cooldown,
  peerIn, peerOut, edges,  \* the SPI device, and spi_clk's edges in this access
  tx_state, tx_count, tx_index, r_Tx_Data, r_Tx_Done, o_Tx_Serial, o_Tx_Done_l,
  frames,                  \* history: the bytes of the frames of this access
  ram, ram_q,
  reply, operand           \* history: the last SPI reply, what COPY has read

Spi == INSTANCE SimpleSPI
         WITH state <- s_state, counter <- s_counter, mosi_d <- s_mosi_d,
              miso_d <- s_miso_d, count <- s_count, d_out <- s_out,
              busy <- s_busy, cooldownCounter <- s_cooldown
Tx == INSTANCE UARTtx
        WITH r_SM_Main <- tx_state, r_Clock_Count <- tx_count, r_Bit_Index <- tx_index

ASSUME WidthAssumption == Tx!BitAssumption /\ Spi!SpiAssumption

\* A word, what instructions and devices hold, and what has an address here;
\* SDRAM and flash are in SDRAMaccess and FlashAccess.
High == {ZeroWord.hi} \cup {i.d.hi : i \in Instr}
Word == [hi : High, lo : Spi!Byte]
IsAddress(a) ==
  /\ a = [r |-> a.r, cell |-> a.cell] /\ a.r \in Device \ {"SDRAM", "FLASH"}
  /\ a.r = "VRAM" => a.cell \in Cells
ASSUME WordAssumption ==
  /\ ZeroWord \in Word /\ ZeroWord.lo = Spi!NoBits /\ Replies \subseteq Spi!Byte
  /\ \A i \in Instr : i.d \in Word /\ IsAddress(i.pc) /\ IsAddress(i.from) /\ IsAddress(i.to)

spi == <<s_state, s_counter, s_mosi_d, s_miso_d, s_count, s_out, s_busy, s_cooldown>>
peer == <<peerIn, peerOut, edges, reply>>
uart == <<tx_state, tx_count, tx_index, r_Tx_Data, r_Tx_Done, o_Tx_Serial,
          o_Tx_Done_l>>
vram == <<ram, ram_q>>
vars == <<clk, cpuvars, muvars, spi, peer, uart, frames, vram, operand>>

Init ==
  /\ clk = "low"
  /\ CpuInit /\ MuInit /\ Spi!SpiInit /\ Tx!TxInit
  /\ peerIn = ZeroWord.lo /\ peerOut \in Replies /\ edges = 0
  /\ frames = <<>> /\ reply = ZeroWord.lo /\ operand = ZeroWord
  /\ ram = [c \in Cells |-> ZeroWord] /\ ram_q = ZeroWord

-----------------------------------------------------------------------------
\* The address decoder: the lines to the devices.
Selected(r) == address.r = r
t_start == Selected("SPI") /\ start /\ we
d_in == IF Selected("SPI") THEN data(q).lo ELSE ZeroWord.lo
r_Tx_DV == Selected("UART_TX") /\ start /\ we

Dev ==
  [Tx_Done |-> o_Tx_Done_l, s_busy |-> s_busy, s_out |-> s_out,
   ram_q |-> IF Selected("ROM") THEN ZeroWord ELSE ram_q,
   input |-> ZeroWord.lo, GPI |-> ZeroWord.lo]

\* The SPI device, in mode 0: it takes a bit when spi_clk rises, moves to its
\* next when spi_clk falls, and has a new byte for the next transfer.
PeerStep ==
  /\ IF ~Spi!spi_clk /\ Spi!spi_clk'
     THEN /\ peerIn' = Spi!ShiftIn(peerIn, Spi!mosi)
          /\ edges' = edges + 1
          /\ reply' = Spi!ShiftIn(reply, peerOut[Bits - 1])
     ELSE UNCHANGED <<peerIn, edges, reply>>
  /\ IF Spi!spi_clk /\ ~Spi!spi_clk'
     THEN IF edges = Bits THEN peerOut' \in Replies
          ELSE peerOut' = Spi!ShiftIn(peerOut, 0)
     ELSE UNCHANGED peerOut

\* An access begins when the stage changes.
PosEdge ==
  /\ clk = "low" /\ clk' = "high"
  /\ CpuPos(busy, FALSE)
  /\ Spi!SpiPos(FALSE, d_in, peerOut[Bits - 1])
  /\ IF stage' # stage
     THEN edges' = 0 /\ frames' = <<>> /\ UNCHANGED <<peerIn, peerOut, reply>>
     ELSE PeerStep /\ UNCHANGED frames
  /\ operand' = IF stage' = "writeBack" /\ stage = "readMem" THEN q ELSE operand
  /\ Tx!TxPos(FALSE)
  /\ UNCHANGED <<muvars, vram>>

vram_we == Selected("VRAM") /\ we
VramNeg ==
  IF vram_we
  THEN ram' = [ram EXCEPT ![address.cell] = data(q)] /\ ram_q' = data(q)
  ELSE ram_q' = ram[address.cell] /\ UNCHANGED ram

NegEdge ==
  /\ clk = "high" /\ clk' = "low"
  /\ MuNeg(FALSE, start, address.r, we, data(q), Dev)
  /\ Spi!SpiNeg(t_start, peerOut[Bits - 1])
  /\ PeerStep
  /\ Tx!TxNeg(FALSE, r_Tx_DV, data(q).lo)
  /\ frames' = IF tx_state = "IDLE" /\ tx_state' = "START_BIT"
               THEN Append(frames, r_Tx_Data') ELSE frames
  /\ VramNeg
  /\ UNCHANGED <<cpuvars, operand>>

Next == PosEdge \/ NegEdge

Spec == Init /\ [][Next]_vars
\* The clock does not stop.
FairSpec == Spec /\ WF_vars(Next)

-----------------------------------------------------------------------------
TypeOK ==
  /\ clk \in {"low", "high"} /\ stage \in Stage /\ instr \in Instr
  /\ busy \in BOOLEAN /\ enableSPI3 \in BOOLEAN
  /\ Spi!SpiTypeOK /\ Tx!TxTypeOK /\ edges \in 0 .. Bits

\* A falling edge has answered the access that is on the bus.
AnsweredNow == clk = "low" /\ start /\ ~busy

\* What the instruction has to store: COPY stores what it has read.
Stored == IF instr.op = "COPY" THEN operand ELSE instr.d

\* SimpleSPI.v:69-114, MemoryUnit.v:423-424,554-559.  A store to the SPI port
\* that is answered has moved one whole byte each way, and the port has the
\* device's; no other access moves anything.
SpiExchange ==
  AnsweredNow =>
    IF Selected("SPI") /\ we
    THEN edges = Bits /\ peerIn = Stored.lo /\ s_out = reply
    ELSE edges = 0

\* UARTtx.v:82-171, MemoryUnit.v:417-418,526-534.  A store to the UART that is
\* answered has sent one frame with its byte; no other access sends any.
OneFrame ==
  AnsweredNow =>
    frames = IF Selected("UART_TX") /\ we THEN <<Stored.lo>> ELSE <<>>

\* VRAM.v:28-36, MemoryUnit.v:391-401,470-482.  A read of video memory returns
\* the word that is there, although the unit holds the write line of a store
\* for two edges and the memory answers an edge late; a read of the SPI port
\* returns the last byte received, and a store has replaced its own word.
OwnAnswer ==
  AnsweredNow =>
    /\ Selected("VRAM") /\ ~we => q = ram[address.cell]
    /\ Selected("VRAM") /\ we => ram[address.cell] = Stored
    /\ Selected("SPI") /\ ~we => q.lo = reply

\* MemoryUnit.v:441-618.  Every access a program should make is answered: all
\* but a load from the UART transmitter.
Hangs == Selected("UART_TX") /\ ~we
Answered == start /\ ~Hangs ~> AnsweredNow

\* Documentation/docs/mu.md:2: the busy signal "only goes high when the start
\* signal is received, and goes low when the data is read or written".
BusyFalls == busy ~> ~busy
=============================================================================
