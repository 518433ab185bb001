----------------------------- MODULE FlashAccess -----------------------------
(***************************************************************************)
(* The CPU, the memory unit, the flash reader and the flash: a program     *)
(* that reads flash and now and then takes it over through SPI3, with      *)
(* resets at any time.  A transfer on SPI3 is one step here; IOaccess has  *)
(* its detail.                                                             *)
(***************************************************************************)
EXTENDS CPUbus, MemoryUnit, Integers

CONSTANT Content(_)   \* the nibbles of the flash

InFlash(cell) == cell \in Nat /\ cell < 4194304   \* 22 bits of the address space
ASSUME FlashAssumption ==
  \A i \in Instr : \A a \in {i.pc, i.from, i.to} : a.r = "FLASH" => InFlash(a.cell)

VARIABLES
  clk, reset,
  phase, counter, initDone, recvDone, nibbles,
  st, n, acc, adr, cont, io

Sr == INSTANCE SPIreader
Chip == INSTANCE FlashChip

reader == <<phase, counter, initDone, recvDone, nibbles>>
chip == <<st, n, acc, adr, cont, io>>
vars == <<clk, reset, cpuvars, muvars, reader, chip>>

Init ==
  /\ clk = "low" /\ reset = FALSE
  /\ CpuInit /\ MuInit /\ Sr!SrInit /\ Chip!ChipInit

Selected(r) == address.r = r
sr_addr == IF Selected("FLASH") THEN address.cell ELSE 0
sr_start == Selected("FLASH") /\ start
sr_q == [hi |-> [i \in 0 .. 3 |-> nibbles[3 - i]], lo |-> [i \in 0 .. 3 |-> nibbles[7 - i]]]

Dev ==
  [sr_recvDone |-> recvDone, sr_q |-> sr_q, s_busy |-> FALSE, s_out |-> ZeroWord.lo,
   ram_q |-> ZeroWord, GPI |-> ZeroWord.lo, input |-> ZeroWord.lo]

\* The flash is on SPI3 or on the reader: its select line, and the pins.
spi_cs == IF enableSPI3 THEN GPO[2] = 1 ELSE Sr!cs
sr_reset == enableSPI3 \/ reset
spi_pins == IF Sr!write THEN Sr!io_out(sr_addr) ELSE 0

\* Programs that want the flash for themselves read from it first: the reader
\* is no longer in its start-up sequence when SPI3 is enabled.
TakesOver(i) ==
  i.to.r = "SPI3_ENABLE" /\ (i.op = "COPY" \/ (i.op = "WRITE" /\ i.d.lo[0] = 1))

PosEdge ==
  /\ clk = "low" /\ clk' = "high"
  /\ CpuPos(busy, reset)
  /\ (TakesOver(instr') /\ instr' # instr) => initDone
  /\ IF enableSPI3 THEN UNCHANGED <<reader, chip>>
     ELSE /\ Sr!SrPos(sr_reset, io)
          /\ IF spi_cs THEN UNCHANGED chip ELSE Chip!Take(spi_pins)
  /\ reset' \in BOOLEAN
  /\ UNCHANGED muvars

\* A byte goes over SPI3: the clock edges reset the reader, and the selected
\* flash takes a command.
Transfer == enableSPI3 /\ ~reset /\ busy /\ we /\ Selected("SPI")

ReaderNeg ==
  IF Transfer
  THEN Sr!SrReset /\ nibbles' = Sr!NoNibbles
  ELSE IF enableSPI3 THEN UNCHANGED reader
  ELSE Sr!SrNeg(sr_reset, sr_start)

ChipNeg ==
  IF spi_cs # spi_cs'
  THEN IF spi_cs' THEN Chip!Deselect ELSE Chip!Select
  ELSE IF Transfer /\ ~spi_cs THEN Chip!OtherCommand
  ELSE IF ~enableSPI3 /\ ~spi_cs THEN Chip!Give
  ELSE UNCHANGED chip

NegEdge ==
  /\ clk = "high" /\ clk' = "low"
  /\ MuNeg(reset, start, address.r, we, data(q), Dev)
  /\ ReaderNeg
  /\ ChipNeg
  /\ UNCHANGED <<reset, cpuvars>>

Next == PosEdge \/ NegEdge

Spec == Init /\ [][Next]_vars
\* The clock does not stop.
FairSpec == Spec /\ WF_vars(Next)

-----------------------------------------------------------------------------
TypeOK ==
  /\ clk \in {"low", "high"} /\ reset \in BOOLEAN
  /\ stage \in Stage /\ instr \in Instr /\ busy \in BOOLEAN
  /\ Sr!SrTypeOK /\ cont \in BOOLEAN

AnsweredNow == clk = "low" /\ start /\ ~busy /\ ~reset

\* The word that the flash has at an address.
Nibble(a, i) == Content(8 * a + i)
FlashWord(a) ==
  [hi |-> [i \in 0 .. 3 |-> Nibble(a, 3 - i)], lo |-> [i \in 0 .. 3 |-> Nibble(a, 7 - i)]]

\* SPIreader.v:121-254, MemoryUnit.v:387-388,463-468.  While the reader has
\* the flash a load returns the word at its own address, whatever a reset or
\* an SPI3 session has left behind: the start-up sequence brings reader and
\* chip together again.
FlashRead ==
  AnsweredNow /\ Selected("FLASH") /\ ~enableSPI3 => q = FlashWord(address.cell)

\* SPIreader.v:70-79.  Reader and chip never drive the data pins together.
NoContention == ~enableSPI3 /\ Sr!write => io = Chip!NoOutput

\* Every load from flash is answered, unless a reset ends it.
FlashAnswered == start /\ Selected("FLASH") ~> reset \/ AnsweredNow
=============================================================================
