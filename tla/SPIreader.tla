------------------------------ MODULE SPIreader ------------------------------
(***************************************************************************)
(* Memory/SPIreader.v: reads words of 32 bits from the SPI flash, in quad  *)
(* mode with continuous read.  Both edges are those of spi_clk, which      *)
(* stands still while SPI3 has the flash (MemoryUnit.v:115-117).           *)
(*                                                                         *)
(* The four data pins are one number from 0 to 15; io0 is its lowest bit.  *)
(***************************************************************************)
EXTENDS Integers

VARIABLES phase, counter, initDone, recvDone, nibbles

srvars == <<phase, counter, initDone, recvDone, nibbles>>

NoNibbles == [n \in 0 .. 7 |-> 0]

SrInit ==
  /\ phase = 0 /\ counter = 0 /\ initDone = FALSE /\ nibbles = NoNibbles
  /\ recvDone \in BOOLEAN   \* recvDone has no initial value

\* What the reader drives.
write == phase \in {1, 3, 5}
cs == ~(phase \in {1, 3, 4, 5})
opcode == <<1, 1, 1, 0, 1, 0, 1, 1>>   \* EB
Weight == <<1048576, 65536, 4096, 256, 16, 1>>   \* the highest nibble goes first
AddressNibble(address) == ((4 * address) \div Weight[counter + 1]) % 16

io_out(address) ==
  CASE phase = 1 -> 14 + opcode[counter + 1]
    [] phase = 3 /\ counter < 6 -> AddressNibble(address)
    [] phase = 3 /\ counter = 6 -> 2   \* the bits that keep continuous read
    [] phase = 5 -> 1
    [] OTHER -> 0

\* The counter's last value in a phase, and the phase that follows.
LastCount_ShortReset ==
  [p \in 0 .. 6 |-> IF p = 3 THEN 11 ELSE IF p = 5 THEN 6 ELSE IF p \in {1, 4} THEN 7 ELSE 3]
LastCount_LongDummy ==
  [p \in 0 .. 6 |-> IF p = 3 THEN 12 ELSE IF p \in {1, 4, 5} THEN 7 ELSE 3]
LastCount ==
  [p \in 0 .. 6 |-> IF p = 3 THEN 11 ELSE IF p \in {1, 4, 5} THEN 7 ELSE 3]
NextPhase == <<5, 3, 1, 4, 2, 6, 1>>   \* phase 2 does not end with a count

\* Falling edge.
SrReset ==
  /\ phase' = 0 /\ counter' = 0 /\ initDone' = FALSE /\ recvDone' = FALSE

\* In phase 2 the reader waits, from the fifth edge on, for a start.
SrIdle(start) ==
  /\ phase = 2
  /\ initDone' = (initDone \/ counter = 4)
  /\ IF counter < 4 THEN counter' = counter + 1 /\ UNCHANGED phase
     ELSE IF start THEN counter' = 0 /\ phase' = 3
     ELSE UNCHANGED <<counter, phase>>

SrMove ==
  /\ phase # 2
  /\ IF counter = LastCount[phase]
     THEN counter' = 0 /\ phase' = NextPhase[phase + 1]
     ELSE counter' = counter + 1 /\ UNCHANGED phase
  /\ UNCHANGED initDone

recvDoneWire == initDone /\ phase = 2 /\ counter = 2

SrNeg(reset, start) ==
  /\ \/ reset /\ SrReset
     \/ ~reset /\ recvDone' = recvDoneWire /\ (SrIdle(start) \/ SrMove)
  /\ UNCHANGED nibbles

\* Rising edge.
SrPos(reset, io_in) ==
  /\ nibbles' = IF reset THEN NoNibbles
                ELSE IF phase = 4 THEN [nibbles EXCEPT ![counter] = io_in]
                ELSE nibbles
  /\ UNCHANGED <<phase, counter, initDone, recvDone>>

SrTypeOK ==
  /\ phase \in 0 .. 6 /\ counter \in 0 .. 11
  /\ initDone \in BOOLEAN /\ recvDone \in BOOLEAN
  /\ DOMAIN nibbles = 0 .. 7
=============================================================================
