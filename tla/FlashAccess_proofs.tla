------------------------- MODULE FlashAccess_proofs -------------------------
(***************************************************************************)
(* Proofs about FlashAccess: a load from flash returns the word at its     *)
(* address, and reader and flash never drive the pins together, for every  *)
(* program, every address and every content of the flash, with resets and  *)
(* SPI3 sessions at any time.                                              *)
(***************************************************************************)
EXTENDS FlashAccess, TLAPS

-----------------------------------------------------------------------------
(* The inductive invariant: where the flash is in each phase of the        *)
(* reader, after Clocks of its clocks.                                     *)

Clocks == IF clk = "high" THEN counter + 1 ELSE counter

Off == st = "off" /\ io = Chip!NoOutput
Takes(state, from) == st = state /\ n = Clocks - from

\* The first t nibbles of the address of a cell.
Top(a, t) == (4 * a) \div <<16777216, 1048576, 65536, 4096, 256, 16>>[t + 1]

\* Phase 0 finds the flash in either mode.  The eight clocks of phase 5 are an
\* unknown command in one mode, and an address and mode bits that end
\* continuous reads in the other.
Ones == <<0, 1, 3, 7, 15, 31, 63, 127>>
StartUp ==
  /\ phase = 0 => Off /\ counter \in 0 .. 3
  /\ phase = 5 =>
       /\ io = Chip!NoOutput /\ counter \in 0 .. 7
       /\ \/ ~cont /\ Clocks < 8 /\ Takes("opcode", 0) /\ acc = Ones[Clocks + 1]
          \/ ~cont /\ Clocks = 8 /\ st \in {"ignore", "dummy"}
          \/ cont /\ Clocks < 6 /\ Takes("address", 0) /\ (Clocks = 0 => acc = 0)
          \/ cont /\ Clocks \in {6, 7} /\ Takes("mode", 6) /\ acc = Clocks - 6
  /\ phase = 6 => Off /\ counter \in 0 .. 3 /\ ~cont

\* The command that starts continuous reads.
Prefix == <<0, 1, 3, 7, 14, 29, 58, 117>>
Command ==
  /\ io = Chip!NoOutput /\ counter \in 0 .. 7 /\ ~cont
  /\ Clocks < 8 => Takes("opcode", 0) /\ acc = Prefix[Clocks + 1]
  /\ Clocks = 8 => st = "address" /\ n = 0 /\ acc = 0

\* The address; but for the first, that of the access on the bus.
Address ==
  /\ io = Chip!NoOutput /\ counter \in 0 .. 11
  /\ Clocks < 6 => Takes("address", 0) /\ (initDone => acc = Top(address.cell, Clocks))
  /\ Clocks >= 6 /\ initDone => adr = 4 * address.cell
  /\ Clocks \in {6, 7} => Takes("mode", 6) /\ (Clocks = 6 => acc = 0) /\ (Clocks = 7 => acc = 2)
  /\ Clocks >= 8 => cont
  /\ Clocks \in 8 .. 11 => Takes("dummy", 8)
  /\ Clocks = 12 => st = "out" /\ n = 0

\* The word: nibble counter is on the pins.
Word ==
  /\ st = "out" /\ counter \in 0 .. 7 /\ n = counter + 1 /\ cont
  /\ initDone =>
       /\ adr = 4 * address.cell /\ io = Nibble(address.cell, counter)
       /\ \A i \in 0 .. Clocks - 1 : nibbles[i] = Nibble(address.cell, i)

Idle == Off /\ counter \in 0 .. 4 /\ cont

\* A reading for the access on the bus; the one before initDone is for none.
Reading == initDone /\ (phase \in {3, 4} \/ (phase = 2 /\ counter < 4))
HasWord == \A i \in 0 .. 7 : nibbles[i] = Nibble(address.cell, i)

Reader ==
  /\ StartUp
  /\ phase = 1 => Command
  /\ phase = 3 => Address
  /\ phase = 4 => Word
  /\ phase = 2 => Idle
  /\ phase \in {0, 1, 5, 6} => ~initDone
  /\ Reading => busy /\ Selected("FLASH")
  /\ Reading /\ phase = 2 => HasWord
  /\ recvDone => \/ initDone /\ phase = 2 /\ counter = 3
                 \/ ~busy /\ phase = 0

\* While SPI3 has the flash the reader stands, at rest or reset.
Session ==
  /\ \/ phase = 0 /\ counter = 0 /\ ~initDone
     \/ phase = 2 /\ counter = 4 /\ initDone /\ cont
  /\ ~recvDone /\ io = Chip!NoOutput /\ (spi_cs => st = "off")

Bus ==
  /\ busy => start
  /\ clk = "low" /\ reset => ~busy /\ ~enableSPI3 /\ ~Reading
  /\ TakesOver(instr) => initDone \/ (clk = "low" /\ reset)

Types ==
  /\ clk \in {"low", "high"} /\ stage \in Stage /\ instr \in Instr
  /\ phase \in 0 .. 6 /\ DOMAIN nibbles = 0 .. 7
Flags ==
  /\ reset \in BOOLEAN /\ busy \in BOOLEAN /\ enableSPI3 \in BOOLEAN
  /\ initDone \in BOOLEAN /\ recvDone \in BOOLEAN /\ cont \in BOOLEAN

IInv ==
  /\ Types /\ Flags /\ Bus
  /\ IF enableSPI3 THEN Session ELSE Reader
  /\ FlashRead

-----------------------------------------------------------------------------
(* The tables.                                                             *)

LEMMA Counts ==
  /\ LET L == Sr!LastCount IN
       L[0] = 3 /\ L[1] = 7 /\ L[3] = 11 /\ L[4] = 7 /\ L[5] = 7 /\ L[6] = 3
  /\ LET N == Sr!NextPhase IN
       N[1] = 5 /\ N[2] = 3 /\ N[4] = 4 /\ N[5] = 2 /\ N[6] = 6 /\ N[7] = 1
<1>1. /\ Sr!LastCount[0] = 3 /\ Sr!LastCount[6] = 3
      /\ Sr!LastCount[1] = 7 /\ Sr!LastCount[3] = 11
      /\ Sr!LastCount[4] = 7 /\ Sr!LastCount[5] = 7
  BY DEF Sr!LastCount
<1>2. /\ Sr!NextPhase[1] = 5 /\ Sr!NextPhase[2] = 3 /\ Sr!NextPhase[4] = 4
      /\ Sr!NextPhase[5] = 2 /\ Sr!NextPhase[6] = 6 /\ Sr!NextPhase[7] = 1
  BY DEF Sr!NextPhase
<1> QED BY <1>1, <1>2

LEMMA Opcode ==
  LET o == Sr!opcode IN
    o[1] = 1 /\ o[2] = 1 /\ o[3] = 1 /\ o[4] = 0 /\ o[5] = 1 /\ o[6] = 0 /\ o[7] = 1 /\ o[8] = 1
BY DEF Sr!opcode

LEMMA Bits ==
  /\ \A k \in 0 .. 6 : 2 * Ones[k + 1] + 1 = Ones[k + 2]
  /\ \A k \in 0 .. 6 : 2 * Prefix[k + 1] + ((14 + Sr!opcode[k + 1]) % 2) = Prefix[k + 2]
  /\ Ones[1] = 0 /\ Ones[8] = 127 /\ Prefix[1] = 0
  /\ 2 * Prefix[8] + ((14 + Sr!opcode[8]) % 2) = 235
<1>1. /\ Ones[1] = 0 /\ Ones[2] = 1 /\ Ones[3] = 3 /\ Ones[4] = 7
      /\ Ones[5] = 15 /\ Ones[6] = 31 /\ Ones[7] = 63 /\ Ones[8] = 127
  BY DEF Ones
<1>2. /\ Prefix[1] = 0 /\ Prefix[2] = 1 /\ Prefix[3] = 3 /\ Prefix[4] = 7
      /\ Prefix[5] = 14 /\ Prefix[6] = 29 /\ Prefix[7] = 58 /\ Prefix[8] = 117
  BY DEF Prefix
<1> QED BY <1>1, <1>2, Opcode

LEMMA AddressKnown ==
  ASSUME Types, Selected("FLASH") PROVE InFlash(address.cell)
<1>1. CASE stage = "fetch"
  BY <1>1, FlashAssumption DEF Types, Selected, address
<1>2. CASE stage = "writeBack"
  BY <1>2, FlashAssumption DEF Types, Selected, address
<1>3. CASE stage \notin {"fetch", "writeBack"}
  BY <1>3, FlashAssumption DEF Types, Selected, address
<1> QED BY <1>1, <1>2, <1>3

\* An address goes out nibble by nibble, and comes together again.
LEMMA Nibbles ==
  ASSUME InFlash(address.cell)
  PROVE  /\ Top(address.cell, 0) = 0
         /\ counter \in 0 .. 4 =>
              16 * Top(address.cell, counter) + Sr!AddressNibble(address.cell) = Top(address.cell, counter + 1)
         /\ counter = 5 => 16 * Top(address.cell, 5) + Sr!AddressNibble(address.cell) = 4 * address.cell
<1> DEFINE a == 4 * address.cell
<1>1. a \in Nat /\ a < 16777216
  BY SMT DEF InFlash
<1>2. /\ Top(address.cell, 0) = a \div 16777216 /\ Top(address.cell, 1) = a \div 1048576 /\ Top(address.cell, 2) = a \div 65536
      /\ Top(address.cell, 3) = a \div 4096 /\ Top(address.cell, 4) = a \div 256 /\ Top(address.cell, 5) = a \div 16
  BY SMT DEF Top
<1>3. /\ counter = 0 => Sr!AddressNibble(address.cell) = (a \div 1048576) % 16
      /\ counter = 1 => Sr!AddressNibble(address.cell) = (a \div 65536) % 16
      /\ counter = 2 => Sr!AddressNibble(address.cell) = (a \div 4096) % 16
      /\ counter = 3 => Sr!AddressNibble(address.cell) = (a \div 256) % 16
      /\ counter = 4 => Sr!AddressNibble(address.cell) = (a \div 16) % 16
      /\ counter = 5 => Sr!AddressNibble(address.cell) = (a \div 1) % 16
  BY SMT DEF Sr!AddressNibble, Sr!Weight
<1> HIDE DEF a
<1>4. a \div 16777216 = 0
  BY <1>1, SMT
<1>5. /\ 16 * (a \div 16777216) + ((a \div 1048576) % 16) = a \div 1048576
      /\ 16 * (a \div 1048576) + ((a \div 65536) % 16) = a \div 65536
      /\ 16 * (a \div 65536) + ((a \div 4096) % 16) = a \div 4096
      /\ 16 * (a \div 4096) + ((a \div 256) % 16) = a \div 256
      /\ 16 * (a \div 256) + ((a \div 16) % 16) = a \div 16
      /\ 16 * (a \div 16) + ((a \div 1) % 16) = a
  BY <1>1, SMT
<1>6. counter = 0 => 16 * Top(address.cell, 0) + Sr!AddressNibble(address.cell) = Top(address.cell, 1)
  BY <1>2, <1>3, <1>5, SMT
<1>7. counter = 1 => 16 * Top(address.cell, 1) + Sr!AddressNibble(address.cell) = Top(address.cell, 2)
  BY <1>2, <1>3, <1>5, SMT
<1>8. counter = 2 => 16 * Top(address.cell, 2) + Sr!AddressNibble(address.cell) = Top(address.cell, 3)
  BY <1>2, <1>3, <1>5, SMT
<1>9. counter = 3 => 16 * Top(address.cell, 3) + Sr!AddressNibble(address.cell) = Top(address.cell, 4)
  BY <1>2, <1>3, <1>5, SMT
<1>10. counter = 4 => 16 * Top(address.cell, 4) + Sr!AddressNibble(address.cell) = Top(address.cell, 5)
  BY <1>2, <1>3, <1>5, SMT
<1>11. counter = 5 => 16 * Top(address.cell, 5) + Sr!AddressNibble(address.cell) = 4 * address.cell
  BY <1>2, <1>3, <1>5, SMT DEF a
<1> QED BY <1>2, <1>4, <1>6, <1>7, <1>8, <1>9, <1>10, <1>11, SMT

-----------------------------------------------------------------------------
(* What the flash takes at a rising edge, command by command.              *)

LEMMA TakeOpcode ==
  ASSUME NEW pins, Chip!Take(pins), st = "opcode"
  PROVE  /\ adr' = adr /\ cont' = cont /\ io' = io
         /\ n < 7 => st' = st /\ n' = n + 1 /\ acc' = 2 * acc + (pins % 2)
         /\ ~(n < 7) =>
              /\ st' = IF 2 * acc + (pins % 2) = 235 THEN "address" ELSE "ignore"
              /\ n' = 0 /\ acc' = 0
<1>1. CASE n < 7
  BY <1>1 DEF Chip!Take
<1>2. CASE ~(n < 7)
  BY <1>2 DEF Chip!Take
<1> QED BY <1>1, <1>2

LEMMA TakeAddress ==
  ASSUME NEW pins, Chip!Take(pins), st = "address"
  PROVE  /\ cont' = cont /\ io' = io
         /\ n < 5 => st' = st /\ n' = n + 1 /\ acc' = 16 * acc + pins /\ adr' = adr
         /\ ~(n < 5) => st' = "mode" /\ n' = 0 /\ acc' = 0 /\ adr' = 16 * acc + pins
<1>1. CASE n < 5
  BY <1>1 DEF Chip!Take
<1>2. CASE ~(n < 5)
  BY <1>2 DEF Chip!Take
<1> QED BY <1>1, <1>2

LEMMA TakeMode ==
  ASSUME NEW pins, Chip!Take(pins), st = "mode"
  PROVE  /\ adr' = adr /\ io' = io
         /\ n < 1 => st' = st /\ n' = n + 1 /\ acc' = 16 * acc + pins /\ cont' = cont
         /\ ~(n < 1) => st' = "dummy" /\ n' = 0 /\ cont' \in BOOLEAN /\ (cont' <=> acc % 4 = 2)
<1>1. CASE n < 1
  BY <1>1 DEF Chip!Take
<1>2. CASE ~(n < 1)
  BY <1>2 DEF Chip!Take
<1> QED BY <1>1, <1>2

LEMMA TakeDummy ==
  ASSUME NEW pins, Chip!Take(pins), st = "dummy"
  PROVE  /\ adr' = adr /\ io' = io /\ cont' = cont
         /\ n < 3 => st' = st /\ n' = n + 1
         /\ ~(n < 3) => st' = "out" /\ n' = 0
<1>1. CASE n < 3
  BY <1>1 DEF Chip!Take
<1>2. CASE ~(n < 3)
  BY <1>2 DEF Chip!Take
<1> QED BY <1>1, <1>2

LEMMA TakeNothing ==
  ASSUME NEW pins, Chip!Take(pins), st \notin {"opcode", "address", "mode", "dummy"}
  PROVE  UNCHANGED Chip!chipvars
BY DEF Chip!Take, Chip!chipvars

-----------------------------------------------------------------------------
(* The rising edge.                                                        *)

LEMMA Pins ==
  /\ phase = 1 => spi_pins = 14 + Sr!opcode[counter + 1]
  /\ phase = 5 => spi_pins = 1
  /\ phase = 3 /\ counter < 6 => spi_pins = Sr!AddressNibble(sr_addr)
  /\ phase = 3 /\ counter = 6 => spi_pins = 2
<1>1. CASE phase = 1
  BY <1>1 DEF spi_pins, Sr!write, Sr!io_out
<1>2. CASE phase = 5
  BY <1>2 DEF spi_pins, Sr!write, Sr!io_out
<1>3. CASE phase = 3 /\ counter < 6
  BY <1>3 DEF spi_pins, Sr!write, Sr!io_out
<1>4. CASE phase = 3 /\ counter = 6
  BY <1>4 DEF spi_pins, Sr!write, Sr!io_out
<1> QED BY <1>1, <1>2, <1>3, <1>4

\* The bus holds while the unit is busy.
LEMMA BusPos ==
  ASSUME Types, Flags, Bus, PosEdge
  PROVE  /\ Bus' /\ Types' /\ Flags' /\ FlashRead'
         /\ clk = "low" /\ clk' = "high" /\ Clocks = counter /\ Clocks' = counter + 1
         /\ phase' = phase /\ counter' = counter
         /\ initDone' = initDone /\ recvDone' = recvDone
         /\ busy' = busy /\ enableSPI3' = enableSPI3 /\ q' = q /\ GPO' = GPO
         /\ busy => ~reset /\ stage' = stage /\ address' = address
         /\ ~enableSPI3 /\ Reading => ~reset
         /\ (spi_cs' <=> spi_cs)
<1>1. /\ clk = "low" /\ clk' = "high"
      /\ busy' = busy /\ enableSPI3' = enableSPI3 /\ q' = q /\ GPO' = GPO
      /\ phase' = phase /\ counter' = counter
      /\ initDone' = initDone /\ recvDone' = recvDone
  BY DEF PosEdge, muvars, reader, Sr!SrPos
<1>2. ~enableSPI3 /\ Reading => ~reset
  BY <1>1 DEF Bus
<1>3. busy => ~reset
  BY <1>1 DEF Bus
<1>4. busy => stage' = stage /\ instr' = instr /\ start
  BY <1>3 DEF PosEdge, Bus, start, CpuPos, TimerStep, BusStage, Types
<1>5. busy => start' /\ address' = address
  BY <1>4 DEF start, address
<1>6. CpuPos(busy, reset) /\ ((TakesOver(instr') /\ instr' # instr) => initDone)
  BY DEF PosEdge
<1>7. stage' \in Stage /\ instr' \in Instr
  <2>1. stage' = TimerStep(stage, busy, reset)
    BY <1>6 DEF CpuPos
  <2>2. stage' \in Stage
    BY <2>1 DEF Types, TimerStep, StageAfter, Stage
  <2>3. instr' \in Instr
    BY <1>6, InstrAssumption DEF CpuPos, Types
  <2> QED BY <2>2, <2>3
<1>8. TakesOver(instr') => initDone'
  <2>1. CASE instr' # instr
    BY <1>1, <1>6, <2>1
  <2>2. CASE instr' = instr /\ ~reset
    BY <1>1, <2>2 DEF Bus
  <2>3. CASE reset
    <3>1. stage' = "init"
      BY <1>6, <2>3 DEF CpuPos, TimerStep
    <3>2. instr' = NoInstr
      BY <1>6, <3>1 DEF CpuPos
    <3> QED BY <3>2, InstrAssumption DEF TakesOver
  <2> QED BY <2>1, <2>2, <2>3
<1>9. Bus'
  BY <1>1, <1>5, <1>8 DEF Bus
<1>10. cont' \in BOOLEAN
  <2>1. CASE UNCHANGED cont
    BY <2>1 DEF Flags
  <2>2. CASE Chip!Take(spi_pins)
    <3>1. CASE st = "opcode"
      BY <2>2, <3>1, TakeOpcode DEF Flags
    <3>2. CASE st = "address"
      BY <2>2, <3>2, TakeAddress DEF Flags
    <3>3. CASE st = "mode"
      BY <2>2, <3>3, TakeMode DEF Flags
    <3>4. CASE st = "dummy"
      BY <2>2, <3>4, TakeDummy DEF Flags
    <3>5. CASE st \notin {"opcode", "address", "mode", "dummy"}
      BY <2>2, <3>5, TakeNothing DEF Flags, Chip!chipvars
    <3> QED BY <3>1, <3>2, <3>3, <3>4, <3>5
  <2> QED BY <2>1, <2>2 DEF PosEdge, chip
<1>11. Flags'
  BY <1>1, <1>10 DEF Flags, PosEdge
<1>12. DOMAIN nibbles' = 0 .. 7
  <2>1. CASE UNCHANGED nibbles
    BY <2>1 DEF Types
  <2>2. CASE Sr!SrPos(sr_reset, io)
    BY <2>2 DEF Sr!SrPos, Sr!NoNibbles, Types
  <2> QED BY <2>1, <2>2 DEF PosEdge, reader
<1>13. Types'
  BY <1>1, <1>7, <1>12 DEF Types
<1>14. Clocks = counter /\ Clocks' = counter + 1
  BY <1>1 DEF Clocks
<1>15. FlashRead'
  BY <1>1 DEF FlashRead, AnsweredNow
<1>16. spi_cs' <=> spi_cs
  BY <1>1 DEF spi_cs, Sr!cs
<1> QED BY <1>1, <1>2, <1>3, <1>4, <1>5, <1>9, <1>11, <1>13, <1>14, <1>15, <1>16

LEMMA SessionPos ==
  ASSUME Types, Flags, Bus, Session, enableSPI3, PosEdge PROVE Session'
<1>1. UNCHANGED <<reader, chip>>
  BY DEF PosEdge
<1> QED BY <1>1, BusPos DEF Session, reader, chip

LEMMA StartUpPos ==
  ASSUME Types, Flags, Bus, StartUp, ~enableSPI3, phase \in {0, 5, 6}, PosEdge
  PROVE  StartUp'
<1>1. IF spi_cs THEN UNCHANGED chip ELSE Chip!Take(spi_pins)
  BY DEF PosEdge
<1>2. spi_cs <=> phase # 5
  BY DEF spi_cs, Sr!cs
<1>3. CASE phase # 5
  BY <1>1, <1>2, <1>3, BusPos DEF StartUp, Off, chip
<1>4. CASE phase = 5
  <2>1. Chip!Take(1)
    BY <1>1, <1>2, <1>4, Pins
  <2>2. counter \in 0 .. 7 /\ io = Chip!NoOutput
    BY <1>4 DEF StartUp
  <2>3. CASE ~cont /\ Takes("opcode", 0) /\ acc = Ones[counter + 1]
    <3>1. st = "opcode" /\ n = counter
      BY <2>2, <2>3, BusPos DEF Takes
    <3>2. io' = io /\ ~cont'
      BY <2>1, <2>3, <3>1, TakeOpcode
    <3>3. CASE counter < 7
      <4>1. st' = "opcode" /\ n' = counter + 1 /\ acc' = 2 * acc + 1
        BY <2>1, <3>1, <3>3, TakeOpcode
      <4>2. acc' = Ones[counter + 2]
        BY <2>2, <2>3, <3>3, <4>1, Bits
      <4> QED BY <1>4, <2>2, <3>2, <3>3, <4>1, <4>2, BusPos DEF StartUp, Takes
    <3>4. CASE counter = 7
      <4>1. st' = "ignore"
        BY <2>1, <2>3, <3>1, <3>4, TakeOpcode, Bits
      <4> QED BY <1>4, <2>2, <3>2, <3>4, <4>1, BusPos DEF StartUp
    <3> QED BY <2>2, <3>3, <3>4
  <2>4. CASE cont /\ counter < 6 /\ Takes("address", 0)
    <3>1. st = "address" /\ n = counter
      BY <2>2, <2>4, BusPos DEF Takes
    <3>2. io' = io /\ cont'
      BY <2>1, <2>4, <3>1, TakeAddress
    <3>3. CASE counter < 5
      <4>1. st' = "address" /\ n' = counter + 1
        BY <2>1, <3>1, <3>3, TakeAddress
      <4> QED BY <1>4, <2>2, <3>2, <3>3, <4>1, BusPos DEF StartUp, Takes
    <3>4. CASE counter = 5
      <4>1. st' = "mode" /\ n' = 0 /\ acc' = 0
        BY <2>1, <3>1, <3>4, TakeAddress
      <4> QED BY <1>4, <2>2, <3>2, <3>4, <4>1, BusPos DEF StartUp, Takes
    <3> QED BY <2>2, <2>4, <3>3, <3>4
  <2>5. CASE cont /\ counter \in {6, 7} /\ Takes("mode", 6) /\ acc = counter - 6
    <3>1. st = "mode" /\ n = counter - 6
      BY <2>2, <2>5, BusPos DEF Takes
    <3>2. io' = io
      BY <2>1, <3>1, TakeMode
    <3>3. CASE counter = 6
      <4>1. acc = 0 /\ n < 1
        BY <2>5, <3>1, <3>3
      <4>2. st' = "mode" /\ n' = n + 1 /\ acc' = 16 * acc + 1 /\ cont' = cont
        BY <2>1, <3>1, <4>1, TakeMode
      <4>3. cont'
        BY <2>5, <4>2
      <4>4. n' = 1 /\ acc' = 1
        BY <3>1, <3>3, <4>1, <4>2
      <4> QED BY <1>4, <2>2, <3>2, <3>3, <4>2, <4>3, <4>4, BusPos DEF StartUp, Takes
    <3>4. CASE counter = 7
      <4>1. acc = 1 /\ ~(n < 1)
        BY <2>5, <3>1, <3>4
      <4>2. st' = "dummy" /\ (cont' <=> acc % 4 = 2)
        BY <2>1, <3>1, <4>1, TakeMode
      <4>3. ~cont'
        BY <4>1, <4>2
      <4> QED BY <1>4, <2>2, <3>2, <3>4, <4>2, <4>3, BusPos DEF StartUp
    <3> QED BY <2>5, <3>3, <3>4
  <2> QED BY <1>4, <2>2, <2>3, <2>4, <2>5, BusPos DEF StartUp
<1> QED BY <1>3, <1>4

LEMMA CommandPos ==
  ASSUME Types, Flags, Bus, Command, ~enableSPI3, phase = 1, PosEdge
  PROVE  Command'
<1>1. Chip!Take(14 + Sr!opcode[counter + 1])
  BY Pins DEF PosEdge, spi_cs, Sr!cs
<1>2. /\ counter \in 0 .. 7 /\ io = Chip!NoOutput /\ ~cont
      /\ st = "opcode" /\ n = counter /\ acc = Prefix[counter + 1]
  BY BusPos DEF Command, Takes
<1>3. io' = io /\ ~cont'
  BY <1>1, <1>2, TakeOpcode
<1>4. CASE counter < 7
  <2>1. st' = "opcode" /\ n' = counter + 1
        /\ acc' = 2 * acc + ((14 + Sr!opcode[counter + 1]) % 2)
    BY <1>1, <1>2, <1>4, TakeOpcode
  <2>2. acc' = Prefix[counter + 2]
    BY <1>2, <1>4, <2>1, Bits
  <2> QED BY <1>2, <1>3, <1>4, <2>1, <2>2, BusPos DEF Command, Takes
<1>5. CASE counter = 7
  <2>1. st' = "address" /\ n' = 0 /\ acc' = 0
    BY <1>1, <1>2, <1>5, TakeOpcode, Bits
  <2> QED BY <1>2, <1>3, <1>5, <2>1, BusPos DEF Command
<1> QED BY <1>2, <1>4, <1>5

LEMMA AddressPos ==
  ASSUME Types, Flags, Bus, Reader, ~enableSPI3, phase = 3, PosEdge
  PROVE  Address'
<1>1. Chip!Take(spi_pins)
  BY DEF PosEdge, spi_cs, Sr!cs
<1>2. Address /\ counter \in 0 .. 11 /\ io = Chip!NoOutput
  BY DEF Reader, Address
<1>3. ASSUME initDone
      PROVE  address' = address /\ sr_addr = address.cell /\ InFlash(address.cell)
  BY <1>3, AddressKnown, BusPos DEF Reader, Reading, sr_addr
<1>4. CASE counter < 6
  <2>1. st = "address" /\ n = counter /\ (initDone => acc = Top(address.cell, counter))
    BY <1>2, <1>4, BusPos DEF Address, Takes
  <2>2. io' = io /\ counter \in 0 .. 5
    BY <1>1, <1>2, <1>4, <2>1, TakeAddress
  <2>3. spi_pins = Sr!AddressNibble(sr_addr)
    BY <1>4, Pins
  <2>4. CASE counter < 5
    <3>1. st' = "address" /\ n' = counter + 1 /\ acc' = 16 * acc + spi_pins
      BY <1>1, <2>1, <2>4, TakeAddress
    <3>2. initDone => acc' = Top(address.cell, counter + 1)
      BY <1>3, <2>1, <2>2, <2>3, <2>4, <3>1, Nibbles
    <3> QED BY <1>2, <1>3, <2>2, <2>4, <3>1, <3>2, BusPos DEF Address, Takes
  <2>5. CASE counter = 5
    <3>1. st' = "mode" /\ n' = 0 /\ acc' = 0 /\ adr' = 16 * acc + spi_pins
      BY <1>1, <2>1, <2>5, TakeAddress
    <3>2. initDone => adr' = 4 * address.cell
      BY <1>3, <2>1, <2>3, <2>5, <3>1, Nibbles
    <3> QED BY <1>2, <1>3, <2>2, <2>5, <3>1, <3>2, BusPos DEF Address, Takes
  <2> QED BY <2>2, <2>4, <2>5
<1>5. CASE counter \in {6, 7}
  <2>1. st = "mode" /\ n = counter - 6 /\ (initDone => adr = 4 * address.cell)
    BY <1>2, <1>5, BusPos DEF Address, Takes
  <2>2. io' = io /\ adr' = adr
    BY <1>1, <2>1, TakeMode
  <2>3. CASE counter = 6
    <3>1. acc = 0 /\ n < 1 /\ spi_pins = 2
      BY <1>2, <2>1, <2>3, BusPos, Pins DEF Address
    <3>2. st' = "mode" /\ n' = n + 1 /\ acc' = 16 * acc + 2
      BY <1>1, <2>1, <3>1, TakeMode
    <3>3. n' = 1 /\ acc' = 2
      BY <2>1, <2>3, <3>1, <3>2
    <3> QED BY <1>2, <1>3, <2>1, <2>2, <2>3, <3>2, <3>3, BusPos DEF Address, Takes
  <2>4. CASE counter = 7
    <3>1. acc = 2 /\ ~(n < 1)
      BY <1>2, <2>1, <2>4, BusPos DEF Address
    <3>2. st' = "dummy" /\ n' = 0 /\ (cont' <=> acc % 4 = 2)
      BY <1>1, <2>1, <3>1, TakeMode
    <3>3. cont'
      BY <3>1, <3>2
    <3> QED BY <1>2, <1>3, <2>1, <2>2, <2>4, <3>2, <3>3, BusPos DEF Address, Takes
  <2> QED BY <1>5, <2>3, <2>4
<1>6. CASE counter \in 8 .. 11
  <2>1. st = "dummy" /\ n = counter - 8
    BY <1>2, <1>6, BusPos DEF Address, Takes
  <2>2. io' = io /\ adr' = adr /\ cont' = cont
    BY <1>1, <2>1, TakeDummy
  <2>5. cont /\ (initDone => adr = 4 * address.cell)
    BY <1>2, <1>6, BusPos DEF Address
  <2>3. CASE counter < 11
    <3>1. st' = "dummy" /\ n' = n + 1
      BY <1>1, <2>1, <2>3, <1>6, TakeDummy
    <3> QED BY <1>2, <1>3, <1>6, <2>1, <2>2, <2>3, <2>5, <3>1, BusPos DEF Address, Takes
  <2>4. CASE counter = 11
    <3>1. st' = "out" /\ n' = 0
      BY <1>1, <2>1, <2>4, TakeDummy
    <3> QED BY <1>2, <1>3, <2>1, <2>2, <2>4, <2>5, <3>1, BusPos DEF Address
  <2> QED BY <1>6, <2>3, <2>4
<1> QED BY <1>2, <1>4, <1>5, <1>6

LEMMA WordPos ==
  ASSUME Types, Flags, Bus, Reader, ~enableSPI3, phase = 4, PosEdge
  PROVE  Word'
<1>1. Word
  BY DEF Reader
<1>2. UNCHANGED Chip!chipvars
  BY <1>1, TakeNothing DEF PosEdge, spi_cs, Sr!cs, Word
<1>3. Sr!SrPos(sr_reset, io)
  BY DEF PosEdge
<1>4. ASSUME initDone
      PROVE  /\ address' = address
             /\ \A i \in 0 .. counter : nibbles'[i] = Nibble(address.cell, i)
  <2>1. address' = address /\ ~reset
    BY <1>4, BusPos DEF Reader, Reading
  <2>2. nibbles' = [nibbles EXCEPT ![counter] = io]
    BY <1>3, <2>1 DEF Sr!SrPos, sr_reset
  <2>3. /\ counter \in 0 .. 7 /\ io = Nibble(address.cell, counter)
        /\ \A i \in 0 .. counter - 1 : nibbles[i] = Nibble(address.cell, i)
    BY <1>1, <1>4, BusPos DEF Word
  <2>4. DOMAIN nibbles = 0 .. 7
    BY DEF Types
  <2> QED BY <2>1, <2>2, <2>3, <2>4
<1> QED BY <1>1, <1>2, <1>4, BusPos DEF Word, Chip!chipvars

LEMMA ReaderPos ==
  ASSUME Types, Flags, Bus, Reader, ~enableSPI3, PosEdge
  PROVE  Reader'
<1>1. StartUp'
  <2>1. CASE phase \in {0, 5, 6}
    BY <2>1, StartUpPos DEF Reader
  <2>2. CASE phase \notin {0, 5, 6}
    BY <2>2, BusPos DEF StartUp
  <2> QED BY <2>1, <2>2
<1>2. phase = 1 => Command'
  BY CommandPos DEF Reader
<1>3. phase = 3 => Address'
  BY AddressPos
<1>4. phase = 4 => Word'
  BY WordPos
<1>5. phase = 2 => Idle'
  <2>1. phase = 2 => UNCHANGED chip
    BY DEF PosEdge, spi_cs, Sr!cs
  <2> QED BY <2>1, BusPos DEF Reader, Idle, Off, chip
<1>6. Reading => address' = address /\ busy
  BY BusPos DEF Reader
<1>7. Reading' <=> Reading
  BY BusPos DEF Reading
<1>8. Reading => Selected("FLASH")'
  BY <1>6 DEF Reader, Selected
<1>9. Reading /\ phase = 2 => HasWord'
  <2>1. Reading /\ phase = 2 => ~reset
    BY BusPos
  <2>2. Reading /\ phase = 2 => nibbles' = nibbles
    BY <2>1 DEF PosEdge, Sr!SrPos, sr_reset
  <2> QED BY <1>6, <2>2 DEF Reader, HasWord
<1> QED BY <1>1, <1>2, <1>3, <1>4, <1>5, <1>6, <1>7, <1>8, <1>9, BusPos DEF Reader

LEMMA PosIInv == ASSUME IInv, PosEdge PROVE IInv'
<1>1. CASE enableSPI3
  BY <1>1, BusPos, SessionPos DEF IInv
<1>2. CASE ~enableSPI3
  BY <1>2, BusPos, ReaderPos DEF IInv
<1> QED BY <1>1, <1>2

-----------------------------------------------------------------------------
(* The falling edge.                                                       *)

LEMMA BusStands ==
  ASSUME NegEdge
  PROVE  /\ clk = "high" /\ clk' = "low" /\ reset' = reset
         /\ stage' = stage /\ instr' = instr
         /\ start' = start /\ address' = address
         /\ Clocks = counter + 1 /\ Clocks' = counter'
         /\ \A r : Selected(r)' <=> Selected(r)
<1>1. /\ clk = "high" /\ clk' = "low" /\ reset' = reset /\ stage' = stage /\ instr' = instr
  BY DEF NegEdge, cpuvars
<1>2. start' = start /\ address' = address
  BY <1>1 DEF start, address
<1> QED BY <1>1, <1>2 DEF Clocks, Selected

\* The memory unit without a reset.
LEMMA UnitNeg ==
  ASSUME Flags, Bus, NegEdge, ~reset
  PROVE  /\ busy' => start
         /\ address.r # "SPI3_ENABLE" => enableSPI3' = enableSPI3
         /\ enableSPI3' /\ ~enableSPI3 =>
              we /\ address.r = "SPI3_ENABLE" /\ data(q).lo[0] = 1
         /\ address.r # "GPIO" => GPO' = GPO
         /\ start /\ ~(busy /\ Ready(address.r, Dev)) => busy'
         /\ start /\ ~busy' =>
              busy /\ Ready(address.r, Dev) /\ q' = Answer(address.r, data(q), Dev)
<1>1. \/ Finish(address.r, we, data(q), Dev)
      \/ Wait(start, address.r, Dev)
  BY DEF NegEdge, MuNeg
<1>2. CASE Finish(address.r, we, data(q), Dev)
  BY <1>2 DEF Finish, Flags
<1>3. CASE Wait(start, address.r, Dev)
  <2>1. /\ ~(busy /\ Ready(address.r, Dev)) /\ (busy' <=> busy \/ start)
        /\ q' = q /\ GPO' = GPO /\ enableSPI3' = enableSPI3
    BY <1>3 DEF Wait
  <2> QED BY <2>1 DEF Bus
<1> QED BY <1>1, <1>2, <1>3

LEMMA FlashReady ==
  address.r = "FLASH" =>
    /\ Ready(address.r, Dev) <=> recvDone \/ enableSPI3
    /\ Answer(address.r, data(q), Dev) = sr_q
<1> SUFFICES ASSUME address.r = "FLASH"
             PROVE  /\ Ready(address.r, Dev) <=> recvDone \/ enableSPI3
                    /\ Answer(address.r, data(q), Dev) = sr_q
  OBVIOUS
<1>1. Dev.sr_recvDone = recvDone /\ Dev.sr_q = sr_q
  BY DEF Dev
<1>2. Ready(address.r, Dev) = (Dev.sr_recvDone \/ enableSPI3)
  BY DEF Ready
<1>3. Answer(address.r, data(q), Dev) = Dev.sr_q
  BY DEF Answer
<1> QED BY <1>1, <1>2, <1>3

LEMMA TakenOver ==
  /\ we /\ address.r = "SPI3_ENABLE" /\ data(q).lo[0] = 1 => TakesOver(instr)
  /\ Transfer => ~TakesOver(instr) /\ address.r = "SPI"
<1>1. we => address = instr.to /\ instr.op \in {"WRITE", "COPY"}
  BY DEF we, address
<1>2. we /\ instr.op = "WRITE" => data(q) = instr.d
  BY DEF data
<1> QED BY <1>1, <1>2 DEF TakesOver, Transfer, Selected

LEMMA TypesNeg ==
  ASSUME Types, Flags, NegEdge PROVE DOMAIN nibbles' = 0 .. 7 /\ Flags'
<1>1. DOMAIN nibbles' = 0 .. 7
  BY DEF Types, NegEdge, ReaderNeg, reader, Sr!NoNibbles, Sr!SrNeg
<1>2. busy' \in BOOLEAN /\ enableSPI3' \in BOOLEAN /\ reset' \in BOOLEAN
  <2>1. CASE MuReset
    BY <2>1 DEF NegEdge, MuReset, Flags
  <2>2. CASE Finish(address.r, we, data(q), Dev)
    <3>1. (data(q).lo[0] = 1) \in BOOLEAN
      OBVIOUS
    <3> QED BY <2>2, <3>1, Zenon DEF NegEdge, Finish, Flags
  <2>3. CASE Wait(start, address.r, Dev)
    BY <2>3, Zenon DEF NegEdge, Wait, Flags
  <2> QED BY <2>1, <2>2, <2>3 DEF NegEdge, MuNeg
<1>3. initDone' \in BOOLEAN /\ recvDone' \in BOOLEAN
  <2>1. CASE Sr!SrReset
    BY <2>1 DEF Sr!SrReset
  <2>2. CASE UNCHANGED reader
    BY <2>2 DEF reader, Flags
  <2>3. CASE recvDone' = Sr!recvDoneWire /\ (Sr!SrIdle(sr_start) \/ Sr!SrMove)
    <3>1. Sr!recvDoneWire \in BOOLEAN /\ (initDone \/ counter = 4) \in BOOLEAN
      BY DEF Sr!recvDoneWire
    <3> QED BY <2>3, <3>1, Zenon DEF Sr!SrIdle, Sr!SrMove, Flags
  <2> QED BY <2>1, <2>2, <2>3 DEF NegEdge, ReaderNeg, Sr!SrNeg
<1>4. cont' \in BOOLEAN
  BY DEF NegEdge, ChipNeg, Chip!Deselect, Chip!Select, Chip!OtherCommand, Chip!Give,
     Chip!chipvars, chip, Flags
<1> QED BY <1>1, <1>2, <1>3, <1>4 DEF Flags

\* Whatever was selected, a select line that ends high leaves the chip off.
LEMMA EndsHigh ==
  ASSUME NegEdge, ~Transfer, spi_cs', spi_cs => Off
  PROVE  Off' /\ cont' = cont
<1>1. CASE spi_cs
  BY <1>1 DEF NegEdge, ChipNeg, chip, Off
<1>2. CASE ~spi_cs
  BY <1>2 DEF NegEdge, ChipNeg, Chip!Deselect, Off
<1> QED BY <1>1, <1>2

\* SPI3 gives the flash back, by a store or by a reset.
LEMMA SessionEnds ==
  ASSUME Types, Flags, Bus, Session, enableSPI3, NegEdge, ~enableSPI3', ~Transfer
  PROVE  Reader'
<1>1. UNCHANGED reader
  BY DEF NegEdge, ReaderNeg
<1>2. spi_cs'
  BY <1>1 DEF Session, spi_cs, Sr!cs, reader
<1>3. Off' /\ cont' = cont
  BY <1>2, EndsHigh DEF Session, Off
<1> QED BY <1>1, <1>3 DEF Session, Reader, StartUp, Idle, Reading, reader

LEMMA SessionStays ==
  ASSUME Types, Flags, Bus, Session, enableSPI3, NegEdge, ~reset, enableSPI3'
  PROVE  Session'
<1>1. CASE Transfer
  <2>1. address.r = "SPI"
    BY <1>1, TakenOver
  <2>2. GPO' = GPO
    BY <2>1, UnitNeg
  <2>3. spi_cs' <=> spi_cs
    BY <2>2 DEF spi_cs
  <2>4. phase' = 0 /\ counter' = 0 /\ ~initDone' /\ ~recvDone'
    BY <1>1 DEF NegEdge, ReaderNeg, Sr!SrReset
  <2>5. io' = Chip!NoOutput /\ (spi_cs => st' = "off")
    BY <1>1, <2>3 DEF NegEdge, ChipNeg, Chip!OtherCommand, chip, Session
  <2> QED BY <2>3, <2>4, <2>5 DEF Session
<1>2. CASE ~Transfer
  <2>1. UNCHANGED reader
    BY <1>2 DEF NegEdge, ReaderNeg
  <2>2. io' = Chip!NoOutput /\ (spi_cs' => st' = "off") /\ cont' = cont
    BY <1>2 DEF NegEdge, ChipNeg, Chip!Select, Chip!Deselect, chip, Session
  <2> QED BY <2>1, <2>2 DEF Session, reader
<1> QED BY <1>1, <1>2

LEMMA ResetNeg == ASSUME IInv, NegEdge, reset PROVE IInv'
<1>1. ~busy' /\ ~enableSPI3' /\ ~Transfer
  BY DEF NegEdge, MuNeg, MuReset, Transfer
<1>2. Reader'
  <2>1. CASE enableSPI3
    BY <1>1, <2>1, SessionEnds DEF IInv
  <2>2. CASE ~enableSPI3
    <3>1. phase' = 0 /\ counter' = 0 /\ ~initDone' /\ ~recvDone'
      BY <1>1, <2>2 DEF NegEdge, ReaderNeg, sr_reset, Sr!SrNeg, Sr!SrReset
    <3>2. spi_cs' /\ (spi_cs <=> phase \notin {1, 3, 4, 5})
      BY <1>1, <2>2, <3>1 DEF spi_cs, Sr!cs
    <3>3. spi_cs => Off
      BY <2>2, <3>2 DEF IInv, Types, Reader, StartUp, Idle
    <3>4. Off'
      BY <1>1, <3>2, <3>3, EndsHigh DEF Off
    <3> QED BY <1>1, <3>1, <3>4 DEF Reader, StartUp, Reading
  <2> QED BY <2>1, <2>2
<1>3. phase' \in {0, 2} /\ ~Reading'
  <2>1. CASE enableSPI3
    BY <1>1, <2>1 DEF IInv, Session, Reading, NegEdge, ReaderNeg, reader
  <2>2. CASE ~enableSPI3
    BY <1>1, <2>2 DEF NegEdge, ReaderNeg, sr_reset, Sr!SrNeg, Sr!SrReset, Reading
  <2> QED BY <2>1, <2>2
<1>4. Bus'
  BY <1>1, <1>3, BusStands DEF IInv, Bus
<1>5. Types' /\ Flags'
  BY <1>3, BusStands, TypesNeg DEF IInv, Types
<1>6. FlashRead'
  BY BusStands DEF FlashRead, AnsweredNow
<1> QED BY <1>1, <1>2, <1>4, <1>5, <1>6 DEF IInv

\* The reader's own falling edge.
LEMMA ReaderMoves ==
  ASSUME NegEdge, ~reset, ~enableSPI3
  PROVE  /\ nibbles' = nibbles /\ (recvDone' <=> initDone /\ phase = 2 /\ counter = 2)
         /\ phase # 2 =>
              /\ initDone' = initDone
              /\ phase' = IF counter = Sr!LastCount[phase] THEN Sr!NextPhase[phase + 1] ELSE phase
              /\ counter' = IF counter = Sr!LastCount[phase] THEN 0 ELSE counter + 1
         /\ phase = 2 =>
              /\ initDone' <=> initDone \/ counter = 4
              /\ counter < 4 => phase' = 2 /\ counter' = counter + 1
              /\ ~(counter < 4) /\ sr_start => phase' = 3 /\ counter' = 0
              /\ ~(counter < 4) /\ ~sr_start => phase' = 2 /\ counter' = counter
<1>1. /\ nibbles' = nibbles /\ (recvDone' <=> Sr!recvDoneWire)
      /\ Sr!SrIdle(sr_start) \/ Sr!SrMove
  BY DEF NegEdge, ReaderNeg, Transfer, sr_reset, Sr!SrNeg
<1>2. phase = 2 => Sr!SrIdle(sr_start)
  BY <1>1 DEF Sr!SrMove
<1>3. phase # 2 => Sr!SrMove
  BY <1>1 DEF Sr!SrIdle
<1>4. phase # 2 =>
        /\ initDone' = initDone
        /\ phase' = IF counter = Sr!LastCount[phase] THEN Sr!NextPhase[phase + 1] ELSE phase
        /\ counter' = IF counter = Sr!LastCount[phase] THEN 0 ELSE counter + 1
  BY <1>3 DEF Sr!SrMove
<1>5. phase = 2 => (initDone' <=> initDone \/ counter = 4)
  BY <1>2 DEF Sr!SrIdle
<1>6. phase = 2 =>
        /\ counter < 4 => phase' = 2 /\ counter' = counter + 1
        /\ ~(counter < 4) /\ sr_start => phase' = 3 /\ counter' = 0
        /\ ~(counter < 4) /\ ~sr_start => phase' = 2 /\ counter' = counter
  BY <1>2 DEF Sr!SrIdle
<1> QED BY <1>1, <1>4, <1>5, <1>6 DEF Sr!recvDoneWire

\* SPI3 takes the flash, which is at rest then.
LEMMA SessionBegins ==
  ASSUME IInv, NegEdge, ~reset, ~enableSPI3, enableSPI3'
  PROVE  Session' /\ initDone'
<1>1. we /\ address.r = "SPI3_ENABLE" /\ initDone
  BY UnitNeg, TakenOver, BusStands DEF IInv, Bus
<1>2. phase = 2 /\ counter = 4 /\ Off /\ cont
  BY <1>1 DEF IInv, Types, Reader, Reading, Idle, Selected
<1>3. ~sr_start
  BY <1>1 DEF sr_start, Selected
<1>4. phase' = 2 /\ counter' = 4 /\ initDone' /\ ~recvDone'
  BY <1>2, <1>3, ReaderMoves
<1>5. spi_cs
  BY <1>2 DEF spi_cs, Sr!cs
<1>6. io' = Chip!NoOutput /\ cont' = cont /\ (spi_cs' => st' = "off")
  BY <1>2, <1>5 DEF NegEdge, ChipNeg, Transfer, Chip!Select, chip, Off
<1> QED BY <1>2, <1>4, <1>6 DEF Session

\* What the chip does then: it is selected, it stays, it gives, it is deselected.
LEMMA ChipMoves ==
  ASSUME NegEdge, ~enableSPI3, ~enableSPI3'
  PROVE  LET sel == phase \in {1, 3, 4, 5} IN
         /\ ~sel /\ phase' \in {1, 3, 4, 5} => Chip!Select
         /\ ~sel /\ phase' \notin {1, 3, 4, 5} => UNCHANGED chip
         /\ sel /\ phase' \in {1, 3, 4, 5} /\ st = "out" =>
              /\ io' = Content(2 * adr + n) /\ n' = (n + 1) % 16
              /\ st' = st /\ acc' = acc /\ adr' = adr /\ cont' = cont
         /\ sel /\ phase' \in {1, 3, 4, 5} /\ st # "out" => UNCHANGED chip
         /\ sel /\ phase' \notin {1, 3, 4, 5} => Chip!Deselect
<1>1. /\ spi_cs <=> phase \notin {1, 3, 4, 5}
      /\ spi_cs' <=> phase' \notin {1, 3, 4, 5}
      /\ ~Transfer
  BY DEF spi_cs, Sr!cs, Transfer
<1>2. CASE spi_cs
  BY <1>1, <1>2 DEF NegEdge, ChipNeg
<1>3. CASE ~spi_cs
  <2>1. CASE spi_cs'
    BY <1>1, <1>3, <2>1 DEF NegEdge, ChipNeg
  <2>2. CASE ~spi_cs'
    <3>1. Chip!Give
      <4>1. spi_cs \in BOOLEAN /\ spi_cs' \in BOOLEAN
        BY DEF spi_cs, Sr!cs
      <4> QED BY <1>1, <1>3, <2>2, <4>1, Zenon DEF NegEdge, ChipNeg
    <3> QED BY <1>1, <1>3, <2>2, <3>1 DEF Chip!Give, Chip!chipvars, chip
  <2> QED BY <2>1, <2>2
<1> QED BY <1>2, <1>3

LEMMA StartUpNeg ==
  ASSUME Types, Flags, Reader, NegEdge, ~reset, ~enableSPI3, ~enableSPI3', phase \in {0, 5, 6}
  PROVE  StartUp' /\ (phase' = 1 => Command') /\ phase' \in {0, 1, 5, 6} /\ ~initDone'
<1> USE Counts
<1>1. initDone' = initDone /\ ~initDone /\ StartUp /\ Clocks = counter + 1 /\ Clocks' = counter'
  BY ReaderMoves, BusStands DEF Reader
<1>2. CASE phase = 0
  <2>1. Off /\ counter \in 0 .. 3
    BY <1>1, <1>2 DEF StartUp
  <2>2. CASE counter = 3
    <3>1. phase' = 5 /\ counter' = 0
      BY <1>2, <2>2, ReaderMoves
    <3>2. Chip!Select
      BY <1>2, <3>1, ChipMoves
    <3>3. /\ st' = IF cont THEN "address" ELSE "opcode"
          /\ n' = 0 /\ acc' = 0 /\ io' = io /\ cont' = cont
      BY <3>2 DEF Chip!Select
    <3> QED BY <1>1, <2>1, <3>1, <3>3, Bits DEF StartUp, Takes, Off, Flags
  <2>3. CASE counter # 3
    <3>1. phase' = 0 /\ counter' = counter + 1
      BY <1>2, <2>3, ReaderMoves
    <3>2. UNCHANGED chip
      BY <1>2, <3>1, ChipMoves
    <3> QED BY <1>1, <2>1, <2>3, <3>1, <3>2 DEF StartUp, Off, chip
  <2> QED BY <2>2, <2>3
<1>3. CASE phase = 5
  <2>1. CASE counter = 7
    <3>1. phase' = 6 /\ counter' = 0
      BY <1>3, <2>1, ReaderMoves
    <3>2. Chip!Deselect
      BY <1>3, <3>1, ChipMoves
    <3>3. ~cont
      BY <1>1, <1>3, <2>1 DEF StartUp
    <3> QED BY <1>1, <3>1, <3>2, <3>3 DEF StartUp, Off, Chip!Deselect
  <2>2. CASE counter # 7
    <3>1. phase' = 5 /\ counter' = counter + 1
      BY <1>3, <2>2, ReaderMoves
    <3>2. counter \in 0 .. 6 /\ st # "out"
      BY <1>1, <1>3, <2>2 DEF StartUp, Takes
    <3>3. UNCHANGED chip
      BY <1>3, <3>1, <3>2, ChipMoves
    <3>4. Clocks' = Clocks
      BY <1>1, <3>1
    <3> QED BY <1>1, <1>3, <3>1, <3>2, <3>3, <3>4 DEF StartUp, Takes, chip
  <2> QED BY <2>1, <2>2
<1>4. CASE phase = 6
  <2>1. Off /\ counter \in 0 .. 3 /\ ~cont
    BY <1>1, <1>4 DEF StartUp
  <2>2. CASE counter = 3
    <3>1. phase' = 1 /\ counter' = 0
      BY <1>4, <2>2, ReaderMoves
    <3>2. Chip!Select
      BY <1>4, <3>1, ChipMoves
    <3>3. st' = "opcode" /\ n' = 0 /\ acc' = 0 /\ io' = io /\ cont' = cont
      BY <2>1, <3>2 DEF Chip!Select
    <3> QED BY <1>1, <2>1, <3>1, <3>3, Bits DEF StartUp, Command, Takes, Off
  <2>3. CASE counter # 3
    <3>1. phase' = 6 /\ counter' = counter + 1
      BY <1>4, <2>3, ReaderMoves
    <3>2. UNCHANGED chip
      BY <1>4, <3>1, ChipMoves
    <3> QED BY <1>1, <2>1, <2>3, <3>1, <3>2 DEF StartUp, Off, chip
  <2> QED BY <2>2, <2>3
<1> QED BY <1>2, <1>3, <1>4

LEMMA CommandNeg ==
  ASSUME Types, Flags, Reader, NegEdge, ~reset, ~enableSPI3, ~enableSPI3', phase = 1
  PROVE  /\ phase' = 1 => Command'
         /\ phase' = 3 => Address'
         /\ phase' \in {1, 3} /\ ~initDone'
<1> USE Counts
<1>1. ~initDone' /\ Command /\ Clocks = counter + 1 /\ Clocks' = counter'
  BY ReaderMoves, BusStands DEF Reader
<1>2. counter \in 0 .. 7 /\ st # "out" /\ io = Chip!NoOutput
  BY <1>1 DEF Command, Takes
<1>3. CASE counter = 7
  <2>1. phase' = 3 /\ counter' = 0
    BY <1>3, ReaderMoves
  <2>2. UNCHANGED chip
    BY <1>2, <2>1, ChipMoves
  <2>3. st = "address" /\ n = 0
    BY <1>1, <1>3 DEF Command
  <2> QED BY <1>1, <1>2, <2>1, <2>2, <2>3 DEF Address, Takes, chip
<1>4. CASE counter # 7
  <2>1. phase' = 1 /\ counter' = counter + 1
    BY <1>4, ReaderMoves
  <2>2. UNCHANGED chip
    BY <1>2, <2>1, ChipMoves
  <2>3. Clocks' = Clocks
    BY <1>1, <2>1
  <2> QED BY <1>1, <1>2, <1>4, <2>1, <2>2, <2>3 DEF Command, Takes, chip
<1> QED BY <1>3, <1>4

LEMMA AddressNeg ==
  ASSUME Types, Flags, Reader, NegEdge, ~reset, ~enableSPI3, ~enableSPI3', phase = 3
  PROVE  /\ phase' = 3 => Address'
         /\ phase' = 4 => Word'
         /\ phase' \in {3, 4} /\ initDone' = initDone
<1> USE Counts
<1>1. /\ initDone' = initDone /\ Address /\ Clocks = counter + 1 /\ Clocks' = counter'
      /\ address' = address
  BY ReaderMoves, BusStands DEF Reader
<1>2. counter \in 0 .. 11 /\ io = Chip!NoOutput
  BY <1>1 DEF Address
<1>3. CASE counter = 11
  <2>1. phase' = 4 /\ counter' = 0
    BY <1>3, ReaderMoves
  <2>2. st = "out" /\ n = 0 /\ cont /\ (initDone => adr = 4 * address.cell)
    BY <1>1, <1>3 DEF Address
  <2>3. /\ io' = Content(2 * adr + n) /\ n' = 1
        /\ st' = st /\ adr' = adr /\ cont' = cont
    BY <2>1, <2>2, ChipMoves
  <2>4. initDone => io' = Nibble(address.cell, 0)
    <3>1. initDone => InFlash(address.cell)
      BY AddressKnown DEF Reader, Reading
    <3>2. initDone => 2 * adr + n = 8 * address.cell + 0
      BY <2>2, <3>1, SMT DEF InFlash
    <3> QED BY <2>3, <3>2 DEF Nibble
  <2>5. Clocks' = 0
    BY <1>1, <2>1
  <2> QED BY <1>1, <2>1, <2>2, <2>3, <2>4, <2>5 DEF Word
<1>4. CASE counter # 11
  <2>1. phase' = 3 /\ counter' = counter + 1
    BY <1>4, ReaderMoves
  <2>2. st # "out"
    <3>1. Clocks \in 1 .. 11
      BY <1>1, <1>2, <1>4
    <3> QED BY <1>1, <3>1 DEF Address, Takes
  <2>3. UNCHANGED chip
    BY <2>1, <2>2, ChipMoves
  <2>4. Clocks' = Clocks
    BY <1>1, <2>1
  <2> QED BY <1>1, <1>2, <1>4, <2>1, <2>3, <2>4 DEF Address, Takes, chip
<1> QED BY <1>3, <1>4

LEMMA WordNeg ==
  ASSUME Types, Flags, Reader, NegEdge, ~reset, ~enableSPI3, ~enableSPI3', phase = 4
  PROVE  /\ phase' = 4 => Word'
         /\ phase' = 2 => Idle' /\ counter' = 0 /\ (initDone => HasWord')
         /\ phase' \in {2, 4} /\ initDone' = initDone
<1> USE Counts
<1>1. /\ initDone' = initDone /\ Word /\ Clocks = counter + 1 /\ Clocks' = counter'
      /\ address' = address /\ nibbles' = nibbles
  BY ReaderMoves, BusStands DEF Reader
<1>2. st = "out" /\ counter \in 0 .. 7 /\ n = counter + 1 /\ cont
  BY <1>1 DEF Word
<1>3. CASE counter = 7
  <2>1. phase' = 2 /\ counter' = 0
    BY <1>3, ReaderMoves
  <2>2. Chip!Deselect
    BY <2>1, ChipMoves
  <2>3. initDone => HasWord'
    BY <1>1, <1>3 DEF Word, HasWord
  <2> QED BY <1>1, <1>2, <2>1, <2>2, <2>3 DEF Idle, Off, Chip!Deselect
<1>4. CASE counter # 7
  <2>1. phase' = 4 /\ counter' = counter + 1
    BY <1>4, ReaderMoves
  <2>2. /\ io' = Content(2 * adr + n) /\ n' = (n + 1) % 16
        /\ st' = st /\ adr' = adr /\ cont' = cont
    BY <1>2, <2>1, ChipMoves
  <2>3. n' = counter' + 1 /\ counter' \in 0 .. 7
    BY <1>2, <1>4, <2>1, <2>2
  <2>4. initDone => io' = Nibble(address.cell, counter')
    <3>1. initDone => InFlash(address.cell) /\ adr = 4 * address.cell
      BY <1>1, AddressKnown DEF Reader, Reading, Word
    <3>2. initDone => 2 * adr + n = 8 * address.cell + counter'
      BY <1>2, <2>1, <3>1, SMT DEF InFlash
    <3> QED BY <2>2, <3>2 DEF Nibble
  <2>5. Clocks' - 1 = Clocks - 1
    BY <1>1, <2>1
  <2> QED BY <1>1, <1>2, <2>1, <2>2, <2>3, <2>4, <2>5 DEF Word
<1> QED BY <1>3, <1>4

LEMMA IdleNeg ==
  ASSUME Types, Flags, Reader, NegEdge, ~reset, ~enableSPI3, ~enableSPI3', phase = 2
  PROVE  /\ phase' = 2 => Idle' /\ (Reading' => Reading /\ HasWord')
         /\ phase' = 3 => Address' /\ sr_start /\ initDone'
         /\ phase' \in {2, 3}
<1>1. /\ Idle /\ Clocks = counter + 1 /\ Clocks' = counter'
      /\ address' = address /\ nibbles' = nibbles
  BY ReaderMoves, BusStands DEF Reader
<1>2. Off /\ counter \in 0 .. 4 /\ cont
  BY <1>1 DEF Idle
<1>3. CASE ~(counter < 4) /\ sr_start
  <2>1. phase' = 3 /\ counter' = 0
    BY <1>3, ReaderMoves
  <2>2. initDone'
    <3>1. counter = 4
      BY <1>2, <1>3
    <3> QED BY <3>1, ReaderMoves
  <2>3. Chip!Select
    BY <2>1, ChipMoves
  <2>4. st' = "address" /\ n' = 0 /\ acc' = 0 /\ io' = io /\ cont' = cont
    BY <1>2, <2>3 DEF Chip!Select
  <2>5. InFlash(address.cell) /\ Top(address.cell, 0) = 0
    BY <1>3, AddressKnown, Nibbles DEF sr_start
  <2> QED BY <1>1, <1>2, <1>3, <2>1, <2>2, <2>4, <2>5 DEF Address, Takes, Off
<1>4. CASE counter < 4 \/ ~sr_start
  <2>1. phase' = 2 /\ counter' \in {counter, counter + 1} /\ (counter < 4 => counter' = counter + 1)
    BY <1>2, <1>4, ReaderMoves
  <2>2. counter' \in 0 .. 4 /\ (counter' < 4 => counter < 4)
    <3>1. ~(counter < 4) => counter' = counter
      BY <1>4, ReaderMoves
    <3> QED BY <1>2, <2>1, <3>1
  <2>3. UNCHANGED chip
    BY <2>1, ChipMoves
  <2>4. Idle'
    BY <1>2, <2>2, <2>3 DEF Idle, Off, chip
  <2>5. Reading' => Reading
    <3>1. Reading' => initDone' /\ counter < 4
      BY <2>1, <2>2 DEF Reading
    <3>2. counter < 4 => counter # 4
      BY <1>2
    <3>3. counter < 4 => (initDone' <=> initDone)
      BY <3>2, ReaderMoves
    <3> QED BY <3>1, <3>3 DEF Reading
  <2>6. Reading => HasWord'
    BY <1>1 DEF Reader, HasWord
  <2> QED BY <2>1, <2>4, <2>5, <2>6
<1> QED BY <1>3, <1>4

LEMMA ReaderNegStep ==
  ASSUME IInv, NegEdge, ~reset, ~enableSPI3, ~enableSPI3'
  PROVE  Reader' /\ phase' \in 0 .. 6 /\ (initDone => initDone')
<1>0. Types /\ Flags /\ Bus /\ Reader
  BY DEF IInv
<1>1. /\ address' = address /\ nibbles' = nibbles
      /\ Selected("FLASH")' <=> Selected("FLASH")
  BY BusStands, ReaderMoves
<1>2. recvDone' => initDone' /\ phase' = 2 /\ counter' = 3
  BY ReaderMoves
<1>3. ASSUME Reading, Reading' PROVE busy'
  <2>1. busy /\ address.r = "FLASH" /\ start
    BY <1>0, <1>3 DEF Reader, Selected, Bus
  <2>2. ~recvDone
    <3>1. recvDone => phase = 2 /\ counter = 3
      BY <1>0, <2>1 DEF Reader
    <3>2. phase = 2 /\ counter = 3 => ~Reading'
      BY ReaderMoves DEF Reading
    <3> QED BY <1>3, <3>1, <3>2
  <2>3. ~Ready(address.r, Dev)
    BY <2>1, <2>2, FlashReady
  <2> QED BY <1>0, <2>1, <2>3, UnitNeg
<1>4. ASSUME ~Reading, phase = 2, phase' = 3 PROVE busy' /\ Selected("FLASH")
  <2>1. start /\ address.r = "FLASH"
    BY <1>0, <1>4, IdleNeg DEF sr_start, Selected
  <2>2. busy => ~Ready(address.r, Dev)
    <3>1. counter = 4 \/ ~initDone
      BY <1>0, <1>4 DEF Reader, Idle, Reading
    <3>2. busy => ~recvDone
      BY <1>0, <3>1 DEF Reader
    <3> QED BY <2>1, <3>2, FlashReady
  <2> QED BY <1>0, <2>1, <2>2, UnitNeg DEF Selected
<1>5. CASE phase \in {0, 5, 6}
  <2>1. StartUp' /\ (phase' = 1 => Command') /\ phase' \in {0, 1, 5, 6} /\ ~initDone'
    BY <1>0, <1>5, StartUpNeg
  <2> QED BY <1>0, <1>2, <1>5, <2>1 DEF Reader, Reading
<1>6. CASE phase = 1
  <2>1. (phase' = 1 => Command') /\ (phase' = 3 => Address') /\ phase' \in {1, 3} /\ ~initDone'
    BY <1>0, <1>6, CommandNeg
  <2>2. StartUp'
    BY <2>1 DEF StartUp
  <2> QED BY <1>0, <1>2, <1>6, <2>1, <2>2 DEF Reader, Reading
<1>7. CASE phase = 3
  <2>1. (phase' = 3 => Address') /\ (phase' = 4 => Word') /\ phase' \in {3, 4} /\ initDone' = initDone
    BY <1>0, <1>7, AddressNeg
  <2>2. StartUp'
    BY <2>1 DEF StartUp
  <2>3. Reading' => Reading
    BY <1>7, <2>1 DEF Reading
  <2> QED BY <1>0, <1>1, <1>2, <1>3, <2>1, <2>2, <2>3 DEF Reader
<1>8. CASE phase = 4
  <2>1. /\ (phase' = 4 => Word') /\ phase' \in {2, 4} /\ initDone' = initDone
        /\ phase' = 2 => Idle' /\ counter' = 0 /\ (initDone => HasWord')
    BY <1>0, <1>8, WordNeg
  <2>2. StartUp'
    BY <2>1 DEF StartUp
  <2>3. Reading' => Reading /\ initDone
    BY <1>8, <2>1 DEF Reading
  <2> QED BY <1>0, <1>1, <1>2, <1>3, <2>1, <2>2, <2>3 DEF Reader
<1>9. CASE phase = 2
  <2>1. /\ phase' = 2 => Idle' /\ (Reading' => Reading /\ HasWord')
        /\ phase' = 3 => Address' /\ sr_start /\ initDone'
        /\ phase' \in {2, 3}
    BY <1>0, <1>9, IdleNeg
  <2>2. StartUp'
    BY <2>1 DEF StartUp
  <2>3. Reading' => busy' /\ Selected("FLASH")
    <3>1. Reading => Selected("FLASH")
      BY <1>0 DEF Reader
    <3> QED BY <1>3, <1>4, <1>9, <2>1, <3>1
  <2>4. initDone => initDone'
    BY <1>9, ReaderMoves
  <2> QED BY <1>1, <1>2, <2>1, <2>2, <2>3, <2>4 DEF Reader
<1> QED BY <1>0, <1>5, <1>6, <1>7, <1>8, <1>9 DEF Types

LEMMA FlashReadNeg ==
  ASSUME IInv, NegEdge, ~reset PROVE FlashRead'
<1> SUFFICES ASSUME AnsweredNow', Selected("FLASH")', ~enableSPI3'
             PROVE  q' = FlashWord(address.cell)'
  BY DEF FlashRead
<1>0. Types /\ Flags /\ Bus
  BY DEF IInv
<1>1. start /\ ~busy' /\ address.r = "FLASH" /\ address' = address
  BY BusStands DEF AnsweredNow, Selected
<1>2. ~enableSPI3
  BY <1>0, <1>1, UnitNeg
<1>3. busy /\ recvDone /\ q' = sr_q
  BY <1>0, <1>1, <1>2, UnitNeg, FlashReady
<1>4. Reader
  BY <1>2 DEF IInv
<1>5. HasWord
  BY <1>3, <1>4 DEF Reader, Reading
<1>6. sr_q = FlashWord(address.cell)
  <2>1. \A i \in 0 .. 3 : nibbles[3 - i] = Nibble(address.cell, 3 - i)
    BY <1>5 DEF HasWord
  <2>2. \A i \in 0 .. 3 : nibbles[7 - i] = Nibble(address.cell, 7 - i)
    BY <1>5 DEF HasWord
  <2> QED BY <2>1, <2>2 DEF sr_q, FlashWord
<1> QED BY <1>1, <1>3, <1>6

LEMMA NegIInv == ASSUME IInv, NegEdge PROVE IInv'
<1>1. CASE reset
  BY <1>1, ResetNeg
<1>2. CASE ~reset
  <2>0. Types /\ Flags /\ Bus
    BY DEF IInv
  <2>1. IF enableSPI3' THEN Session' ELSE Reader'
    <3>1. CASE enableSPI3 /\ enableSPI3'
      BY <1>2, <2>0, <3>1, SessionStays DEF IInv
    <3>2. CASE enableSPI3 /\ ~enableSPI3'
      <4>1. ~Transfer
        BY <1>2, <2>0, <3>2, TakenOver, UnitNeg
      <4> QED BY <2>0, <3>2, <4>1, SessionEnds DEF IInv
    <3>3. CASE ~enableSPI3 /\ enableSPI3'
      BY <1>2, <3>3, SessionBegins
    <3>4. CASE ~enableSPI3 /\ ~enableSPI3'
      BY <1>2, <3>4, ReaderNegStep
    <3> QED BY <3>1, <3>2, <3>3, <3>4
  <2>2. TakesOver(instr) => initDone'
    <3>1. TakesOver(instr) => initDone
      BY <2>0, BusStands DEF Bus
    <3>2. CASE enableSPI3
      BY <3>1, <3>2, TakenOver DEF NegEdge, ReaderNeg, reader
    <3>3. CASE ~enableSPI3 /\ enableSPI3'
      BY <1>2, <3>3, SessionBegins
    <3>4. CASE ~enableSPI3 /\ ~enableSPI3'
      BY <1>2, <3>1, <3>4, ReaderNegStep
    <3> QED BY <3>2, <3>3, <3>4
  <2>3. Bus'
    BY <1>2, <2>0, <2>2, BusStands, UnitNeg DEF Bus
  <2>4. phase' \in 0 .. 6
    <3>1. CASE enableSPI3
      BY <2>0, <3>1 DEF NegEdge, ReaderNeg, Sr!SrReset, reader, Types
    <3>2. CASE ~enableSPI3 /\ enableSPI3'
      BY <1>2, <3>2, SessionBegins DEF Session
    <3>3. CASE ~enableSPI3 /\ ~enableSPI3'
      BY <1>2, <3>3, ReaderNegStep
    <3> QED BY <3>1, <3>2, <3>3
  <2>5. Types' /\ Flags'
    BY <2>0, <2>4, BusStands, TypesNeg DEF Types
  <2>6. FlashRead'
    BY <1>2, FlashReadNeg
  <2> QED BY <2>1, <2>3, <2>5, <2>6 DEF IInv
<1> QED BY <1>1, <1>2

-----------------------------------------------------------------------------
(* The theorems.                                                           *)

LEMMA InitIInv == Init => IInv
<1> SUFFICES ASSUME Init PROVE IInv
  OBVIOUS
<1>1. /\ clk = "low" /\ ~reset /\ stage = "init" /\ instr = NoInstr /\ ~start
      /\ ~busy /\ ~enableSPI3 /\ phase = 0 /\ counter = 0 /\ ~initDone /\ nibbles = Sr!NoNibbles
      /\ Off /\ reset \in BOOLEAN /\ busy \in BOOLEAN /\ enableSPI3 \in BOOLEAN
      /\ initDone \in BOOLEAN /\ recvDone \in BOOLEAN /\ cont \in BOOLEAN
  BY DEF Init, CpuInit, MuInit, Sr!SrInit, Chip!ChipInit, start, Off
<1>2. Types /\ Flags
  BY <1>1, InstrAssumption DEF Types, Flags, Stage, Sr!NoNibbles
<1>3. ~TakesOver(instr)
  BY <1>1, InstrAssumption DEF TakesOver
<1>4. Bus
  BY <1>1, <1>3 DEF Bus
<1>5. Reader
  BY <1>1 DEF Reader, StartUp, Reading
<1>6. FlashRead
  BY <1>1 DEF FlashRead, AnsweredNow
<1> QED BY <1>1, <1>2, <1>4, <1>5, <1>6 DEF IInv

LEMMA StutterIInv == ASSUME IInv, UNCHANGED vars PROVE IInv'
<1>1. /\ UNCHANGED <<clk, reset, stage, instr, busy, q, GPO, enableSPI3>>
      /\ UNCHANGED <<phase, counter, initDone, recvDone, nibbles, st, n, acc, adr, cont, io>>
  BY DEF vars, cpuvars, muvars, reader, chip
<1>2. /\ start' = start /\ address' = address /\ Clocks' = Clocks
      /\ (Off' <=> Off) /\ (Reading' <=> Reading) /\ (spi_cs' <=> spi_cs)
  BY <1>1 DEF start, address, Clocks, Off, Reading, spi_cs, Sr!cs
<1>3. (Selected("FLASH")' <=> Selected("FLASH")) /\ (HasWord' <=> HasWord)
  BY <1>1, <1>2 DEF Selected, HasWord
<1>4. Types' /\ Flags' /\ Bus'
  BY <1>1, <1>2 DEF IInv, Types, Flags, Bus
<1>5. (StartUp' <=> StartUp) /\ (Command' <=> Command) /\ (Idle' <=> Idle)
  BY <1>1, <1>2 DEF StartUp, Command, Idle, Takes
<1>6. (Address' <=> Address) /\ (Word' <=> Word)
  BY <1>1, <1>2 DEF Address, Word, Takes
<1>7. (Reader' <=> Reader) /\ (Session' <=> Session)
  BY <1>1, <1>2, <1>3, <1>5, <1>6 DEF Reader, Session
<1>8. FlashRead'
  BY <1>1, <1>2, <1>3 DEF IInv, FlashRead, AnsweredNow
<1> QED BY <1>1, <1>4, <1>7, <1>8 DEF IInv

\* The inductive invariant holds of every behaviour.
THEOREM Invariance == Spec => []IInv
<1>1. IInv /\ [Next]_vars => IInv'
  BY PosIInv, NegIInv, StutterIInv DEF Next
<1> QED BY <1>1, InitIInv, PTL DEF Spec

\* The types; in particular the reader is in one of its seven phases and its
\* counter never runs past the longest.
THEOREM TypeCorrect == Spec => []TypeOK
<1>1. IInv => TypeOK
  <2> SUFFICES ASSUME IInv PROVE TypeOK
    OBVIOUS
  <2>1. Types /\ Flags
    BY DEF IInv
  <2>2. counter \in 0 .. 11
    BY <2>1 DEF IInv, Session, Reader, StartUp, Command, Address, Word, Idle, Types
  <2> QED BY <2>1, <2>2, Zenon DEF Types, Flags, TypeOK, Sr!SrTypeOK
<1> QED BY <1>1, Invariance, PTL

\* SPIreader.v:121-254, MemoryUnit.v:387-388,463-468.  While the reader has the
\* flash a load returns the word at its own address, whatever a reset or an
\* SPI3 session has left behind, for every content of the flash.
THEOREM LoadsReadFlash == Spec => []FlashRead
<1>1. IInv => FlashRead
  BY DEF IInv
<1> QED BY <1>1, Invariance, PTL

\* SPIreader.v:70-79.  Reader and chip never drive the data pins together.
THEOREM OneDriver == Spec => []NoContention
<1>1. IInv => NoContention
  BY DEF IInv, NoContention, Sr!write, Reader, StartUp, Command, Address
<1> QED BY <1>1, Invariance, PTL
=============================================================================
