------------------------------ MODULE FlashChip ------------------------------
(***************************************************************************)
(* The SPI flash as its vendor's simulation model describes it             *)
(* (Memory/w25q128jv.v), reduced to the one command the reader uses, quad  *)
(* fast read (EB) with its continuous mode.                                *)
(***************************************************************************)
EXTENDS Integers

CONSTANT Content(_)   \* the nibble at an address, counted in nibbles

VARIABLES
  st,      \* what the chip takes or gives at the next clocks
  n, acc,  \* clocks in st, and the bits taken
  adr,     \* byte_address
  cont,    \* mode_reg: a read continues without an opcode
  io       \* the nibble it drives, NoOutput for none

chipvars == <<st, n, acc, adr, cont, io>>

NoOutput == -1

ChipInit == st = "off" /\ n = 0 /\ acc = 0 /\ adr = 0 /\ cont = FALSE /\ io = NoOutput

\* Rising edge of the clock, selected: the chip takes a bit or a nibble.
Take(pins) ==
  LET byte == 2 * acc + (pins % 2)
      word == 16 * acc + pins
      more(next) == n' = n + 1 /\ acc' = next /\ UNCHANGED <<st, adr, cont>>
      go(next) == st' = next /\ n' = 0 /\ acc' = 0
  IN
  /\ CASE st = "opcode" ->
            IF n < 7 THEN more(byte)
            ELSE go(IF byte = 235 THEN "address" ELSE "ignore") /\ UNCHANGED <<adr, cont>>
       [] st = "address" ->
            IF n < 5 THEN more(word) ELSE go("mode") /\ adr' = word /\ UNCHANGED cont
       [] st = "mode" ->
            IF n < 1 THEN more(word)
            ELSE go("dummy") /\ cont' = (acc % 4 = 2) /\ UNCHANGED adr
       [] st = "dummy" ->
            IF n < 3 THEN more(0) ELSE go("out") /\ UNCHANGED <<adr, cont>>
       [] OTHER -> UNCHANGED <<st, n, acc, adr, cont>>
  /\ UNCHANGED io

\* Falling edge, selected: the chip gives the next nibble.
Give ==
  IF st = "out"
  THEN io' = Content(2 * adr + n) /\ n' = (n + 1) % 16 /\ UNCHANGED <<st, acc, adr, cont>>
  ELSE UNCHANGED chipvars

\* The select line moves.
Select ==
  /\ st' = (IF cont THEN "address" ELSE "opcode") /\ n' = 0 /\ acc' = 0
  /\ UNCHANGED <<adr, cont, io>>
Deselect ==
  /\ st' = "off" /\ n' = 0 /\ acc' = 0 /\ adr' = 0 /\ io' = NoOutput
  /\ UNCHANGED cont

\* Commands from another master, which may leave either mode behind.
OtherCommand ==
  /\ st' = "ignore" /\ n' = 0 /\ acc' = 0 /\ adr' = 0 /\ io' = NoOutput
  /\ cont' \in BOOLEAN
=============================================================================
