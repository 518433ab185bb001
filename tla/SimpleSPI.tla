------------------------------ MODULE SimpleSPI ------------------------------
(***************************************************************************)
(* IO/SimpleSPI.v with its ClockDivider.v: an SPI master behind one port   *)
(* of the memory unit.  The divider runs at the rising edge of the clock;  *)
(* the shift registers run at the edges of the slower clock it makes, and  *)
(* the state machine at the falling edge.                                  *)
(*                                                                         *)
(* A byte is a function from bit numbers; the highest bit goes first.      *)
(***************************************************************************)
EXTENDS Integers

CONSTANTS Bits,    \* 8 in the code
          DIVISOR  \* 4 in the code

SpiAssumption ==
  /\ Bits \in 1 .. 15   \* count has four bits
  /\ DIVISOR \in Nat /\ DIVISOR >= 2

VARIABLES state, counter, mosi_d, miso_d, count, d_out, busy, cooldownCounter

spivars ==
  <<state, counter, mosi_d, miso_d, count, d_out, busy, cooldownCounter>>

Byte == [0 .. Bits - 1 -> {0, 1}]
NoBits == [i \in 0 .. Bits - 1 |-> 0]

SpiInit ==
  /\ state = "rst" /\ counter = 0 /\ count = 0 /\ cooldownCounter = 0
  /\ mosi_d = NoBits /\ miso_d = NoBits /\ d_out = NoBits /\ busy = FALSE

ShiftIn(byte, bit) == [i \in 0 .. Bits - 1 |-> IF i = 0 THEN bit ELSE byte[i - 1]]

slow_clk == counter >= DIVISOR \div 2
mosi == mosi_d[Bits - 1]
spi_clk == state = "transact" /\ slow_clk

NextCounter_Long(reset) == IF reset \/ counter >= DIVISOR THEN 0 ELSE counter + 1
NextCounter(reset) == IF reset \/ counter >= DIVISOR - 1 THEN 0 ELSE counter + 1

\* Rising edge of the clock.  The state is constant here, so spi_clk follows
\* slow_clk in the transact state.
SpiPos(reset, d_in, miso) ==
  /\ UNCHANGED <<state, d_out, busy, cooldownCounter>>
  /\ counter' = NextCounter(reset)
  /\ miso_d' = IF ~spi_clk /\ spi_clk' THEN ShiftIn(miso_d, miso) ELSE miso_d
  /\ IF slow_clk /\ ~slow_clk'
     THEN /\ mosi_d' = CASE state = "load" -> d_in
                         [] state = "transact" -> ShiftIn(mosi_d, 0)
                         [] OTHER -> mosi_d
          /\ count' = CASE state = "idle" -> 0
                        [] state = "load" -> Bits
                        [] state = "transact" -> (count - 1) % 16
                        [] OTHER -> count
     ELSE UNCHANGED <<mosi_d, count>>

\* Where the state machine goes.
NextState_Short(t_start) ==
  CASE state = "rst" -> "idle"
    [] state = "idle" -> IF t_start THEN "load" ELSE "idle"
    [] state = "load" -> IF count # 0 THEN "transact" ELSE "load"
    [] state = "transact" -> IF count <= 1 THEN "unload" ELSE "transact"
    [] state = "unload" -> "cooldown"
    [] state = "cooldown" -> IF cooldownCounter = 0 THEN "idle" ELSE "cooldown"
NextState(t_start) ==
  CASE state = "rst" -> "idle"
    [] state = "idle" -> IF t_start THEN "load" ELSE "idle"
    [] state = "load" -> IF count # 0 THEN "transact" ELSE "load"
    [] state = "transact" -> IF count = 0 THEN "unload" ELSE "transact"
    [] state = "unload" -> "cooldown"
    [] state = "cooldown" -> IF cooldownCounter = 0 THEN "idle" ELSE "cooldown"

\* Falling edge of the clock.  The state machine has no reset.
SpiNeg(t_start, miso) ==
  /\ state' = NextState(t_start)
  /\ busy' = CASE state = "idle" /\ t_start -> TRUE
               [] state = "cooldown" -> FALSE
               [] OTHER -> busy
  /\ d_out' = CASE state = "rst" -> NoBits
                [] state = "unload" -> miso_d
                [] OTHER -> d_out
  /\ cooldownCounter' = CASE state = "unload" -> 1
                          [] state = "cooldown" /\ cooldownCounter # 0
                               -> cooldownCounter - 1
                          [] OTHER -> cooldownCounter
  /\ UNCHANGED <<counter, mosi_d, count>>
  /\ miso_d' = IF ~spi_clk /\ spi_clk' THEN ShiftIn(miso_d, miso) ELSE miso_d

SpiTypeOK ==
  /\ state \in {"rst", "idle", "load", "transact", "unload", "cooldown"}
  /\ counter \in 0 .. DIVISOR - 1 /\ count \in 0 .. Bits
  /\ cooldownCounter \in 0 .. 1 /\ busy \in BOOLEAN
  /\ {mosi_d, miso_d, d_out} \subseteq Byte
=============================================================================
