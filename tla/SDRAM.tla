-------------------------------- MODULE SDRAM --------------------------------
(***************************************************************************)
(* The SDRAM controller wired to the chip, with any requester and any      *)
(* resets: at every falling edge the request lines may have any value.     *)
(* The commands the chip takes must be legal whatever the requester does.  *)
(* A reset takes the clock enable away and does not clear InitCounter; the *)
(* sequence goes on with a command that the chip, still without a clock,   *)
(* does not see.  lost says when that was one that mattered.               *)
(***************************************************************************)
EXTENDS SDRAMcontroller, SDRAMchip

\* The delays of the vendor's model in clocks; the bounds hold for its
\* nanoseconds at a clock of 25, 50 and 100 MHz.
ASSUME DelayAssumption ==
  /\ {tRP, tRFC, tRC, tRCD, tRAS, tWR, tMRD} \subseteq Nat
  /\ tRP <= 4 /\ tRFC <= 7 /\ tRC <= 10 /\ tRCD <= 3
  /\ tRAS <= 6 /\ tWR <= 2 /\ tMRD <= 2
ASSUME SinceAssumption == SinceMax \in Nat /\ SinceMax >= 12

VARIABLES
  clk, reset,
  gap,    \* history: falling edges since a refresh, not counting init and reset
  lost    \* history: a command was lost that nothing since has made up for

vars == <<clk, reset, gap, lost, sdvars, chipvars>>

Init ==
  /\ clk = "low" /\ reset = FALSE /\ gap = 0 /\ lost = FALSE
  /\ SdInit /\ ChipInit

\* The wires between controller and chip.
Driven == IF SDRAM_DQ_OE THEN WrData ELSE Z

\* What the chip cannot do without: that its row is closed and its mode set.
Needed ==
  \/ SDRAM_CMD = "PRECHARGE" /\ openRow # NoRow
  \/ SDRAM_CMD = "LOADMODE" /\ ~loaded

PosEdge ==
  /\ clk = "low" /\ clk' = "high"
  /\ SdPos(reset)
  /\ ChipPos(SDRAM_CKE, SDRAM_DQM, SDRAM_CMD, SDRAM_A, A10, Driven)
  /\ lost' = (lost \/ (~CkeZ /\ Needed))
  /\ reset' \in BOOLEAN
  /\ UNCHANGED gap

GapMax == CountWrap
NegEdge(in) ==
  /\ clk = "high" /\ clk' = "low"
  /\ SdNeg(reset, in, dq)
  /\ gap' = IF state' = "init" \/ (CkeZ /\ SDRAM_CMD' = "REFRESH") THEN 0
            ELSE IF gap < GapMax THEN gap + 1 ELSE gap
  \* An initialisation from the start makes up for everything.
  /\ lost' = (lost /\ InitCounter' # 0)
  /\ UNCHANGED <<reset, chipvars>>

Next == PosEdge \/ \E in \in Inputs : NegEdge(in)

Spec == Init /\ [][Next]_vars

-----------------------------------------------------------------------------
TypeOK ==
  /\ clk \in {"low", "high"} /\ reset \in BOOLEAN /\ gap \in 0 .. GapMax
  /\ lost \in BOOLEAN
  /\ SdTypeOK /\ ChipTypeOK

\* SDRAMcontroller.v:130-307.  Every command that reaches the chip finds it in
\* a state and at a time at which the chip accepts it, also after a reset in
\* the middle of an access or of the initialisation, unless PRECHARGE or
\* LOADMODE itself was lost.
LegalCommands == clk = "low" /\ CkeZ /\ ~lost => Accepts(SDRAM_CMD, A10)

\* mt48lc16m16a2.v:266-269, 305-308, 328-331.  The chip's model never reports
\* an error.  It does, after a reset that makes the chip miss PRECHARGE: a
\* counterexample comes with this among the invariants of SDRAM_commands.
NoErrors == clk = "low" /\ CkeZ => Accepts(SDRAM_CMD, A10)

\* SDRAMcontroller.v:185.  In operation, however densely requests arrive, the
\* next refresh is at most an access away once it is due.
RefreshInTime == gap <= cycles_per_refresh + 11
=============================================================================
