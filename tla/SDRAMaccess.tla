---------------------------- MODULE SDRAMaccess ----------------------------
(***************************************************************************)
(* The CPU, the memory unit, the SDRAM controller and the chip: a program  *)
(* in SDRAM that reads and writes SDRAM, with refreshes in between and     *)
(* resets at any time but the one the code does not survive.               *)
(***************************************************************************)
EXTENDS CPUbus, MemoryUnit, SDRAM

CONSTANTS
  PowerUp, \* what the chip may contain after power-up
  Resets   \* may the reset line rise?

ASSUME ResetsAssumption == Resets \in BOOLEAN
ASSUME AccessAssumption ==
  /\ ZeroWord = Zero
  /\ PowerUp \subseteq [Row \X Col -> Word]
  /\ \A i \in Instr : {i.pc, i.from, i.to} \subseteq Address /\ i.d \in Word

accessvars == <<vars, cpuvars, muvars>>

AccessInit == Init /\ CpuInit /\ MuInit /\ mem \in PowerUp

\* The wires: the requests to the controller, and its answer.
Request == [start |-> start, we |-> we, addr |-> address, d |-> data(q)]
Dev == [sd_q_ready |-> q_ready_delay, sd_q |-> sd_q]

\* A reset that stops the initialisation at its PRECHARGE or its LOADMODE makes
\* the chip miss it (NoErrors in SDRAM), and what the memory does then is
\* anyone's guess: such a reset is left out.
Survived == ~(state = "init" /\ InitCounter \in {10, 35})

AccessPos ==
  /\ PosEdge
  /\ CpuPos(busy, reset)
  /\ reset' \in {FALSE, Resets} /\ (reset' => Survived)
  /\ UNCHANGED muvars

AccessNeg ==
  /\ NegEdge(Request)
  /\ MuNeg(reset, start, "SDRAM", we, data(q), Dev)
  /\ UNCHANGED cpuvars

AccessNext == AccessPos \/ AccessNeg

AccessSpec == AccessInit /\ [][AccessNext]_accessvars
\* The clock does not stop.
FairSpec == AccessSpec /\ WF_accessvars(AccessNext)

-----------------------------------------------------------------------------
\* SDRAMcontroller.v, MemoryUnit.v:392-397.  To the program the memory is
\* atomic: controller and chip implement Memory.  A word counts as written
\* once the chip has taken its first half, since nothing but a reset can then
\* keep it from taking the second: the reset masks the data pins, and the word
\* keeps the second half it had.
Carried ==
  \/ state \in {"write_3", "precharge", "read_3", "read_4", "read_precharge"}
  \/ state \in {"write_2", "read_2"} /\ clk = "high"
  \/ q_ready
Masked == IF clk = "low" THEN SDRAM_DQM ELSE reset
Contents ==
  IF burst.kind = "write_hi" /\ ~Masked
  THEN [mem EXCEPT ![<<burst.row, burst.col>>].hi = data(q).hi]
  ELSE mem
Outstanding == busy /\ ~reset
Cell == <<address.row, address.col>>
NoRequest == [kind |-> "none"]
Torn(old, new) == [old EXCEPT !.lo = new.lo]
Atomic ==
  INSTANCE Memory WITH
    Cell <- Row \X Col, Contents <- Word, Torn <- Torn,
    mem <- Contents, down <- reset, answer <- q,
    req <- IF ~Outstanding THEN NoRequest
           ELSE [kind |-> IF we THEN "write" ELSE "read", cell |-> Cell,
                 word |-> data(q)],
    value <- IF ~Outstanding \/ ~Carried THEN NoRequest
             ELSE IF we THEN [kind |-> "write", cell |-> Cell, word |-> data(q)]
             ELSE [kind |-> "value", word |-> Contents[Cell]]
AtomicSpec == Atomic!Spec

\* Every access is answered, refreshes or not, unless a reset ends it.
Answered == start ~> reset \/ (start /\ ~busy /\ clk = "low")
=============================================================================
