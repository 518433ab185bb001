------------------------------- MODULE CPUbus -------------------------------
(***************************************************************************)
(* The CPU as the master of the bus: the Timer's stage and the lines that  *)
(* CPU/ControlUnit.v derives from it.  A stage that uses the bus keeps its *)
(* lines until a rising edge at which busy is low.                         *)
(***************************************************************************)
EXTENDS Timer

CONSTANTS
  Instr,   \* instructions: [op, pc, from, to, d], as below
  NoInstr  \* the one in instructionReg after a reset

\* pc is the address it is fetched from, from the address it reads, to the
\* address it writes and d the register it writes; op is OTHER for an
\* instruction that only its fetch brings to the bus.
Op == {"READ", "WRITE", "COPY", "OTHER"}

ASSUME InstrAssumption ==
  /\ NoInstr \in Instr /\ NoInstr.op = "OTHER"
  /\ \A i \in Instr : i.op \in Op

VARIABLES stage, instr
cpuvars == <<stage, instr>>

CpuInit == stage = "init" /\ instr = NoInstr

start ==
  \/ stage = "fetch"
  \/ stage = "readMem" /\ instr.op \in {"READ", "COPY"}
  \/ stage = "writeBack" /\ instr.op \in {"WRITE", "COPY"}

we == stage = "writeBack" /\ instr.op \in {"WRITE", "COPY"}

\* Outside these the code's address is 0 and no start line is high.
address ==
  CASE stage = "fetch" -> instr.pc
    [] stage = "writeBack" -> instr.to
    [] OTHER -> instr.from

\* What COPY writes is what it has just read, still in the unit's register q.
data(q) == IF instr.op = "COPY" THEN q ELSE instr.d

\* Rising edge.  The next instruction is any; the program is not modelled.
CpuPos(busy, reset) ==
  /\ stage' = TimerStep(stage, busy, reset)
  /\ \/ stage' = "fetch" /\ stage # "fetch" /\ instr' \in Instr
     \/ stage' = "init" /\ instr' = NoInstr
     \/ stage' \notin {"init"} \cup ({"fetch"} \ {stage}) /\ UNCHANGED instr
=============================================================================
