------------------------------ MODULE SDRAMchip ------------------------------
(***************************************************************************)
(* The SDRAM chip as its vendor's simulation model describes it            *)
(* (Memory/mt48lc16m16a2.v), reduced to what the controller uses: one open *)
(* row at a time, bursts of two, CAS latency two, the clock enable, and    *)
(* the checks the model makes before it accepts a command.  It runs at the *)
(* rising edge.                                                            *)
(***************************************************************************)
EXTENDS SDRAMports

CONSTANTS
  tRP, tRFC, tRC, tRCD, tRAS, tWR, tMRD,   \* minimum delays, in clocks
  SinceMax   \* the chip's clocks are counted up to here

VARIABLES
  CkeZ,     \* the clock enable of the last edge
  openRow,  \* the open row, NoRow for none
  loaded,   \* the mode register has been loaded
  since,    \* clocks since the last command of each kind
  burst,    \* the transfer in progress
  dq,       \* the half word the chip drives on the data pins
  mem

NoRow == -1
Timed == {"ACTIVE", "PRECHARGE", "REFRESH", "LOADMODE", "DATAIN"}
Idle == [kind |-> "none", row |-> NoRow, col |-> 0]
Bursts ==
  {Idle} \cup [kind : {"read_lo", "read_hi", "write_hi"}, row : Row, col : Col]

chipvars == <<CkeZ, openRow, loaded, since, burst, dq, mem>>

\* After power-up the model takes every bank to be active.
ChipInit ==
  /\ CkeZ = FALSE
  /\ openRow \in Row /\ loaded = FALSE
  /\ since = [k \in Timed |-> SinceMax]
  /\ burst = Idle /\ dq = Z
  /\ mem \in [Row \X Col -> Word]

\* The model's checks: what must hold when cmd reaches the chip.
Accepts(cmd, a10) ==
  /\ cmd = "ACTIVE" =>
       /\ openRow = NoRow /\ loaded
       /\ since["PRECHARGE"] >= tRP /\ since["REFRESH"] >= tRFC
       /\ since["ACTIVE"] >= tRC /\ since["LOADMODE"] >= tMRD
  /\ cmd \in {"READ", "WRITE"} =>
       openRow # NoRow /\ since["ACTIVE"] >= tRCD /\ ~a10
  /\ cmd = "PRECHARGE" =>
       a10 /\ since["DATAIN"] >= tWR /\ since["LOADMODE"] >= tMRD
           /\ since["ACTIVE"] >= tRAS
  /\ cmd \in {"REFRESH", "LOADMODE"} =>
       /\ openRow = NoRow
       /\ since["PRECHARGE"] >= tRP /\ since["REFRESH"] >= tRFC
       /\ since["LOADMODE"] >= tMRD

\* A write burst takes its halves at the command and at the next edge, a read
\* burst drives them from the first and the second edge after the command.
BurstStep(cmd, a) ==
  CASE cmd = "READ" /\ openRow # NoRow
         -> [kind |-> "read_lo", row |-> openRow, col |-> a]
    [] cmd = "WRITE" /\ openRow # NoRow
         -> [kind |-> "write_hi", row |-> openRow, col |-> a]
    [] cmd \notin {"READ", "WRITE"} /\ burst.kind = "read_lo"
         -> [burst EXCEPT !.kind = "read_hi"]
    [] OTHER -> Idle

Older(k) == IF since[k] < SinceMax THEN since[k] + 1 ELSE since[k]
Restarts(cmd, dqm, k) ==
  k = cmd \/ (k = "DATAIN" /\ ~dqm /\ (cmd = "WRITE" \/ burst.kind = "write_hi"))
Ages(cmd, dqm) ==
  [k \in Timed |-> IF Restarts(cmd, dqm, k) THEN 1 ELSE Older(k)]

\* data is what the controller puts on the pins, dqm its mask.  (A mask acts
\* on a read two clocks later, when no one is waiting for it.)
StoredHalf(cmd, dqm, a, data) ==
  CASE dqm -> mem
    [] ~dqm /\ cmd = "WRITE" /\ openRow # NoRow
         -> [mem EXCEPT ![<<openRow, a>>].lo = data]
    [] ~dqm /\ cmd # "WRITE" /\ burst.kind = "write_hi"
         -> [mem EXCEPT ![<<burst.row, burst.col>>].hi = data]
    [] OTHER -> mem

\* An ACTIVE that finds a row open leaves it open.
Takes(dqm, cmd, a, a10, data) ==
  /\ openRow' = CASE cmd = "ACTIVE" /\ openRow = NoRow -> a
                  [] cmd = "PRECHARGE" /\ a10 -> NoRow
                  [] OTHER -> openRow
  /\ loaded' = (loaded \/ cmd = "LOADMODE")
  /\ since' = Ages(cmd, dqm)
  /\ burst' = BurstStep(cmd, a)
  /\ mem' = StoredHalf(cmd, dqm, a, data)
  /\ dq' = CASE burst.kind = "read_lo" -> mem[<<burst.row, burst.col>>].lo
             [] burst.kind = "read_hi" -> mem[<<burst.row, burst.col>>].hi
             [] OTHER -> Z

\* Without its clock the chip takes no command.  Time passes all the same, but
\* the delay after LOADMODE is counted in the chip's own clocks.
Sleeps ==
  /\ since' = [k \in Timed |-> IF k = "LOADMODE" THEN since[k] ELSE Older(k)]
  /\ UNCHANGED <<openRow, loaded, burst, dq, mem>>

\* The enable of one edge makes the clock of the next.
ChipPos(cke, dqm, cmd, a, a10, data) ==
  /\ CkeZ' = cke
  /\ \/ CkeZ /\ Takes(dqm, cmd, a, a10, data)
     \/ ~CkeZ /\ Sleeps

ChipTypeOK ==
  /\ CkeZ \in BOOLEAN
  /\ openRow \in Row \cup {NoRow} /\ loaded \in BOOLEAN
  /\ since \in [Timed -> 1 .. SinceMax]
  /\ burst \in Bursts
  /\ dq \in Pins
  /\ mem \in [Row \X Col -> PinWord]
=============================================================================
