--------------------------------- MODULE PC ---------------------------------
(***************************************************************************)
(* Program counter and interrupt controller, CPU/PC.v, with the Timer that *)
(* paces it (CPU/Timer.v) and the jump signals of CPU/ControlUnit.v.       *)
(*                                                                         *)
(* The clock has two phases.  At a rising edge (PosEdge) the Timer moves   *)
(* and the reset line may change.  At a falling edge (NegEdge) PC.v runs:  *)
(* it samples the interrupt lines and, at the first falling edge of the    *)
(* writeBack stage, replaces the program counter.                          *)
(*                                                                         *)
(* The environment is the level of each interrupt line at each falling     *)
(* edge, the instruction that is in writeBack, the bus (busy at a rising   *)
(* edge) and the reset line.                                               *)
(***************************************************************************)
EXTENDS Integers, Timer

CONSTANTS
  AddrSize,   \* number of addresses, 2^27 in the code
  PCstart,    \* first address of the internal ROM, no interrupts from here
  Operand,    \* the addresses and offsets that instructions carry
  Wired,      \* the interrupt inputs something drives (FPGC4.v ties one low)
  MinReset,   \* rising edges that the reset line stays high at least
  StrayReti   \* may the program execute RETI outside a handler?

ASSUME AddrAssumption ==
  /\ AddrSize \in Nat /\ PCstart \in Nat
  /\ 4 < PCstart /\ PCstart < AddrSize
  /\ Operand \subseteq 0 .. AddrSize - 1
ASSUME LineAssumption == Wired \subseteq 1 .. 8
ASSUME ResetAssumption == MinReset \in Nat /\ MinReset >= 1
ASSUME StrayAssumption == StrayReti \in BOOLEAN

-----------------------------------------------------------------------------
(* Interrupt inputs: 1..4 are int1..int4, 5..8 are ext_int1..ext_int4.  A  *)
(* lower number has priority.                                              *)

Source == 1 .. 8
NoLine == [s \in Source |-> FALSE]
Levels == {[s \in Source |-> s \in up] : up \in SUBSET Wired}

\* The address a source's handler starts at.
Vector(s) == IF s <= 4 THEN s ELSE 2

\* What READINTID returns in the handler of s, for the sources that set it.
SetsIntId_ExternalOnly(s) == s > 4
SetsIntId(s) == s \notin {1, 3, 4}
IntId(s) == IF s = 2 THEN 0 ELSE s - 4

-----------------------------------------------------------------------------
(* The instruction in writeBack, as ControlUnit.v presents it to PC.v: op  *)
(* is BRANCH for a branch whose condition holds and OTHER for everything   *)
(* that just goes on; arg is the address or offset operand, oe the flag    *)
(* that makes JUMP and JUMPR relative.                                     *)

Instr ==
  [op : {"JUMP", "JUMPR"}, arg : Operand, oe : BOOLEAN]
    \cup [op : {"BRANCH"}, arg : Operand, oe : {FALSE}]
    \cup [op : {"HALT", "RETI", "OTHER"}, arg : {0}, oe : {FALSE}]

jump(i) == i.op \in {"JUMP", "JUMPR", "BRANCH", "HALT"}
offset(i) == i.op = "BRANCH" \/ (i.op \in {"JUMP", "JUMPR"} /\ i.oe)
reti(i) == i.op = "RETI"
jump_addr(i, pc) == IF i.op = "HALT" THEN pc ELSE i.arg

\* Where the instruction at pc continues: the operand, pc plus the operand
\* in 27 bits, or the next word.  (Names with an underscore are variants of
\* the definition that follows them, with a plausible bug: no module uses them.)
NextPC_Wide(i, pc) ==
  IF ~jump(i) THEN pc + 1
  ELSE IF offset(i) THEN pc + jump_addr(i, pc)
  ELSE jump_addr(i, pc)
NextPC(i, pc) ==
  IF ~jump(i) THEN (pc + 1) % AddrSize
  ELSE IF offset(i) THEN (pc + jump_addr(i, pc)) % AddrSize
  ELSE jump_addr(i, pc)

-----------------------------------------------------------------------------
VARIABLES
  clk,             \* level of the clock
  state,           \* Timer.v: the stage
  reset, held,     \* the reset line, and for how many rising edges (capped)
  pc_out, PCintBackup, int_en, writeBack_prev, prev, rising, ext_int_id,
  cause,           \* history: the source of the last dispatch, 0 for none
  updates          \* history: writes to pc_out since writeBack was entered

regs == <<pc_out, PCintBackup, int_en, writeBack_prev, prev, rising,
          ext_int_id, cause, updates>>
vars == <<clk, state, reset, held, regs>>

Init ==
  /\ clk = "low" /\ state = "init" /\ reset = FALSE /\ held = 0
  /\ pc_out = PCstart /\ PCintBackup = 0 /\ int_en = TRUE
  /\ writeBack_prev = FALSE /\ prev = NoLine /\ rising = NoLine
  /\ ext_int_id = 0 /\ cause = 0 /\ updates = 0

-----------------------------------------------------------------------------
(* Rising edge.                                                            *)

\* The reset line is a level from registers clocked at the rising edge; it
\* stays high for at least MinReset of them.
ResetLine ==
  /\ reset' \in BOOLEAN
  /\ (reset /\ held < MinReset) => reset'
  /\ held' = IF ~reset' THEN 0 ELSE IF held < MinReset THEN held + 1 ELSE held

PosEdge(busy) ==
  /\ clk = "low" /\ clk' = "high"
  /\ ResetLine
  /\ state' = TimerStep(state, busy, reset)
  /\ updates' = IF state' = "writeBack" /\ state # "writeBack" THEN 0
                ELSE updates
  /\ UNCHANGED <<pc_out, PCintBackup, int_en, writeBack_prev, prev, rising,
                 ext_int_id, cause>>

-----------------------------------------------------------------------------
(* Falling edge.  The first block of PC.v (reset, or sampling) is followed *)
(* by the writeBack block, whose assignments come later and therefore win, *)
(* while its conditions read the registers as they were.                   *)

WriteBackEdge_Level == state = "writeBack"
WriteBackEdge_Late == state = "fetch" /\ writeBack_prev
WriteBackEdge == state = "writeBack" /\ ~writeBack_prev

Sampled_Level(line) == [s \in Source |-> line[s] /\ ~prev[s]]
Sampled(line) == [s \in Source |-> rising[s] \/ (line[s] /\ ~prev[s])]

RisingBase_NoReset(line) == Sampled(line)
RisingBase(line) == IF reset THEN NoLine ELSE Sampled(line)
IntEnBase == reset \/ int_en
BackupBase == IF reset THEN 0 ELSE PCintBackup

SampleLines(line) ==
  /\ clk = "high" /\ clk' = "low"
  /\ writeBack_prev' = (~reset /\ state = "writeBack")
  /\ prev' = IF reset THEN NoLine ELSE line
  /\ UNCHANGED <<state, reset, held>>

\* No instruction completes at this falling edge.
Hold(line) ==
  /\ ~WriteBackEdge
  /\ SampleLines(line)
  /\ rising' = RisingBase(line)
  /\ int_en' = IntEnBase
  /\ PCintBackup' = BackupBase
  /\ pc_out' = IF reset THEN PCstart ELSE pc_out
  /\ UNCHANGED <<ext_int_id, cause, updates>>

\* The source that the if-else chain reaches, if any does.
Valid_Nested(s) ==
  /\ rising[s] /\ pc_out < PCstart
  /\ \A t \in Source : t < s => ~rising[t]
Valid_LastFirst(s) ==
  /\ int_en /\ rising[s] /\ pc_out < PCstart
  /\ \A t \in Source : t > s => ~rising[t]
Valid(s) ==
  /\ int_en /\ rising[s] /\ pc_out < PCstart
  /\ \A t \in Source : t < s => ~rising[t]

Return(i, line) ==
  /\ WriteBackEdge /\ reti(i)
  /\ StrayReti \/ ~int_en
  /\ SampleLines(line)
  /\ rising' = RisingBase(line)
  /\ int_en' = TRUE
  /\ PCintBackup' = BackupBase
  /\ pc_out' = PCintBackup
  /\ updates' = updates + 1
  /\ UNCHANGED <<ext_int_id, cause>>

Dispatch(s, i, line) ==
  /\ WriteBackEdge /\ ~reti(i) /\ Valid(s)
  /\ SampleLines(line)
  /\ rising' = [RisingBase(line) EXCEPT ![s] = FALSE]
  /\ int_en' = FALSE
  /\ PCintBackup' = NextPC(i, pc_out)
  /\ pc_out' = Vector(s)
  /\ ext_int_id' = IF SetsIntId(s) THEN IntId(s) ELSE ext_int_id
  /\ cause' = s
  /\ updates' = updates + 1

Advance(i, line) ==
  /\ WriteBackEdge /\ ~reti(i) /\ \A s \in Source : ~Valid(s)
  /\ SampleLines(line)
  /\ rising' = RisingBase(line)
  /\ int_en' = IntEnBase
  /\ PCintBackup' = BackupBase
  /\ pc_out' = NextPC(i, pc_out)
  /\ updates' = updates + 1
  /\ UNCHANGED <<ext_int_id, cause>>

NegEdge(line) ==
  \/ Hold(line)
  \/ \E i \in Instr : Return(i, line)
  \/ \E i \in Instr, s \in Source : Dispatch(s, i, line)
  \/ \E i \in Instr : Advance(i, line)

Next ==
  \/ \E busy \in BOOLEAN : PosEdge(busy)
  \/ \E line \in Levels : NegEdge(line)

\* The clock never stops, and the bus answers: a stage that waits for busy
\* does not wait for ever.
Fairness ==
  /\ WF_vars(Next)
  /\ SF_vars(PosEdge(FALSE))

Spec == Init /\ [][Next]_vars
FairSpec == Spec /\ Fairness

-----------------------------------------------------------------------------
(* Properties.                                                             *)

TypeOK ==
  /\ clk \in {"low", "high"} /\ state \in Stage
  /\ reset \in BOOLEAN /\ held \in 0 .. MinReset
  /\ pc_out \in 0 .. AddrSize - 1 /\ PCintBackup \in 0 .. AddrSize - 1
  /\ int_en \in BOOLEAN /\ writeBack_prev \in BOOLEAN
  /\ prev \in [Source -> BOOLEAN] /\ rising \in [Source -> BOOLEAN]
  /\ ext_int_id \in 0 .. 4 /\ cause \in 0 .. 8 /\ updates \in Nat

\* PC.v:31-85.  When the reset line goes low, PC.v and the Timer are in their
\* reset state, although the writeBack block may have overridden the reset
\* block at the first falling edge: the reason a reset must last two cycles.
ResetState ==
  /\ pc_out = PCstart /\ int_en /\ PCintBackup = 0
  /\ rising = NoLine /\ prev = NoLine /\ ~writeBack_prev
ResetComplete == [][reset /\ ~reset' => ResetState /\ state' = "init"]_vars

\* PC.v:21,87.  An instruction writes pc_out once, however long the bus keeps
\* it in the writeBack stage.
UpdatedOnce == state = "writeBack" /\ clk = "low" => updates = 1

\* PC.v:126-226.  All of int2 and ext_int1..4 start the handler at address 2;
\* READINTID tells them apart there, whatever was dispatched before.
IntIdNamesCause ==
  ~int_en => /\ cause = 2 => ext_int_id = 0
             /\ cause \in 5 .. 8 => ext_int_id = cause - 4

\* PC.v:68-84.  An edge is not lost: outside reset a source that is pending or
\* rises at this falling edge stays pending until its own handler starts.
Started(s) == int_en /\ ~int_en' /\ cause' = s
EdgeKept ==
  [][(clk = "high" /\ ~reset) =>
        \A s \in Source : rising[s] \/ (prev'[s] /\ ~prev[s])
                              => rising'[s] \/ Started(s)]_vars

\* PC.v:87-238.  Handlers are transparent to the program: PC with its Timer
\* implements ProgramFlow, the program's counter being pc_out while interrupts
\* are enabled and PCintBackup in a handler.
Steps == {<<a, NextPC(i, a)>> : a \in 0 .. AddrSize - 1, i \in Instr}
Flow ==
  INSTANCE ProgramFlow WITH
    Start <- PCstart, Step <- Steps,
    at <- IF reset THEN PCstart ELSE IF int_en THEN pc_out ELSE PCintBackup,
    handling <- ~reset /\ ~int_en,
    down <- reset
FlowSpec == Flow!Spec

\* PC.v:96-227.  A pending source is served if the program keeps coming back
\* to code that can be interrupted and the sources before it stay quiet.
Window ==
  /\ clk = "high" /\ ~reset /\ WriteBackEdge
  /\ int_en /\ pc_out < PCstart
Served ==
  \A s \in Wired :
    (/\ []<>Window
     /\ <>[](\A t \in Source : t < s => ~rising[t]))
      => (rising[s] ~> ~rising[s])
=============================================================================
