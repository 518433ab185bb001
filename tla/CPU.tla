--------------------------------- MODULE CPU ---------------------------------
(***************************************************************************)
(* The whole CPU, CPU/CPU.v: Timer and PC with the decoder, the control    *)
(* unit, the register bank, the stack and the ALU, on a bus that answers   *)
(* after any number of clocks.  What a fetch returns is any instruction of *)
(* a set; data go to a memory and come back from it.                       *)
(***************************************************************************)
EXTENDS B322, Sequences

CONSTANTS
  PCstart, StackSize, Wired, MinReset,
  LeftRegs, LeftMem,  \* registers and memory that earlier programs have left
  Menu                \* bound: a sequence of sets, what the first instruction
                      \* fetched may be, and the second, and so on

MaxInstr == Len(Menu)
Program == UNION {Menu[n] : n \in 1 .. MaxInstr}

ASSUME ProgramAssumption ==
  /\ MaxInstr \in Nat /\ \A i \in Program : IsInstr(i)
  /\ StackSize \in Nat \ {0}
  /\ LeftRegs \subseteq [Reg -> Word] /\ LeftMem \subseteq [Addr -> Word]
\* What PC assumes; and a reset lasts two clocks, without which it is not one.
ASSUME ControllerAssumption ==
  /\ PCstart \in Nat /\ 4 < PCstart /\ PCstart < AddrSize
  /\ Wired \subseteq 1 .. 8
  /\ MinReset \in Nat /\ MinReset >= 2

VARIABLES
  clk, stage, reset, held,
  pc_out, PCintBackup, int_en, writeBack_prev, prev, rising, ext_int_id,
  cause, updates,
  instructionReg,
  regs, data_a_l, data_b_l,   \* Regbank: the registers, and those latched
  ptr, stack, stack_q,        \* Stack
  busy, q, mem,               \* the bus: what the memory unit answers
  fetched,                    \* history: instructions fetched
  depth, lost                 \* history: words on the stack when the last
                              \* instruction ended, the word a push replaced

P == INSTANCE PC WITH state <- stage, Operand <- Addr, StrayReti <- TRUE

pcvars == <<pc_out, PCintBackup, int_en, writeBack_prev, prev, rising, ext_int_id,
            cause, updates>>
datavars == <<instructionReg, regs, data_a_l, data_b_l, ptr, stack, stack_q>>
busvars == <<busy, q, mem, fetched>>
vars == <<clk, stage, reset, held, pcvars, datavars, busvars, depth, lost>>

Init ==
  /\ P!Init
  /\ instructionReg = NoInstr
  /\ regs \in LeftRegs /\ data_a_l = 0 /\ data_b_l = 0
  /\ ptr = 0 /\ stack = [s \in 0 .. StackSize - 1 |-> 0] /\ stack_q = 0
  /\ busy = FALSE /\ q = 0 /\ mem \in LeftMem
  /\ fetched = 0 /\ depth = 0 /\ lost = 0

-----------------------------------------------------------------------------
(* Wires: InstructionDecoder.v, Regbank.v, ControlUnit.v.                  *)

instruction == IF stage \in {"fetch", "getRegs"} THEN q ELSE instructionReg
instrOP == instruction.op
k == instruction.k

data_a == IF instruction.a = 0 THEN 0 ELSE data_a_l
data_b == IF instruction.b = 0 THEN 0 ELSE data_b_l

address ==
  CASE stage = "fetch" -> pc_out
    [] stage = "readMem" -> Offset(data_a, k, n2(instruction))
    [] stage = "writeBack" /\ instrOP = "WRITE" -> Offset(data_a, k, n1(instruction))
    [] stage = "writeBack" /\ instrOP = "COPY" -> Offset(data_b, k, n1(instruction))
    [] OTHER -> 0

data == IF instrOP = "COPY" THEN q ELSE data_b

start ==
  \/ stage = "fetch"
  \/ stage = "readMem" /\ instrOP \in {"READ", "COPY"}
  \/ stage = "writeBack" /\ instrOP \in {"WRITE", "COPY"}

we == stage = "writeBack" /\ instrOP \in {"WRITE", "COPY"}

readintid == instrOP = "READ" /\ intf(instruction)
read_mem == instrOP = "READ" /\ ~intf(instruction)

input_b ==
  CASE instrOP = "ARITH" /\ instruction.ce -> k
    [] instrOP = "LOAD" -> k
    [] instrOP = "SAVPC" -> pc_out
    [] instrOP = "POP" -> stack_q
    [] readintid -> ext_int_id
    [] OTHER -> data_b

skip == instrOP \in {"LOAD", "SAVPC", "POP"} \/ readintid
y == IF skip THEN input_b ELSE Alu(instruction.alu, data_a, input_b)

dreg_we == instrOP \in {"ARITH", "LOAD", "READ", "SAVPC", "POP"}
dreg_we_high_Ignored == FALSE
dreg_we_high == instrOP = "LOAD" /\ he(instruction)

push == stage = "readMem" /\ instrOP = "PUSH"
pop == stage = "readMem" /\ instrOP = "POP"

branch ==
  \/ instrOP = "BEQ" /\ input_b = data_a
  \/ instrOP = "BNE" /\ input_b # data_a
  \/ instrOP = "BGT" /\ ~(input_b > data_a) /\ input_b # data_a
  \/ instrOP = "BGE" /\ ~(input_b > data_a)

\* What the control unit tells PC.v.
jumping ==
  CASE instrOP = "JUMP" -> [op |-> "JUMP", arg |-> k % AddrSize, oe |-> oe(instruction)]
    [] instrOP = "JUMPR"
         -> [op |-> "JUMPR", arg |-> (data_b + k) % AddrSize, oe |-> oe(instruction)]
    [] instrOP \in {"HALT", "RETI"} -> [op |-> instrOP, arg |-> 0, oe |-> FALSE]
    [] branch -> [op |-> "BRANCH", arg |-> k % AddrSize, oe |-> FALSE]
    [] OTHER -> [op |-> "OTHER", arg |-> 0, oe |-> FALSE]

-----------------------------------------------------------------------------
PosEdge ==
  /\ P!PosEdge(busy)
  /\ UNCHANGED <<datavars, busvars, depth, lost>>

PcNeg(line) ==
  \/ P!Hold(line)
  \/ P!Return(jumping, line)
  \/ \E s \in P!Source : P!Dispatch(s, jumping, line)
  \/ P!Advance(jumping, line)

DecoderNeg ==
  instructionReg' = IF reset THEN NoInstr
                    ELSE IF stage = "getRegs" THEN q ELSE instructionReg

RegbankNeg ==
  /\ IF stage = "getRegs"
     THEN data_a_l' = regs[instruction.a] /\ data_b_l' = regs[instruction.b]
     ELSE UNCHANGED <<data_a_l, data_b_l>>
  /\ IF stage = "writeBack" /\ dreg_we
     THEN regs' = [regs EXCEPT ![instruction.d] =
            IF read_mem THEN q
            ELSE IF dreg_we_high THEN LowHalf(y) * HalfSize + LowHalf(@)
            ELSE y]
     ELSE UNCHANGED regs

NextPtr_NoWrap ==
  CASE push -> ptr + 1
    [] pop -> ptr - 1
    [] OTHER -> ptr
NextPtr ==
  CASE push -> (ptr + 1) % StackSize
    [] pop -> (ptr - 1) % StackSize
    [] OTHER -> ptr
StackNeg ==
  IF reset THEN ptr' = 0 /\ UNCHANGED <<stack, stack_q>>
  ELSE /\ stack' = IF push THEN [stack EXCEPT ![ptr] = data_b] ELSE stack
       /\ stack_q' = IF pop THEN stack[(ptr - 1) % StackSize] ELSE stack_q
       /\ ptr' = NextPtr

\* The memory unit: it takes a start line, and answers later.
Written == IF we THEN [mem EXCEPT ![address] = data] ELSE mem
Returned ==
  CASE stage = "fetch" -> Menu[fetched + 1]
    [] stage = "readMem" -> {mem[address]}
    [] OTHER -> {0}
BusReset ==
  /\ reset /\ busy' = FALSE /\ q' = 0 /\ mem' \in {mem, Written}
  /\ UNCHANGED fetched
BusWait ==
  /\ ~reset /\ busy' = (busy \/ start) /\ UNCHANGED <<q, mem, fetched>>
BusAnswer ==
  /\ ~reset /\ busy /\ busy' = FALSE
  /\ stage = "fetch" => fetched < MaxInstr
  /\ q' \in Returned /\ mem' = Written
  /\ fetched' = IF stage = "fetch" THEN fetched + 1 ELSE fetched

NegEdge(line) ==
  /\ PcNeg(line)
  /\ DecoderNeg /\ RegbankNeg /\ StackNeg
  /\ BusReset \/ BusWait \/ BusAnswer
  /\ depth' = IF reset THEN 0
              ELSE CASE P!WriteBackEdge /\ instrOP = "PUSH" /\ depth < StackSize -> depth + 1
                     [] P!WriteBackEdge /\ instrOP = "POP" /\ depth > 0 -> depth - 1
                     [] OTHER -> depth
  /\ lost' = IF push THEN stack[ptr] ELSE 0

Next == PosEdge \/ \E line \in P!Levels : NegEdge(line)

Spec == Init /\ [][Next]_vars

-----------------------------------------------------------------------------
TypeOK ==
  /\ P!TypeOK
  /\ IsInstr(instructionReg)
  /\ regs \in [Reg -> Word] /\ {data_a_l, data_b_l, stack_q, lost} \subseteq Word
  /\ ptr \in 0 .. StackSize - 1 /\ stack \in [0 .. StackSize - 1 -> Word]
  /\ busy \in BOOLEAN /\ mem \in [Addr -> Word]
  /\ stage = "getRegs" /\ ~reset => q \in Program
  /\ stage = "writeBack" /\ (read_mem \/ we) /\ ~reset => data \in Word
  /\ fetched \in 0 .. MaxInstr /\ depth \in 0 .. StackSize

\* CPU.v.  The CPU, which spreads an instruction over four stages and as many
\* clocks as the bus likes, implements ISA.  An instruction takes effect at
\* the first falling edge of writeBack; a push or a pop, which moves the stack
\* one stage earlier, is hidden until then.
Early == \/ stage = "readMem" /\ clk = "low"
         \/ stage = "writeBack" /\ clk = "high"
EarlyPush == Early /\ instrOP = "PUSH"
EarlyPop == Early /\ instrOP = "POP"
Top == CASE EarlyPush -> ptr - 1 [] EarlyPop -> ptr + 1 [] OTHER -> ptr
Entry(s) ==
  IF EarlyPush /\ s = Top % StackSize THEN lost ELSE stack[s]
Arch ==
  INSTANCE ISA WITH
    Ids <- 0 .. 4,
    pc <- pc_out, backup <- PCintBackup, enabled <- int_en, id <- ext_int_id,
    regs <- [r \in Reg \ {0} |-> regs[r]],
    stack <- IF reset THEN <<>>
             ELSE [n \in 1 .. depth |-> Entry((Top - depth + n - 1) % StackSize)],
    pending <- IF busy /\ we THEN [cell |-> address, word |-> data] ELSE [cell |-> -1],
    down <- reset
IsaSpec == Arch!Spec

\* ControlUnit.v:62-83.  What the memory unit and its devices read off the
\* lines, some of them many clocks after start, stays until they have answered.
LinesHold ==
  [][start /\ stage' = stage /\ ~(busy /\ ~busy') /\ ~reset
       => <<address, we>>' = <<address, we>> /\ (we => data' = data)]_vars

\* Documentation/docs/cpu.md:31: COPY reads "from address in AREG + 16 bit
\* offset ... If N == 1, then do - offset instead", N being bit 0.
CopyOffset ==
  stage = "readMem" /\ instrOP = "COPY"
    => address = Offset(data_a, k, n1(instruction))
=============================================================================
