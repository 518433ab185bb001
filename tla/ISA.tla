--------------------------------- MODULE ISA ---------------------------------
(***************************************************************************)
(* What the CPU promises its program: each instruction takes effect at     *)
(* once, on program counter, registers, stack and memory, and an interrupt *)
(* can only come between two of them.  A store may still be on its way to  *)
(* memory (pending) when its instruction is over, but not when the next    *)
(* one takes effect.  A reset loses the stack and perhaps the store.       *)
(***************************************************************************)
EXTENDS B322, Sequences

CONSTANTS
  Program,    \* the instructions that programs are made of
  StackSize,  \* 1024 in the code
  PCstart,    \* first address of the ROM, no interrupts from here
  Ids         \* what READINTID may return

VARIABLES pc, backup, enabled, id, regs, stack, mem, pending, down

None == [cell |-> -1]
isavars == <<pc, backup, enabled, id, regs, stack, mem, pending, down>>

R(r) == IF r = 0 THEN 0 ELSE regs[r]
ReadFrom(i) == mem[Offset(R(i.a), i.k, n2(i))]

Init ==
  /\ pc = PCstart /\ backup = 0 /\ enabled = TRUE /\ id = 0
  /\ regs \in [Reg \ {0} -> Word] /\ mem \in [Addr -> Word]
  /\ stack = <<>> /\ pending = None /\ down = FALSE

-----------------------------------------------------------------------------
(* The effect of an instruction.                                           *)

\* What it may put into its register.
Results(i) ==
  CASE i.op = "ARITH" -> {Alu(i.alu, R(i.a), IF i.ce THEN i.k ELSE R(i.b))}
    [] i.op = "LOAD" /\ ~he(i) -> {i.k}
    [] i.op = "LOAD" /\ he(i) -> {i.k * HalfSize + LowHalf(R(i.d))}
    [] i.op = "SAVPC" -> {pc}
    [] i.op = "READ" /\ intf(i) -> {id}
    [] i.op = "READ" /\ ~intf(i) -> {ReadFrom(i)}
    [] i.op = "POP" /\ stack # <<>> -> {stack[Len(stack)]}
    [] i.op = "POP" /\ stack = <<>> -> Word
    [] OTHER -> {}

RegsAfter(i) ==
  IF i.d = 0 \/ Results(i) = {} THEN {regs}
  ELSE {[regs EXCEPT ![i.d] = w] : w \in Results(i)}

\* The stack keeps the last StackSize words.
StackAfter(i) ==
  CASE i.op = "PUSH" /\ Len(stack) < StackSize -> Append(stack, R(i.b))
    [] i.op = "PUSH" /\ Len(stack) = StackSize -> Append(Tail(stack), R(i.b))
    [] i.op = "POP" /\ stack # <<>> -> SubSeq(stack, 1, Len(stack) - 1)
    [] OTHER -> stack

StoreOf(i) ==
  CASE i.op = "WRITE" -> [cell |-> Offset(R(i.a), i.k, n1(i)), word |-> R(i.b)]
    [] i.op = "COPY" -> [cell |-> Offset(R(i.b), i.k, n1(i)), word |-> ReadFrom(i)]
    [] OTHER -> None

Taken(i) ==
  CASE i.op = "BEQ" -> R(i.a) = R(i.b)
    [] i.op = "BNE" -> R(i.a) # R(i.b)
    [] i.op = "BGT" -> R(i.a) > R(i.b)
    [] i.op = "BGE" -> R(i.a) >= R(i.b)
    [] OTHER -> FALSE

\* The next instruction of the program.
Target(i) ==
  CASE i.op = "HALT" -> pc
    [] i.op = "JUMP" -> (IF oe(i) THEN pc + i.k ELSE i.k) % AddrSize
    [] i.op = "JUMPR" -> (IF oe(i) THEN pc + R(i.b) + i.k ELSE R(i.b) + i.k) % AddrSize
    [] OTHER -> (IF Taken(i) THEN pc + i.k ELSE pc + 1) % AddrSize

-----------------------------------------------------------------------------
Continue(i) ==
  /\ i.op # "RETI"
  /\ pc' = Target(i)
  /\ UNCHANGED <<backup, enabled, id>>

Interrupted(i) ==
  /\ i.op # "RETI" /\ enabled /\ pc < PCstart
  /\ backup' = Target(i)
  /\ pc' \in 1 .. 4 /\ id' \in Ids /\ enabled' = FALSE

Return(i) ==
  /\ i.op = "RETI"
  /\ pc' = backup /\ enabled' = TRUE
  /\ UNCHANGED <<backup, id>>

Execute(i) ==
  /\ ~down /\ pending = None
  /\ Continue(i) \/ Interrupted(i) \/ Return(i)
  /\ regs' \in RegsAfter(i)
  /\ stack' = StackAfter(i)
  /\ pending' = StoreOf(i)
  /\ UNCHANGED <<mem, down>>

Stored(p) == [mem EXCEPT ![p.cell] = p.word]

Land ==
  /\ ~down /\ pending # None
  /\ mem' = Stored(pending) /\ pending' = None
  /\ UNCHANGED <<pc, backup, enabled, id, regs, stack, down>>

ResetBegins ==
  /\ ~down /\ down'
  /\ stack' = <<>>
  /\ UNCHANGED <<pc, backup, enabled, id, regs, mem, pending>>

\* In a reset a pending store, or the instruction that was under way, may
\* still have its effect on registers and memory.
InReset ==
  /\ down /\ down'
  /\ pc' \in Addr /\ backup' \in Addr /\ enabled' \in BOOLEAN /\ id' \in Ids
  /\ stack' = <<>> /\ pending' = None
  /\ \/ UNCHANGED <<regs, mem>>
     \/ pending # None /\ mem' = Stored(pending) /\ UNCHANGED regs
     \/ \E i \in Program :
          /\ pending = None
          /\ regs' \in RegsAfter(i)
          /\ mem' \in {mem} \cup {Stored(p) : p \in {StoreOf(i)} \ {None}}

ResetEnds ==
  /\ down /\ ~down' /\ pending = None
  /\ pc' = PCstart /\ backup' = 0 /\ enabled' = TRUE
  /\ UNCHANGED <<id, regs, stack, mem, pending>>

Next ==
  \/ \E i \in Program : Execute(i)
  \/ Land \/ ResetBegins \/ InReset \/ ResetEnds

Spec == Init /\ [][Next]_isavars
=============================================================================
