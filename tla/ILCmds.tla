-------------------------------- MODULE ILCmds --------------------------------
(***************************************************************************)
(* The commands of the intermediate language: what each says of the        *)
(* registers it wants, destroys and keeps apart, and the instructions it   *)
(* becomes (shivyc/il_cmds, with spots.py and asm_cmds.py).  A command the *)
(* code raises an exception for, and an instruction the assembler rejects, *)
(* are Refused.                                                            *)
(***************************************************************************)
EXTENDS ILGen

-----------------------------------------------------------------------------
(* Spots: a register, a literal, or memory at an offset from a register or *)
(* a label, with a number (count) of chunks more.                          *)

NoSpot == [kind |-> "none"]
RegSpot(n) == [kind |-> "reg", n |-> n]
LiteralSpot(n) == [kind |-> "lit", n |-> n]
MemSpot(base, offset) ==
  [kind |-> "mem", base |-> base, offset |-> offset, chunk |-> 0, count |-> NoSpot]
LabelBase(name) == [kind |-> "label", name |-> name]

IsReg(s) == s.kind = "reg"
IsLit(s) == s.kind = "lit"
IsMem(s) == s.kind = "mem"

shift(s, chunk, count) ==
  IF count = NoSpot THEN [s EXCEPT !.offset = @ + chunk]
  ELSE [s EXCEPT !.offset = @ + s.chunk, !.chunk = chunk, !.count = count]

R(n) == RegSpot(n)
RAX == 1
RCX == 2
RDX == 3
RSI == 4
RDI == 5
RBP == 14
RSP == 15
registers == <<RAX, RCX, RDX, RSI, RDI, 8, 9, 10, 11>>
arg_regs == <<RDI, RSI, RDX, RCX, 8, 9>>

-----------------------------------------------------------------------------
(* Instructions, as the assembler accepts them; those of the ALU have its  *)
(* names.                                                                  *)

Refused == << [op |-> "refused"] >>
Instr3(op, a, b, d) ==
  IF IsReg(a) /\ IsReg(d) /\ (IsReg(b) \/ (IsLit(b) /\ b.n \in 0 .. 2047))
  THEN << [op |-> op, a |-> a.n, b |-> b, d |-> d.n] >> ELSE Refused
Access(op, k, base, r) ==
  IF IsReg(base) /\ IsReg(r) /\ k \in -65535 .. 65535
  THEN << [op |-> op, k |-> k, base |-> base.n, r |-> r.n] >>
  ELSE Refused

\* Add, Sub, Mult, And, Or, Xor, Shiftl, Shiftr: the first argument is also
\* the destination.
Arith(op, dest, s) == Instr3(op, dest, s, dest)
Mov(dest, s) == Instr3("OR", R(0), s, dest)
Not(dest) == Instr3("NOTA", dest, dest, dest)
Load(s, dest) ==
  IF IsLit(s) /\ IsReg(dest) /\ s.n >= 0
  THEN << [op |-> "load32", n |-> s.n, r |-> dest.n] >> ELSE Refused
Addr2Reg(name, r) == << [op |-> "addr2reg", label |-> name, r |-> r.n] >>
SavPC(r) == << [op |-> "savpc", r |-> r.n] >>
Jumpr(k, r) == IF IsReg(r) THEN << [op |-> "jumpr", k |-> k, r |-> r.n] >> ELSE Refused
Jump(label) == << [op |-> "jump", label |-> label] >>
Label(label) == << [op |-> "label", label |-> label] >>
\* Over the next instruction.
Branch(op, a, b) == << [op |-> op, a |-> a.n, b |-> b.n] >>

\* Read and Write: in a memory spot a count counts only if it is a literal.
InMemory(op, s, r) ==
  LET k == s.offset + (IF IsLit(s.count) THEN s.chunk * s.count.n ELSE 0)
  IN IF s.base.kind = "label" THEN Addr2Reg(s.base.name, R(7)) \o Access(op, k, R(7), r)
     ELSE Access(op, k, s.base, r)
Read(s, r) == IF IsMem(s) THEN InMemory("read", s, r) ELSE Access("read", 0, s, r)
Write(s, r) == IF IsMem(s) THEN InMemory("write", s, r) ELSE Access("write", 0, s, r)

Lea(dest, s) ==
  LET k == s.offset + s.chunk * s.count.n
  IN IF ~ IsLit(s.count) THEN Refused
     ELSE IF k >= 0 THEN Instr3("ADD", s.base, LiteralSpot(k), dest)
     ELSE Instr3("SUB", s.base, LiteralSpot(-k), dest)

\* Any spot into a register.
Fetch(s, r) == CASE IsLit(s) -> Load(s, r) [] IsMem(s) -> Read(s, r) [] IsReg(s) -> Mov(r, s)

-----------------------------------------------------------------------------
(* What a command says to the register allocator: sets of pairs. *)

AddMult == {"Add", "Subtr", "Mult"}
BitCmds == {"LBitShift", "RBitShift", "And", "Or", "Xor"}
Compare == {Comparison[o] : o \in DOMAIN Comparison}

targets(c) == IF c.op \in {"Jump", "JumpZero", "JumpNotZero"} THEN {c.label} ELSE {}

clobber(c) ==
  CASE c.op = "Return" -> <<RAX>>
    [] c.op = "Call" -> registers
    [] c.op \in BitCmds -> <<RCX>>
    [] c.op \in {"Div", "Mod"} -> <<RAX, RDX>>
    [] c.op = "LoadArg" -> <<arg_regs[c.num]>>
    [] OTHER -> <<>>

args(c) == Tail(c.in)

rel_spot_conf(c) ==
  IF c.op \in Compare THEN {<<c.out[1], c.in[1]>>, <<c.out[1], c.in[2]>>} ELSE {}

\* In the order the registers are mentioned.
abs_spot_conf(c) ==
  CASE c.op = "Call" -> [i \in 1 .. Len(args(c)) |-> <<c.in[1], arg_regs[i]>>]
    [] c.op \in {"Div", "Mod"} -> << <<c.in[2], RDX>>, <<c.in[2], RAX>> >>
    [] OTHER -> <<>>

rel_spot_pref(c) ==
  CASE c.op \in AddMult -> {<<c.out[1], c.in[1]>>, <<c.out[1], c.in[2]>>}
    [] c.op \in BitCmds \cup {"Neg", "Not", "Set"} -> {<<c.out[1], c.in[1]>>}
    [] OTHER -> {}

\* An argument given twice prefers the last of its registers, at the place
\* of the first.
CallPrefs(c) ==
  LET a == args(c)
      LastOf(v) == CHOOSE i \in DOMAIN a : a[i] = v /\ \A j \in DOMAIN a : a[j] = v => j <= i
      first == SelectSeq([i \in 1 .. Len(a) |-> i],
                         LAMBDA i : \A j \in 1 .. i - 1 : a[j] # a[i])
  IN (IF c.out = <<>> THEN <<>> ELSE << <<c.out[1], RAX>> >>)
     \o [n \in 1 .. Len(first) |-> <<a[first[n]], arg_regs[LastOf(a[first[n]])]>>]

abs_spot_pref(c) ==
  CASE c.op = "Return" /\ c.in # <<>> -> << <<c.in[1], RAX>> >>
    [] c.op = "Call" -> CallPrefs(c)
    [] c.op \in BitCmds -> << <<c.in[2], RCX>> >>
    [] c.op = "Div" -> << <<c.out[1], RAX>>, <<c.in[1], RAX>> >>
    [] c.op = "Mod" -> << <<c.out[1], RDX>>, <<c.in[1], RAX>> >>
    [] c.op = "LoadArg" -> << <<c.out[1], arg_regs[c.num]>> >>
    [] OTHER -> <<>>

\* The value whose address the command needs.
references(c) ==
  CASE c.op = "AddrOf" -> <<c.in[1]>>
    [] c.op \in {"SetRel", "AddrRel", "ReadRel"} -> <<c.base>>
    [] OTHER -> <<>>
-----------------------------------------------------------------------------
(* The instructions of a command.  e is what the register allocator left   *)
(* behind: the spot of every value, and the registers that hold values     *)
(* the command must keep (bad).                                            *)

get_reg(e, pref, conf) ==
  LET all == pref \o [i \in 1 .. Len(registers) |-> R(registers[i])]
      good == {i \in DOMAIN all : IsReg(all[i]) /\ all[i] \notin e.bad \cup conf}
  IN IF good = {} THEN NoSpot ELSE all[CHOOSE i \in good : \A j \in good : i <= j]

\* A register that is asked for and not used.
Needed(r) == IF r = NoSpot THEN Refused ELSE <<>>
MovIfOther(dest, s) == IF dest = s THEN <<>> ELSE Mov(dest, s)

Inst == ("Add" :> "ADD") @@ ("Subtr" :> "SUB") @@ ("Mult" :> "MULT") @@
        ("LBitShift" :> "SHIFTL") @@ ("RBitShift" :> "SHIFTR") @@
        ("And" :> "AND") @@ ("Or" :> "OR") @@ ("Xor" :> "XOR")

AddMultAsm(c, e) ==
  LET out == e.spot[c.out[1]]
      arg1 == e.spot[c.in[1]]
      arg2 == e.spot[c.in[2]]
      temp == get_reg(e, <<out, arg1, arg2>>, {})
      WithTemp(s) == Arith(Inst[c.op], temp, s)
      body ==
        CASE temp = arg1 -> Fetch(arg2, R(12)) \o WithTemp(R(12))
          [] temp # arg1 /\ temp = arg2 ->
               Fetch(arg1, R(12)) \o WithTemp(R(12))
               \o (IF c.op # "Subtr" THEN <<>> ELSE Not(temp) \o Arith("ADD", temp, LiteralSpot(1)))
          [] OTHER ->
               CASE IsReg(arg1) /\ IsReg(arg2) -> Mov(temp, arg1) \o WithTemp(arg2)
                 [] IsLit(arg2) ->
                      (IF IsMem(arg1) THEN Read(arg1, temp) ELSE Mov(temp, arg1)) \o WithTemp(arg2)
                 [] IsLit(arg1) /\ IsReg(arg2) -> Load(arg1, temp) \o WithTemp(arg2)
                 [] IsLit(arg1) /\ IsMem(arg2) ->
                      Load(arg1, temp) \o Read(arg2, R(12)) \o WithTemp(R(12))
                 [] OTHER -> Read(arg1, temp) \o Read(arg2, R(12)) \o WithTemp(R(12))
  IN body \o MovIfOther(out, temp)

BitAsm(c, e) ==
  LET out == e.spot[c.out[1]]
      arg1 == e.spot[c.in[1]]
      arg2 == e.spot[c.in[2]]
      toRCX == arg2 # R(RCX) /\ ~ (IsLit(arg2) /\ arg2.n < 255)
      saved == IF toRCX /\ arg1 = R(RCX) THEN get_reg(e, <<out, arg1>>, {arg2, R(RCX)}) ELSE arg1
      by == IF toRCX THEN R(RCX) ELSE arg2
      temp == get_reg(e, <<out, saved>>, {by})
  IN MovIfOther(saved, arg1)
     \o (IF toRCX THEN Mov(by, arg2) ELSE <<>>)
     \o IF out = saved THEN Arith(Inst[c.op], saved, by)
        ELSE (CASE saved = temp -> <<>>
                [] saved # temp /\ IsMem(saved) -> Read(saved, temp)
                [] OTHER -> Mov(temp, saved))
             \o Arith(Inst[c.op], temp, by) \o MovIfOther(out, temp)

\* Neg is Not.
NegNotAsm(c, e) ==
  MovIfOther(e.spot[c.out[1]], e.spot[c.in[1]]) \o Not(e.spot[c.out[1]])

cmp_command ==
  ("EqualCmp" :> "bne") @@ ("NotEqualCmp" :> "beq") @@
  ("LessCmp" :> "bge") @@ ("GreaterCmp" :> "bge") @@
  ("LessOrEqCmp" :> "bgt") @@ ("GreaterOrEqCmp" :> "bgt")

\* The result is 1 unless the branch finds the comparison false.
CompareAsm(c, e, label) ==
  LET out == e.spot[c.out[1]]
      arg1 == e.spot[c.in[1]]
      arg2 == e.spot[c.in[2]]
      result == get_reg(e, <<out>>, {arg1, arg2})
      both == (IsLit(arg1) /\ IsLit(arg2)) \/ (IsMem(arg1) /\ IsMem(arg2))
      r == get_reg(e, <<>>, {result})
      fixed == IF both THEN r ELSE arg1
      swap == IsLit(fixed)
      left == IF swap THEN arg2 ELSE fixed
      right == IF swap THEN fixed ELSE arg2
  IN Mov(result, LiteralSpot(1))
     \o (IF both THEN Fetch(arg1, r) ELSE <<>>)
     \o Fetch(left, R(12)) \o Fetch(right, R(13))
     \o (IF c.op \in {"LessCmp", "LessOrEqCmp"} THEN Branch(cmp_command[c.op], R(12), R(13))
         ELSE Branch(cmp_command[c.op], R(13), R(12)))
     \o Jump(label) \o Mov(result, LiteralSpot(0)) \o Label(label) \o MovIfOther(out, result)

CondJumpAsm(c, e) ==
  LET cond == e.spot[c.in[1]]
      r == get_reg(e, <<>>, {})
      Cmp(s) == Instr3("SUB", s, LiteralSpot(0), R(12))
  IN (CASE IsLit(cond) -> Mov(r, cond) \o Cmp(r)
        [] IsMem(cond) -> Read(cond, R(12))
        [] IsReg(cond) -> Cmp(cond))
     \o Branch(IF c.op = "JumpZero" THEN "bne" ELSE "beq", R(0), R(12)) \o Jump(c.label)

\* Memory goes through r12, anything else directly.
MoveToArg(dest, s) ==
  IF IsMem(s) THEN Read(s, R(12)) \o Mov(dest, R(12)) ELSE Mov(dest, s)

ReturnAsm(c, e) ==
  LET arg == e.spot[c.in[1]]
  IN (CASE c.in = <<>> -> <<>>
        [] c.in # <<>> /\ IsLit(arg) -> Load(arg, R(RAX))
        [] OTHER -> IF arg = R(RAX) THEN <<>> ELSE MoveToArg(R(RAX), arg))
     \o Mov(R(RSP), R(RBP)) \o Read(R(RSP), R(RBP)) \o Arith("ADD", R(RSP), LiteralSpot(1))
     \o Read(R(RSP), R(12)) \o Arith("ADD", R(RSP), LiteralSpot(1)) \o Jumpr(4, R(12))

ArgMoves(c, e) ==
  FoldLeft(LAMBDA acc, i : LET s == e.spot[args(c)[i]]
                           IN acc \o IF s = R(arg_regs[i]) THEN <<>> ELSE MoveToArg(R(arg_regs[i]), s),
           <<>>, [i \in 1 .. Len(args(c)) |-> i])

\* The return address is where SavPC is; Return adds the four instructions.
CallAsm(c, e) ==
  LET func == e.spot[c.in[1]]
      used == {R(arg_regs[i]) : i \in DOMAIN args(c)}
      other == get_reg(e, <<>>, used)
      dest == IF func \in used THEN other ELSE func
  IN (IF func \in used THEN Mov(other, func) ELSE <<>>)
     \o (IF IsMem(dest) THEN Read(dest, R(13)) ELSE <<>>)
     \o ArgMoves(c, e)
     \o SavPC(R(12)) \o Arith("SUB", R(RSP), LiteralSpot(1)) \o Write(R(RSP), R(12))
     \o Jumpr(0, IF IsMem(dest) THEN R(13) ELSE dest)
     \o (IF c.out = <<>> THEN <<>> ELSE MovIfOther(e.spot[c.out[1]], R(RAX)))

\* move_data moves a word, whatever the size.
move_data(target, start) ==
  LET computed == IsMem(target) /\ IsReg(target.count)
      k == target.offset
      address == Mov(R(13), target.base)
                 \o Load(LiteralSpot(target.chunk), R(12)) \o Arith("MULT", R(12), target.count)
                 \o Arith("ADD", R(13), R(12))
                 \o Load(LiteralSpot(IF k >= 0 THEN k ELSE -k), R(12))
                 \o Arith(IF k >= 0 THEN "ADD" ELSE "SUB", R(13), R(12))
      at == IF computed THEN R(13) ELSE target
  IN CASE IsReg(target) -> Fetch(start, target)
       [] IsMem(target) ->
            (IF computed THEN address ELSE <<>>)
            \o (IF IsReg(start) THEN Write(at, start) ELSE Fetch(start, R(12)) \o Write(at, R(12)))
       [] IsLit(target) -> <<>>

AddrOfAsm(c, e) ==
  LET out == e.spot[c.out[1]]
      home == e.spot[c.in[1]]
      r == get_reg(e, <<out>>, {})
      t == CType(e.il, c.in[1])
  IN (IF home.base.kind = "label" /\ ~ IsArith(t)
      THEN (IF IsReg(r) THEN Addr2Reg(home.base.name, r) ELSE Refused)
      ELSE Read(home, r))
     \o (IF r = out THEN <<>> ELSE move_data(out, r))

ReadAtAsm(c, e) ==
  LET out == e.spot[c.out[1]]
      addr_spot == e.spot[c.in[1]]
      addr_r == IF IsReg(addr_spot) THEN addr_spot ELSE get_reg(e, <<>>, {out})
  IN (CASE IsReg(addr_spot) -> <<>>
        [] IsMem(addr_spot) -> Read(addr_spot, addr_r)
        [] IsLit(addr_spot) -> Mov(addr_r, addr_spot))
     \o (IF IsReg(out) THEN <<>> ELSE Needed(get_reg(e, <<>>, {addr_r})))
     \o move_data(out, MemSpot(addr_r, 0))

SetAtAsm(c, e) ==
  LET addr_spot == e.spot[c.in[1]]
      value == e.spot[c.in[2]]
      addr_r == IF IsReg(addr_spot) THEN addr_spot ELSE get_reg(e, <<>>, {value})
  IN MovIfOther(addr_r, addr_spot)
     \o (IF IsReg(value) THEN <<>> ELSE Needed(get_reg(e, <<>>, {addr_r})))
     \o move_data(MemSpot(addr_r, 0), value)

\* SetRel, AddrRel and ReadRel.  A count that is in memory is moved to a
\* register with an instruction that cannot; a value in memory without a
\* count is looked for in a spot of None.
RelAsm(c, e) ==
  LET value == e.spot[c.val]
      count == IF c.count = None THEN NoSpot ELSE e.spot[c.count]
      rel == shift(e.spot[c.base], c.chunk, count)
      reg == IF IsMem(value) THEN get_reg(e, <<>>, {count}) ELSE value
  IN IF ~ IsMem(e.spot[c.base]) \/ IsMem(count) \/ (IsMem(value) /\ c.count = None) THEN Refused
     ELSE (IF IsMem(value) THEN Needed(reg) ELSE <<>>)
          \o CASE c.op = "SetRel" -> move_data(rel, value)
               [] c.op = "ReadRel" -> move_data(value, rel)
               [] c.op = "AddrRel" -> Lea(reg, rel) \o MovIfOther(value, reg)

make_asm(c, e, label) ==
  CASE c.op \in AddMult -> AddMultAsm(c, e)
    [] c.op \in BitCmds -> BitAsm(c, e)
    [] c.op \in {"Div", "Mod"} -> Refused
    [] c.op \in {"Neg", "Not"} -> NegNotAsm(c, e)
    [] c.op \in Compare -> CompareAsm(c, e, label)
    [] c.op = "Label" -> Label(c.label)
    [] c.op = "Jump" -> Jump(c.label)
    [] c.op \in {"JumpZero", "JumpNotZero"} -> CondJumpAsm(c, e)
    [] c.op = "Return" -> ReturnAsm(c, e)
    [] c.op = "Call" -> CallAsm(c, e)
    [] c.op = "ASMcode" -> c.code
    [] c.op = "LoadArg" ->
         LET out == e.spot[c.out[1]]
             reg == R(arg_regs[c.num])
         IN IF IsMem(out) THEN Write(out, reg) ELSE MovIfOther(out, reg)
    [] c.op = "Set" ->
         IF e.spot[c.in[1]] = e.spot[c.out[1]] THEN <<>>
         ELSE move_data(e.spot[c.out[1]], e.spot[c.in[1]])
    [] c.op = "AddrOf" -> AddrOfAsm(c, e)
    [] c.op = "ReadAt" -> ReadAtAsm(c, e)
    [] c.op = "SetAt" -> SetAtAsm(c, e)
    [] c.op \in {"SetRel", "AddrRel", "ReadRel"} -> RelAsm(c, e)
=============================================================================
