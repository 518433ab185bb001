------------------------------- MODULE Compiler -------------------------------
(***************************************************************************)
(* The back end of the C compiler (ASMGen and ASMCode of                   *)
(* shivyc/asm_gen.py) with what is around it: a program is translated to   *)
(* the intermediate language, every function is analysed, its values get   *)
(* registers or memory, and instructions are written; the wrapper is put   *)
(* around them and the machine runs the result, with interrupts at any     *)
(* point.                                                                  *)
(*                                                                         *)
(* Nodes of the register allocator are numbered: the registers with their  *)
(* numbers, the free values of a function from 16 in the order of the      *)
(* list, so that the first of a list is the least.                         *)
(***************************************************************************)
EXTENDS ILCmds, RegAlloc

CONSTANTS
  Programs,   \* a sequence of trees, with what they mean and the interrupts to try
  Ints,       \* the interrupts there are handlers for: 1 to 4 in the code
  Junk        \* what registers and memory may hold before they are written

VARIABLES
  program, stage,
  il,        \* il_code and symbol_table
  func,      \* the function being translated
  cmd,       \* the command
  home,      \* global_spotmap
  offset,    \* the stack allocated so far
  free,      \* free_values
  live,      \* live_vars: what is live into and out of each command
  dummies,   \* the registers in the graph, in the order they were added
  spots,     \* spotmap: the spot of every value
  code,      \* the instructions
  cpu,       \* the machine
  sent       \* the words sent over the UART

allocator == <<original, graph, spilled, removed, members, spotmap, alloc, changed>>
compilerVars == <<program, stage, il, func, cmd, home, offset, free, live, dummies, spots,
                  code, cpu, sent, allocator>>

Stages == {"il", "place", "live", "graph", "alloc", "emit", "link", "run",
           "halted", "lost", "refused"}
NoCpu == [text |-> <<>>]

CompilerInit ==
  /\ Init
  /\ program \in DOMAIN Programs /\ stage = "il" /\ il = Start
  /\ func = 1 /\ cmd = 1 /\ home = <<>> /\ offset = 0
  /\ free = <<>> /\ live = <<>> /\ dummies = <<>> /\ spots = <<>>
  /\ code = <<>> /\ cpu = NoCpu /\ sent = <<>>

-----------------------------------------------------------------------------
(* The spots of literals, strings, functions and static variables.  A      *)
(* variable that is not initialised needs a method that does not exist.    *)

Nondynamic(s) == DOMAIN s.literals \cup DOMAIN s.strings \cup DOMAIN s.named \cup DOMAIN s.static

StaticName(v, d) == <<d.name, IF d.shared THEN 0 ELSE v>>
StringName(v) == <<"strlit", v>>

_get_nondynamic_spot(s, v) ==
  CASE v \in DOMAIN s.literals -> LiteralSpot(s.literals[v])
    [] v \in DOMAIN s.strings -> MemSpot(LabelBase(StringName(v)), 0)
    [] v \in DOMAIN s.named -> MemSpot(LabelBase(<<s.named[v], 0>>), 0)
    [] v \in DOMAIN s.static -> MemSpot(LabelBase(StaticName(v, s.static[v])), 0)

MakeIL ==
  /\ stage = "il"
  /\ \E s \in {Root(Programs[program].tree)} :
       /\ il' = s
       /\ stage' = IF s.raised \/ \E v \in DOMAIN s.static : s.static[v].tentative
                   THEN "refused" ELSE "place"
       /\ home' = [v \in Nondynamic(s) |-> _get_nondynamic_spot(s, v)]
  /\ UNCHANGED <<program, func, cmd, offset, free, live, dummies, spots, code, cpu, sent, allocator>>

-----------------------------------------------------------------------------
(* The values of a function that need a spot, and those that go to memory. *)

commands == il.commands[func].cmds
\* A sequence without repetitions.
Distinct(s) ==
  LET first == SelectSeq([i \in DOMAIN s |-> i], LAMBDA i : \A j \in 1 .. i - 1 : s[j] # s[i])
  IN [n \in DOMAIN first |-> s[first[n]]]

_get_free_values(cmds) ==
  SelectSeq(Distinct(FlattenSeq([i \in DOMAIN cmds |-> cmds[i].in \o cmds[i].out])),
            LAMBDA v : v \notin DOMAIN home)

move_to_mem(cmds, values) ==
  SelectSeq(Distinct(FlattenSeq([i \in DOMAIN cmds |-> references(cmds[i])])
                     \o SelectSeq(values, LAMBDA v : Size(CType(il, v)) > 4)),
            LAMBDA v : \E i \in DOMAIN values : values[i] = v)

\* Room on the stack for values, one after the other.
RoomFor(values, n) ==
  offset + FoldLeft(LAMBDA sum, v : sum + Size(CType(il, v)), 0, SubSeq(values, 1, n))
OnStack(values, v) ==
  LET n == CHOOSE n \in DOMAIN values : values[n] = v
  IN MemSpot(R(RBP), -RoomFor(values, n))

Place ==
  /\ stage = "place"
  /\ \E values \in {_get_free_values(commands)} : \E moved \in {move_to_mem(commands, values)} :
       /\ home' = [v \in ToSet(moved) |-> OnStack(moved, v)] @@ home
       /\ offset' = RoomFor(moved, Len(moved))
       /\ free' = SelectSeq(values, LAMBDA v : v \notin ToSet(moved))
  /\ live' = [i \in DOMAIN commands |-> [in |-> {}, out |-> {}]]
  /\ stage' = "live"
  /\ UNCHANGED <<program, il, func, cmd, dummies, spots, code, cpu, sent, allocator>>

-----------------------------------------------------------------------------
(* Which values are live: one pass over the commands, from the last to the *)
(* first, with what the pass before found at the targets of jumps, until a *)
(* pass finds the same.                                                    *)

NodeOf(v) == FirstValue - 1 + (CHOOSE i \in DOMAIN free : free[i] = v)
ValueOf(n) == free[n - FirstValue + 1]
Nodes(values) == {NodeOf(v) : v \in ToSet(values) \cap ToSet(free)}

LabelAt(l) == CHOOSE i \in DOMAIN commands : commands[i].op = "Label" /\ commands[i].label = l

LiveAround_Straight(c, after) ==
  [in |-> (after \cup Nodes(c.in)) \ Nodes(c.out), out |-> after \cup Nodes(c.out)]

\* What a command makes of the values live after it.
LiveAround(c, after) ==
  LET out == after \cup UNION {live[LabelAt(l)].in : l \in targets(c)}
      used == out \cup Nodes(c.in)
  IN [in |-> used \ Nodes(c.out), out |-> out \cup (Nodes(c.out) \ used)]

_get_live_vars ==
  FoldRight(LAMBDA c, acc : << LiveAround(c, IF acc = <<>> THEN {} ELSE acc[1].in) >> \o acc,
            commands, <<>>)

Analyse ==
  /\ stage = "live"
  /\ \E pass \in {_get_live_vars} :
       /\ live' = pass
       /\ stage' = IF pass = live THEN "graph" ELSE "live"
  /\ UNCHANGED <<program, il, func, cmd, home, offset, free, dummies, spots, code, cpu, sent, allocator>>

-----------------------------------------------------------------------------
(* The graph of the function. *)

\* The registers a command mentions for values of the graph.
Mentioned(c) ==
  LET ofFree(pairs) == SelectSeq(pairs, LAMBDA p : p[1] \in ToSet(free))
  IN [i \in DOMAIN ofFree(abs_spot_conf(c)) |-> ofFree(abs_spot_conf(c))[i][2]]
     \o clobber(c)
     \o [i \in DOMAIN ofFree(abs_spot_pref(c)) |-> ofFree(abs_spot_pref(c))[i][2]]

Pairs(S) == {<<m, n>> \in S \X S : m # n}
OfFree(pairs) == {p \in pairs : p[1] \in ToSet(free)}

Through(i) == live[i].in \cap live[i].out

ConflictPairs ==
  Pairs(ToSet(dummies')) \cup
  UNION {LET c == commands[i]
         IN Pairs(live[i].in) \cup Pairs(live[i].out) \cup (Through(i) \X ToSet(clobber(c)))
            \cup {<<NodeOf(p[1]), NodeOf(p[2])>> :
                    p \in {q \in rel_spot_conf(c) : {q[1], q[2]} \subseteq ToSet(free)}}
            \cup {<<NodeOf(p[1]), p[2]>> : p \in OfFree(ToSet(abs_spot_conf(c)))}
         : i \in DOMAIN commands}

PrefPairs ==
  UNION {LET c == commands[i]
         IN {<<NodeOf(p[1]), NodeOf(p[2])>> :
               p \in {q \in rel_spot_pref(c) : {q[1], q[2]} \subseteq ToSet(free)}}
            \cup {<<NodeOf(p[1]), p[2]>> : p \in OfFree(ToSet(abs_spot_pref(c)))}
         : i \in DOMAIN commands}

EdgesOf(pairs) == [n \in Node |-> {p[2] : p \in {q \in pairs : q[1] = n}}
                                  \cup {p[1] : p \in {q \in pairs : q[2] = n}}]

_generate_graph ==
  [nodes |-> Nodes(free), spots |-> ToSet(dummies'),
   conf |-> EdgesOf(ConflictPairs), pref |-> EdgesOf(PrefPairs)]

BuildGraph ==
  /\ stage = "graph"
  /\ dummies' = Distinct(FlattenSeq([i \in DOMAIN commands |-> Mentioned(commands[i])]))
  /\ original' = _generate_graph
  /\ Begin
  /\ stage' = "alloc"
  /\ UNCHANGED <<program, il, func, cmd, home, offset, free, live, spots, code, cpu, sent>>

-----------------------------------------------------------------------------
(* The steps of the allocator, in the order of the lists. *)

SimplifyFirst ==
  \E v \in Value : SimplifyOne(v) /\ ~ \E w \in Value : w < v /\ Simplifiable(w)

CoalesceFirst ==
  \E v1 \in Value, v2 \in Node :
    /\ CoalesceOne(v1, v2)
    /\ ~ \E w \in Value, n \in Node : w < v1 /\ Coalescable(w, n)

\* Where a node comes in all_nodes, sorted by degree: values first.
Order(n) ==
  <<Degree(graph, n),
    IF n \in Value THEN n ELSE FirstValue + Cardinality(Value) + IndexFirstSubSeq(<<n>>, dummies)>>
Position(n) ==
  Cardinality({m \in AllNodes(graph) :
    \/ Order(m)[1] < Order(n)[1]
    \/ Order(m)[1] = Order(n)[1] /\ Order(m)[2] < Order(n)[2]})

FreezeFirst ==
  /\ alloc = "freeze"
  /\ \E place \in {[n \in AllNodes(graph) |-> Position(n)]} : \E n1, n2 \in AllNodes(graph) :
       /\ place[n1] < place[n2]
       /\ FreezeOne(n1, n2)
       /\ ~ \E m1, m2 \in AllNodes(graph) :
              /\ place[m1] < place[m2] /\ m2 \in graph.pref[m1]
              /\ \/ place[m1] + place[m2] < place[n1] + place[n2]
                 \/ place[m1] + place[m2] = place[n1] + place[n2] /\ place[m1] < place[n1]

SpillFirst ==
  \E v \in Value :
    Spill(v) /\ ~ \E w \in graph.nodes : w < v /\ Degree(graph, w) = Degree(graph, v)

Allocate ==
  /\ stage = "alloc"
  /\ \/ SimplifyFirst \/ SimplifyEnd \/ CoalesceFirst \/ CoalesceEnd
     \/ FreezeFirst \/ SpillFirst \/ ColourSpots \/ ColourOne
  /\ stage' = IF alloc' = "failed" THEN "refused" ELSE stage
  /\ UNCHANGED <<program, il, func, cmd, home, offset, free, live, dummies, spots, code, cpu, sent>>


\* The registers are given out; what was spilled gets room on the stack.
SpilledValues == [i \in DOMAIN spilled |-> ValueOf(spilled[i])]

SpotOf(v) ==
  IF NodeOf(v) \in DOMAIN spotmap THEN R(spotmap[NodeOf(v)]) ELSE OnStack(SpilledValues, v)

rbp_offset(s) == IF IsMem(s) /\ s.base = R(RBP) THEN -s.offset ELSE 0
max_offset == Max({rbp_offset(spots'[v]) : v \in DOMAIN spots'})

Prologue ==
  Label(<<il.commands[func].name, 0>>)
  \o Arith("SUB", R(RSP), LiteralSpot(1)) \o Write(R(RSP), R(RBP))
  \o Mov(R(RBP), R(RSP)) \o Arith("SUB", R(RSP), LiteralSpot(max_offset))

AssignSpots ==
  /\ stage = "alloc" /\ Finish
  /\ spots' = [v \in ToSet(free) |-> SpotOf(v)] @@ home
  /\ offset' = RoomFor(SpilledValues, Len(spilled))
  /\ code' = code \o Prologue
  /\ cmd' = 1 /\ stage' = "emit"
  /\ UNCHANGED <<program, il, func, home, free, live, dummies, cpu, sent>>

-----------------------------------------------------------------------------
(* Instructions for the commands, one after the other. *)

\* A register that holds a value live before and after the command is bad,
\* unless the output goes there.
Environment(i) ==
  [spot |-> spots, il |-> il,
   bad |-> {spots[ValueOf(n)] : n \in Through(i)} \ {spots[v] : v \in ToSet(commands[i].out)}]

IsRefused(instrs) == \E i \in DOMAIN instrs : instrs[i].op = "refused"

Emit ==
  /\ stage = "emit" /\ cmd <= Len(commands)
  /\ \E label \in {get_label(il)} :
       \E instrs \in {make_asm(commands[cmd], Environment(cmd), label.v)} :
         /\ il' = IF commands[cmd].op \in Compare THEN label.s ELSE il
         /\ code' = code \o instrs
         /\ stage' = IF IsRefused(instrs) THEN "refused" ELSE stage
  /\ cmd' = cmd + 1
  /\ UNCHANGED <<program, func, home, offset, free, live, dummies, spots, cpu, sent, allocator>>

NextFunction ==
  /\ stage = "emit" /\ cmd > Len(commands)
  /\ IF func < Len(il.commands) THEN func' = func + 1 /\ stage' = "place"
                                ELSE stage' = "link" /\ UNCHANGED func
  /\ UNCHANGED <<program, il, cmd, home, offset, free, live, dummies, spots, code, cpu, sent,
                 allocator>>

-----------------------------------------------------------------------------
(* full_code: the wrapper, the data and the functions. *)

Wrapper(name) == <<name, -1>>
Halt == << [op |-> "halt"] >>
Stack == 7340032            \* 0x700000
InterruptStack == 8060928   \* 0x7B0000
UARTtx == 12592686          \* 0xC0262E

\* A function is called with the address to return to on top of a stack.
CallWith(stack, return, name) ==
  Load(LiteralSpot(stack), R(RSP)) \o Addr2Reg(Wrapper(return), R(RAX))
  \o Arith("SUB", R(RAX), LiteralSpot(4)) \o Write(R(RSP), R(RAX))
  \o Jump(<<name, 0>>) \o Halt

ASMwrapper1 ==
  Label(Wrapper("Main")) \o CallWith(Stack, "Return_UART", "main")
  \o Label(Wrapper("Return_UART")) \o Load(LiteralSpot(UARTtx), R(RCX))
  \o Write(R(RCX), R(RAX)) \o Halt

Saved == [i \in 1 .. 15 |-> i]   \* r1 to r13, rbp, rsp
IntName == <<"int1", "int2", "int3", "int4">>
Handler(k) ==
  Label(<<"Int", k>>) \o [i \in 1 .. 15 |-> [op |-> "push", r |-> Saved[i]]]
  \o CallWith(InterruptStack, "Return_Interrupt", IntName[k])
ASMwrapper2 ==
  FlattenSeq([i \in 1 .. Cardinality(Ints) |-> Handler(SetToSeq(Ints)[i])])
  \o Label(Wrapper("Return_Interrupt"))
  \o [i \in 1 .. 15 |-> [op |-> "pop", r |-> Saved[16 - i]]]
  \o << [op |-> "reti"] >> \o Halt

Words(words) ==
  IF \A i \in DOMAIN words : words[i] >= 0 THEN << [op |-> "dw", words |-> words] >> ELSE Refused
add_data(v) ==
  LET d == il.static[v]
  IN Label(StaticName(v, d)) \o
     Words(IF d.init # 0 THEN <<d.init>> ELSE [i \in 1 .. Size(CType(il, v)) |-> 0])
add_string_literal(v) == Label(StringName(v)) \o Words(il.strings[v])

full_code ==
  LET statics == SetToSeq(DOMAIN il.static)
      strings == SetToSeq(DOMAIN il.strings)
  IN ASMwrapper1 \o FlattenSeq([i \in DOMAIN statics |-> add_data(statics[i])])
     \o FlattenSeq([i \in DOMAIN strings |-> add_string_literal(strings[i])])
     \o code \o ASMwrapper2

-----------------------------------------------------------------------------
(* The assembler and the machine, as far as a program can see them. *)

\* What the machine's ALU computes for OR, AND and XOR.
Bits == INSTANCE Bitwise
BitOr(a, b) == Bits!|(a, b)
BitAnd(a, b) == Bits!&(a, b)
BitXor(a, b) == Bits!^^(a, b)
Cpu == INSTANCE B322 WITH WordBits <- 24, AddrSize <- WordSize, Registers <- 16

WordsOf(i) ==
  CASE i.op = "label" -> 0
    [] i.op = "dw" -> Len(i.words)
    [] i.op = "addr2reg" \/ (i.op = "load32" /\ i.n >= 2 ^ 16) -> 2
    [] OTHER -> 1

\* A label belongs to the line below it; between two there comes a nop.
moveLabels(lines) ==
  LET IsLabel(i) == i \in DOMAIN lines /\ lines[i].op = "label"
  IN FlattenSeq([i \in DOMAIN lines |->
       << lines[i] >> \o IF IsLabel(i) /\ IsLabel(i + 1) THEN Mov(R(0), R(0)) ELSE <<>>])

\* The first words of the memory are the jumps to Main and the handlers.
HeaderWords == 6
Addresses(lines) ==
  LET at[i \in 0 .. Len(lines)] == IF i = 0 THEN HeaderWords ELSE at[i - 1] + WordsOf(lines[i])
  IN [i \in DOMAIN lines |-> at[i - 1]]

LabelIndex(lines, l) ==
  CHOOSE i \in DOMAIN lines : lines[i].op = "label" /\ lines[i].label = l
Defined(lines) == {lines[i].label : i \in {j \in DOMAIN lines : lines[j].op = "label"}}
DefinedTwice(lines) ==
  \E i \in DOMAIN lines : lines[i].op = "label" /\ LabelIndex(lines, lines[i].label) # i
Used(lines) == {lines[i].label : i \in {j \in DOMAIN lines : lines[j].op \in {"jump", "addr2reg"}}}

Linked(lines, at, junk) ==
  LET Is(op) == {i \in DOMAIN lines : lines[i].op = op}
      instrs == DOMAIN lines \ (Is("label") \cup Is("dw"))
      LabelAddress(l) == at[LabelIndex(lines, l)]
      Resolved(i) ==
        CASE i.op = "jump" -> [op |-> "jump", to |-> LabelAddress(i.label)]
          [] i.op = "addr2reg" ->
               [op |-> "load32", n |-> LabelAddress(i.label), r |-> i.r, next |-> 2]
          [] i.op = "load32" -> [op |-> "load32", n |-> i.n, r |-> i.r, next |-> WordsOf(i)]
          [] OTHER -> i
      data == {<<i, w>> \in Is("dw") \X (1 .. 16) : w <= Len(lines[i].words)}
      DataAt(a) == CHOOSE d \in data : at[d[1]] + d[2] - 1 = a
  IN [text |-> [a \in {at[i] : i \in instrs} |->
                  Resolved(lines[CHOOSE i \in instrs : at[i] = a])],
      mem |-> [a \in {at[d[1]] + d[2] - 1 : d \in data} |->
                  lines[DataAt(a)[1]].words[DataAt(a)[2]]],
      handler |-> [k \in Ints |-> LabelAddress(<<"Int", k>>)],
      pc |-> LabelAddress(Wrapper("Main")),
      regs |-> [r \in 0 .. 15 |-> IF r = 0 THEN 0 ELSE junk],
      stack |-> <<>>, backup |-> 0, enabled |-> TRUE,
      left |-> Programs[program].interrupts, junk |-> junk]

Link ==
  /\ stage = "link"
  /\ \E lines \in {moveLabels(full_code)} :
       IF Used(lines) \subseteq Defined(lines) /\ ~ DefinedTwice(lines) /\ ~ IsRefused(lines)
       THEN /\ \E at \in {Addresses(lines)}, junk \in Junk : cpu' = Linked(lines, at, junk)
            /\ stage' = "run" /\ il' = Start /\ home' = <<>> /\ spots' = <<>> /\ live' = <<>>
            /\ code' = <<>>
       ELSE stage' = "refused" /\ UNCHANGED <<cpu, il, home, spots, live, code>>
  /\ UNCHANGED <<program, func, cmd, offset, free, dummies, sent, allocator>>

Operand(b) == IF IsReg(b) THEN cpu.regs[b.n] ELSE b.n
Put(r, w) == [cpu.regs EXCEPT ![r] = IF r = 0 THEN 0 ELSE w]
MemAt(a) == IF a \in DOMAIN cpu.mem THEN cpu.mem[a] ELSE cpu.junk
Target(i) == (cpu.regs[i.base] + i.k) % WordSize

BranchTaken(i) ==
  LET a == cpu.regs[i.a]
      b == cpu.regs[i.b]
  IN CASE i.op = "beq" -> a = b [] i.op = "bne" -> a # b [] i.op = "bgt" -> a > b [] i.op = "bge" -> a >= b

\* The machine after an instruction.
After(i) ==
  LET next(n) == [cpu EXCEPT !.pc = @ + n]
      Sets(r, w) == [next(1) EXCEPT !.regs = Put(r, w)]
  IN CASE i.op \in Cpu!AluOp -> Sets(i.d, Cpu!Alu(i.op, cpu.regs[i.a], Operand(i.b)))
       [] i.op = "load32" -> [next(i.next) EXCEPT !.regs = Put(i.r, i.n)]
       [] i.op = "savpc" -> Sets(i.r, cpu.pc)
       [] i.op = "read" -> Sets(i.r, MemAt(Target(i)))
       [] i.op = "write" -> IF Target(i) = UARTtx THEN next(1)
                            ELSE [next(1) EXCEPT !.mem = (Target(i) :> cpu.regs[i.r]) @@ @]
       [] i.op = "push" -> [next(1) EXCEPT !.stack = Append(@, cpu.regs[i.r])]
       [] i.op = "pop" -> [Sets(i.r, Last(cpu.stack)) EXCEPT !.stack = Front(@)]
       [] i.op = "jump" -> [cpu EXCEPT !.pc = i.to]
       [] i.op = "jumpr" -> [cpu EXCEPT !.pc = cpu.regs[i.r] + i.k]
       [] i.op \in {"beq", "bne", "bgt", "bge"} -> next(IF BranchTaken(i) THEN 2 ELSE 1)
       [] i.op = "reti" -> [cpu EXCEPT !.pc = cpu.backup, !.enabled = TRUE]
       [] i.op = "halt" -> cpu

Execute ==
  /\ stage = "run"
  /\ IF cpu.pc \notin DOMAIN cpu.text THEN stage' = "lost" /\ UNCHANGED <<cpu, sent>>
     ELSE LET i == cpu.text[cpu.pc]
          IN /\ cpu' = After(i)
             /\ stage' = IF i.op = "halt" THEN "halted" ELSE stage
             /\ sent' = IF i.op = "write" /\ Target(i) = UARTtx
                        THEN Append(sent, cpu.regs[i.r]) ELSE sent
  /\ UNCHANGED <<program, il, func, cmd, home, offset, free, live, dummies, spots, code, allocator>>

Interrupt(k) ==
  /\ stage = "run" /\ cpu.enabled /\ cpu.left > 0
  /\ cpu' = [cpu EXCEPT !.backup = cpu.pc, !.pc = cpu.handler[k],
                        !.enabled = FALSE, !.left = @ - 1]
  /\ UNCHANGED <<program, stage, il, func, cmd, home, offset, free, live, dummies, spots, code,
                 sent, allocator>>

-----------------------------------------------------------------------------
Compile ==
  \/ MakeIL \/ Place \/ Analyse \/ BuildGraph \/ Allocate \/ AssignSpots
  \/ Emit \/ NextFunction \/ Link

\* Nothing more happens.
Stopped == stage \in {"halted", "lost", "refused"} /\ UNCHANGED compilerVars

CompilerNext == Compile \/ Execute \/ (\E k \in Ints : Interrupt(k)) \/ Stopped

\* The machine runs.
CompilerSpec == CompilerInit /\ [][CompilerNext]_compilerVars /\ WF_compilerVars(Execute)

-----------------------------------------------------------------------------
(* Properties. *)

\* A program of the tests, or like them, is compiled and assembled, and the
\* machine then sends over the UART what the C program returns, whichever
\* registers and stack places its values were given, whatever they held
\* before, and wherever interrupts come in between.
MeansSource ==
  /\ stage \notin {"refused", "lost"}
  /\ stage = "halted" => \E n \in Programs[program].means : sent = <<n>>

\* The compiled program ends, as the C program does: its loops are left, its
\* functions return to their callers and its interrupt handlers to the
\* program.  One that waits for interrupts need not end.
Ends == stage = "run" /\ ~ Programs[program].waits ~> stage = "halted"
=============================================================================
