------------------------------ MODULE CPU_proofs ------------------------------
(***************************************************************************)
(* Proofs about CPU: for words, addresses, registers and a stack of any    *)
(* size, every program and a bus of any speed, the CPU implements ISA and  *)
(* holds its lines for the bus.                                            *)
(***************************************************************************)
EXTENDS CPU, SequenceTheorems, TLAPS

\* What is proved of PC holds of the PC in the CPU.
Pc == INSTANCE PC_proofs WITH state <- stage, Operand <- Addr, StrayReti <- TRUE

-----------------------------------------------------------------------------
(* Numbers.                                                                *)

LEMMA QuotientZero ==
  ASSUME NEW n \in Nat \ {0}, NEW m \in Int, -n < n * m, n * m < n
  PROVE  m = 0
<1>1. CASE m >= 1
  <2>1. n * m >= n * 1
    BY <1>1
  <2> QED BY <2>1
<1>2. CASE m =< -1
  <2>1. n * m =< n * (-1)
    BY <1>2
  <2> QED BY <2>1
<1> QED BY <1>1, <1>2

\* The remainder is the only one.
LEMMA Remainder ==
  ASSUME NEW n \in Nat \ {0}, NEW a \in Int, NEW m \in Int, NEW r \in 0 .. n - 1,
         a = n * m + r
  PROVE  a % n = r
<1> DEFINE b == a \div n
           s == a % n
<1>1. b \in Int /\ s \in 0 .. n - 1 /\ a = n * b + s
  OBVIOUS
<1> HIDE DEF b, s
<1>2. n * (m - b) = n * m - n * b
  BY <1>1
<1>3. n * m - n * b = s - r
  BY <1>1
<1>4. m - b = 0
  <2>1. m - b \in Int /\ -n < n * (m - b) /\ n * (m - b) < n
    BY <1>1, <1>2, <1>3
  <2> HIDE DEF b
  <2> QED BY <2>1, QuotientZero
<1>5. n * (m - b) = 0
  BY <1>4
<1>6. s = r
  BY <1>1, <1>2, <1>3, <1>5
<1> QED BY <1>6 DEF s

LEMMA ModBounds ==
  ASSUME NEW n \in Nat \ {0}, NEW a \in Int
  PROVE  a % n \in 0 .. n - 1
OBVIOUS

LEMMA ModSmall ==
  ASSUME NEW n \in Nat \ {0}, NEW a \in 0 .. n - 1
  PROVE  a % n = a
<1>1. a = n * 0 + a
  OBVIOUS
<1> QED BY <1>1, Remainder

LEMMA ModShift ==
  ASSUME NEW n \in Nat \ {0}, NEW a \in Int
  PROVE  (a + n) % n = a % n
<1> DEFINE b == a \div n
           s == a % n
<1>1. b \in Int /\ s \in 0 .. n - 1 /\ a = n * b + s
  OBVIOUS
<1> HIDE DEF b, s
<1>2. a + n = n * (b + 1) + s
  BY <1>1
<1>3. (a + n) % n = s
  BY <1>1, <1>2, Remainder
<1> QED BY <1>3 DEF s

LEMMA ModAdd ==
  ASSUME NEW n \in Nat \ {0}, NEW a \in Int, NEW c \in Int
  PROVE  (c + (a % n)) % n = (c + a) % n
<1> DEFINE b == a \div n
           s == a % n
<1>1. b \in Int /\ s \in 0 .. n - 1 /\ a = n * b + s
  OBVIOUS
<1> DEFINE d == (c + s) \div n
           t == (c + s) % n
<1>2. d \in Int /\ t \in 0 .. n - 1 /\ c + s = n * d + t
  BY <1>1
<1> HIDE DEF b, s, d, t
<1>3. c + a = n * (b + d) + t
  BY <1>1, <1>2
<1>4. (c + a) % n = t
  <2>1. c + a \in Int /\ b + d \in Int
    BY <1>1, <1>2
  <2> QED BY <1>2, <1>3, <2>1, Remainder
<1> QED BY <1>4 DEF s, t

-----------------------------------------------------------------------------
(* Words.                                                                  *)

LEMMA Sizes ==
  /\ WordSize \in Nat \ {0} /\ HalfSize \in Nat \ {0}
  /\ AddrSize \in Nat \ {0} /\ AddrSize <= WordSize /\ Addr \subseteq Word
  /\ HalfSize * HalfSize = WordSize
  /\ Word \subseteq Nat /\ 0 \in Word /\ Reg \subseteq Nat /\ 0 \in Reg
  /\ StackSize \in Nat \ {0}
<1>1. WordSize \in Nat \ {0}
  <2>1. WordBits \in 0 .. 2 * WordBits
    BY WidthAssumption
  <2> QED BY <2>1, PowerAssumption DEF WordSize
<1>2. AddrSize \in 1 .. WordSize
  BY WidthAssumption DEF WordSize
<1>3. StackSize \in Nat \ {0}
  BY ProgramAssumption
<1>4. Registers \in Nat \ {0}
  BY WidthAssumption
<1>5. HalfSize \in Nat \ {0} /\ HalfSize * HalfSize = WordSize
  BY PowerAssumption
<1> QED BY <1>1, <1>2, <1>3, <1>4, <1>5 DEF Addr, Word, Reg

LEMMA OffsetType ==
  ASSUME NEW b \in Word, NEW c \in Word, NEW negative \in BOOLEAN
  PROVE  Offset(b, c, negative) \in Addr
<1>1. b \in Nat /\ c \in Nat
  BY Sizes
<1>2. (b - c) % AddrSize \in Addr /\ (b + c) % AddrSize \in Addr
  BY <1>1, Sizes, ModBounds DEF Addr
<1> QED BY <1>2 DEF Offset

LEMMA QuotientBound ==
  ASSUME NEW a \in Nat, NEW n \in Nat \ {0}
  PROVE  a \div n \in 0 .. a
<1> DEFINE b == a \div n
           s == a % n
<1>1. b \in Int /\ s \in 0 .. n - 1 /\ a = n * b + s
  OBVIOUS
<1> HIDE DEF b, s
<1>2. b >= 0
  <2>1. CASE b =< -1
    <3>1. n * b =< n * (-1)
      BY <1>1, <2>1
    <3> QED BY <1>1, <3>1
  <2> QED BY <1>1, <2>1
<1>3. n * b >= 1 * b
  BY <1>1, <1>2
<1>4. b <= a
  BY <1>1, <1>2, <1>3
<1> QED BY <1>1, <1>2, <1>4 DEF b

LEMMA AluType ==
  ASSUME NEW op \in AluOp, NEW a \in Word, NEW b \in Word
  PROVE  Alu(op, a, b) \in Word
<1>1. a \in Nat /\ b \in Nat /\ WordSize \in Nat \ {0}
  BY Sizes
<1> DEFINE m == 2 * WordBits
           shift == 2 ^ (b % m)
<1>2. shift \in Nat \ {0}
  <2>1. m \in Nat \ {0}
    BY WidthAssumption
  <2> HIDE DEF m, shift
  <2>2. b % m \in 0 .. m
    BY <1>1, <2>1, ModBounds
  <2> QED BY <2>2, PowerAssumption DEF m, shift
<1> HIDE DEF shift
<1>3. {BitOr(a, b), BitAnd(a, b), BitXor(a, b)} \subseteq Word
  BY BitwiseAssumption
<1>4. /\ (a + b) % WordSize \in Word /\ (a - b) % WordSize \in Word
      /\ WordSize - 1 - a \in Word /\ 0 \in Word
  <2>1. (a + b) % WordSize \in Word /\ (a - b) % WordSize \in Word
    BY <1>1, ModBounds DEF Word
  <2> QED BY <1>1, <2>1 DEF Word
<1>5. (a * shift) % WordSize \in Word /\ (a * b) % WordSize \in Word
  <2>1. a * shift \in Int /\ a * b \in Int
    BY <1>1, <1>2
  <2> QED BY <1>1, <2>1, ModBounds DEF Word
<1>6. a \div shift \in Word
  <2>1. a \div shift \in 0 .. a
    BY <1>1, <1>2, QuotientBound
  <2> QED BY <1>1, <2>1 DEF Word
<1> QED BY <1>3, <1>4, <1>5, <1>6, Zenon DEF Alu, AluOp, shift

\* What a LOAD of the high half makes of a register.
LEMMA HalvesType ==
  ASSUME NEW c \in Word, NEW w \in Word, c < HalfSize
  PROVE  /\ LowHalf(c) = c
         /\ c * HalfSize + LowHalf(w) \in Word
<1>1. c \in Nat /\ w \in Nat /\ HalfSize \in Nat \ {0} /\ HalfSize * HalfSize = WordSize
  BY Sizes
<1>2. LowHalf(c) = c
  BY <1>1, ModSmall DEF LowHalf
<1>3. LowHalf(w) \in 0 .. HalfSize - 1
  BY <1>1, ModBounds DEF LowHalf
<1> DEFINE l == LowHalf(w)
<1> HIDE DEF l
<1>4. c * HalfSize <= (HalfSize - 1) * HalfSize /\ c * HalfSize \in Nat
  BY <1>1
<1>5. (HalfSize - 1) * HalfSize = WordSize - HalfSize
  BY <1>1
<1>6. c * HalfSize + l \in 0 .. WordSize - 1
  <2> DEFINE p == c * HalfSize
             r == (HalfSize - 1) * HalfSize
  <2>1. p <= r /\ p \in Nat /\ r = WordSize - HalfSize
    BY <1>4, <1>5
  <2> HIDE DEF p, r
  <2>2. p + l \in 0 .. WordSize - 1
    BY <1>1, <1>3, <2>1, Sizes DEF l
  <2> QED BY <2>2 DEF p
<1> QED BY <1>2, <1>6 DEF l, Word

-----------------------------------------------------------------------------
(* The invariant.                                                          *)

\* While the clock is low in a reset, nothing holds but what the reset has set.
Live == clk = "low" => ~reset

Types ==
  /\ regs \in [Reg -> Word] /\ data_a_l \in Word /\ data_b_l \in Word
  /\ stack_q \in Word /\ lost \in Word
  /\ ptr \in 0 .. StackSize - 1 /\ stack \in [0 .. StackSize - 1 -> Word]
  /\ busy \in BOOLEAN /\ mem \in [Addr -> Word]
  /\ fetched \in 0 .. MaxInstr /\ depth \in 0 .. StackSize
  /\ IsInstr(instructionReg)

\* The instruction comes from the program.
InstrHolds ==
  /\ stage = "fetch" /\ clk = "low" /\ ~busy /\ ~reset => q \in Program
  /\ stage = "getRegs" /\ Live =>
       q \in Program /\ (clk = "low" => instructionReg = q)
  /\ stage \in {"readMem", "writeBack"} /\ Live => instructionReg \in Program

\* The unit is busy with an access of the stage; in writeBack from the first
\* falling edge on.
BusHolds ==
  /\ busy => start
  /\ stage = "writeBack" /\ clk = "high" => (busy <=> writeBack_prev)
  /\ clk = "low" /\ reset => ~busy /\ depth = 0

\* The operands are the registers of the instruction, until it writes one.
Latched ==
  \/ stage = "getRegs" /\ clk = "low"
  \/ stage = "readMem"
  \/ stage = "writeBack" /\ (clk = "high" \/ we)
RegsHold ==
  Latched /\ Live =>
    data_a_l = regs[instruction.a] /\ data_b_l = regs[instruction.b]

\* What was read is what memory has.
Reads == instrOP \in {"READ", "COPY"}
ReadCell == Offset(data_a, k, n2(instruction))
ReadHolds ==
  /\ stage = "readMem" /\ clk = "low" /\ ~busy /\ ~reset /\ Reads => q = mem[ReadCell]
  /\ stage = "writeBack" /\ clk = "high" /\ ~busy /\ Reads => q = mem[ReadCell]
  /\ stage = "writeBack" /\ Live /\ Reads => q \in Word

\* A push or pop has moved the stack before its instruction takes effect.
StackHolds ==
  /\ EarlyPush /\ Live => stack[(ptr - 1) % StackSize] = data_b
  /\ EarlyPop /\ Live => stack_q = stack[ptr]

IInv ==
  Pc!IInv /\ Types /\ InstrHolds /\ BusHolds /\ RegsHold /\ ReadHolds /\ StackHolds

-----------------------------------------------------------------------------
(* The control: PC and Timer.                                              *)

LEMMA Assumptions ==
  Pc!AddrAssumption /\ Pc!LineAssumption /\ Pc!ResetAssumption /\ Pc!StrayAssumption
BY ControllerAssumption, Sizes
   DEF Pc!AddrAssumption, Pc!LineAssumption, Pc!ResetAssumption, Pc!StrayAssumption,
       Addr

LEMMA SamePC ==
  ASSUME NEW b, NEW i, NEW s, NEW line
  PROVE  /\ P!PosEdge(b) <=> Pc!PosEdge(b)
         /\ P!Hold(line) <=> Pc!Hold(line)
         /\ P!Return(i, line) <=> Pc!Return(i, line)
         /\ P!Dispatch(s, i, line) <=> Pc!Dispatch(s, i, line)
         /\ P!Advance(i, line) <=> Pc!Advance(i, line)
         /\ P!Init <=> Pc!Init
         /\ P!Instr = Pc!Instr /\ P!Levels = Pc!Levels /\ P!Source = Pc!Source
         /\ P!TypeOK <=> Pc!TypeOK
         /\ P!WriteBackEdge <=> Pc!WriteBackEdge
<1>1. /\ P!Levels = Pc!Levels /\ P!Source = Pc!Source /\ P!NoLine = Pc!NoLine
      /\ P!Instr = Pc!Instr /\ (P!WriteBackEdge <=> Pc!WriteBackEdge)
  BY DEF P!Levels, Pc!Levels, P!Source, Pc!Source, P!NoLine, Pc!NoLine,
         P!Instr, Pc!Instr, P!WriteBackEdge, Pc!WriteBackEdge
<1>2. P!NextPC(i, pc_out) = Pc!NextPC(i, pc_out)
  BY DEF P!NextPC, Pc!NextPC, P!jump, Pc!jump, P!offset, Pc!offset,
         P!jump_addr, Pc!jump_addr
<1>3. /\ P!RisingBase(line) = Pc!RisingBase(line)
      /\ (P!IntEnBase <=> Pc!IntEnBase) /\ P!BackupBase = Pc!BackupBase
      /\ (P!SampleLines(line) <=> Pc!SampleLines(line))
  BY <1>1 DEF P!RisingBase, Pc!RisingBase, P!Sampled, Pc!Sampled, P!IntEnBase,
     Pc!IntEnBase, P!BackupBase, Pc!BackupBase, P!SampleLines, Pc!SampleLines
<1>4. \A t : P!Valid(t) <=> Pc!Valid(t)
  BY <1>1 DEF P!Valid, Pc!Valid
<1>5. P!PosEdge(b) <=> Pc!PosEdge(b)
  BY DEF P!PosEdge, Pc!PosEdge, P!ResetLine, Pc!ResetLine, P!TimerStep, Pc!TimerStep,
     P!BusStage, Pc!BusStage, P!StageAfter, Pc!StageAfter
<1>6. P!Hold(line) <=> Pc!Hold(line)
  BY <1>1, <1>3, Zenon DEF P!Hold, Pc!Hold, P!IntEnBase, Pc!IntEnBase
<1>7. P!Return(i, line) <=> Pc!Return(i, line)
  BY <1>1, <1>3, Zenon DEF P!Return, Pc!Return, P!reti, Pc!reti
<1>8. P!Dispatch(s, i, line) <=> Pc!Dispatch(s, i, line)
  BY <1>1, <1>2, <1>3, <1>4 DEF P!Dispatch, Pc!Dispatch, P!reti, Pc!reti, P!Vector,
     Pc!Vector, P!SetsIntId, Pc!SetsIntId, P!IntId, Pc!IntId
<1>9. P!Advance(i, line) <=> Pc!Advance(i, line)
  BY <1>1, <1>2, <1>3, <1>4, Zenon DEF P!Advance, Pc!Advance, P!reti, Pc!reti,
     P!IntEnBase, Pc!IntEnBase
<1>10. (P!Init <=> Pc!Init) /\ (P!TypeOK <=> Pc!TypeOK)
  BY <1>1 DEF P!Init, Pc!Init, P!TypeOK, Pc!TypeOK, P!Stage, Pc!Stage
<1> QED BY <1>1, <1>5, <1>6, <1>7, <1>8, <1>9, <1>10

\* The instruction in its stages, and what it can be.
LEMMA InstrTyped ==
  ASSUME Types, InstrHolds, Live, stage \in {"readMem", "writeBack"}
  PROVE  /\ instruction = instructionReg /\ instruction \in Program
         /\ IsInstr(instruction) /\ k \in Word
         /\ {instruction.a, instruction.b, instruction.d} \subseteq Reg
         /\ data_a \in Word /\ data_b \in Word
<1>1. instruction = instructionReg /\ instruction \in Program
  BY DEF InstrHolds, instruction
<1>2. IsInstr(instruction)
  BY <1>1, ProgramAssumption
<1> QED BY <1>1, <1>2, Sizes DEF IsInstr, k, data_a, data_b, Types

LEMMA JumpingType ==
  ASSUME Types, InstrHolds, Live, stage = "writeBack"
  PROVE  jumping \in P!Instr
<1>1. k \in Word /\ data_b \in Word
  BY InstrTyped
<1>2. k % AddrSize \in Addr /\ (data_b + k) % AddrSize \in Addr
  BY <1>1, Sizes, ModBounds DEF Addr
<1>3. oe(instruction) \in BOOLEAN
  BY DEF oe
<1> HIDE DEF k, data_b, instruction, Addr
<1> QED BY <1>2, <1>3 DEF jumping, P!Instr

LEMMA EdgeLive ==
  ASSUME P!WriteBackEdge, clk = "high"
  PROVE  Live /\ stage = "writeBack"
BY DEF P!WriteBackEdge, Live

LEMMA PosControl ==
  ASSUME IInv, PosEdge
  PROVE  Pc!IInv'
<1>1. busy \in BOOLEAN /\ Pc!PosEdge(busy) /\ Pc!IInv
  BY SamePC DEF PosEdge, IInv, Types
<1> QED BY <1>1, Assumptions, Pc!PosEdgeIInv

LEMMA NegControl ==
  ASSUME IInv, NEW line \in P!Levels, NegEdge(line)
  PROVE  Pc!IInv'
<1>1. PcNeg(line) /\ Pc!IInv /\ line \in Pc!Levels /\ Types /\ InstrHolds
  BY SamePC DEF NegEdge, IInv
<1>2. CASE P!Hold(line)
  BY <1>1, <1>2, SamePC, Assumptions, Pc!HoldIInv
<1>3. ASSUME ~P!Hold(line)
      PROVE  jumping \in Pc!Instr
  <2>1. P!WriteBackEdge /\ clk = "high"
    BY <1>1, <1>3 DEF PcNeg, P!Return, P!Dispatch, P!Advance, P!SampleLines
  <2> QED BY <1>1, <2>1, EdgeLive, JumpingType, SamePC
<1>4. CASE ~P!Hold(line) /\ P!Return(jumping, line)
  <2>1. jumping \in Pc!Instr /\ Pc!Return(jumping, line)
    BY <1>3, <1>4, SamePC
  <2> QED BY <1>1, <2>1, Assumptions, Pc!ReturnIInv
<1>5. ASSUME ~P!Hold(line), NEW s \in P!Source, P!Dispatch(s, jumping, line)
      PROVE  Pc!IInv'
  <2>1. jumping \in Pc!Instr /\ Pc!Dispatch(s, jumping, line) /\ s \in Pc!Source
    BY <1>3, <1>5, SamePC
  <2> QED BY <1>1, <2>1, Assumptions, Pc!DispatchIInv
<1>6. CASE ~P!Hold(line) /\ P!Advance(jumping, line)
  <2>1. jumping \in Pc!Instr /\ Pc!Advance(jumping, line)
    BY <1>3, <1>6, SamePC
  <2> QED BY <1>1, <2>1, Assumptions, Pc!AdvanceIInv
<1> QED BY <1>1, <1>2, <1>4, <1>5, <1>6 DEF PcNeg

\* What a rising edge leaves, and where it leads.
LEMMA PosParts ==
  ASSUME IInv, PosEdge
  PROVE  /\ clk = "low" /\ clk' = "high" /\ reset \in BOOLEAN /\ reset' \in BOOLEAN
         /\ instructionReg' = instructionReg /\ regs' = regs
         /\ data_a_l' = data_a_l /\ data_b_l' = data_b_l
         /\ ptr' = ptr /\ stack' = stack /\ stack_q' = stack_q
         /\ busy' = busy /\ q' = q /\ mem' = mem /\ fetched' = fetched
         /\ depth' = depth /\ lost' = lost
         /\ pc_out' = pc_out /\ PCintBackup' = PCintBackup /\ int_en' = int_en
         /\ ext_int_id' = ext_int_id /\ writeBack_prev' = writeBack_prev
         /\ reset => stage' = "init"
         /\ ~reset => \/ stage' = stage /\ busy
                      \/ stage = "init" /\ stage' = "fetch" /\ ~busy
                      \/ stage = "fetch" /\ stage' = "getRegs" /\ ~busy
                      \/ stage = "getRegs" /\ stage' = "readMem" /\ ~busy
                      \/ stage = "readMem" /\ stage' = "writeBack" /\ ~busy
                      \/ stage = "writeBack" /\ stage' = "fetch" /\ ~busy
<1>1. Pc!TypeOK /\ BusHolds
  BY DEF IInv, Pc!IInv
<1>2. P!PosEdge(busy) /\ UNCHANGED <<datavars, busvars, depth, lost>>
  BY DEF PosEdge
<1>3. reset \in BOOLEAN /\ reset' \in BOOLEAN /\ stage \in Pc!Stage
  BY <1>1, <1>2 DEF Pc!TypeOK, P!PosEdge, P!ResetLine
<1>4. stage' = P!TimerStep(stage, busy, reset)
  BY <1>2 DEF P!PosEdge
<1>5. busy => stage \in P!BusStage
  BY <1>1 DEF BusHolds, start, P!BusStage
<1>6. reset => stage' = "init"
  BY <1>4 DEF P!TimerStep
<1>7. ~reset => \/ stage' = stage /\ busy
                \/ stage = "init" /\ stage' = "fetch" /\ ~busy
                \/ stage = "fetch" /\ stage' = "getRegs" /\ ~busy
                \/ stage = "getRegs" /\ stage' = "readMem" /\ ~busy
                \/ stage = "readMem" /\ stage' = "writeBack" /\ ~busy
                \/ stage = "writeBack" /\ stage' = "fetch" /\ ~busy
  BY <1>3, <1>4, <1>5 DEF P!TimerStep, P!StageAfter, P!BusStage, Pc!Stage
<1> QED BY <1>2, <1>3, <1>6, <1>7 DEF P!PosEdge, datavars, busvars

LEMMA NegParts ==
  ASSUME IInv, NEW line \in P!Levels, NegEdge(line)
  PROVE  /\ clk = "high" /\ clk' = "low" /\ stage' = stage
         /\ reset' = reset /\ reset \in BOOLEAN /\ Live
         /\ stage \in {"init", "fetch", "getRegs", "readMem", "writeBack"}
<1>1. PcNeg(line) /\ Pc!TypeOK
  BY DEF NegEdge, IInv, Pc!IInv
<1>2. clk = "high" /\ clk' = "low" /\ stage' = stage /\ reset' = reset
  BY <1>1 DEF PcNeg, P!Hold, P!Return, P!Dispatch, P!Advance, P!SampleLines
<1> QED BY <1>1, <1>2 DEF Pc!TypeOK, Pc!Stage, Live

\* The lines that come from the instruction and its operands do not change
\* unless the instruction or the operands do.
LEMMA SameLines ==
  ASSUME instruction' = instruction, data_a_l' = data_a_l, data_b_l' = data_b_l
  PROVE  /\ instrOP' = instrOP /\ k' = k /\ data_a' = data_a /\ data_b' = data_b
         /\ Reads' = Reads /\ ReadCell' = ReadCell
BY DEF instrOP, k, data_a, data_b, Reads, ReadCell, n2, Offset

LEMMA PosLines ==
  ASSUME IInv, PosEdge, stage' \in {"readMem", "writeBack"}
  PROVE  /\ ~reset /\ Live /\ instruction' = instructionReg /\ instructionReg \in Program
         /\ \/ stage = "getRegs" /\ stage' = "readMem" /\ instruction' = q
            \/ stage \in {"readMem", "writeBack"} /\ instruction' = instruction
         /\ stage # "getRegs" => instruction' = instruction
<1>1. ~reset /\ Live
  BY PosParts DEF Live
<1>2. stage \in {"getRegs", "readMem", "writeBack"}
  BY <1>1, PosParts
<1>3. instruction' = instructionReg
  BY PosParts DEF instruction
<1>4. stage = "getRegs" => instructionReg = q /\ q \in Program /\ stage' = "readMem"
  BY <1>1, PosParts DEF IInv, InstrHolds, BusHolds, start
<1>5. stage \in {"readMem", "writeBack"} =>
        instruction = instructionReg /\ instructionReg \in Program
  BY <1>1 DEF IInv, InstrHolds, instruction
<1> QED BY <1>1, <1>2, <1>3, <1>4, <1>5

LEMMA PosInstr ==
  ASSUME IInv, PosEdge
  PROVE  InstrHolds'
<1>1. stage' = "getRegs" => q' \in Program
  BY PosParts DEF IInv, InstrHolds, BusHolds, start
<1>2. stage' \in {"readMem", "writeBack"} => instructionReg' \in Program
  BY PosLines, PosParts
<1> QED BY <1>1, <1>2, PosParts DEF InstrHolds

LEMMA PosBus ==
  ASSUME IInv, PosEdge
  PROVE  BusHolds'
<1>1. BusHolds /\ Pc!PrevTracks
  BY DEF IInv, Pc!IInv
<1>2. busy' => start'
  <2>1. SUFFICES ASSUME busy PROVE start'
    BY PosParts
  <2>2. ~reset /\ stage' = stage /\ start
    BY <1>1, <2>1, PosParts DEF BusHolds
  <2>3. instruction' = instruction
    BY <2>2, PosParts DEF instruction
  <2> QED BY <2>2, <2>3 DEF start, instrOP
<1>3. stage' = "writeBack" => (busy' <=> writeBack_prev')
  BY <1>1, PosParts DEF Pc!PrevTracks, BusHolds
<1> QED BY <1>2, <1>3, PosParts DEF BusHolds

LEMMA PosRegs ==
  ASSUME IInv, PosEdge
  PROVE  RegsHold'
<1>1. SUFFICES ASSUME stage' \in {"readMem", "writeBack"}
               PROVE  data_a_l' = regs'[instruction'.a] /\ data_b_l' = regs'[instruction'.b]
  BY PosParts DEF RegsHold, Latched
<1>2. Latched
  <2>1. stage = "writeBack" => we
    BY <1>1, PosParts DEF IInv, BusHolds, start, we
  <2> QED BY <1>1, <2>1, PosLines, PosParts DEF Latched
<1>3. instruction' = instruction
  BY <1>1, PosLines DEF instruction
<1> QED BY <1>1, <1>2, <1>3, PosLines, PosParts DEF IInv, RegsHold

LEMMA ReadCellType ==
  ASSUME Types, InstrHolds, Live, stage \in {"readMem", "writeBack"}
  PROVE  ReadCell \in Addr /\ mem[ReadCell] \in Word
<1>1. ReadCell \in Addr
  BY InstrTyped, OffsetType DEF ReadCell, n2
<1> QED BY <1>1 DEF Types

LEMMA PosRead ==
  ASSUME IInv, PosEdge
  PROVE  ReadHolds'
<1>1. SUFFICES ASSUME stage' = "writeBack", Reads'
               PROVE  (~busy' => q' = mem'[ReadCell']) /\ q' \in Word
  BY PosParts DEF ReadHolds
<1>2. /\ stage \in {"readMem", "writeBack"} /\ Live /\ ~reset /\ instruction' = instruction
      /\ stage = "writeBack" => busy
      /\ stage = "readMem" => ~busy
  BY <1>1, PosLines, PosParts
<1>3. Reads /\ ReadCell' = ReadCell
  BY <1>1, <1>2, SameLines, PosParts
<1>4. CASE stage = "readMem"
  BY <1>2, <1>3, <1>4, PosParts, ReadCellType DEF IInv, ReadHolds
<1>5. CASE stage = "writeBack"
  BY <1>2, <1>3, <1>5, PosParts DEF IInv, ReadHolds
<1> QED BY <1>2, <1>4, <1>5

LEMMA PosStack ==
  ASSUME IInv, PosEdge
  PROVE  StackHolds'
<1>1. SUFFICES ASSUME stage' = "writeBack", instrOP' \in {"PUSH", "POP"}
               PROVE  StackHolds'
  BY PosParts DEF StackHolds, EarlyPush, EarlyPop, Early
<1>2. /\ stage \in {"readMem", "writeBack"} /\ Live /\ ~reset /\ instruction' = instruction
      /\ stage = "writeBack" => busy
  BY <1>1, PosLines, PosParts
<1>3. instrOP' = instrOP /\ data_b' = data_b
  BY <1>2, SameLines, PosParts
<1>4. stage = "readMem"
  BY <1>1, <1>2, <1>3 DEF IInv, BusHolds, start
<1>5. (EarlyPush' <=> EarlyPush) /\ (EarlyPop' <=> EarlyPop)
  BY <1>1, <1>3, <1>4, PosParts DEF EarlyPush, EarlyPop, Early
<1>6. StackHolds
  BY DEF IInv
<1> QED BY <1>2, <1>3, <1>5, <1>6, PosParts DEF StackHolds

LEMMA PosIInv ==
  ASSUME IInv, PosEdge
  PROVE  IInv'
<1>1. Types'
  BY PosParts DEF IInv, Types
<1> QED BY <1>1, PosControl, PosInstr, PosBus, PosRegs, PosRead, PosStack DEF IInv

-----------------------------------------------------------------------------
(* Falling edge.                                                           *)

LEMMA NegLines ==
  ASSUME IInv, NEW line \in P!Levels, NegEdge(line), ~reset,
         stage \in {"readMem", "writeBack"}
  PROVE  /\ instructionReg' = instructionReg /\ instruction' = instruction
         /\ data_a_l' = data_a_l /\ data_b_l' = data_b_l
         /\ instrOP' = instrOP /\ k' = k /\ data_a' = data_a /\ data_b' = data_b
         /\ Reads' = Reads /\ ReadCell' = ReadCell
         /\ start' = start /\ we' = we
<1>1. /\ instructionReg' = instructionReg
      /\ data_a_l' = data_a_l /\ data_b_l' = data_b_l
  BY DEF NegEdge, DecoderNeg, RegbankNeg
<1>2. stage' = stage /\ instruction' = instruction
  BY <1>1, NegParts DEF instruction
<1>3. instrOP' = instrOP
  BY <1>2 DEF instrOP
<1>4. start' = start /\ we' = we
  BY <1>2, <1>3 DEF start, we
<1> QED BY <1>1, <1>2, <1>4, SameLines

\* The bus in a step without a reset.
LEMMA NegAnswer ==
  ASSUME IInv, NEW line \in P!Levels, NegEdge(line)
  PROVE  /\ reset => BusReset
         /\ ~reset => \/ BusWait
                      \/ BusAnswer /\ start
         /\ busy' \in BOOLEAN
         /\ ~reset /\ stage \notin {"fetch", "readMem", "writeBack"} => BusWait /\ ~busy'
<1>1. BusHolds /\ busy \in BOOLEAN
  BY DEF IInv, Types
<1>2. /\ reset => BusReset
      /\ ~reset => \/ BusWait
                   \/ BusAnswer /\ start
  BY <1>1 DEF NegEdge, BusReset, BusWait, BusAnswer, BusHolds
<1>3. start \in BOOLEAN
  BY DEF start
<1>4. busy' \in BOOLEAN
  BY <1>1, <1>2, <1>3, NegParts DEF BusReset, BusWait, BusAnswer
<1>5. stage \notin {"fetch", "readMem", "writeBack"} => ~start /\ ~busy
  BY <1>1 DEF start, BusHolds
<1> QED BY <1>2, <1>4, <1>5 DEF BusWait

LEMMA NegInstr ==
  ASSUME IInv, NEW line \in P!Levels, NegEdge(line)
  PROVE  InstrHolds'
<1>1. stage' = stage /\ clk' = "low" /\ reset' = reset /\ Live /\ InstrHolds
  BY NegParts DEF IInv
<1>2. CASE stage = "fetch" /\ ~busy' /\ ~reset
  <2>1. BusAnswer
    BY <1>2, NegAnswer DEF BusWait, start
  <2>2. fetched + 1 \in 1 .. MaxInstr /\ q' \in Menu[fetched + 1]
    BY <1>2, <2>1, ProgramAssumption DEF BusAnswer, Returned, IInv, Types
  <2>3. q' \in Program
    BY <2>2 DEF Program
  <2> QED BY <1>1, <1>2, <2>3 DEF InstrHolds
<1>3. CASE stage = "getRegs" /\ ~reset
  <2>1. q' = q
    BY <1>3, NegAnswer DEF BusWait
  <2>2. instructionReg' = q
    BY <1>3 DEF NegEdge, DecoderNeg
  <2> QED BY <1>1, <1>3, <2>1, <2>2 DEF InstrHolds
<1>4. CASE stage \in {"readMem", "writeBack"} /\ ~reset
  BY <1>1, <1>4, NegLines DEF InstrHolds
<1> QED BY <1>1, <1>2, <1>3, <1>4 DEF InstrHolds, Live

LEMMA NegBus ==
  ASSUME IInv, NEW line \in P!Levels, NegEdge(line)
  PROVE  BusHolds'
<1>1. stage' = stage /\ clk' = "low" /\ reset' = reset /\ reset \in BOOLEAN
  BY NegParts
<1>2. CASE reset
  <2>1. ~busy'
    BY <1>2, NegAnswer DEF BusReset
  <2>2. depth' = 0
    BY <1>2 DEF NegEdge
  <2> QED BY <1>1, <2>1, <2>2 DEF BusHolds
<1>3. CASE ~reset
  <2>1. busy' => start
    BY <1>3, NegAnswer DEF BusWait, BusAnswer, IInv, BusHolds
  <2>2. start => start'
    <3>1. CASE stage = "fetch"
      BY <1>1, <3>1 DEF start
    <3>2. CASE stage \in {"readMem", "writeBack"}
      BY <1>3, <3>2, NegLines
    <3> QED BY <3>1, <3>2 DEF start
  <2> QED BY <1>1, <1>3, <2>1, <2>2 DEF BusHolds
<1> QED BY <1>1, <1>2, <1>3

LEMMA NegRegs ==
  ASSUME IInv, NEW line \in P!Levels, NegEdge(line)
  PROVE  RegsHold'
<1>1. stage' = stage /\ clk = "high" /\ clk' = "low" /\ reset' = reset /\ Live /\ RegsHold
  BY NegParts DEF IInv
<1>2. SUFFICES ASSUME ~reset, Latched'
               PROVE  data_a_l' = regs'[instruction'.a] /\ data_b_l' = regs'[instruction'.b]
  BY <1>1 DEF RegsHold, Live
<1>3. CASE stage = "getRegs"
  <2>1. q' = q
    BY <1>2, <1>3, NegAnswer DEF BusWait
  <2>2. instruction' = instruction
    BY <1>1, <1>3, <2>1 DEF instruction
  <2>3. /\ data_a_l' = regs[instruction.a] /\ data_b_l' = regs[instruction.b]
        /\ regs' = regs
    BY <1>3 DEF NegEdge, RegbankNeg
  <2> QED BY <2>2, <2>3
<1>4. CASE stage \in {"readMem", "writeBack"}
  <2>1. stage = "writeBack" => we
    BY <1>1, <1>2, <1>4, NegLines DEF Latched
  <2>2. regs' = regs
    BY <1>4, <2>1 DEF NegEdge, RegbankNeg, dreg_we, we
  <2>3. Latched
    BY <1>1, <1>4 DEF Latched
  <2> QED BY <1>1, <1>2, <1>4, <2>2, <2>3, NegLines DEF RegsHold
<1> QED BY <1>1, <1>2, <1>3, <1>4 DEF Latched

LEMMA NegRead ==
  ASSUME IInv, NEW line \in P!Levels, NegEdge(line)
  PROVE  ReadHolds'
<1>1. /\ stage' = stage /\ clk = "high" /\ clk' = "low" /\ reset' = reset /\ Live
      /\ ReadHolds /\ Types /\ InstrHolds
  BY NegParts DEF IInv
<1>2. CASE stage = "readMem" /\ ~busy' /\ ~reset /\ Reads'
  <2>1. Reads /\ ReadCell' = ReadCell
    BY <1>2, NegLines
  <2>2. start
    BY <1>2, <2>1 DEF start, Reads
  <2>3. BusAnswer
    BY <1>2, <2>2, NegAnswer DEF BusWait
  <2>4. q' = mem[ReadCell]
    BY <1>2, <2>3 DEF BusAnswer, Returned, address, ReadCell
  <2>5. mem' = mem
    BY <1>2, <2>3 DEF BusAnswer, Written, we
  <2> QED BY <1>1, <1>2, <2>1, <2>4, <2>5 DEF ReadHolds
<1>3. CASE stage = "writeBack" /\ ~reset /\ Reads'
  <2>1. Reads /\ q \in Word
    BY <1>1, <1>3, NegLines DEF ReadHolds
  <2>2. q' = q \/ q' = 0
    BY <1>3, NegAnswer DEF BusWait, BusAnswer, Returned
  <2> QED BY <1>1, <1>3, <2>1, <2>2, Sizes DEF ReadHolds
<1> QED BY <1>1, <1>2, <1>3 DEF ReadHolds, Live

\* Up and down, the pointer is where it was.
LEMMA Pointer ==
  ASSUME NEW p \in 0 .. StackSize - 1
  PROVE  /\ (p + 1) % StackSize \in 0 .. StackSize - 1
         /\ (p - 1) % StackSize \in 0 .. StackSize - 1
         /\ (((p + 1) % StackSize) - 1) % StackSize = p
<1>1. StackSize \in Nat \ {0} /\ p + 1 \in Int /\ p - 1 \in Int /\ p \in Int
  BY Sizes
<1>2. /\ (p + 1) % StackSize \in 0 .. StackSize - 1
      /\ (p - 1) % StackSize \in 0 .. StackSize - 1
  BY <1>1, ModBounds
<1>3. (-1 + ((p + 1) % StackSize)) % StackSize = (-1 + (p + 1)) % StackSize
  <2> DEFINE down == -1
             up == p + 1
  <2>1. down \in Int /\ up \in Int
    BY <1>1
  <2> HIDE DEF down, up
  <2>2. (down + (up % StackSize)) % StackSize = (down + up) % StackSize
    BY <1>1, <2>1, ModAdd
  <2> QED BY <2>2 DEF down, up
<1>4. -1 + (p + 1) = p /\ p % StackSize = p
  <2>1. p % StackSize = p
    BY <1>1, ModSmall
  <2> QED BY <1>1, <2>1
<1>5. -1 + ((p + 1) % StackSize) = ((p + 1) % StackSize) - 1
  BY <1>1, <1>2
<1> QED BY <1>2, <1>3, <1>4, <1>5

LEMMA NegStack ==
  ASSUME IInv, NEW line \in P!Levels, NegEdge(line)
  PROVE  StackHolds'
<1>1. /\ stage' = stage /\ clk = "high" /\ clk' = "low" /\ reset' = reset /\ Live
      /\ Types /\ InstrHolds
  BY NegParts DEF IInv
<1>2. SUFFICES ASSUME ~reset, stage = "readMem", instrOP' \in {"PUSH", "POP"}
               PROVE  StackHolds'
  BY <1>1 DEF StackHolds, EarlyPush, EarlyPop, Early, Live
<1>3. instrOP' = instrOP /\ data_b' = data_b
  BY <1>2, NegLines
<1>4. CASE instrOP = "PUSH"
  <2>1. /\ stack' = [stack EXCEPT ![ptr] = data_b]
        /\ ptr' = (ptr + 1) % StackSize
    <3>1. StackNeg /\ push /\ ~pop /\ ~reset
      BY <1>2, <1>4 DEF NegEdge, push, pop
    <3>2. NextPtr = (ptr + 1) % StackSize
      BY <3>1 DEF NextPtr
    <3> HIDE DEF push
    <3> QED BY <3>1, <3>2, Zenon DEF StackNeg
  <2>2. (ptr' - 1) % StackSize = ptr
    BY <1>1, <2>1, Pointer DEF Types
  <2>3. stack'[ptr] = data_b
    BY <1>1, <2>1 DEF Types
  <2> QED BY <1>3, <1>4, <2>2, <2>3 DEF StackHolds, EarlyPush, EarlyPop
<1>5. CASE instrOP = "POP"
  <2>1. /\ stack' = stack /\ ptr' = (ptr - 1) % StackSize
        /\ stack_q' = stack[(ptr - 1) % StackSize]
    BY <1>2, <1>5 DEF NegEdge, StackNeg, NextPtr, push, pop
  <2> QED BY <1>3, <1>5, <2>1 DEF StackHolds, EarlyPush, EarlyPop
<1> QED BY <1>2, <1>3, <1>4, <1>5

\* The lines of an instruction that has an effect.
LEMMA WriteLines ==
  ASSUME stage = "writeBack"
  PROVE  /\ instrOP = "WRITE" => address = Offset(data_a, k, n1(instruction))
                                 /\ data = data_b
         /\ instrOP = "COPY" => address = Offset(data_b, k, n1(instruction))
                                /\ data = q
<1> HIDE DEF instrOP, data_a, data_b, k, instruction
<1>1. instrOP = "WRITE" => address = Offset(data_a, k, n1(instruction))
  BY Zenon DEF address
<1>2. instrOP = "COPY" => address = Offset(data_b, k, n1(instruction))
  BY Zenon DEF address
<1>3. /\ instrOP = "WRITE" => data = data_b
      /\ instrOP = "COPY" => data = q
  BY DEF data
<1> QED BY <1>1, <1>2, <1>3

LEMMA InputLines ==
  /\ instrOP = "ARITH" => input_b = IF instruction.ce THEN k ELSE data_b
  /\ instrOP = "LOAD" => input_b = k
  /\ instrOP = "SAVPC" => input_b = pc_out
  /\ instrOP = "POP" => input_b = stack_q
  /\ readintid => input_b = ext_int_id
  /\ instrOP \in {"BEQ", "BNE", "BGT", "BGE"} => input_b = data_b
<1>1. readintid => instrOP = "READ"
  BY DEF readintid
<1> HIDE DEF instrOP, data_b, k, instruction, readintid
<1>2. instrOP = "ARITH" /\ instruction.ce => input_b = k
  BY <1>1, Zenon DEF input_b
<1>3. instrOP = "ARITH" /\ ~instruction.ce => input_b = data_b
  BY <1>1, Zenon DEF input_b
<1>4. instrOP = "LOAD" => input_b = k
  BY <1>1, Zenon DEF input_b
<1>5. instrOP = "SAVPC" => input_b = pc_out
  BY <1>1, Zenon DEF input_b
<1>6. instrOP = "POP" => input_b = stack_q
  BY <1>1, Zenon DEF input_b
<1>7. readintid => input_b = ext_int_id
  BY <1>1, Zenon DEF input_b
<1>8. instrOP \in {"BEQ", "BNE", "BGT", "BGE"} => input_b = data_b
  BY <1>1, Zenon DEF input_b
<1> QED BY <1>2, <1>3, <1>4, <1>5, <1>6, <1>7, <1>8

LEMMA WriteType ==
  ASSUME Types, InstrHolds, ReadHolds, Live, stage = "writeBack", we
  PROVE  address \in Addr /\ data \in Word
<1>1. /\ k \in Word /\ data_a \in Word /\ data_b \in Word
  BY InstrTyped
<1>2. n1(instruction) \in BOOLEAN
  BY DEF n1
<1> HIDE DEF k, data_a, data_b, instruction, Word, Addr
<1>3. /\ Offset(data_a, k, n1(instruction)) \in Addr
      /\ Offset(data_b, k, n1(instruction)) \in Addr
  BY <1>1, <1>2, OffsetType
<1>4. instrOP = "COPY" => q \in Word
  BY DEF ReadHolds, Reads
<1> QED BY <1>1, <1>3, <1>4, WriteLines DEF we

\* What an instruction puts into its register.
Result ==
  IF read_mem THEN q
  ELSE IF dreg_we_high THEN LowHalf(y) * HalfSize + LowHalf(regs[instruction.d])
  ELSE y

LEMMA ResultType ==
  ASSUME Types, Pc!TypeOK, InstrHolds, ReadHolds, Live, stage = "writeBack", dreg_we
  PROVE  Result \in Word
<1>1. /\ k \in Word /\ data_a \in Word /\ data_b \in Word
      /\ IsInstr(instruction) /\ instruction.d \in Reg /\ regs[instruction.d] \in Word
      /\ stack_q \in Word
  BY InstrTyped DEF Types
<1>2. pc_out \in Word /\ ext_int_id \in Word
  BY ControllerAssumption, Sizes DEF Pc!TypeOK, Word
<1>3. CASE read_mem
  <2>1. q \in Word
    BY <1>3 DEF ReadHolds, Reads, read_mem
  <2> QED BY <1>3, <2>1 DEF Result
<1>4. CASE skip /\ ~read_mem
  <2>1. y = input_b
    BY <1>4 DEF y
  <2>2. input_b \in Word
    BY <1>1, <1>2, <1>4, InputLines DEF skip
  <2>3. CASE ~dreg_we_high
    BY <1>4, <2>1, <2>2, <2>3 DEF Result
  <2>4. CASE dreg_we_high
    <3>1. y = k /\ k < HalfSize
      BY <1>1, <2>1, <2>4, InputLines DEF dreg_we_high, IsInstr, instrOP, k
    <3>2. LowHalf(k) * HalfSize + LowHalf(regs[instruction.d]) \in Word
      <4> DEFINE w == regs[instruction.d]
      <4>1. w \in Word
        BY <1>1
      <4> HIDE DEF w, k
      <4>2. LowHalf(k) = k /\ k * HalfSize + LowHalf(w) \in Word
        BY <1>1, <3>1, <4>1, HalvesType
      <4> QED BY <4>2 DEF w
    <3> QED BY <1>4, <2>4, <3>1, <3>2 DEF Result
  <2> QED BY <2>3, <2>4
<1>5. CASE ~skip /\ ~read_mem
  <2>1. instrOP = "ARITH"
    BY <1>5 DEF dreg_we, skip, readintid, read_mem
  <2>2. input_b \in Word
    BY <1>1, <2>1, InputLines
  <2>3. y \in Word
    BY <1>1, <1>5, <2>2, AluType DEF y, IsInstr
  <2> QED BY <1>5, <2>1, <2>3 DEF Result, dreg_we_high
<1> QED BY <1>3, <1>4, <1>5

\* How many words a program has on the stack.
LEMMA NegDepth ==
  ASSUME NEW line, NegEdge(line)
  PROVE  /\ reset => depth' = 0
         /\ ~reset /\ P!WriteBackEdge /\ instrOP = "PUSH" /\ depth < StackSize
              => depth' = depth + 1
         /\ ~reset /\ P!WriteBackEdge /\ instrOP = "POP" /\ depth > 0
              => depth' = depth - 1
         /\ ~reset /\ ~(P!WriteBackEdge /\ instrOP = "PUSH" /\ depth < StackSize)
                   /\ ~(P!WriteBackEdge /\ instrOP = "POP" /\ depth > 0)
              => depth' = depth
<1> DEFINE Pushed == P!WriteBackEdge /\ instrOP = "PUSH" /\ depth < StackSize
           Popped == P!WriteBackEdge /\ instrOP = "POP" /\ depth > 0
<1>1. depth' = IF reset THEN 0
               ELSE CASE Pushed -> depth + 1 [] Popped -> depth - 1 [] OTHER -> depth
  BY Zenon DEF NegEdge
<1>2. ~(Pushed /\ Popped)
  OBVIOUS
<1> HIDE DEF Pushed, Popped
<1>3. reset => depth' = 0
  BY <1>1, Zenon
<1>4. ~reset /\ Pushed => depth' = depth + 1
  BY <1>1, <1>2, Zenon
<1>5. ~reset /\ Popped => depth' = depth - 1
  BY <1>1, <1>2, Zenon
<1>6. ~reset /\ ~Pushed /\ ~Popped => depth' = depth
  BY <1>1, Zenon
<1> QED BY <1>3, <1>4, <1>5, <1>6 DEF Pushed, Popped

\* The stack moves in readMem.
LEMMA NegPush ==
  ASSUME NEW line, NegEdge(line), ~reset, push
  PROVE  /\ ptr' = (ptr + 1) % StackSize /\ stack' = [stack EXCEPT ![ptr] = data_b]
         /\ stack_q' = stack_q /\ lost' = stack[ptr]
<1>1. StackNeg /\ push /\ ~pop /\ ~reset /\ lost' = stack[ptr]
  BY DEF NegEdge, push, pop
<1>2. NextPtr = (ptr + 1) % StackSize
  BY <1>1, Zenon DEF NextPtr
<1> HIDE DEF push, pop
<1> QED BY <1>1, <1>2, Zenon DEF StackNeg

LEMMA NegPop ==
  ASSUME NEW line, NegEdge(line), ~reset, pop
  PROVE  /\ ptr' = (ptr - 1) % StackSize /\ stack' = stack
         /\ stack_q' = stack[(ptr - 1) % StackSize]
<1>1. StackNeg /\ ~push /\ pop /\ ~reset
  BY DEF NegEdge, push, pop
<1>2. NextPtr = (ptr - 1) % StackSize
  BY <1>1, Zenon DEF NextPtr
<1> HIDE DEF push, pop
<1> QED BY <1>1, <1>2, Zenon DEF StackNeg

LEMMA NegNoMove ==
  ASSUME NEW line, NegEdge(line), ~reset, ~push, ~pop
  PROVE  ptr' = ptr /\ stack' = stack /\ stack_q' = stack_q
<1>1. StackNeg /\ ~push /\ ~pop /\ ~reset
  BY DEF NegEdge
<1>2. NextPtr = ptr
  BY <1>1, Zenon DEF NextPtr
<1> HIDE DEF push, pop
<1> QED BY <1>1, <1>2, Zenon DEF StackNeg

LEMMA NegStackTypes ==
  ASSUME IInv, NEW line \in P!Levels, NegEdge(line)
  PROVE  /\ ptr' \in 0 .. StackSize - 1 /\ stack' \in [0 .. StackSize - 1 -> Word]
         /\ stack_q' \in Word /\ lost' \in Word /\ depth' \in 0 .. StackSize
<1>1. /\ Types /\ InstrHolds /\ Live /\ StackSize \in Nat \ {0} /\ 0 \in Word
      /\ 0 \in 0 .. StackSize - 1 /\ 0 \in 0 .. StackSize
  BY NegParts, Sizes DEF IInv
<1>2. push => lost' = stack[ptr]
  BY DEF NegEdge
<1>3. ~push => lost' = 0
  BY DEF NegEdge
<1>4. lost' \in Word
  BY <1>1, <1>2, <1>3 DEF Types
<1>5. CASE reset
  <2>1. ptr' = 0 /\ stack' = stack /\ stack_q' = stack_q
    BY <1>5 DEF NegEdge, StackNeg
  <2>2. depth' = 0
    BY <1>5, NegDepth
  <2> QED BY <1>1, <1>4, <2>1, <2>2 DEF Types
<1>6. CASE ~reset
  <2>1. depth' \in 0 .. StackSize
    <3>1. depth \in 0 .. StackSize
      BY <1>1 DEF Types
    <3> QED BY <1>1, <1>6, <3>1, NegDepth
  <2>2. CASE push
    <3>1. data_b \in Word
      BY <1>1, <2>2, InstrTyped DEF push
    <3>2. (ptr + 1) % StackSize \in 0 .. StackSize - 1
      BY <1>1, Pointer DEF Types
    <3>3. stack \in [0 .. StackSize - 1 -> Word] /\ stack_q \in Word
      BY <1>1 DEF Types
    <3>4. [stack EXCEPT ![ptr] = data_b] \in [0 .. StackSize - 1 -> Word]
      BY <3>1, <3>3
    <3> QED BY <1>4, <1>6, <2>1, <2>2, <3>2, <3>3, <3>4, NegPush
  <2>3. CASE pop
    <3>1. (ptr - 1) % StackSize \in 0 .. StackSize - 1
      BY <1>1, Pointer DEF Types
    <3>2. stack \in [0 .. StackSize - 1 -> Word]
      BY <1>1 DEF Types
    <3> QED BY <1>4, <1>6, <2>1, <2>3, <3>1, <3>2, NegPop
  <2>4. CASE ~push /\ ~pop
    BY <1>1, <1>4, <1>6, <2>1, <2>4, NegNoMove DEF Types
  <2> QED BY <2>2, <2>3, <2>4
<1> QED BY <1>1, <1>5, <1>6, NegParts

LEMMA NegTypes ==
  ASSUME IInv, NEW line \in P!Levels, NegEdge(line)
  PROVE  Types'
<1>1. /\ Types /\ InstrHolds /\ ReadHolds /\ Pc!TypeOK /\ Live
      /\ stage \in {"init", "fetch", "getRegs", "readMem", "writeBack"}
      /\ reset \in BOOLEAN
  BY NegParts DEF IInv, Pc!IInv
<1>2. regs' \in [Reg -> Word]
  <2>1. CASE stage = "writeBack" /\ dreg_we
    <3>1. regs' = [regs EXCEPT ![instruction.d] = Result]
      BY <2>1, Zenon DEF NegEdge, RegbankNeg, Result
    <3>2. Result \in Word
      BY <1>1, <2>1, ResultType
    <3> HIDE DEF Result
    <3> QED BY <1>1, <3>1, <3>2 DEF Types
  <2>2. CASE ~(stage = "writeBack" /\ dreg_we)
    <3>1. regs' = regs
      BY <2>2, Zenon DEF NegEdge, RegbankNeg
    <3> QED BY <1>1, <3>1 DEF Types
  <2> QED BY <2>1, <2>2
<1>3. data_a_l' \in Word /\ data_b_l' \in Word
  <2>1. CASE stage = "getRegs" /\ ~reset
    <3>1. data_a_l' = regs[instruction.a] /\ data_b_l' = regs[instruction.b]
      BY <2>1 DEF NegEdge, RegbankNeg
    <3>2. instruction \in Program
      BY <1>1, <2>1 DEF InstrHolds, instruction
    <3>3. IsInstr(instruction)
      BY <3>2, ProgramAssumption
    <3> QED BY <1>1, <3>1, <3>3 DEF Types, IsInstr
  <2>2. CASE stage = "getRegs" /\ reset
    <3>1. data_a_l' = regs[instruction.a] /\ data_b_l' = regs[instruction.b]
      BY <2>2 DEF NegEdge, RegbankNeg
    <3>2. instruction \in Program
      BY <1>1, <2>2 DEF InstrHolds, instruction
    <3>3. IsInstr(instruction)
      BY <3>2, ProgramAssumption
    <3> QED BY <1>1, <3>1, <3>3 DEF Types, IsInstr
  <2>3. CASE stage # "getRegs"
    <3>1. data_a_l' = data_a_l /\ data_b_l' = data_b_l
      BY <2>3 DEF NegEdge, RegbankNeg
    <3> QED BY <1>1, <3>1 DEF Types
  <2> QED BY <1>1, <2>1, <2>2, <2>3
<1>4. IsInstr(instructionReg')
  <2>1. CASE reset
    <3>1. instructionReg' = NoInstr
      BY <2>1 DEF NegEdge, DecoderNeg
    <3>2. IsInstr(NoInstr)
      BY Sizes DEF NoInstr, IsInstr, Op, AluOp
    <3> QED BY <3>1, <3>2
  <2>2. CASE ~reset /\ stage = "getRegs"
    <3>1. instructionReg' = q /\ q \in Program
      BY <1>1, <2>2 DEF NegEdge, DecoderNeg, InstrHolds
    <3> QED BY <3>1, ProgramAssumption
  <2>3. CASE ~reset /\ stage # "getRegs"
    <3>1. instructionReg' = instructionReg
      BY <2>3 DEF NegEdge, DecoderNeg
    <3> QED BY <1>1, <3>1 DEF Types
  <2> QED BY <1>1, <2>1, <2>2, <2>3
<1>5. mem' \in [Addr -> Word] /\ fetched' \in 0 .. MaxInstr
  <2>1. Written \in [Addr -> Word]
    <3>1. CASE we
      <4>1. stage = "writeBack"
        BY <3>1 DEF we
      <4>2. address \in Addr /\ data \in Word
        BY <1>1, <3>1, <4>1, WriteType
      <4> HIDE DEF address, data, we
      <4> QED BY <1>1, <3>1, <4>2 DEF Written, Types
    <3>2. CASE ~we
      <4> HIDE DEF address, data, we
      <4> QED BY <1>1, <3>2 DEF Written, Types
    <3> QED BY <3>1, <3>2
  <2>2. CASE BusReset
    BY <1>1, <2>1, <2>2 DEF BusReset, Types
  <2>3. CASE BusWait
    BY <1>1, <2>3 DEF BusWait, Types
  <2>4. CASE BusAnswer
    <3>1. mem' = Written
      BY <2>4 DEF BusAnswer
    <3>2. fetched' \in 0 .. MaxInstr
      <4>1. MaxInstr \in Nat /\ fetched \in 0 .. MaxInstr
        BY <1>1, ProgramAssumption DEF Types
      <4>2. CASE stage = "fetch"
        <5>1. fetched < MaxInstr /\ fetched' = fetched + 1
          BY <2>4, <4>2 DEF BusAnswer
        <5> HIDE DEF MaxInstr
        <5> QED BY <4>1, <5>1
      <4>3. CASE stage # "fetch"
        BY <2>4, <4>1, <4>3 DEF BusAnswer
      <4> QED BY <4>2, <4>3
    <3> QED BY <2>1, <3>1, <3>2
  <2> QED BY <2>2, <2>3, <2>4 DEF NegEdge
<1>6. busy' \in BOOLEAN
  BY NegAnswer
<1> QED BY <1>2, <1>3, <1>4, <1>5, <1>6, NegStackTypes DEF Types

LEMMA NegIInv ==
  ASSUME IInv, NEW line \in P!Levels, NegEdge(line)
  PROVE  IInv'
BY NegControl, NegTypes, NegInstr, NegBus, NegRegs, NegRead, NegStack DEF IInv

LEMMA InitIInv == Init => IInv
<1> SUFFICES ASSUME Init PROVE IInv
  OBVIOUS
<1>1. Pc!IInv
  BY SamePC, Assumptions, Pc!InitIInv DEF Init
<1>2. clk = "low" /\ stage = "init" /\ ~reset
  BY DEF Init, P!Init
<1>3. IsInstr(NoInstr)
  BY Sizes DEF NoInstr, IsInstr, Op, AluOp
<1>4. MaxInstr \in Nat
  BY ProgramAssumption
<1>5. Types
  <2>1. regs \in [Reg -> Word] /\ mem \in [Addr -> Word]
    BY ProgramAssumption DEF Init
  <2>2. /\ data_a_l = 0 /\ data_b_l = 0 /\ stack_q = 0 /\ lost = 0 /\ ptr = 0
        /\ stack = [s \in 0 .. StackSize - 1 |-> 0] /\ busy = FALSE
        /\ fetched = 0 /\ depth = 0 /\ instructionReg = NoInstr
    BY DEF Init
  <2>3. 0 \in 0 .. StackSize - 1 /\ 0 \in 0 .. StackSize /\ 0 \in 0 .. MaxInstr
    BY <1>4, Sizes
  <2> HIDE DEF NoInstr
  <2> QED BY <1>3, <2>1, <2>2, <2>3, Sizes DEF Types
<1>6. ~busy
  BY DEF Init
<1>7. InstrHolds /\ BusHolds /\ RegsHold
  BY <1>2, <1>6 DEF InstrHolds, BusHolds, RegsHold, Latched
<1>8. ReadHolds /\ StackHolds
  BY <1>2 DEF ReadHolds, StackHolds, EarlyPush, EarlyPop, Early
<1> QED BY <1>1, <1>5, <1>7, <1>8 DEF IInv

LEMMA NextIInv == IInv /\ [Next]_vars => IInv'
<1> SUFFICES ASSUME IInv, [Next]_vars PROVE IInv'
  OBVIOUS
<1>1. CASE PosEdge
  BY <1>1, PosIInv
<1>2. CASE \E line \in P!Levels : NegEdge(line)
  BY <1>2, NegIInv
<1>3. CASE UNCHANGED vars
  <2>1. Pc!IInv'
    <3>1. UNCHANGED Pc!vars
      BY <1>3 DEF vars, pcvars, Pc!vars, Pc!regs
    <3> QED BY <3>1, Assumptions, Pc!NextIInv DEF IInv
  <2>2. /\ clk' = clk /\ stage' = stage /\ reset' = reset
        /\ writeBack_prev' = writeBack_prev /\ regs' = regs
        /\ data_a_l' = data_a_l /\ data_b_l' = data_b_l /\ stack_q' = stack_q
        /\ lost' = lost /\ ptr' = ptr /\ stack' = stack /\ busy' = busy /\ q' = q
        /\ mem' = mem /\ fetched' = fetched /\ depth' = depth
        /\ instructionReg' = instructionReg
    BY <1>3 DEF vars, pcvars, datavars, busvars
  <2>3. instruction' = instruction
    BY <2>2 DEF instruction
  <2>4. /\ instrOP' = instrOP /\ k' = k /\ data_a' = data_a /\ data_b' = data_b
        /\ Reads' = Reads /\ ReadCell' = ReadCell
    BY <2>2, <2>3, SameLines
  <2>5. Types' /\ InstrHolds'
    BY <2>2 DEF IInv, Types, InstrHolds, Live
  <2>6. BusHolds' /\ RegsHold'
    BY <2>2, <2>3, <2>4 DEF IInv, BusHolds, start, RegsHold, Latched, we, Live
  <2>7. ReadHolds' /\ StackHolds'
    BY <2>2, <2>4 DEF IInv, ReadHolds, StackHolds, EarlyPush, EarlyPop, Early, Live
  <2> QED BY <2>1, <2>5, <2>6, <2>7 DEF IInv
<1> QED BY <1>1, <1>2, <1>3 DEF Next

THEOREM Invariance == Spec => []IInv
BY InitIInv, NextIInv, PTL DEF Spec

\* Registers, memory, stack and what was fetched keep their types; CPU.v reads
\* the answer of the bus only when there is one.
THEOREM TypeCorrect == Spec => []TypeOK
<1>1. ASSUME IInv PROVE TypeOK
  <2>1. P!TypeOK /\ Types
    BY <1>1, SamePC DEF IInv, Pc!IInv
  <2>2. stage = "getRegs" /\ ~reset => q \in Program
    BY <1>1 DEF IInv, InstrHolds, Live
  <2>3. ASSUME stage = "writeBack", read_mem \/ we, ~reset
        PROVE  data \in Word
    <3>1. InstrHolds /\ ReadHolds /\ Live
      BY <1>1, <2>3 DEF IInv, Live
    <3>2. data_b \in Word
      BY <2>1, <2>3, <3>1, InstrTyped
    <3>3. instrOP = "COPY" => q \in Word
      BY <2>3, <3>1 DEF ReadHolds, Reads
    <3> QED BY <3>2, <3>3 DEF data
  <2> HIDE DEF data
  <2> QED BY <2>1, <2>2, <2>3 DEF TypeOK, Types
<1> QED BY <1>1, Invariance, PTL

-----------------------------------------------------------------------------
(* The lines of the bus.                                                   *)

LEMMA SameAddress ==
  ASSUME stage' = stage, instruction' = instruction, pc_out' = pc_out \/ stage # "fetch",
         data_a_l' = data_a_l, data_b_l' = data_b_l
  PROVE  address' = address /\ we' = we
<1>1. instrOP' = instrOP /\ k' = k /\ data_a' = data_a /\ data_b' = data_b
  BY SameLines
<1>2. /\ Offset(data_a, k, n1(instruction))' = Offset(data_a, k, n1(instruction))
      /\ Offset(data_a, k, n2(instruction))' = Offset(data_a, k, n2(instruction))
      /\ Offset(data_b, k, n1(instruction))' = Offset(data_b, k, n1(instruction))
  BY <1>1 DEF Offset, n1, n2
<1> HIDE DEF instrOP, k, data_a, data_b, instruction
<1>3. address' = address
  <2>1. CASE stage = "fetch"
    BY <2>1, Zenon DEF address
  <2>2. CASE stage = "readMem"
    BY <1>2, <2>2, Zenon DEF address
  <2>3. CASE stage = "writeBack" /\ instrOP = "WRITE"
    BY <1>1, <1>2, <2>3, Zenon DEF address
  <2>4. CASE stage = "writeBack" /\ instrOP = "COPY"
    BY <1>1, <1>2, <2>4, Zenon DEF address
  <2>5. CASE /\ stage # "fetch" /\ stage # "readMem"
             /\ ~(stage = "writeBack" /\ instrOP = "WRITE")
             /\ ~(stage = "writeBack" /\ instrOP = "COPY")
    BY <1>1, <2>5, Zenon DEF address
  <2> QED BY <2>1, <2>2, <2>3, <2>4, <2>5
<1>4. we' = we
  BY <1>1 DEF we
<1> QED BY <1>3, <1>4

\* ControlUnit.v:62-83.  From its start until its answer, address, direction
\* and data of an access stay as they are, whatever the bus makes of its time.
THEOREM LinesStay == Spec => LinesHold
<1> DEFINE Still ==
      start /\ stage' = stage /\ ~(busy /\ ~busy') /\ ~reset
        => <<address, we>>' = <<address, we>> /\ (we => data' = data)
<1>1. IInv /\ [Next]_vars => [Still]_vars
  <2> SUFFICES ASSUME IInv, Next, start, stage' = stage, ~(busy /\ ~busy'), ~reset
               PROVE  address' = address /\ we' = we /\ (we => data' = data)
    BY DEF vars
  <2>1. stage \in {"fetch", "readMem", "writeBack"}
    BY DEF start
  <2>2. /\ instruction' = instruction \/ stage = "fetch"
        /\ pc_out' = pc_out \/ stage # "fetch"
        /\ data_a_l' = data_a_l /\ data_b_l' = data_b_l
        /\ stage # "fetch" => q' = q
    <3>1. CASE PosEdge
      BY <3>1, PosParts DEF instruction
    <3>2. ASSUME NEW line \in P!Levels, NegEdge(line)
          PROVE  <2>2!:
      <4>1. data_a_l' = data_a_l /\ data_b_l' = data_b_l
        BY <2>1, <3>2 DEF NegEdge, RegbankNeg
      <4>2. stage # "fetch" => instruction' = instruction
        BY <2>1, <3>2, NegLines
      <4>3. stage = "fetch" => pc_out' = pc_out
        <5>1. ASSUME stage = "fetch" PROVE P!Hold(line)
          BY <3>2, <5>1 DEF NegEdge, PcNeg, P!Return, P!Dispatch, P!Advance,
             P!WriteBackEdge
        <5> QED BY <5>1 DEF P!Hold
      <4>4. q' = q \/ stage = "fetch"
        BY <3>2, NegAnswer DEF BusWait, BusAnswer
      <4> QED BY <4>1, <4>2, <4>3, <4>4
    <3> QED BY <3>1, <3>2 DEF Next
  <2>3. CASE stage = "fetch"
    <3>1. address = pc_out /\ address' = pc_out' /\ ~we /\ ~we'
      BY <2>3, Zenon DEF address, we
    <3> QED BY <2>2, <2>3, <3>1 DEF we
  <2>4. CASE stage # "fetch"
    <3>1. address' = address /\ we' = we
      BY <2>2, <2>4, SameAddress
    <3>2. data' = data
      BY <2>2, <2>4, SameLines DEF data
    <3> QED BY <3>1, <3>2
  <2> QED BY <2>3, <2>4
<1>2. Spec => [][Still]_vars
  BY <1>1, Invariance, PTL DEF Spec
<1> QED BY <1>2 DEF LinesHold

-----------------------------------------------------------------------------
(* The architecture: its state, and what its steps ask.                    *)

Regs == [r \in Reg \ {0} |-> regs[r]]
Stk == IF reset THEN <<>>
       ELSE [n \in 1 .. depth |-> Entry((Top - depth + n - 1) % StackSize)]
Pend == IF busy /\ we THEN [cell |-> address, word |-> data] ELSE [cell |-> -1]
Flow == <<pc_out, PCintBackup, int_en, ext_int_id>>

\* Its words and instructions are those of the CPU.
LEMMA SameWords ==
  ASSUME NEW i, NEW a, NEW b, NEW c
  PROVE  /\ Arch!Word = Word /\ Arch!Addr = Addr /\ Arch!Reg = Reg
         /\ Arch!WordSize = WordSize /\ Arch!HalfSize = HalfSize
         /\ Arch!Offset(a, b, c) = Offset(a, b, c)
         /\ Arch!Alu(a, b, c) = Alu(a, b, c) /\ Arch!LowHalf(a) = LowHalf(a)
         /\ Arch!n1(i) = n1(i) /\ Arch!n2(i) = n2(i) /\ Arch!oe(i) = oe(i)
         /\ Arch!intf(i) = intf(i) /\ Arch!he(i) = he(i)
<1>1. Arch!WordSize = WordSize /\ Arch!HalfSize = HalfSize
  BY Zenon DEF Arch!WordSize, WordSize, Arch!HalfSize, HalfSize
<1>2. Arch!Word = Word /\ Arch!Addr = Addr /\ Arch!Reg = Reg
  BY <1>1, Zenon DEF Arch!Word, Word, Arch!Addr, Addr, Arch!Reg, Reg
<1>3. Arch!Offset(a, b, c) = Offset(a, b, c)
  BY Zenon DEF Arch!Offset, Offset
<1>4. Arch!Alu(a, b, c) = Alu(a, b, c)
  BY <1>1, Zenon DEF Arch!Alu, Alu
<1>5. Arch!LowHalf(a) = LowHalf(a)
  BY <1>1, Zenon DEF Arch!LowHalf, LowHalf
<1>6. Arch!n1(i) = n1(i) /\ Arch!n2(i) = n2(i)
  BY Zenon DEF Arch!n1, n1, Arch!n2, n2
<1>7. Arch!oe(i) = oe(i) /\ Arch!intf(i) = intf(i) /\ Arch!he(i) = he(i)
  BY Zenon DEF Arch!oe, oe, Arch!intf, intf, Arch!he, he
<1> QED BY <1>1, <1>2, <1>3, <1>4, <1>5, <1>6, <1>7

LEMMA ArchStutter ==
  ASSUME UNCHANGED <<Flow, Regs, Stk, mem, Pend, reset>>
  PROVE  UNCHANGED Arch!isavars
BY Zenon DEF Arch!isavars, Flow, Regs, Stk, Pend

LEMMA ArchExecute ==
  ASSUME NEW i, ~reset, reset' = reset, Pend = Arch!None,
         Arch!Continue(i) \/ Arch!Interrupted(i) \/ Arch!Return(i),
         Regs' \in Arch!RegsAfter(i), Stk' = Arch!StackAfter(i),
         Pend' = Arch!StoreOf(i), mem' = mem
  PROVE  Arch!Execute(i)
BY Zenon DEF Arch!Execute, Regs, Stk, Pend

LEMMA ArchLand ==
  ASSUME ~reset, reset' = reset, Pend # Arch!None, mem' = Arch!Stored(Pend),
         Pend' = Arch!None, UNCHANGED <<Flow, Regs, Stk>>
  PROVE  Arch!Land
BY Zenon DEF Arch!Land, Regs, Stk, Pend, Flow

LEMMA ArchResetBegins ==
  ASSUME ~reset, reset', Stk' = <<>>, UNCHANGED <<Flow, Regs, mem, Pend>>
  PROVE  Arch!ResetBegins
BY Zenon DEF Arch!ResetBegins, Regs, Stk, Pend, Flow

LEMMA ArchResetEnds ==
  ASSUME reset, ~reset', Pend = Arch!None, pc_out' = PCstart, PCintBackup' = 0,
         int_en' = TRUE, UNCHANGED <<ext_int_id, Regs, Stk, mem, Pend>>
  PROVE  Arch!ResetEnds
BY Zenon DEF Arch!ResetEnds, Regs, Stk, Pend, Flow

LEMMA ArchInReset ==
  ASSUME reset, reset', pc_out' \in Addr, PCintBackup' \in Addr, int_en' \in BOOLEAN,
         ext_int_id' \in 0 .. 4, Stk' = <<>>, Pend' = Arch!None,
         \/ UNCHANGED <<Regs, mem>>
         \/ Pend # Arch!None /\ mem' = Arch!Stored(Pend) /\ UNCHANGED Regs
         \/ \E i \in Program :
              /\ Pend = Arch!None
              /\ Regs' \in Arch!RegsAfter(i)
              /\ \/ mem' = mem
                 \/ Arch!StoreOf(i) # Arch!None /\ mem' = Arch!Stored(Arch!StoreOf(i))
  PROVE  Arch!InReset
<1>1. CASE UNCHANGED <<Regs, mem>>
  BY <1>1, SameWords, Zenon DEF Arch!InReset, Regs, Stk, Pend
<1>2. CASE Pend # Arch!None /\ mem' = Arch!Stored(Pend) /\ UNCHANGED Regs
  BY <1>2, SameWords, Zenon DEF Arch!InReset, Regs, Stk, Pend
<1>3. ASSUME NEW i \in Program, Pend = Arch!None, Regs' \in Arch!RegsAfter(i),
             \/ mem' = mem
             \/ Arch!StoreOf(i) # Arch!None /\ mem' = Arch!Stored(Arch!StoreOf(i))
      PROVE  Arch!InReset
  <2>1. mem' \in {mem} \cup {Arch!Stored(p) : p \in {Arch!StoreOf(i)} \ {Arch!None}}
    BY <1>3
  <2> QED BY <1>3, <2>1, SameWords, Zenon DEF Arch!InReset, Regs, Stk, Pend
<1> QED BY <1>1, <1>2, <1>3

\* The architecture's registers are the CPU's, but for the constant zero.
LEMMA ArchR ==
  ASSUME NEW r \in Reg
  PROVE  Arch!R(r) = IF r = 0 THEN 0 ELSE regs[r]
BY DEF Arch!R

LEMMA SameRegs ==
  ASSUME regs' = regs
  PROVE  Regs' = Regs
BY DEF Regs

LEMMA PendNone ==
  ASSUME ~busy \/ ~we
  PROVE  Pend = Arch!None
BY DEF Pend, Arch!None

LEMMA PendSome ==
  ASSUME Types, InstrHolds, ReadHolds, Live, stage = "writeBack", busy, we
  PROVE  Pend # Arch!None /\ Pend = [cell |-> address, word |-> data]
<1>1. address \in Addr
  BY WriteType
<1> HIDE DEF address, data, we
<1>2. Pend = [cell |-> address, word |-> data]
  BY DEF Pend
<1>3. Pend.cell # -1
  BY <1>1, <1>2, Sizes DEF Addr
<1>4. Arch!None.cell = -1
  BY DEF Arch!None
<1> QED BY <1>2, <1>3, <1>4

-----------------------------------------------------------------------------
(* The effect of an instruction, when it is in writeBack.                  *)

\* What ISA lets it put into its register.
LEMMA ArchResults ==
  ASSUME NEW i
  PROVE  /\ i.op = "ARITH" =>
              Arch!Results(i) =
                {Alu(i.alu, Arch!R(i.a), IF i.ce THEN i.k ELSE Arch!R(i.b))}
         /\ i.op = "LOAD" /\ ~he(i) => Arch!Results(i) = {i.k}
         /\ i.op = "LOAD" /\ he(i) =>
              Arch!Results(i) = {i.k * HalfSize + LowHalf(Arch!R(i.d))}
         /\ i.op = "SAVPC" => Arch!Results(i) = {pc_out}
         /\ i.op = "READ" /\ intf(i) => Arch!Results(i) = {ext_int_id}
         /\ i.op = "READ" /\ ~intf(i) => Arch!Results(i) = {Arch!ReadFrom(i)}
         /\ i.op = "POP" /\ Stk # <<>> => Arch!Results(i) = {Stk[Len(Stk)]}
         /\ i.op = "POP" /\ Stk = <<>> => Arch!Results(i) = Word
         /\ i.op \notin {"ARITH", "LOAD", "SAVPC", "READ", "POP"} => Arch!Results(i) = {}
<1>1. /\ Arch!Word = Word /\ Arch!HalfSize = HalfSize
      /\ Arch!he(i) = he(i) /\ Arch!intf(i) = intf(i)
      /\ \A a, b, c : Arch!Alu(a, b, c) = Alu(a, b, c)
      /\ \A a : Arch!LowHalf(a) = LowHalf(a)
  BY SameWords, Zenon
<1>2. i.op = "ARITH" =>
        Arch!Results(i) = {Alu(i.alu, Arch!R(i.a), IF i.ce THEN i.k ELSE Arch!R(i.b))}
  BY <1>1, Zenon DEF Arch!Results
<1>3. i.op = "LOAD" /\ ~he(i) => Arch!Results(i) = {i.k}
  BY <1>1, Zenon DEF Arch!Results
<1>4. i.op = "LOAD" /\ he(i) =>
        Arch!Results(i) = {i.k * HalfSize + LowHalf(Arch!R(i.d))}
  BY <1>1, Zenon DEF Arch!Results
<1>5. i.op = "SAVPC" => Arch!Results(i) = {pc_out}
  BY <1>1, Zenon DEF Arch!Results
<1>6. i.op = "READ" /\ intf(i) => Arch!Results(i) = {ext_int_id}
  BY <1>1, Zenon DEF Arch!Results
<1>7. i.op = "READ" /\ ~intf(i) => Arch!Results(i) = {Arch!ReadFrom(i)}
  BY <1>1, Zenon DEF Arch!Results
<1>8. i.op = "POP" /\ Stk # <<>> => Arch!Results(i) = {Stk[Len(Stk)]}
  BY <1>1, Zenon DEF Arch!Results, Stk
<1>9. i.op = "POP" /\ Stk = <<>> => Arch!Results(i) = Word
  BY <1>1, Zenon DEF Arch!Results, Stk
<1>10. i.op \notin {"ARITH", "LOAD", "SAVPC", "READ", "POP"} => Arch!Results(i) = {}
  BY <1>1, Zenon DEF Arch!Results
<1> HIDE DEF Stk
<1> QED BY <1>2, <1>3, <1>4, <1>5, <1>6, <1>7, <1>8, <1>9, <1>10, Zenon

\* The operands are the registers, and what was read is in memory.
LEMMA ArchOperands ==
  ASSUME IInv, stage = "writeBack", clk = "high"
  PROVE  /\ Arch!R(instruction.a) = data_a /\ Arch!R(instruction.b) = data_b
         /\ Arch!ReadFrom(instruction) = mem[ReadCell]
         /\ ~busy /\ Reads => q = mem[ReadCell]
         /\ IsInstr(instruction) /\ instruction \in Program
         /\ {instruction.a, instruction.b, instruction.d} \subseteq Reg
         /\ instrOP = instruction.op /\ k = instruction.k /\ k \in Word
         /\ data_a \in Word /\ data_b \in Word
         /\ Live /\ Types /\ Pc!TypeOK /\ InstrHolds /\ ReadHolds
<1>1. Live /\ Types /\ Pc!TypeOK /\ InstrHolds /\ ReadHolds /\ RegsHold
  BY DEF Live, IInv, Pc!IInv
<1>2. /\ IsInstr(instruction) /\ instruction \in Program /\ k \in Word
      /\ {instruction.a, instruction.b, instruction.d} \subseteq Reg
      /\ data_a \in Word /\ data_b \in Word
  BY <1>1, InstrTyped
<1>3. data_a_l = regs[instruction.a] /\ data_b_l = regs[instruction.b]
  BY <1>1 DEF RegsHold, Latched
<1>4. Arch!R(instruction.a) = data_a /\ Arch!R(instruction.b) = data_b
  BY <1>2, <1>3, ArchR DEF data_a, data_b
<1>5. Arch!ReadFrom(instruction) = mem[ReadCell]
  BY <1>4, SameWords, Zenon DEF Arch!ReadFrom, ReadCell, k
<1>6. ~busy /\ Reads => q = mem[ReadCell]
  BY <1>1 DEF ReadHolds
<1> QED BY <1>1, <1>2, <1>4, <1>5, <1>6 DEF instrOP, k

LEMMA ArchStore ==
  ASSUME IInv, stage = "writeBack", clk = "high", ~busy
  PROVE  /\ we => /\ Arch!StoreOf(instruction) = [cell |-> address, word |-> data]
                  /\ Arch!StoreOf(instruction) # Arch!None
         /\ ~we => Arch!StoreOf(instruction) = Arch!None
<1> DEFINE i == instruction
<1>1. \A a, b, c : Arch!Offset(a, b, c) = Offset(a, b, c)
  BY SameWords, Zenon
<1>2. Arch!n1(i) = n1(i)
  BY SameWords, Zenon
<1>3. /\ instrOP = i.op /\ k = i.k /\ Arch!R(i.a) = data_a /\ Arch!R(i.b) = data_b
      /\ Arch!ReadFrom(i) = mem[ReadCell] /\ (Reads => q = mem[ReadCell])
  BY ArchOperands
<1> HIDE DEF i
<1>4. i.op = "WRITE" =>
        Arch!StoreOf(i) = [cell |-> Offset(data_a, k, n1(i)), word |-> data_b]
  BY <1>1, <1>2, <1>3, Zenon DEF Arch!StoreOf
<1>5. i.op = "COPY" =>
        Arch!StoreOf(i) = [cell |-> Offset(data_b, k, n1(i)), word |-> mem[ReadCell]]
  BY <1>1, <1>2, <1>3, Zenon DEF Arch!StoreOf
<1>6. i.op \notin {"WRITE", "COPY"} => Arch!StoreOf(i) = Arch!None
  BY <1>1, <1>2, <1>3, Zenon DEF Arch!StoreOf
<1>7. we => Arch!StoreOf(i) = [cell |-> address, word |-> data]
  <2>1. CASE instrOP = "WRITE"
    BY <1>3, <1>4, <2>1, WriteLines, Zenon DEF i
  <2>2. CASE instrOP = "COPY"
    <3>1. data = mem[ReadCell] /\ address = Offset(data_b, k, n1(i))
      BY <1>3, <2>2, WriteLines DEF Reads, i
    <3> QED BY <1>3, <1>5, <2>2, <3>1, Zenon
  <2> QED BY <2>1, <2>2 DEF we
<1>8. we => [cell |-> address, word |-> data] # Arch!None
  <2>1. SUFFICES ASSUME we PROVE [cell |-> address, word |-> data] # Arch!None
    OBVIOUS
  <2>2. address \in Addr
    BY <2>1, ArchOperands, WriteType
  <2> HIDE DEF address, data, we
  <2>3. [cell |-> address, word |-> data].cell # -1 /\ Arch!None.cell = -1
    BY <2>2, Sizes DEF Addr, Arch!None
  <2> QED BY <2>3
<1>9. ~we => i.op \notin {"WRITE", "COPY"}
  BY <1>3 DEF we
<1> HIDE DEF we, address, data
<1> QED BY <1>6, <1>7, <1>8, <1>9 DEF i

\* The word it puts there is one of those.
LEMMA ArchResult ==
  ASSUME IInv, stage = "writeBack", clk = "high", ~busy, dreg_we, instruction.d # 0,
         instrOP = "POP" => Stk = <<>> \/ Stk[Len(Stk)] = stack_q
  PROVE  Result \in Arch!Results(instruction)
<1> DEFINE i == instruction
<1>1. /\ instrOP = i.op /\ k = i.k /\ Arch!R(i.a) = data_a /\ Arch!R(i.b) = data_b
      /\ Arch!ReadFrom(i) = mem[ReadCell] /\ (Reads => q = mem[ReadCell])
      /\ IsInstr(i) /\ i.d \in Reg /\ k \in Word /\ Types /\ Pc!TypeOK /\ Live
      /\ InstrHolds /\ ReadHolds
  BY ArchOperands
<1>2. Arch!R(i.d) = regs[i.d]
  BY <1>1, ArchR
<1>3. CASE instrOP = "ARITH"
  <2>1. ~read_mem /\ ~dreg_we_high /\ ~skip
    BY <1>3 DEF read_mem, dreg_we_high, skip, readintid
  <2>2. Result = Alu(i.alu, data_a, input_b)
    BY <2>1, Zenon DEF Result, y
  <2>3. input_b = IF i.ce THEN i.k ELSE data_b
    BY <1>1, <1>3, InputLines
  <2>4. Arch!Results(i) = {Alu(i.alu, data_a, IF i.ce THEN i.k ELSE data_b)}
    BY <1>1, <1>3, ArchResults, Zenon
  <2> HIDE DEF i, Result, input_b, data_a, data_b
  <2> QED BY <2>2, <2>3, <2>4 DEF i
<1>4. CASE instrOP = "LOAD"
  <2>1. ~read_mem /\ y = k
    BY <1>4, InputLines DEF read_mem, skip, y
  <2>2. CASE ~he(i)
    <3>1. Result = k
      BY <2>1, <2>2 DEF Result, dreg_we_high
    <3>2. Arch!Results(i) = {k}
      BY <1>1, <1>4, <2>2, ArchResults, Zenon
    <3> HIDE DEF Result, k
    <3> QED BY <3>1, <3>2
  <2>3. CASE he(i)
    <3>1. Result = LowHalf(k) * HalfSize + LowHalf(regs[i.d])
      BY <1>4, <2>1, <2>3 DEF Result, dreg_we_high
    <3>2. LowHalf(k) = k
      <4>1. k < HalfSize /\ regs[i.d] \in Word
        BY <1>1, <1>4 DEF IsInstr, Types
      <4> HIDE DEF k, i
      <4> QED BY <1>1, <4>1, HalvesType
    <3>3. Arch!Results(i) = {k * HalfSize + LowHalf(regs[i.d])}
      BY <1>1, <1>2, <1>4, <2>3, ArchResults, Zenon
    <3> HIDE DEF Result, k, i
    <3> QED BY <3>1, <3>2, <3>3 DEF i
  <2> QED BY <2>2, <2>3
<1>5. CASE instrOP = "SAVPC"
  <2>1. ~read_mem /\ ~dreg_we_high /\ y = pc_out
    BY <1>5, InputLines DEF read_mem, skip, y, dreg_we_high
  <2>2. Arch!Results(i) = {pc_out}
    BY <1>1, <1>5, ArchResults, Zenon
  <2> QED BY <2>1, <2>2 DEF Result
<1>6. CASE instrOP = "READ" /\ intf(i)
  <2>1. ~read_mem /\ ~dreg_we_high /\ y = ext_int_id
    BY <1>6, InputLines DEF read_mem, readintid, skip, y, dreg_we_high
  <2>2. Arch!Results(i) = {ext_int_id}
    BY <1>1, <1>6, ArchResults, Zenon
  <2> QED BY <2>1, <2>2 DEF Result
<1>7. CASE instrOP = "READ" /\ ~intf(i)
  <2>1. read_mem /\ q = mem[ReadCell]
    BY <1>1, <1>7 DEF read_mem, Reads
  <2>2. Arch!Results(i) = {mem[ReadCell]}
    BY <1>1, <1>7, ArchResults, Zenon
  <2> QED BY <2>1, <2>2 DEF Result
<1>8. CASE instrOP = "POP"
  <2>1. ~read_mem /\ ~dreg_we_high /\ y = stack_q
    BY <1>8, InputLines DEF read_mem, skip, y, dreg_we_high
  <2>2. Result = stack_q
    BY <2>1 DEF Result
  <2>3. stack_q \in Word
    BY <1>1 DEF Types
  <2>4. CASE Stk = <<>>
    BY <1>1, <1>8, <2>2, <2>3, <2>4, ArchResults, Zenon
  <2>5. CASE Stk # <<>>
    <3>1. Arch!Results(i) = {Stk[Len(Stk)]}
      BY <1>1, <1>8, <2>5, ArchResults, Zenon
    <3> HIDE DEF Stk, Result
    <3> QED BY <1>8, <2>2, <2>5, <3>1
  <2> QED BY <2>4, <2>5
<1> QED BY <1>3, <1>4, <1>5, <1>6, <1>7, <1>8 DEF dreg_we

\* What RegbankNeg makes of the registers.
LEMMA ArchRegs ==
  ASSUME IInv, NEW line \in P!Levels, NegEdge(line), stage = "writeBack", ~busy,
         instrOP = "POP" => Stk = <<>> \/ Stk[Len(Stk)] = stack_q
  PROVE  Regs' \in Arch!RegsAfter(instruction)
<1> DEFINE i == instruction
<1>1. clk = "high" /\ i.d \in Reg /\ instrOP = i.op /\ regs \in [Reg -> Word]
  <2>1. clk = "high"
    BY NegParts
  <2> QED BY <2>1, ArchOperands DEF Types
<1>2. CASE ~dreg_we
  <2>1. Regs' = Regs
    BY <1>2, SameRegs DEF NegEdge, RegbankNeg
  <2>2. Arch!Results(i) = {}
    <3>1. i.op \notin {"ARITH", "LOAD", "SAVPC", "READ", "POP"}
      BY <1>1, <1>2 DEF dreg_we
    <3> QED BY <3>1, ArchResults, Zenon
  <2>3. Arch!RegsAfter(i) = {Regs}
    BY <2>2, Zenon DEF Arch!RegsAfter, Regs
  <2> QED BY <2>1, <2>3
<1>3. CASE dreg_we
  <2>1. regs' = [regs EXCEPT ![i.d] = Result]
    BY <1>3, Zenon DEF NegEdge, RegbankNeg, Result
  <2>2. CASE i.d = 0
    <3>1. Regs' = Regs
      <4> HIDE DEF Result, i
      <4> QED BY <1>1, <2>1, <2>2 DEF Regs
    <3>2. Arch!RegsAfter(i) = {Regs}
      BY <2>2, Zenon DEF Arch!RegsAfter, Regs
    <3> QED BY <3>1, <3>2
  <2>3. CASE i.d # 0
    <3>1. Result \in Arch!Results(i)
      BY <1>1, <1>3, <2>3, ArchResult
    <3>2. Regs' = [Regs EXCEPT ![i.d] = Result]
      <4> HIDE DEF Result, i
      <4> QED BY <1>1, <2>1, <2>3 DEF Regs
    <3>3. Arch!RegsAfter(i) = {[Regs EXCEPT ![i.d] = w] : w \in Arch!Results(i)}
      <4>1. Arch!Results(i) # {}
        BY <3>1
      <4> QED BY <2>3, <4>1, Zenon DEF Arch!RegsAfter, Regs
    <3> HIDE DEF Result, i, Regs
    <3> QED BY <3>1, <3>2, <3>3 DEF i
  <2> QED BY <2>2, <2>3
<1> QED BY <1>2, <1>3

-----------------------------------------------------------------------------
(* Where the program continues.                                            *)

LEMMA BranchOps ==
  branch => instrOP \in {"BEQ", "BNE", "BGT", "BGE"}
BY DEF branch

LEMMA JumpingLines ==
  /\ instrOP = "JUMP" =>
       jumping = [op |-> "JUMP", arg |-> k % AddrSize, oe |-> oe(instruction)]
  /\ instrOP = "JUMPR" =>
       jumping = [op |-> "JUMPR", arg |-> (data_b + k) % AddrSize, oe |-> oe(instruction)]
  /\ instrOP \in {"HALT", "RETI"} => jumping = [op |-> instrOP, arg |-> 0, oe |-> FALSE]
  /\ branch => jumping = [op |-> "BRANCH", arg |-> k % AddrSize, oe |-> FALSE]
  /\ instrOP \notin {"JUMP", "JUMPR", "HALT", "RETI"} /\ ~branch =>
       jumping = [op |-> "OTHER", arg |-> 0, oe |-> FALSE]
<1> HIDE DEF instrOP, data_b, k, instruction, branch
<1>1. instrOP = "JUMP" =>
        jumping = [op |-> "JUMP", arg |-> k % AddrSize, oe |-> oe(instruction)]
  BY BranchOps, Zenon DEF jumping
<1>2. instrOP = "JUMPR" =>
        jumping = [op |-> "JUMPR", arg |-> (data_b + k) % AddrSize,
                   oe |-> oe(instruction)]
  BY BranchOps, Zenon DEF jumping
<1>3. instrOP = "HALT" => jumping = [op |-> instrOP, arg |-> 0, oe |-> FALSE]
  BY BranchOps, Zenon DEF jumping
<1>4. instrOP = "RETI" => jumping = [op |-> instrOP, arg |-> 0, oe |-> FALSE]
  BY BranchOps, Zenon DEF jumping
<1>5. branch => jumping = [op |-> "BRANCH", arg |-> k % AddrSize, oe |-> FALSE]
  BY BranchOps, Zenon DEF jumping
<1>6. instrOP \notin {"JUMP", "JUMPR", "HALT", "RETI"} /\ ~branch =>
        jumping = [op |-> "OTHER", arg |-> 0, oe |-> FALSE]
  BY Zenon DEF jumping
<1> HIDE DEF jumping
<1> QED BY <1>1, <1>2, <1>3, <1>4, <1>5, <1>6

\* A branch is taken when the comparison that its name states holds.
LEMMA ArchTaken ==
  ASSUME IInv, stage = "writeBack", clk = "high"
  PROVE  branch <=> Arch!Taken(instruction)
<1> DEFINE i == instruction
<1>1. /\ instrOP = i.op /\ Arch!R(i.a) = data_a /\ Arch!R(i.b) = data_b
      /\ data_a \in Nat /\ data_b \in Nat
  BY ArchOperands, Sizes
<1>2. instrOP \in {"BEQ", "BNE", "BGT", "BGE"} => input_b = data_b
  BY InputLines
<1> HIDE DEF i, instrOP, data_a, data_b, input_b
<1>3. CASE instrOP = "BEQ"
  <2>1. Arch!Taken(i) <=> data_a = data_b
    BY <1>1, <1>3, Zenon DEF Arch!Taken
  <2> QED BY <1>2, <1>3, <2>1 DEF branch, i
<1>4. CASE instrOP = "BNE"
  <2>1. Arch!Taken(i) <=> data_a # data_b
    BY <1>1, <1>4, Zenon DEF Arch!Taken
  <2> QED BY <1>2, <1>4, <2>1 DEF branch, i
<1>5. CASE instrOP = "BGT"
  <2>1. Arch!Taken(i) <=> data_a > data_b
    BY <1>1, <1>5, Zenon DEF Arch!Taken
  <2>2. branch <=> ~(data_b > data_a) /\ data_b # data_a
    BY <1>2, <1>5 DEF branch
  <2> QED BY <1>1, <2>1, <2>2 DEF i
<1>6. CASE instrOP = "BGE"
  <2>1. Arch!Taken(i) <=> data_a >= data_b
    BY <1>1, <1>6, Zenon DEF Arch!Taken
  <2>2. branch <=> ~(data_b > data_a)
    BY <1>2, <1>6 DEF branch
  <2> QED BY <1>1, <2>1, <2>2 DEF i
<1>7. CASE instrOP \notin {"BEQ", "BNE", "BGT", "BGE"}
  <2>1. ~Arch!Taken(i)
    BY <1>1, <1>7, Zenon DEF Arch!Taken
  <2> QED BY <1>7, <2>1 DEF branch, i
<1> QED BY <1>3, <1>4, <1>5, <1>6, <1>7

LEMMA ArchTarget ==
  ASSUME IInv, stage = "writeBack", clk = "high", instrOP # "RETI"
  PROVE  P!NextPC(jumping, pc_out) = Arch!Target(instruction)
<1> DEFINE i == instruction
<1>1. /\ instrOP = i.op /\ k = i.k /\ Arch!R(i.b) = data_b
      /\ data_b \in Nat /\ k \in Nat /\ pc_out \in Nat /\ AddrSize \in Nat \ {0}
      /\ (branch <=> Arch!Taken(i))
  <2>1. pc_out \in 0 .. AddrSize - 1
    BY ArchOperands DEF Pc!TypeOK
  <2>2. pc_out \in Nat /\ AddrSize \in Nat \ {0}
    BY <2>1, Sizes
  <2>3. k \in Nat /\ data_b \in Nat
    <3>1. k \in Word /\ data_b \in Word
      BY ArchOperands
    <3> HIDE DEF k, data_b
    <3> QED BY <3>1, Sizes
  <2>4. instrOP = i.op /\ k = i.k /\ Arch!R(i.b) = data_b
    BY ArchOperands
  <2>5. branch <=> Arch!Taken(i)
    BY ArchTaken
  <2> HIDE DEF k, data_b, i, branch, instrOP
  <2> QED BY <2>2, <2>3, <2>4, <2>5
<1>2. Arch!oe(i) = oe(i) /\ oe(i) \in BOOLEAN
  BY SameWords DEF oe
<1>3. /\ (pc_out + (k % AddrSize)) % AddrSize = (pc_out + k) % AddrSize
      /\ (pc_out + ((data_b + k) % AddrSize)) % AddrSize = (pc_out + data_b + k) % AddrSize
  <2> DEFINE m == data_b + k
  <2>1. m = data_b + k /\ m \in Nat /\ pc_out + m = pc_out + data_b + k
    BY <1>1
  <2> HIDE DEF m, k, data_b
  <2>2. (pc_out + (k % AddrSize)) % AddrSize = (pc_out + k) % AddrSize
    <3>1. pc_out \in Int /\ k \in Int
      BY <1>1
    <3> QED BY <1>1, <3>1, ModAdd, Zenon
  <2>3. (pc_out + (m % AddrSize)) % AddrSize = (pc_out + m) % AddrSize
    <3>1. pc_out \in Int /\ m \in Int
      BY <1>1, <2>1
    <3> QED BY <1>1, <3>1, ModAdd, Zenon
  <2> QED BY <2>1, <2>2, <2>3, Zenon
<1> DEFINE one == [op |-> instrOP, arg |-> 0, oe |-> FALSE]
<1> HIDE DEF i, instrOP, data_b, k, branch
<1>4. CASE instrOP = "JUMP"
  <2>1. jumping = [op |-> "JUMP", arg |-> k % AddrSize, oe |-> oe(i)]
    BY <1>4, JumpingLines DEF i
  <2>2. P!NextPC(jumping, pc_out) =
          IF oe(i) THEN (pc_out + (k % AddrSize)) % AddrSize ELSE k % AddrSize
    BY <2>1 DEF P!NextPC, P!jump, P!offset, P!jump_addr
  <2>3. CASE oe(i)
    <3>1. Arch!Target(i) = (pc_out + k) % AddrSize
      BY <1>1, <1>2, <1>4, <2>3, Zenon DEF Arch!Target
    <3> QED BY <1>3, <2>2, <2>3, <3>1, Zenon DEF i
  <2>4. CASE ~oe(i)
    <3>1. Arch!Target(i) = k % AddrSize
      BY <1>1, <1>2, <1>4, <2>4, Zenon DEF Arch!Target
    <3> QED BY <2>2, <2>4, <3>1, Zenon DEF i
  <2> QED BY <2>3, <2>4
<1>5. CASE instrOP = "JUMPR"
  <2>1. jumping = [op |-> "JUMPR", arg |-> (data_b + k) % AddrSize, oe |-> oe(i)]
    BY <1>5, JumpingLines DEF i
  <2>2. P!NextPC(jumping, pc_out) =
          IF oe(i) THEN (pc_out + ((data_b + k) % AddrSize)) % AddrSize
          ELSE (data_b + k) % AddrSize
    BY <2>1 DEF P!NextPC, P!jump, P!offset, P!jump_addr
  <2>3. CASE oe(i)
    <3>1. Arch!Target(i) = (pc_out + data_b + k) % AddrSize
      BY <1>1, <1>2, <1>5, <2>3, Zenon DEF Arch!Target
    <3> QED BY <1>3, <2>2, <2>3, <3>1, Zenon DEF i
  <2>4. CASE ~oe(i)
    <3>1. Arch!Target(i) = (data_b + k) % AddrSize
      BY <1>1, <1>2, <1>5, <2>4, Zenon DEF Arch!Target
    <3> QED BY <2>2, <2>4, <3>1, Zenon DEF i
  <2> QED BY <2>3, <2>4
<1>6. CASE instrOP = "HALT"
  <2>1. jumping = [op |-> "HALT", arg |-> 0, oe |-> FALSE]
    BY <1>6, JumpingLines
  <2>2. P!NextPC(jumping, pc_out) = pc_out
    BY <2>1 DEF P!NextPC, P!jump, P!offset, P!jump_addr
  <2>3. Arch!Target(i) = pc_out
    BY <1>1, <1>6, Zenon DEF Arch!Target
  <2> QED BY <2>2, <2>3 DEF i
<1>7. CASE branch
  <2>1. jumping = [op |-> "BRANCH", arg |-> k % AddrSize, oe |-> FALSE]
    BY <1>7, JumpingLines
  <2>2. P!NextPC(jumping, pc_out) = (pc_out + (k % AddrSize)) % AddrSize
    BY <2>1 DEF P!NextPC, P!jump, P!offset, P!jump_addr
  <2>3. instrOP \in {"BEQ", "BNE", "BGT", "BGE"}
    BY <1>7, BranchOps
  <2>4. Arch!Target(i) = (pc_out + k) % AddrSize
    BY <1>1, <1>7, <2>3, Zenon DEF Arch!Target
  <2> QED BY <1>3, <2>2, <2>4 DEF i
<1>8. CASE instrOP \notin {"JUMP", "JUMPR", "HALT"} /\ ~branch
  <2>1. jumping = [op |-> "OTHER", arg |-> 0, oe |-> FALSE]
    BY <1>8, JumpingLines
  <2>2. P!NextPC(jumping, pc_out) = (pc_out + 1) % AddrSize
    BY <2>1 DEF P!NextPC, P!jump
  <2>3. Arch!Target(i) = (pc_out + 1) % AddrSize
    BY <1>1, <1>8, Zenon DEF Arch!Target
  <2> QED BY <2>2, <2>3 DEF i
<1> QED BY <1>4, <1>5, <1>6, <1>7, <1>8

\* The three ways that the program counter moves are those of ISA.
LEMMA ArchFlow ==
  ASSUME IInv, NEW line \in P!Levels, NegEdge(line), ~reset, P!WriteBackEdge,
         NEW i, i = instruction
  PROVE  Arch!Continue(i) \/ Arch!Interrupted(i) \/ Arch!Return(i)
<1>1. stage = "writeBack" /\ clk = "high" /\ ~writeBack_prev /\ PcNeg(line)
  BY NegParts DEF NegEdge, P!WriteBackEdge
<1>2. instrOP = i.op /\ instrOP \in Op
  BY <1>1, ArchOperands DEF IsInstr
<1>3. int_en \in BOOLEAN /\ Pc!TypeOK'
  BY NegControl DEF IInv, Pc!IInv, Pc!TypeOK
<1>4. P!reti(jumping) <=> instrOP = "RETI"
  <2>1. jumping.op = "RETI" <=> instrOP = "RETI"
    <3>1. CASE instrOP = "RETI"
      BY <3>1, JumpingLines
    <3>2. CASE instrOP # "RETI"
      <4> HIDE DEF jumping, instrOP, k, data_b, branch
      <4>1. CASE branch
        BY <4>1, <3>2, JumpingLines
      <4>2. CASE ~branch
        BY <4>2, <3>2, JumpingLines
      <4> QED BY <4>1, <4>2
    <3> QED BY <3>1, <3>2
  <2> QED BY <2>1 DEF P!reti
<1>5. instrOP # "RETI" => P!NextPC(jumping, pc_out) = Arch!Target(i)
  BY <1>1, ArchTarget
<1> HIDE DEF jumping, instrOP
<1>6. ~P!Hold(line)
  BY DEF P!Hold
<1>7. CASE P!Return(jumping, line)
  <2>1. i.op = "RETI"
    BY <1>2, <1>4, <1>7 DEF P!Return
  <2>2. /\ pc_out' = PCintBackup /\ int_en' = TRUE /\ PCintBackup' = PCintBackup
        /\ ext_int_id' = ext_int_id
    BY <1>7 DEF P!Return, P!BackupBase
  <2> QED BY <2>1, <2>2 DEF Arch!Return
<1>8. ASSUME NEW s \in P!Source, P!Dispatch(s, jumping, line)
      PROVE  Arch!Interrupted(i)
  <2>1. i.op # "RETI"
    BY <1>2, <1>4, <1>8 DEF P!Dispatch
  <2>2. int_en /\ pc_out < PCstart
    BY <1>8 DEF P!Dispatch, P!Valid
  <2>3. /\ PCintBackup' = Arch!Target(i) /\ int_en' = FALSE
        /\ pc_out' = P!Vector(s)
    BY <1>2, <1>5, <1>8, <2>1 DEF P!Dispatch
  <2>4. P!Vector(s) \in 1 .. 4
    BY DEF P!Vector, P!Source
  <2>5. ext_int_id' \in 0 .. 4
    BY <1>3 DEF Pc!TypeOK
  <2> QED BY <2>1, <2>2, <2>3, <2>4, <2>5 DEF Arch!Interrupted
<1>9. CASE P!Advance(jumping, line)
  <2>1. i.op # "RETI"
    BY <1>2, <1>4, <1>9 DEF P!Advance
  <2>2. /\ pc_out' = Arch!Target(i) /\ PCintBackup' = PCintBackup
        /\ ext_int_id' = ext_int_id
    BY <1>2, <1>5, <1>9, <2>1 DEF P!Advance, P!BackupBase
  <2>3. int_en' <=> int_en
    BY <1>9 DEF P!Advance, P!IntEnBase
  <2>4. int_en' \in BOOLEAN
    BY <1>3 DEF Pc!TypeOK
  <2>5. int_en' = int_en
    BY <1>3, <2>3, <2>4
  <2> QED BY <2>1, <2>2, <2>5 DEF Arch!Continue
<1>10. CASE \E s \in P!Source : P!Dispatch(s, jumping, line)
  BY <1>8, <1>10, Zenon
<1>11. \/ P!Return(jumping, line)
       \/ \E s \in P!Source : P!Dispatch(s, jumping, line)
       \/ P!Advance(jumping, line)
  BY <1>1, <1>6, Zenon DEF PcNeg
<1> QED BY <1>7, <1>9, <1>10, <1>11

-----------------------------------------------------------------------------
(* The stack, as a sequence.                                               *)

\* The last b words below top of a circular store.
Seen(f, top, b) == [n \in 1 .. b |-> f[(top - b + n - 1) % StackSize]]

LEMMA SeenType ==
  ASSUME NEW f \in [0 .. StackSize - 1 -> Word], NEW top \in Int, NEW b \in Nat
  PROVE  /\ Seen(f, top, b) \in Seq(Word) /\ Len(Seen(f, top, b)) = b
         /\ \A n \in 1 .. b : Seen(f, top, b)[n] = f[(top - b + n - 1) % StackSize]
         /\ \A a \in Int : a % StackSize \in 0 .. StackSize - 1
<1>1. StackSize \in Nat \ {0}
  BY Sizes
<1>2. \A a \in Int : a % StackSize \in 0 .. StackSize - 1
  BY <1>1, ModBounds
<1>3. \A n \in 1 .. b : f[(top - b + n - 1) % StackSize] \in Word
  <2> SUFFICES ASSUME NEW n \in 1 .. b PROVE f[(top - b + n - 1) % StackSize] \in Word
    OBVIOUS
  <2>1. top - b + n - 1 \in Int
    OBVIOUS
  <2> QED BY <1>2, <2>1
<1>4. Seen(f, top, b) \in [1 .. b -> Word]
  BY <1>3 DEF Seen
<1> QED BY <1>2, <1>4 DEF Seen

\* Only the remainder of top counts.
LEMMA SeenShift ==
  ASSUME NEW f, NEW top \in Int, NEW other \in Int, NEW b \in Nat,
         top % StackSize = other % StackSize
  PROVE  Seen(f, top, b) = Seen(f, other, b)
<1>1. StackSize \in Nat \ {0}
  BY Sizes
<1>2. ASSUME NEW n \in 1 .. b
      PROVE  (top - b + n - 1) % StackSize = (other - b + n - 1) % StackSize
  <2> DEFINE c == n - b - 1
  <2>1. c \in Int /\ top - b + n - 1 = c + top /\ other - b + n - 1 = c + other
    OBVIOUS
  <2> HIDE DEF c
  <2>2. (c + (top % StackSize)) % StackSize = (c + top) % StackSize
    BY <1>1, <2>1, ModAdd
  <2>3. (c + (other % StackSize)) % StackSize = (c + other) % StackSize
    BY <1>1, <2>1, ModAdd
  <2> QED BY <2>1, <2>2, <2>3, Zenon
<1> QED BY <1>2, Zenon DEF Seen

LEMMA Distinct ==
  ASSUME NEW a \in Int, NEW d \in 1 .. StackSize - 1
  PROVE  (a - d) % StackSize # a % StackSize
<1>1. StackSize \in Nat \ {0}
  BY Sizes
<1> SUFFICES ASSUME (a - d) % StackSize = a % StackSize PROVE FALSE
  OBVIOUS
<1> DEFINE b == a \div StackSize
           c == (a - d) \div StackSize
           s == a % StackSize
<1>2. b \in Int /\ c \in Int /\ s \in Int /\ a = StackSize * b + s
  BY <1>1
<1>3. a - d = StackSize * c + s
  <2> DEFINE e == a - d
  <2>1. e \in Int /\ e % StackSize = s /\ c = e \div StackSize
    OBVIOUS
  <2> HIDE DEF e, c, s
  <2>2. e = StackSize * (e \div StackSize) + (e % StackSize)
    BY <1>1, <2>1
  <2>3. e = StackSize * c + s
    BY <2>1, <2>2, Zenon
  <2> QED BY <2>3 DEF e
<1> HIDE DEF b, c, s
<1>4. StackSize * (b - c) = StackSize * b - StackSize * c
  BY <1>1, <1>2
<1>5. StackSize * b - StackSize * c = d
  BY <1>1, <1>2, <1>3
<1>6. b - c = 0
  <2> DEFINE m == b - c
  <2>1. m \in Int /\ -StackSize < StackSize * m /\ StackSize * m < StackSize
    BY <1>1, <1>2, <1>4, <1>5
  <2> HIDE DEF m
  <2>2. m = 0
    BY <1>1, <2>1, QuotientZero
  <2> QED BY <2>2 DEF m
<1> QED BY <1>1, <1>4, <1>5, <1>6

\* A word is pushed: on the others, or in place of the lowest of them.
LEMMA SeenPush ==
  ASSUME NEW f \in [0 .. StackSize - 1 -> Word], NEW g \in [0 .. StackSize - 1 -> Word],
         NEW top \in Int, NEW b \in 0 .. StackSize, NEW w \in Word,
         f[top % StackSize] = w,
         \A s \in 0 .. StackSize - 1 : s # top % StackSize => f[s] = g[s]
  PROVE  /\ b < StackSize => Seen(f, top + 1, b + 1) = Append(Seen(g, top, b), w)
         /\ b = StackSize => Seen(f, top + 1, b) = Append(Tail(Seen(g, top, b)), w)
<1>1. StackSize \in Nat \ {0}
  BY Sizes
<1>2. \A d \in 1 .. StackSize - 1 : f[(top - d) % StackSize] = g[(top - d) % StackSize]
  <2> SUFFICES ASSUME NEW d \in 1 .. StackSize - 1
               PROVE  f[(top - d) % StackSize] = g[(top - d) % StackSize]
    OBVIOUS
  <2>1. (top - d) % StackSize # top % StackSize
    BY Distinct
  <2>2. (top - d) % StackSize \in 0 .. StackSize - 1
    <3>1. top - d \in Int
      OBVIOUS
    <3> QED BY <1>1, <3>1, ModBounds, Zenon
  <2> QED BY <2>1, <2>2
<1>3. CASE b < StackSize
  <2> DEFINE s == Seen(g, top, b)
             t == Seen(f, top + 1, b + 1)
  <2>0. b \in Nat /\ b + 1 \in Nat /\ top + 1 \in Int
    BY <1>1
  <2>1. /\ s \in Seq(Word) /\ Len(s) = b
        /\ \A n \in 1 .. b : s[n] = g[(top - b + n - 1) % StackSize]
    BY <2>0, SeenType, Zenon
  <2>2. /\ t \in Seq(Word) /\ Len(t) = b + 1
        /\ \A n \in 1 .. b + 1 : t[n] = f[(top + 1 - (b + 1) + n - 1) % StackSize]
    <3> DEFINE high == top + 1
               more == b + 1
    <3>1. high \in Int /\ more \in Nat
      BY <2>0
    <3> HIDE DEF high, more
    <3>2. /\ Seen(f, high, more) \in Seq(Word) /\ Len(Seen(f, high, more)) = more
          /\ \A n \in 1 .. more :
               Seen(f, high, more)[n] = f[(high - more + n - 1) % StackSize]
      BY <3>1, SeenType, Zenon
    <3> QED BY <3>2 DEF high, more
  <2> HIDE DEF s, t
  <2>3. /\ Append(s, w) \in Seq(Word) /\ Len(Append(s, w)) = b + 1
        /\ \A n \in 1 .. b : Append(s, w)[n] = s[n]
        /\ Append(s, w)[b + 1] = w
    BY <2>1, AppendProperties
  <2>4. ASSUME NEW n \in 1 .. b + 1 PROVE t[n] = Append(s, w)[n]
    <3>1. CASE n = b + 1
      <4>1. top + 1 - (b + 1) + n - 1 = top
        BY <3>1
      <4> QED BY <2>2, <2>3, <3>1, <4>1
    <3>2. CASE n # b + 1
      <4> DEFINE d == b - n + 1
      <4>1. /\ n \in 1 .. b /\ d \in 1 .. StackSize - 1
            /\ top + 1 - (b + 1) + n - 1 = top - d /\ top - b + n - 1 = top - d
        BY <1>1, <1>3, <3>2
      <4>2. t[n] = f[(top - d) % StackSize] /\ s[n] = g[(top - d) % StackSize]
        BY <2>1, <2>2, <4>1
      <4> HIDE DEF d
      <4> QED BY <1>2, <2>3, <4>1, <4>2
    <3> QED BY <3>1, <3>2
  <2>5. t = Append(s, w)
    BY <2>2, <2>3, <2>4, SeqEqual
  <2> QED BY <1>3, <2>5 DEF s, t
<1>4. CASE b = StackSize
  <2> DEFINE s == Seen(g, top, b)
             t == Seen(f, top + 1, b)
  <2>0. b \in Nat /\ top + 1 \in Int
    BY <1>1
  <2>1. /\ s \in Seq(Word) /\ Len(s) = b
        /\ \A n \in 1 .. b : s[n] = g[(top - b + n - 1) % StackSize]
    BY <2>0, SeenType, Zenon
  <2>2. /\ t \in Seq(Word) /\ Len(t) = b
        /\ \A n \in 1 .. b : t[n] = f[(top + 1 - b + n - 1) % StackSize]
    <3> DEFINE high == top + 1
    <3>1. high \in Int
      BY <2>0
    <3> HIDE DEF high
    <3>2. /\ Seen(f, high, b) \in Seq(Word) /\ Len(Seen(f, high, b)) = b
          /\ \A n \in 1 .. b : Seen(f, high, b)[n] = f[(high - b + n - 1) % StackSize]
      BY <2>0, <3>1, SeenType, Zenon
    <3> QED BY <3>2 DEF high
  <2> HIDE DEF s, t
  <2> DEFINE r == Tail(s)
  <2>3. /\ r \in Seq(Word) /\ Len(r) = b - 1
        /\ \A n \in 1 .. b - 1 : r[n] = s[n + 1]
    <3>1. s # <<>>
      BY <1>1, <1>4, <2>1
    <3> QED BY <2>1, <3>1, HeadTailProperties
  <2> HIDE DEF r
  <2>4. /\ Append(r, w) \in Seq(Word) /\ Len(Append(r, w)) = b
        /\ \A n \in 1 .. b - 1 : Append(r, w)[n] = r[n]
        /\ Append(r, w)[b] = w
    BY <1>1, <1>4, <2>3, AppendProperties
  <2>5. ASSUME NEW n \in 1 .. b PROVE t[n] = Append(r, w)[n]
    <3>1. CASE n = b
      <4>1. top + 1 - b + n - 1 = top
        BY <3>1
      <4> QED BY <2>2, <2>4, <3>1, <4>1
    <3>2. CASE n # b
      <4> DEFINE d == b - n
                 m == n + 1
      <4>1. /\ n \in 1 .. b - 1 /\ m \in 1 .. b /\ d \in 1 .. StackSize - 1
            /\ top + 1 - b + n - 1 = top - d /\ top - b + m - 1 = top - d
        BY <1>1, <1>4, <3>2
      <4>2. t[n] = f[(top - d) % StackSize]
        BY <2>2, <4>1
      <4>3. s[m] = g[(top - d) % StackSize]
        BY <2>1, <4>1
      <4>4. Append(r, w)[n] = s[m]
        BY <2>3, <2>4, <4>1
      <4> HIDE DEF d, m
      <4> QED BY <1>2, <4>1, <4>2, <4>3, <4>4
    <3> QED BY <3>1, <3>2
  <2>6. t = Append(r, w)
    BY <2>2, <2>4, <2>5, SeqEqual
  <2> QED BY <1>3, <1>4, <2>6 DEF s, t, r
<1> QED BY <1>1, <1>3, <1>4

\* A word is popped.
LEMMA SeenPop ==
  ASSUME NEW f \in [0 .. StackSize - 1 -> Word], NEW top \in Int,
         NEW b \in 1 .. StackSize
  PROVE  /\ Seen(f, top + 1, b) # <<>> /\ Len(Seen(f, top + 1, b)) = b
         /\ Seen(f, top + 1, b)[b] = f[top % StackSize]
         /\ Seen(f, top, b - 1) = SubSeq(Seen(f, top + 1, b), 1, b - 1)
<1> DEFINE s == Seen(f, top + 1, b)
           t == Seen(f, top, b - 1)
<1>1. StackSize \in Nat \ {0} /\ b \in Nat /\ b - 1 \in Nat /\ top + 1 \in Int
  BY Sizes
<1>2. /\ s \in Seq(Word) /\ Len(s) = b
      /\ \A n \in 1 .. b : s[n] = f[(top + 1 - b + n - 1) % StackSize]
  <2> DEFINE high == top + 1
  <2>1. high \in Int
    BY <1>1
  <2> HIDE DEF high
  <2>2. /\ Seen(f, high, b) \in Seq(Word) /\ Len(Seen(f, high, b)) = b
        /\ \A n \in 1 .. b : Seen(f, high, b)[n] = f[(high - b + n - 1) % StackSize]
    BY <1>1, <2>1, SeenType, Zenon
  <2> QED BY <2>2 DEF high
<1>3. /\ t \in Seq(Word) /\ Len(t) = b - 1
      /\ \A n \in 1 .. b - 1 : t[n] = f[(top - (b - 1) + n - 1) % StackSize]
  BY <1>1, SeenType, Zenon
<1> HIDE DEF s, t
<1>4. s # <<>>
  BY <1>1, <1>2
<1>5. s[b] = f[top % StackSize]
  <2>1. top + 1 - b + b - 1 = top
    OBVIOUS
  <2> QED BY <1>1, <1>2, <2>1
<1> DEFINE u == SubSeq(s, 1, b - 1)
<1>6. u \in Seq(Word) /\ Len(u) = b - 1 /\ \A n \in 1 .. b - 1 : u[n] = s[n]
  <2>1. \A n \in 1 .. b - 1 : s[n] \in Word
    BY <1>2, ElementOfSeq
  <2>2. /\ u \in Seq(Word) /\ Len(u) = IF 1 <= b - 1 THEN b - 1 - 1 + 1 ELSE 0
        /\ \A n \in 1 .. b - 1 - 1 + 1 : u[n] = s[1 + n - 1]
    BY <1>1, <2>1, SubSeqProperties
  <2> HIDE DEF u
  <2> QED BY <1>1, <2>2
<1> HIDE DEF u
<1>7. ASSUME NEW n \in 1 .. b - 1 PROVE t[n] = u[n]
  <2>1. top - (b - 1) + n - 1 = top + 1 - b + n - 1
    OBVIOUS
  <2> QED BY <1>2, <1>3, <1>6, <2>1
<1>8. t = u
  BY <1>3, <1>6, <1>7, SeqEqual
<1> QED BY <1>2, <1>4, <1>5, <1>8 DEF s, t, u

\* The stack without the word that a push under way has put on it.
Under == [s \in 0 .. StackSize - 1 |-> IF s = (ptr - 1) % StackSize THEN lost ELSE stack[s]]

LEMMA StkForms ==
  ASSUME Types, ~reset
  PROVE  /\ ~EarlyPush /\ ~EarlyPop => Stk = Seen(stack, ptr, depth)
         /\ EarlyPop => Stk = Seen(stack, ptr + 1, depth)
         /\ EarlyPush => Stk = Seen(Under, ptr - 1, depth)
<1>1. StackSize \in Nat \ {0} /\ ptr \in Int /\ depth \in Nat
  BY Sizes DEF Types
<1>2. ~(EarlyPush /\ EarlyPop)
  BY DEF EarlyPush, EarlyPop
<1>3. CASE ~EarlyPush /\ ~EarlyPop
  <2>1. Top = ptr /\ \A s : Entry(s) = stack[s]
    BY <1>3, Zenon DEF Top, Entry
  <2>2. Stk = Seen(stack, ptr, depth)
    BY <2>1, Zenon DEF Stk, Seen
  <2> QED BY <1>3, <2>2
<1>4. CASE EarlyPop
  <2>1. Top = ptr + 1 /\ \A s : Entry(s) = stack[s]
    BY <1>2, <1>4, Zenon DEF Top, Entry
  <2>2. Stk = Seen(stack, ptr + 1, depth)
    BY <2>1, Zenon DEF Stk, Seen
  <2> QED BY <1>2, <1>4, <2>2
<1>5. CASE EarlyPush
  <2>1. Top = ptr - 1 /\ \A s \in 0 .. StackSize - 1 : Entry(s) = Under[s]
    BY <1>2, <1>5, Zenon DEF Top, Entry, Under
  <2>2. \A n \in 1 .. depth : (ptr - 1 - depth + n - 1) % StackSize \in 0 .. StackSize - 1
    <3> SUFFICES ASSUME NEW n \in 1 .. depth
                 PROVE  (ptr - 1 - depth + n - 1) % StackSize \in 0 .. StackSize - 1
      OBVIOUS
    <3>1. ptr - 1 - depth + n - 1 \in Int
      BY <1>1
    <3> QED BY <1>1, <3>1, ModBounds, Zenon
  <2>3. Stk = Seen(Under, ptr - 1, depth)
    BY <2>1, <2>2, Zenon DEF Stk, Seen
  <2> QED BY <1>2, <1>5, <2>3
<1> QED BY <1>3, <1>4, <1>5

\* The same of the next state.
LEMMA StkFormsNext ==
  ASSUME Types', ~reset'
  PROVE  /\ ~EarlyPush' /\ ~EarlyPop' => Stk' = Seen(stack', ptr', depth')
         /\ EarlyPop' => Stk' = Seen(stack', ptr' + 1, depth')
         /\ EarlyPush' => Stk' = Seen(Under', ptr' - 1, depth')
<1>1. StackSize \in Nat \ {0} /\ ptr' \in Int /\ depth' \in Nat
  BY Sizes DEF Types
<1>2. ~(EarlyPush' /\ EarlyPop')
  BY DEF EarlyPush, EarlyPop
<1>3. CASE ~EarlyPush' /\ ~EarlyPop'
  <2>1. Top' = ptr' /\ \A s : Entry(s)' = stack'[s]
    BY <1>3, Zenon DEF Top, Entry
  <2>2. Stk' = Seen(stack', ptr', depth')
    BY <2>1, Zenon DEF Stk, Seen
  <2> QED BY <1>3, <2>2
<1>4. CASE EarlyPop'
  <2>1. Top' = ptr' + 1 /\ \A s : Entry(s)' = stack'[s]
    BY <1>2, <1>4, Zenon DEF Top, Entry
  <2>2. Stk' = Seen(stack', ptr' + 1, depth')
    BY <2>1, Zenon DEF Stk, Seen
  <2> QED BY <1>2, <1>4, <2>2
<1>5. CASE EarlyPush'
  <2>1. Top' = ptr' - 1 /\ \A s \in 0 .. StackSize - 1 : Entry(s)' = Under'[s]
    BY <1>2, <1>5, Zenon DEF Top, Entry, Under
  <2>2. \A n \in 1 .. depth' :
          (ptr' - 1 - depth' + n - 1) % StackSize \in 0 .. StackSize - 1
    <3> SUFFICES ASSUME NEW n \in 1 .. depth'
                 PROVE  (ptr' - 1 - depth' + n - 1) % StackSize \in 0 .. StackSize - 1
      OBVIOUS
    <3>1. ptr' - 1 - depth' + n - 1 \in Int
      BY <1>1
    <3> QED BY <1>1, <3>1, ModBounds, Zenon
  <2>3. Stk' = Seen(Under', ptr' - 1, depth')
    BY <2>1, <2>2, Zenon DEF Stk, Seen
  <2> QED BY <1>2, <1>5, <2>3
<1> QED BY <1>3, <1>4, <1>5

\* A rising edge moves no word; a reset forgets them.
LEMMA PosStk ==
  ASSUME IInv, PosEdge
  PROVE  /\ ~reset /\ ~reset' => Stk' = Stk
         /\ reset \/ reset' => Stk' = <<>>
<1>1. /\ ptr' = ptr /\ stack' = stack /\ lost' = lost /\ depth' = depth
      /\ clk = "low" /\ clk' = "high" /\ Types /\ Types'
  BY PosParts, PosIInv DEF IInv
<1>2. reset' => Stk' = <<>>
  BY DEF Stk
<1>3. ASSUME reset, ~reset' PROVE Stk' = <<>>
  <2>1. depth = 0
    BY <1>1, <1>3 DEF IInv, BusHolds
  <2>2. ~EarlyPush' /\ ~EarlyPop'
    BY <1>1, <1>3, PosParts DEF EarlyPush, EarlyPop, Early
  <2>3. Stk' = Seen(stack', ptr', 0)
    BY <1>1, <1>3, <2>1, <2>2, StkFormsNext
  <2>4. Seen(stack', ptr', 0) = <<>>
    BY DEF Seen
  <2> QED BY <2>3, <2>4
<1>4. ASSUME ~reset, ~reset' PROVE Stk' = Stk
  <2>1. /\ EarlyPush' <=> EarlyPush
        /\ EarlyPop' <=> EarlyPop
    <3>1. CASE stage' = "writeBack"
      <4>1. /\ instruction' = instruction /\ stage \in {"readMem", "writeBack"}
            /\ stage = "writeBack" => busy
        BY <3>1, PosLines, PosParts
      <4>2. instrOP' = instrOP
        BY <4>1 DEF instrOP
      <4>3. stage = "writeBack" => instrOP \in {"WRITE", "COPY"}
        BY <4>1 DEF IInv, BusHolds, start
      <4> QED BY <1>1, <3>1, <4>1, <4>2, <4>3 DEF EarlyPush, EarlyPop, Early
    <3>2. CASE stage' # "writeBack"
      <4>1. ~EarlyPush' /\ ~EarlyPop'
        BY <1>1, <3>2 DEF EarlyPush, EarlyPop, Early
      <4>2. stage = "readMem" => busy
        BY <1>4, <3>2, PosParts
      <4>3. stage = "readMem" => instrOP \in {"READ", "COPY"}
        BY <4>2 DEF IInv, BusHolds, start
      <4> QED BY <1>1, <4>1, <4>3 DEF EarlyPush, EarlyPop, Early
    <3> QED BY <3>1, <3>2
  <2>2. Under' = Under
    BY <1>1, Zenon DEF Under
  <2>3. /\ ~EarlyPush /\ ~EarlyPop => Stk = Seen(stack, ptr, depth)
        /\ EarlyPop => Stk = Seen(stack, ptr + 1, depth)
        /\ EarlyPush => Stk = Seen(Under, ptr - 1, depth)
    BY <1>1, <1>4, StkForms
  <2>4. /\ ~EarlyPush' /\ ~EarlyPop' => Stk' = Seen(stack', ptr', depth')
        /\ EarlyPop' => Stk' = Seen(stack', ptr' + 1, depth')
        /\ EarlyPush' => Stk' = Seen(Under', ptr' - 1, depth')
    BY <1>1, <1>4, StkFormsNext
  <2> HIDE DEF EarlyPush, EarlyPop, Stk
  <2> QED BY <1>1, <2>1, <2>2, <2>3, <2>4, Zenon
<1> QED BY <1>2, <1>3, <1>4

\* A push or a pop that starts is hidden.
LEMMA NegStkMoves ==
  ASSUME IInv, NEW line \in P!Levels, NegEdge(line), ~reset, stage = "readMem"
  PROVE  Stk' = Stk
<1>1. /\ clk = "high" /\ clk' = "low" /\ stage' = stage /\ ~reset' /\ instrOP' = instrOP
      /\ Types /\ Types'
  BY NegParts, NegLines, NegTypes DEF IInv
<1>2. /\ ~P!WriteBackEdge /\ ~EarlyPush /\ ~EarlyPop
      /\ EarlyPush' <=> push
      /\ EarlyPop' <=> pop
  BY <1>1 DEF P!WriteBackEdge, EarlyPush, EarlyPop, Early, push, pop
<1>3. depth' = depth
  BY <1>2, NegDepth
<1>4. Stk = Seen(stack, ptr, depth)
  BY <1>1, <1>2, StkForms
<1>5. /\ StackSize \in Nat \ {0} /\ ptr \in 0 .. StackSize - 1 /\ ptr' \in 0 .. StackSize - 1
      /\ depth \in Nat
      /\ stack \in [0 .. StackSize - 1 -> Word] /\ stack' \in [0 .. StackSize - 1 -> Word]
  BY <1>1, Sizes DEF Types
<1>6. ptr % StackSize = ptr
  BY <1>5, ModSmall
<1>7. CASE push
  <2>1. ptr' = (ptr + 1) % StackSize /\ stack' = [stack EXCEPT ![ptr] = data_b]
        /\ lost' = stack[ptr]
    BY <1>7, NegPush
  <2>2. (ptr' - 1) % StackSize = ptr
    BY <1>5, <2>1, Pointer
  <2>3. Under' = stack
    <3>1. Under' = [s \in 0 .. StackSize - 1 |->
                      IF s = (ptr' - 1) % StackSize THEN lost' ELSE stack'[s]]
      BY Zenon DEF Under
    <3>2. \A s \in 0 .. StackSize - 1 : s # ptr => stack'[s] = stack[s]
      <4> HIDE DEF data_b
      <4> QED BY <1>5, <2>1
    <3>3. \A s \in 0 .. StackSize - 1 :
            (IF s = (ptr' - 1) % StackSize THEN lost' ELSE stack'[s]) = stack[s]
      BY <2>1, <2>2, <3>2, Zenon
    <3>4. Under' = [s \in 0 .. StackSize - 1 |-> stack[s]]
      BY <3>1, <3>3, Zenon
    <3>5. stack = [s \in 0 .. StackSize - 1 |-> stack[s]]
      BY <1>5
    <3> QED BY <3>4, <3>5, Zenon
  <2>4. Stk' = Seen(Under', ptr' - 1, depth')
    BY <1>1, <1>2, <1>7, StkFormsNext
  <2>5. Seen(stack, ptr' - 1, depth) = Seen(stack, ptr, depth)
    <3> DEFINE top == ptr' - 1
    <3>1. top \in Int /\ ptr \in Int
      BY <1>5
    <3>2. top % StackSize = ptr % StackSize
      BY <1>6, <2>2, Zenon
    <3> HIDE DEF top
    <3>3. Seen(stack, top, depth) = Seen(stack, ptr, depth)
      BY <1>5, <3>1, <3>2, SeenShift, Zenon
    <3> QED BY <3>3 DEF top
  <2> QED BY <1>3, <1>4, <2>3, <2>4, <2>5, Zenon
<1>8. CASE pop
  <2>1. ptr' = (ptr - 1) % StackSize /\ stack' = stack
    BY <1>8, NegPop
  <2>2. Stk' = Seen(stack', ptr' + 1, depth')
    BY <1>1, <1>2, <1>8, StkFormsNext
  <2>3. (ptr' + 1) % StackSize = ptr
    <3> DEFINE under == ptr - 1
    <3>1. under \in Int /\ 1 \in Int /\ 1 + under = ptr
      BY <1>5
    <3> HIDE DEF under
    <3>2. (1 + (under % StackSize)) % StackSize = (1 + under) % StackSize
      BY <1>5, <3>1, ModAdd, Zenon
    <3>3. ptr' = under % StackSize
      BY <2>1 DEF under
    <3>4. ptr' + 1 = 1 + ptr'
      BY <1>5
    <3> QED BY <1>6, <3>1, <3>2, <3>3, <3>4, Zenon
  <2>4. Seen(stack, ptr' + 1, depth) = Seen(stack, ptr, depth)
    <3> DEFINE top == ptr' + 1
    <3>1. top \in Int /\ ptr \in Int
      BY <1>5
    <3>2. top % StackSize = ptr % StackSize
      BY <1>6, <2>3, Zenon
    <3> HIDE DEF top
    <3>3. Seen(stack, top, depth) = Seen(stack, ptr, depth)
      BY <1>5, <3>1, <3>2, SeenShift, Zenon
    <3> QED BY <3>3 DEF top
  <2> QED BY <1>3, <1>4, <2>1, <2>2, <2>4, Zenon
<1>9. CASE ~push /\ ~pop
  <2>1. ptr' = ptr /\ stack' = stack
    BY <1>9, NegNoMove
  <2>2. Stk' = Seen(stack', ptr', depth')
    BY <1>1, <1>2, <1>9, StkFormsNext
  <2> QED BY <1>3, <1>4, <2>1, <2>2, Zenon
<1> QED BY <1>7, <1>8, <1>9

LEMMA NegStkSame ==
  ASSUME IInv, NEW line \in P!Levels, NegEdge(line), ~reset, ~P!WriteBackEdge
  PROVE  Stk' = Stk
<1>1. CASE stage = "readMem"
  BY <1>1, NegStkMoves
<1>2. CASE stage # "readMem"
  <2>1. /\ clk = "high" /\ clk' = "low" /\ stage' = stage /\ ~reset' /\ Types /\ Types'
    BY NegParts, NegTypes DEF IInv
  <2>2. ~push /\ ~pop
    BY <1>2 DEF push, pop
  <2>3. ptr' = ptr /\ stack' = stack
    BY <2>2, NegNoMove
  <2>4. depth' = depth
    BY NegDepth
  <2>5. ~EarlyPush' /\ ~EarlyPop'
    BY <1>2, <2>1 DEF EarlyPush, EarlyPop, Early
  <2>6. ~EarlyPush /\ ~EarlyPop
    <3>1. stage = "writeBack" => busy
      BY <2>1 DEF P!WriteBackEdge, IInv, BusHolds
    <3>2. stage = "writeBack" => instrOP \in {"WRITE", "COPY"}
      BY <3>1 DEF IInv, BusHolds, start
    <3> QED BY <1>2, <3>2 DEF EarlyPush, EarlyPop, Early
  <2>7. Stk = Seen(stack, ptr, depth)
    BY <2>1, <2>6, StkForms
  <2>8. Stk' = Seen(stack', ptr', depth')
    BY <2>1, <2>5, StkFormsNext
  <2> QED BY <2>3, <2>4, <2>7, <2>8, Zenon
<1> QED BY <1>1, <1>2

LEMMA ArchStack ==
  ASSUME NEW i
  PROVE  /\ i.op = "PUSH" /\ Len(Stk) < StackSize =>
              Arch!StackAfter(i) = Append(Stk, Arch!R(i.b))
         /\ i.op = "PUSH" /\ Len(Stk) = StackSize =>
              Arch!StackAfter(i) = Append(Tail(Stk), Arch!R(i.b))
         /\ i.op = "POP" /\ Stk # <<>> => Arch!StackAfter(i) = SubSeq(Stk, 1, Len(Stk) - 1)
         /\ i.op = "POP" /\ Stk = <<>> => Arch!StackAfter(i) = Stk
         /\ i.op \notin {"PUSH", "POP"} => Arch!StackAfter(i) = Stk
<1>1. ASSUME i.op = "PUSH", Len(Stk) < StackSize, Len(Stk) # StackSize
      PROVE  Arch!StackAfter(i) = Append(Stk, Arch!R(i.b))
  BY <1>1, Zenon DEF Arch!StackAfter, Stk
<1>2. ASSUME i.op = "PUSH", ~(Len(Stk) < StackSize), Len(Stk) = StackSize
      PROVE  Arch!StackAfter(i) = Append(Tail(Stk), Arch!R(i.b))
  BY <1>2, Zenon DEF Arch!StackAfter, Stk
<1>3. i.op = "POP" /\ Stk # <<>> => Arch!StackAfter(i) = SubSeq(Stk, 1, Len(Stk) - 1)
  BY Zenon DEF Arch!StackAfter, Stk
<1>4. i.op = "POP" /\ Stk = <<>> => Arch!StackAfter(i) = Stk
  BY Zenon DEF Arch!StackAfter, Stk
<1>5. i.op \notin {"PUSH", "POP"} => Arch!StackAfter(i) = Stk
  BY Zenon DEF Arch!StackAfter, Stk
<1> HIDE DEF Stk
<1>6. Len(Stk) < StackSize => Len(Stk) # StackSize
  BY Sizes
<1>7. Len(Stk) = StackSize => ~(Len(Stk) < StackSize)
  BY Sizes
<1> QED BY <1>1, <1>2, <1>3, <1>4, <1>5, <1>6, <1>7

\* A push or a pop takes effect with its instruction.
LEMMA EdgeStk ==
  ASSUME IInv, NEW line \in P!Levels, NegEdge(line), ~reset, P!WriteBackEdge
  PROVE  /\ Stk' = Arch!StackAfter(instruction)
         /\ instrOP = "POP" => Stk = <<>> \/ Stk[Len(Stk)] = stack_q
<1> DEFINE i == instruction
           D == 0 .. StackSize - 1
<1>1. /\ clk = "high" /\ clk' = "low" /\ stage = "writeBack" /\ stage' = stage /\ ~reset'
      /\ Types /\ Types' /\ StackHolds /\ Live
  BY NegParts, NegTypes DEF IInv, P!WriteBackEdge
<1>2. instrOP = i.op /\ Arch!R(i.b) = data_b /\ data_b \in Word
  BY <1>1, ArchOperands
<1>3. /\ EarlyPush <=> instrOP = "PUSH"
      /\ EarlyPop <=> instrOP = "POP"
      /\ ~EarlyPush' /\ ~EarlyPop' /\ ~push /\ ~pop
  BY <1>1 DEF EarlyPush, EarlyPop, Early, push, pop
<1>4. ptr' = ptr /\ stack' = stack
  BY <1>3, NegNoMove
<1>5. /\ StackSize \in Nat \ {0} /\ ptr \in D /\ ptr \in Int /\ depth \in 0 .. StackSize
      /\ depth \in Nat /\ stack \in [D -> Word] /\ lost \in Word /\ stack_q \in Word
  BY <1>1, Sizes DEF Types
<1>6. Stk' = Seen(stack, ptr, depth')
  BY <1>1, <1>3, <1>4, StkFormsNext
<1> HIDE DEF i, D
<1>7. CASE instrOP = "PUSH"
  <2> DEFINE top == ptr - 1
  <2>1. Stk = Seen(Under, top, depth)
    BY <1>1, <1>3, <1>7, StkForms
  <2>2. Under \in [D -> Word]
    <3>1. \A s \in D : (IF s = (ptr - 1) % StackSize THEN lost ELSE stack[s]) \in Word
      BY <1>5, Zenon
    <3> QED BY <3>1, Zenon DEF Under, D
  <2>3. \A s \in D : s # top % StackSize => stack[s] = Under[s]
    BY Zenon DEF Under, D
  <2>4. stack[top % StackSize] = data_b
    BY <1>1, <1>3, <1>7 DEF StackHolds
  <2>5. top \in Int /\ top + 1 = ptr
    BY <1>5
  <2> HIDE DEF top, Under
  <2>6. /\ depth < StackSize =>
             Seen(stack, top + 1, depth + 1) = Append(Seen(Under, top, depth), data_b)
        /\ depth = StackSize =>
             Seen(stack, top + 1, depth) = Append(Tail(Seen(Under, top, depth)), data_b)
    <3> HIDE DEF data_b
    <3>1. /\ stack \in [0 .. StackSize - 1 -> Word] /\ Under \in [0 .. StackSize - 1 -> Word]
          /\ top \in Int /\ depth \in 0 .. StackSize /\ data_b \in Word
          /\ stack[top % StackSize] = data_b
      BY <1>2, <1>5, <2>2, <2>4, <2>5, Zenon DEF D
    <3>2. \A s \in 0 .. StackSize - 1 : s # top % StackSize => stack[s] = Under[s]
      BY <2>3 DEF D
    <3> QED BY ONLY <3>1, <3>2, SeenPush
  <2>7. Len(Stk) = depth
    BY <1>5, <2>1, <2>2, <2>5, SeenType, Zenon DEF D
  <2>8. CASE depth < StackSize
    <3>1. depth' = depth + 1
      BY <1>7, <2>8, NegDepth
    <3>2. Stk' = Append(Stk, data_b)
      BY <1>6, <2>1, <2>5, <2>6, <2>8, <3>1, Zenon
    <3>3. Arch!StackAfter(i) = Append(Stk, data_b)
      BY <1>2, <1>7, <2>7, <2>8, ArchStack, Zenon
    <3> QED BY <1>7, <3>2, <3>3, Zenon DEF i
  <2>9. CASE depth = StackSize
    <3>1. depth' = depth
      <4>1. ~(depth < StackSize)
        BY <1>5, <2>9
      <4> QED BY <1>7, <4>1, NegDepth
    <3>2. Stk' = Append(Tail(Stk), data_b)
      BY <1>6, <2>1, <2>5, <2>6, <2>9, <3>1, Zenon
    <3>3. Arch!StackAfter(i) = Append(Tail(Stk), data_b)
      BY <1>2, <1>7, <2>7, <2>9, ArchStack, Zenon
    <3> QED BY <1>7, <3>2, <3>3, Zenon DEF i
  <2>10. depth < StackSize \/ depth = StackSize
    BY <1>5
  <2> QED BY <2>8, <2>9, <2>10
<1>8. CASE instrOP = "POP"
  <2>1. Stk = Seen(stack, ptr + 1, depth)
    BY <1>1, <1>3, <1>8, StkForms
  <2>2. stack[ptr] = stack_q
    BY <1>1, <1>3, <1>8 DEF StackHolds
  <2>3. CASE depth = 0
    <3>1. depth' = depth
      <4>1. ~(depth > 0)
        BY <2>3
      <4> QED BY <1>8, <4>1, NegDepth
    <3>2. Stk = <<>> /\ Stk' = <<>>
      <4>1. Seen(stack, ptr + 1, 0) = <<>> /\ Seen(stack, ptr, 0) = <<>>
        BY DEF Seen
      <4> QED BY <1>6, <2>1, <2>3, <3>1, <4>1, Zenon
    <3>3. Arch!StackAfter(i) = Stk
      BY <1>2, <1>8, <3>2, ArchStack, Zenon
    <3> QED BY <3>2, <3>3, Zenon DEF i
  <2>4. CASE depth > 0
    <3>1. depth' = depth - 1
      BY <1>8, <2>4, NegDepth
    <3>2. depth \in 1 .. StackSize /\ ptr % StackSize = ptr
      <4>1. ptr % StackSize = ptr
        BY <1>5, ModSmall, Zenon DEF D
      <4>2. depth \in 1 .. StackSize
        BY <1>5, <2>4
      <4> QED BY <4>1, <4>2
    <3>3. /\ Stk # <<>> /\ Len(Stk) = depth
          /\ Stk[depth] = stack[ptr]
          /\ Seen(stack, ptr, depth - 1) = SubSeq(Stk, 1, depth - 1)
      <4>1. /\ Seen(stack, ptr + 1, depth) # <<>>
            /\ Len(Seen(stack, ptr + 1, depth)) = depth
            /\ Seen(stack, ptr + 1, depth)[depth] = stack[ptr % StackSize]
            /\ Seen(stack, ptr, depth - 1) =
                 SubSeq(Seen(stack, ptr + 1, depth), 1, depth - 1)
        BY <1>5, <3>2, SeenPop, Zenon DEF D
      <4> QED BY <2>1, <3>2, <4>1, Zenon
    <3>4. Arch!StackAfter(i) = SubSeq(Stk, 1, depth - 1)
      BY <1>2, <1>8, <3>3, ArchStack, Zenon
    <3>5. Stk' = Arch!StackAfter(i)
      BY <1>6, <3>1, <3>3, <3>4, Zenon
    <3>6. Stk[Len(Stk)] = stack_q
      BY <2>2, <3>3, Zenon
    <3> QED BY <3>5, <3>6 DEF i
  <2> QED BY <1>5, <2>3, <2>4
<1>9. CASE instrOP \notin {"PUSH", "POP"}
  <2>1. depth' = depth
    BY <1>9, NegDepth
  <2>2. Stk = Seen(stack, ptr, depth)
    BY <1>1, <1>3, <1>9, StkForms
  <2>3. Arch!StackAfter(i) = Stk
    BY <1>2, <1>9, ArchStack, Zenon
  <2>4. Stk' = Stk
    BY <1>6, <2>1, <2>2, Zenon
  <2> QED BY <1>9, <2>3, <2>4, Zenon DEF i
<1> QED BY <1>7, <1>8, <1>9

-----------------------------------------------------------------------------
(* Every step is a step of ISA, or none.                                   *)

LEMMA PosPend ==
  ASSUME IInv, PosEdge
  PROVE  Pend' = Pend
<1>1. busy' = busy /\ busy \in BOOLEAN
  BY PosParts DEF IInv, Types
<1>2. CASE ~busy
  <2>1. Pend = Arch!None
    BY <1>2, PendNone
  <2>2. Pend' = Arch!None
    BY <1>1, <1>2 DEF Pend, Arch!None
  <2> QED BY <2>1, <2>2
<1>3. CASE busy
  <2>1. start /\ ~reset
    BY <1>3, PosParts DEF IInv, BusHolds
  <2>2. stage' = stage
    BY <1>3, <2>1, PosParts
  <2>3. instruction' = instruction
    BY <2>2, PosParts DEF instruction
  <2>4. address' = address /\ we' = we
    BY <2>2, <2>3, PosParts, SameAddress
  <2>5. data' = data
    BY <2>3, PosParts, SameLines DEF data
  <2> HIDE DEF address, we, data
  <2> QED BY <1>1, <2>4, <2>5, Zenon DEF Pend
<1> QED BY <1>1, <1>2, <1>3

LEMMA PosArch ==
  ASSUME IInv, PosEdge
  PROVE  [Arch!Next]_(Arch!isavars)
<1>1. /\ reset \in BOOLEAN /\ reset' \in BOOLEAN /\ mem' = mem
      /\ UNCHANGED Flow /\ Regs' = Regs
  BY PosParts, SameRegs DEF Flow
<1>2. Pend' = Pend
  BY PosPend
<1>3. CASE reset' = reset
  <2>1. Stk' = Stk
    <3>1. CASE reset
      <4>1. Stk' = <<>> /\ Stk = <<>>
        BY <1>3, <3>1 DEF Stk
      <4> QED BY <4>1
    <3>2. CASE ~reset
      BY <1>3, <3>2, PosStk
    <3> QED BY <3>1, <3>2
  <2>2. UNCHANGED Arch!isavars
    BY <1>1, <1>2, <1>3, <2>1, ArchStutter, Zenon
  <2> QED BY <2>2
<1>4. CASE ~reset /\ reset'
  <2>1. Arch!ResetBegins
    BY <1>1, <1>2, <1>4, PosStk, ArchResetBegins, Zenon
  <2> QED BY <2>1, Zenon DEF Arch!Next
<1>5. CASE reset /\ ~reset'
  <2>1. Stk = <<>> /\ Stk' = <<>>
    BY <1>5, PosStk DEF Stk
  <2>2. Pend = Arch!None
    <3>1. ~busy
      BY <1>5, PosParts DEF IInv, BusHolds
    <3> QED BY <3>1, PendNone
  <2>3. Pc!ResetState
    <3>1. Pc!TypeOK /\ Pc!ResetProgress /\ clk = "low"
      BY PosParts DEF IInv, Pc!IInv
    <3>2. ~(held < MinReset)
      BY <1>5 DEF PosEdge, P!PosEdge, P!ResetLine
    <3>3. held >= 2
      BY <3>1, <3>2, ControllerAssumption DEF Pc!TypeOK
    <3> QED BY <3>1, <3>3 DEF Pc!ResetProgress
  <2>4. pc_out' = PCstart /\ PCintBackup' = 0 /\ int_en'
    BY <2>3, PosParts DEF Pc!ResetState
  <2>5. int_en' = TRUE
    <3>1. int_en' \in BOOLEAN
      BY PosControl DEF Pc!IInv, Pc!TypeOK
    <3> QED BY <2>4, <3>1
  <2>6. ext_int_id' = ext_int_id
    BY PosParts
  <2>7. Arch!ResetEnds
    BY <1>1, <1>2, <1>5, <2>1, <2>2, <2>4, <2>5, <2>6, ArchResetEnds, Zenon
  <2> QED BY <2>7, Zenon DEF Arch!Next
<1> QED BY <1>1, <1>3, <1>4, <1>5

\* PC.v leaves its registers alone when no instruction completes.
LEMMA HoldFlow ==
  ASSUME IInv, NEW line \in P!Levels, NegEdge(line), ~reset, ~P!WriteBackEdge
  PROVE  UNCHANGED Flow
<1>1. P!Hold(line)
  BY DEF NegEdge, PcNeg, P!Return, P!Dispatch, P!Advance
<1>2. /\ pc_out' = pc_out /\ PCintBackup' = PCintBackup /\ ext_int_id' = ext_int_id
  BY <1>1 DEF P!Hold, P!BackupBase
<1>3. int_en' <=> int_en
  BY <1>1 DEF P!Hold, P!IntEnBase
<1>4. int_en \in BOOLEAN /\ int_en' \in BOOLEAN
  BY NegControl DEF IInv, Pc!IInv, Pc!TypeOK
<1>5. int_en' = int_en
  BY <1>3, <1>4
<1> QED BY <1>2, <1>5 DEF Flow

\* The lines of writeBack in the next state.
LEMMA NegWrites ==
  ASSUME IInv, NEW line \in P!Levels, NegEdge(line), ~reset, stage = "writeBack", q' = q
  PROVE  address' = address /\ we' = we /\ data' = data
<1>1. /\ stage' = stage /\ instruction' = instruction
      /\ data_a_l' = data_a_l /\ data_b_l' = data_b_l
  BY NegParts, NegLines
<1>2. address' = address /\ we' = we
  BY <1>1, SameAddress
<1>3. data' = data
  BY <1>1, SameLines DEF data
<1> QED BY <1>2, <1>3

\* Outside reset the registers change only with the instruction.
LEMMA RegsStay ==
  ASSUME NEW line, NegEdge(line), stage # "writeBack" \/ we
  PROVE  Regs' = Regs
<1>1. ~(stage = "writeBack" /\ dreg_we)
  BY DEF we, dreg_we
<1>2. regs' = regs
  BY <1>1, Zenon DEF NegEdge, RegbankNeg
<1> QED BY <1>2, SameRegs

\* The first falling edge of writeBack.
LEMMA EdgeArch ==
  ASSUME IInv, NEW line \in P!Levels, NegEdge(line), ~reset, P!WriteBackEdge
  PROVE  \E i \in Program : Arch!Execute(i)
<1>1. /\ stage = "writeBack" /\ clk = "high" /\ reset' = reset /\ ~busy
  BY NegParts DEF P!WriteBackEdge, IInv, BusHolds
<1>2. BusWait
  BY <1>1, NegAnswer DEF BusAnswer
<1>3. mem' = mem /\ q' = q /\ (busy' <=> start)
  BY <1>1, <1>2 DEF BusWait
<1>4. Pend = Arch!None
  BY <1>1, PendNone
<1>5. address' = address /\ we' = we /\ data' = data
  BY <1>1, <1>3, NegWrites
<1>6. Pend' = Arch!StoreOf(instruction)
  <2>1. CASE we
    <3>1. busy' /\ we'
      BY <1>1, <1>3, <1>5, <2>1 DEF we, start
    <3>2. Arch!StoreOf(instruction) = [cell |-> address, word |-> data]
      BY <1>1, <2>1, ArchStore
    <3> HIDE DEF address, we, data
    <3>3. Pend' = [cell |-> address', word |-> data']
      BY <3>1, Zenon DEF Pend
    <3> QED BY <1>5, <3>2, <3>3, Zenon
  <2>2. CASE ~we
    <3>1. ~we'
      BY <1>5, <2>2
    <3>2. Arch!StoreOf(instruction) = Arch!None
      BY <1>1, <2>2, ArchStore
    <3> HIDE DEF we
    <3>3. Pend' = Arch!None
      BY <3>1, Zenon DEF Pend, Arch!None
    <3> QED BY <3>2, <3>3
  <2> QED BY <2>1, <2>2
<1>7. /\ Stk' = Arch!StackAfter(instruction)
      /\ instrOP = "POP" => Stk = <<>> \/ Stk[Len(Stk)] = stack_q
  BY EdgeStk
<1>8. Regs' \in Arch!RegsAfter(instruction)
  BY <1>1, <1>7, ArchRegs
<1>9. PICK i \in Program : i = instruction
  BY <1>1, ArchOperands
<1>10. Arch!Continue(i) \/ Arch!Interrupted(i) \/ Arch!Return(i)
  BY <1>9, ArchFlow
<1>11. /\ Regs' \in Arch!RegsAfter(i) /\ Stk' = Arch!StackAfter(i)
       /\ Pend' = Arch!StoreOf(i)
  BY <1>6, <1>7, <1>8, <1>9, Zenon
<1>12. Arch!Execute(i)
  BY <1>1, <1>3, <1>4, <1>10, <1>11, ArchExecute, Zenon
<1> QED BY <1>12, Zenon

\* Any other falling edge outside reset.
LEMMA WaitArch ==
  ASSUME IInv, NEW line \in P!Levels, NegEdge(line), ~reset, ~P!WriteBackEdge
  PROVE  [Arch!Next]_(Arch!isavars)
<1>1. /\ clk = "high" /\ reset' = reset /\ stage' = stage /\ Live
      /\ Types /\ InstrHolds /\ ReadHolds /\ UNCHANGED Flow /\ Stk' = Stk
  BY NegParts, HoldFlow, NegStkSame DEF IInv
<1>2. CASE stage # "writeBack"
  <2>1. ~we /\ ~we'
    BY <1>1, <1>2 DEF we
  <2>2. mem' = mem
    <3> HIDE DEF we
    <3>1. Written = mem
      BY <2>1, Zenon DEF Written
    <3> QED BY <3>1, NegAnswer DEF BusWait, BusAnswer
  <2>3. Pend = Arch!None
    BY <2>1, PendNone
  <2>4. Pend' = Arch!None
    <3> HIDE DEF we
    <3> QED BY <2>1, Zenon DEF Pend, Arch!None
  <2>5. Regs' = Regs
    BY <1>2, RegsStay
  <2>6. UNCHANGED Arch!isavars
    BY <1>1, <2>2, <2>3, <2>4, <2>5, ArchStutter, Zenon
  <2> QED BY <2>6
<1>3. CASE stage = "writeBack"
  <2>1. busy
    BY <1>1, <1>3 DEF P!WriteBackEdge, IInv, BusHolds
  <2>2. we
    BY <1>3, <2>1 DEF IInv, BusHolds, start, we
  <2>3. Pend # Arch!None /\ Pend = [cell |-> address, word |-> data]
    BY <1>1, <1>3, <2>1, <2>2, PendSome
  <2>4. Regs' = Regs
    BY <2>2, RegsStay
  <2>5. CASE BusWait
    <3>1. mem' = mem /\ q' = q /\ busy'
      BY <2>1, <2>5 DEF BusWait
    <3>2. address' = address /\ we' = we /\ data' = data
      BY <1>3, <3>1, NegWrites
    <3>3. Pend' = Pend
      <4> HIDE DEF address, we, data
      <4>1. Pend' = [cell |-> address', word |-> data']
        BY <2>2, <3>1, <3>2, Zenon DEF Pend
      <4> QED BY <2>3, <3>2, <4>1, Zenon
    <3>4. UNCHANGED Arch!isavars
      BY <1>1, <2>4, <3>1, <3>3, ArchStutter, Zenon
    <3> QED BY <3>4
  <2>6. CASE BusAnswer
    <3>1. busy' = FALSE /\ mem' = Written
      BY <2>6 DEF BusAnswer
    <3>2. Pend' = Arch!None
      BY <3>1, Zenon DEF Pend, Arch!None
    <3>3. mem' = Arch!Stored(Pend)
      <4> HIDE DEF address, data, we, Pend
      <4>1. Pend.cell = address /\ Pend.word = data
        BY <2>3
      <4>2. Arch!Stored(Pend) = [mem EXCEPT ![Pend.cell] = Pend.word]
        BY Zenon DEF Arch!Stored
      <4> QED BY <2>2, <3>1, <4>1, <4>2, Zenon DEF Written
    <3>4. Arch!Land
      BY <1>1, <2>3, <2>4, <3>2, <3>3, ArchLand, Zenon
    <3> QED BY <3>4, Zenon DEF Arch!Next
  <2> QED BY <2>5, <2>6, NegAnswer
<1> QED BY <1>2, <1>3

\* A falling edge in a reset.
LEMMA ResetArch ==
  ASSUME IInv, NEW line \in P!Levels, NegEdge(line), reset
  PROVE  Arch!InReset
<1>1. /\ clk = "high" /\ reset' /\ stage' = stage /\ Live
      /\ Types /\ InstrHolds /\ ReadHolds /\ busy \in BOOLEAN
  BY NegParts DEF IInv, Types
<1>2. pc_out' \in Addr /\ PCintBackup' \in Addr /\ int_en' \in BOOLEAN
      /\ ext_int_id' \in 0 .. 4
  BY NegControl DEF Pc!IInv, Pc!TypeOK, Addr
<1>3. busy' = FALSE /\ mem' \in {mem, Written}
  BY NegAnswer DEF BusReset
<1>4. Stk' = <<>> /\ Pend' = Arch!None
  <2>1. Stk' = <<>>
    BY <1>1, Zenon DEF Stk
  <2>2. Pend' = Arch!None
    BY <1>3, Zenon DEF Pend, Arch!None
  <2> QED BY <2>1, <2>2
<1> DEFINE Effect ==
      \/ UNCHANGED <<Regs, mem>>
      \/ Pend # Arch!None /\ mem' = Arch!Stored(Pend) /\ UNCHANGED Regs
      \/ \E i \in Program :
           /\ Pend = Arch!None
           /\ Regs' \in Arch!RegsAfter(i)
           /\ \/ mem' = mem
              \/ Arch!StoreOf(i) # Arch!None /\ mem' = Arch!Stored(Arch!StoreOf(i))
<1>5. Effect
  <2>1. CASE stage # "writeBack"
    <3>1. ~we
      BY <2>1 DEF we
    <3>2. mem' = mem
      <4> HIDE DEF we
      <4>1. Written = mem
        BY <3>1, Zenon DEF Written
      <4> QED BY <1>3, <4>1
    <3>3. Regs' = Regs
      BY <2>1, RegsStay
    <3> QED BY <3>2, <3>3
  <2>2. CASE stage = "writeBack" /\ busy
    <3>1. we
      BY <2>2 DEF IInv, BusHolds, start, we
    <3>2. Pend # Arch!None /\ Pend = [cell |-> address, word |-> data]
      BY <1>1, <2>2, <3>1, PendSome
    <3>3. Regs' = Regs
      BY <3>1, RegsStay
    <3>4. Written = Arch!Stored(Pend)
      <4> HIDE DEF address, data, we, Pend
      <4>1. Pend.cell = address /\ Pend.word = data
        BY <3>2
      <4>2. Arch!Stored(Pend) = [mem EXCEPT ![Pend.cell] = Pend.word]
        BY Zenon DEF Arch!Stored
      <4> QED BY <3>1, <4>1, <4>2, Zenon DEF Written
    <3> HIDE DEF Pend, Regs
    <3> QED BY <1>3, <3>2, <3>3, <3>4
  <2>3. CASE stage = "writeBack" /\ ~busy
    <3>1. Pend = Arch!None
      BY <2>3, PendNone
    <3>2. instruction \in Program
      BY <1>1, <2>3, ArchOperands
    <3>3. Regs' \in Arch!RegsAfter(instruction)
      <4>1. Stk = <<>>
        BY DEF Stk
      <4> QED BY <2>3, <4>1, ArchRegs
    <3>4. \/ mem' = mem
          \/ /\ Arch!StoreOf(instruction) # Arch!None
             /\ mem' = Arch!Stored(Arch!StoreOf(instruction))
      <4>1. CASE ~we
        <5> HIDE DEF we
        <5>1. Written = mem
          BY <4>1, Zenon DEF Written
        <5> QED BY <1>3, <5>1
      <4>2. CASE we
        <5> DEFINE p == Arch!StoreOf(instruction)
        <5>1. p = [cell |-> address, word |-> data] /\ p # Arch!None
          BY <1>1, <2>3, <4>2, ArchStore
        <5> HIDE DEF p, address, data, we
        <5>2. p.cell = address /\ p.word = data
          BY <5>1
        <5>3. Arch!Stored(p) = [mem EXCEPT ![p.cell] = p.word]
          BY Zenon DEF Arch!Stored
        <5>4. Written = Arch!Stored(p)
          BY <4>2, <5>2, <5>3, Zenon DEF Written
        <5> QED BY <1>3, <5>1, <5>4 DEF p
      <4> QED BY <4>1, <4>2
    <3> QED BY <3>1, <3>2, <3>3, <3>4, Zenon
  <2> QED BY <1>1, <2>1, <2>2, <2>3
<1> QED BY <1>1, <1>2, <1>3, <1>4, <1>5, ArchInReset, Zenon

LEMMA InitArch ==
  ASSUME Init
  PROVE  Arch!Init
<1>1. /\ pc_out = PCstart /\ PCintBackup = 0 /\ int_en = TRUE /\ ext_int_id = 0
      /\ reset = FALSE /\ clk = "low" /\ stage = "init"
  BY DEF Init, P!Init
<1>2. Types
  BY InitIInv DEF IInv
<1>3. Stk = <<>>
  <2>1. ~EarlyPush /\ ~EarlyPop
    BY <1>1 DEF EarlyPush, EarlyPop, Early
  <2>2. Stk = Seen(stack, ptr, 0)
    BY <1>1, <1>2, <2>1, StkForms DEF Init
  <2> QED BY <2>2 DEF Seen
<1>4. Pend = Arch!None
  <2>1. ~busy
    BY DEF Init
  <2> QED BY <2>1, PendNone
<1>5. Regs \in [Reg \ {0} -> Word] /\ mem \in [Addr -> Word]
  BY <1>2 DEF Regs, Types
<1> QED BY <1>1, <1>3, <1>4, <1>5, SameWords, Zenon DEF Arch!Init, Regs, Stk, Pend

\* CPU.v.  Whatever the program, the speed of the bus and the interrupts, the
\* CPU executes instruction after instruction as ISA says.
THEOREM CPUImplementsISA == Spec => IsaSpec
<1>1. IInv /\ [Next]_vars => [Arch!Next]_(Arch!isavars)
  <2> SUFFICES ASSUME IInv, [Next]_vars PROVE [Arch!Next]_(Arch!isavars)
    OBVIOUS
  <2>1. CASE PosEdge
    BY <2>1, PosArch
  <2>2. ASSUME NEW line \in P!Levels, NegEdge(line)
        PROVE  [Arch!Next]_(Arch!isavars)
    <3>1. CASE reset
      <4>1. Arch!InReset
        BY <2>2, <3>1, ResetArch
      <4> QED BY <4>1, Zenon DEF Arch!Next
    <3>2. CASE ~reset /\ P!WriteBackEdge
      <4>1. \E i \in Program : Arch!Execute(i)
        BY <2>2, <3>2, EdgeArch
      <4> QED BY <4>1, Zenon DEF Arch!Next
    <3>3. CASE ~reset /\ ~P!WriteBackEdge
      BY <2>2, <3>3, WaitArch
    <3> QED BY <3>1, <3>2, <3>3
  <2>3. CASE UNCHANGED vars
    <3>1. /\ stage' = stage /\ clk' = clk /\ reset' = reset /\ pc_out' = pc_out
          /\ PCintBackup' = PCintBackup /\ int_en' = int_en /\ ext_int_id' = ext_int_id
          /\ instructionReg' = instructionReg /\ regs' = regs
          /\ data_a_l' = data_a_l /\ data_b_l' = data_b_l
          /\ ptr' = ptr /\ stack' = stack /\ stack_q' = stack_q
          /\ busy' = busy /\ q' = q /\ mem' = mem /\ depth' = depth /\ lost' = lost
      BY <2>3 DEF vars, pcvars, datavars, busvars
    <3>2. instruction' = instruction
      BY <3>1 DEF instruction
    <3>3. address' = address /\ we' = we
      BY <3>1, <3>2, SameAddress
    <3>4. instrOP' = instrOP /\ data' = data
      BY <3>1, <3>2, SameLines DEF data
    <3> HIDE DEF address, we, data, instrOP
    <3>5. Pend' = Pend /\ Regs' = Regs
      BY <3>1, <3>3, <3>4, Zenon DEF Pend, Regs
    <3>6. /\ EarlyPush' <=> EarlyPush
          /\ EarlyPop' <=> EarlyPop
      BY <3>1, <3>4 DEF EarlyPush, EarlyPop, Early
    <3>7. Top' = Top /\ \A s : Entry(s)' = Entry(s)
      <4>1. Top' = Top
        BY <3>1, <3>6, Zenon DEF Top
      <4> QED BY <3>1, <3>6, <4>1, Zenon DEF Entry
    <3>8. Stk' = Stk
      BY <3>1, <3>7, Zenon DEF Stk
    <3>9. UNCHANGED Flow
      BY <3>1 DEF Flow
    <3>10. UNCHANGED Arch!isavars
      BY <3>1, <3>5, <3>8, <3>9, ArchStutter, Zenon
    <3> QED BY <3>10
  <2> QED BY <2>1, <2>2, <2>3 DEF Next
<1>2. Init => Arch!Init
  BY InitArch
<1> QED BY <1>1, <1>2, Invariance, PTL DEF Spec, IsaSpec, Arch!Spec
====
