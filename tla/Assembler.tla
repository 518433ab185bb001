------------------------------ MODULE Assembler ------------------------------
(***************************************************************************)
(* The assembler, Assembler/Assembler.py with CompileInstruction.py: the   *)
(* passes that turn a file of assembly lines and the libraries it includes *)
(* into instruction words.                                                 *)
(*                                                                         *)
(* A line is a sequence of tokens: numbers [num], strings [text], label    *)
(* definitions [label] and words [name]; a mnemonic, a register and the    *)
(* use of a label are all words.  Line numbers and the comments behind     *)
(* each output word are left out.  A word of output is its 32 bits, the    *)
(* highest first.                                                          *)
(***************************************************************************)
EXTENDS Integers, FiniteSets, SequencesExt, TLC

CONSTANTS
  Projects   \* the sets of files to assemble: functions from names to lines

MainFile == "code.asm"

ASSUME ProjectAssumption == \A p \in Projects : MainFile \in DOMAIN p

Num(v) == [num |-> v]
Text(codes) == [text |-> codes]
Label(x) == [label |-> x]
Name(x) == [name |-> x]

IsA(kind, t) == kind \in DOMAIN t
IsName(t, x) == IsA("name", t) /\ t.name = x

-----------------------------------------------------------------------------
(* Operands: numbers, registers and their widths.                          *)

Abs(v) == IF v < 0 THEN -v ELSE v

\* Python's bit_length() <= bits.  Numbers of the model are below 2^31.
CheckFitsInBits(v, bits) ==
  IF bits > 16 THEN v \div 2 ^ 16 < 2 ^ (bits - 16) ELSE v < 2 ^ bits

Bits16(v, w) == [i \in 1 .. w |-> (v \div 2 ^ (w - i)) % 2]
Bin(v, w) ==
  IF w <= 16 THEN Bits16(v, w)
  ELSE Bits16(v \div 2 ^ 16, w - 16) \o Bits16(v % 2 ^ 16, 16)
Zeros(n) == [i \in 1 .. n |-> 0]

\* getNumber without negative numbers, for a field of some bits.
getNumber(t, bits) ==
  IsA("num", t) /\ t.num >= 0 /\ CheckFitsInBits(t.num, bits)

\* getNumber with negative numbers.
getOffset(t, bits) == IsA("num", t) /\ CheckFitsInBits(Abs(t.num), bits)
Negative(t) == IF t.num < 0 THEN <<1>> ELSE <<0>>

RegNames ==
  <<"r0", "r1", "r2", "r3", "r4", "r5", "r6", "r7", "r8", "r9", "r10", "r11",
    "r12", "r13", "rbp", "rsp">>
IsReg(t) == IsA("name", t) /\ \E n \in 1 .. 16 : RegNames[n] = t.name
getReg(t) == (CHOOSE n \in 1 .. 16 : RegNames[n] = t.name) - 1
Reg4(t) == Bin(getReg(t), 4)

-----------------------------------------------------------------------------
(* What a compile function returns: an error (the exception it raises), a  *)
(* word, words of data, a load of 32 bits in two halves, a line to compile *)
(* in pass two, a label, or nothing to emit.                               *)

Bad == [form |-> "error"]
Word(bits) == [form |-> "word", bits |-> bits]
Data(words) == [form |-> "data", words |-> words]
Both(high, low, reg) == [form |-> "both", high |-> high, low |-> low, reg |-> reg]
Deferred(line) == [form |-> "deferred", line |-> line]
LabelLine(x) == [form |-> "label", label |-> x]
Ignore == [form |-> "ignore"]

Fits(kind, t) ==
  CASE kind = "reg" -> IsReg(t)
    [] kind = "k11" -> getNumber(t, 11)
    [] kind = "k16" -> getNumber(t, 16)
    [] kind = "k27" -> getNumber(t, 27)
    [] kind = "k32" -> getNumber(t, 32)
    [] kind = "off" -> getOffset(t, 16)
    [] kind = "any" -> TRUE
\* The operands of a line fit these kinds, and there are no others.
Args(line, kinds) ==
  /\ Len(line) = Len(kinds) + 1
  /\ \A j \in 1 .. Len(kinds) : Fits(kinds[j], line[j + 1])

compileHalt(line) ==
  IF Args(line, <<>>) THEN Word([i \in 1 .. 32 |-> 1]) ELSE Bad

compileRead(line) ==
  IF Args(line, <<"off", "reg", "reg">>)
  THEN Word(<<1, 1, 1, 0>> \o Bin(Abs(line[2].num), 16) \o Reg4(line[3])
              \o <<0, 0>> \o Negative(line[2]) \o <<0>> \o Reg4(line[4]))
  ELSE Bad

\* WRITE and COPY: the flag of a negative offset is bit 0.
Store(line, op) ==
  IF Args(line, <<"off", "reg", "reg">>)
  THEN Word(op \o Bin(Abs(line[2].num), 16) \o Reg4(line[3]) \o Reg4(line[4])
              \o <<0, 0, 0>> \o Negative(line[2]))
  ELSE Bad
compileWrite(line) == Store(line, <<1, 1, 0, 1>>)
compileCopy(line) == Store(line, <<1, 1, 0, 0>>)

compilePush(line) ==
  IF Args(line, <<"reg">>)
  THEN Word(<<1, 0, 1, 1>> \o Zeros(20) \o Reg4(line[2]) \o Zeros(4)) ELSE Bad
OnlyD(line, op) ==
  IF Args(line, <<"reg">>) THEN Word(op \o Zeros(24) \o Reg4(line[2])) ELSE Bad
compilePop(line) == OnlyD(line, <<1, 0, 1, 0>>)
compileSavpc(line) == OnlyD(line, <<0, 0, 1, 0>>)

Jump27(t, oe) == Word(<<1, 0, 0, 1>> \o Bin(t.num, 27) \o <<oe>>)
\* What is no number that jump accepts is taken for a label.
compileJump(line) ==
  IF ~ Args(line, <<"any">>) THEN Bad
  ELSE IF ~ IsA("num", line[2]) \/ line[2].num < 0 THEN Deferred(line)
  ELSE IF getNumber(line[2], 27) THEN Jump27(line[2], 0) ELSE Bad
compileJumpo(line) ==
  IF Args(line, <<"k27">>) THEN Jump27(line[2], 1) ELSE Bad

JumpReg(line, oe) ==
  IF Args(line, <<"k16", "reg">>)
  THEN Word(<<1, 0, 0, 0>> \o Bin(line[2].num, 16) \o Zeros(4) \o Reg4(line[3])
              \o <<0, 0, 0, oe>>)
  ELSE Bad
compileJumpr(line) == JumpReg(line, 0)
compileJumpro(line) == JumpReg(line, 1)

LoadHalf(k, reg, he) ==
  Word(<<0, 1, 1, 1>> \o Bin(k, 16) \o <<0, 0, 0, he>> \o Zeros(4) \o Reg4(reg))
compileLoad(line) ==
  IF Args(line, <<"k16", "reg">>) THEN LoadHalf(line[2].num, line[3], 0) ELSE Bad
compileLoadhi(line) ==
  IF Args(line, <<"k16", "reg">>) THEN LoadHalf(line[2].num, line[3], 1) ELSE Bad

Branch(line, op) ==
  IF Args(line, <<"reg", "reg", "k16">>)
  THEN Word(op \o Bin(line[4].num, 16) \o Reg4(line[2]) \o Reg4(line[3]) \o Zeros(4))
  ELSE Bad
compileBeq(line) == Branch(line, <<0, 1, 1, 0>>)
compileBne(line) == Branch(line, <<0, 1, 0, 1>>)
compileBgt(line) == Branch(line, <<0, 1, 0, 0>>)
compileBge(line) == Branch(line, <<0, 0, 1, 1>>)

compileReti(line) ==
  IF Args(line, <<>>) THEN Word(<<0, 0, 0, 1>> \o Zeros(28)) ELSE Bad

Arith(line, opcode) ==
  IF Args(line, <<"reg", "reg", "reg">>)
  THEN Word(Zeros(5) \o Bin(opcode, 4) \o Zeros(11)
              \o Reg4(line[2]) \o Reg4(line[3]) \o Reg4(line[4]))
  ELSE IF Args(line, <<"reg", "k11", "reg">>)
  THEN Word(Zeros(4) \o <<1>> \o Bin(opcode, 4) \o Bin(line[3].num, 11)
              \o Reg4(line[2]) \o Zeros(4) \o Reg4(line[4]))
  ELSE Bad
compileOr(line) == Arith(line, 0)
compileAnd(line) == Arith(line, 1)
compileXor(line) == Arith(line, 2)
compileAdd(line) == Arith(line, 3)
compileSub(line) == Arith(line, 4)
compileShiftl(line) == Arith(line, 5)
compileShiftr(line) == Arith(line, 6)
compileMult(line) == Arith(line, 7)
compileNot(line) ==
  IF Args(line, <<"reg", "reg">>)
  THEN Word(Zeros(5) \o Bin(8, 4) \o Zeros(11)
              \o Reg4(line[2]) \o Zeros(4) \o Reg4(line[3]))
  ELSE Bad

compileAddr2reg(line) ==
  IF Args(line, <<"any", "reg">>)
  THEN Deferred(<<Name("loadlabelhigh"), line[2], line[3]>>) ELSE Bad
\* An address has 27 bits: 16 low ones and 11 high ones.
compileLoadLabelLow(line) ==
  IF Args(line, <<"k27", "reg">>)
  THEN LoadHalf(line[2].num % 2 ^ 16, line[3], 0) ELSE Bad
compileLoadLabelHigh(line) ==
  IF Args(line, <<"k27", "reg">>)
  THEN LoadHalf(line[2].num \div 2 ^ 16, line[3], 1) ELSE Bad
compileLoad32(line) ==
  IF ~ Args(line, <<"k32", "any">>) THEN Bad
  ELSE IF getNumber(line[2], 16) THEN compileLoad(line)
  ELSE Both(Num(line[2].num \div 2 ^ 16), Num(line[2].num % 2 ^ 16), line[3])

compileNop(line) == IF Args(line, <<>>) THEN Word(Zeros(32)) ELSE Bad
compileReadIntID(line) ==
  IF Args(line, <<"reg">>)
  THEN Word(<<1, 1, 1, 0>> \o Zeros(20) \o <<0, 0, 0, 1>> \o Reg4(line[2])) ELSE Bad
compileNothing(line) == Ignore

\* Numbers of some width packed into words, the first one highest.
Packed(numbers, width) ==
  LET per == 32 \div width
      count == (Len(numbers) + per - 1) \div per
      At(j) == IF j <= Len(numbers) THEN Bin(numbers[j], width) ELSE Zeros(width)
  IN [w \in 1 .. count |-> FlattenSeq([j \in 1 .. per |-> At(per * (w - 1) + j)])]
CompileData(line, width) ==
  IF Len(line) >= 2 /\ \A j \in 2 .. Len(line) : getNumber(line[j], width)
  THEN Data(Packed([j \in 1 .. Len(line) - 1 |-> line[j + 1].num], width))
  ELSE Bad
compileDw(line) == CompileData(line, 32)
compileDd(line) == CompileData(line, 16)
compileDb(line) == CompileData(line, 8)
compileDs(line) ==
  IF Len(line) = 2 /\ IsA("text", line[2])
  THEN compileDb(<<Name(".db")>> \o [j \in 1 .. Len(line[2].text) |-> Num(line[2].text[j])])
  ELSE Bad

\* The switch of compileLine; the word of a label alone on its line is a
\* label, and anything else is no instruction.
compileLine(line) ==
  LET is(x) == IsName(line[1], x)
  IN CASE is("halt") -> compileHalt(line)
       [] is("read") -> compileRead(line)
       [] is("write") -> compileWrite(line)
       [] is("copy") -> compileCopy(line)
       [] is("push") -> compilePush(line)
       [] is("pop") -> compilePop(line)
       [] is("jump") -> compileJump(line)
       [] is("jumpo") -> compileJumpo(line)
       [] is("jumpr") -> compileJumpr(line)
       [] is("jumpro") -> compileJumpro(line)
       [] is("load") -> compileLoad(line)
       [] is("loadhi") -> compileLoadhi(line)
       [] is("beq") -> compileBeq(line)
       [] is("bne") -> compileBne(line)
       [] is("bgt") -> compileBgt(line)
       [] is("bge") -> compileBge(line)
       [] is("savpc") -> compileSavpc(line)
       [] is("reti") -> compileReti(line)
       [] is("or") -> compileOr(line)
       [] is("and") -> compileAnd(line)
       [] is("xor") -> compileXor(line)
       [] is("add") -> compileAdd(line)
       [] is("sub") -> compileSub(line)
       [] is("shiftl") -> compileShiftl(line)
       [] is("shiftr") -> compileShiftr(line)
       [] is("mult") -> compileMult(line)
       [] is("not") -> compileNot(line)
       [] is("addr2reg") -> compileAddr2reg(line)
       [] is("load32") -> compileLoad32(line)
       [] is("nop") -> compileNop(line)
       [] is(".dw") -> compileDw(line)
       [] is(".dd") -> compileDd(line)
       [] is(".db") -> compileDb(line)
       [] is(".ds") -> compileDs(line)
       [] is("loadlabellow") -> compileLoadLabelLow(line)
       [] is("loadlabelhigh") -> compileLoadLabelHigh(line)
       [] is("readintid") -> compileReadIntID(line)
       [] is("include") -> compileNothing(line)
       [] OTHER -> IF Len(line) = 1 /\ IsA("label", line[1])
                   THEN LabelLine(line[1].label) ELSE Bad

\* The items one line becomes in pass one.
Low(line) == Deferred(<<Name("loadlabellow"), line[2], line[3]>>)
Expanded_HighFirst(line) ==
  LET c == compileLine(line)
  IN CASE c.form = "both" -> <<compileLine(<<Name("loadhi"), c.high, c.reg>>),
                               compileLine(<<Name("load"), c.low, c.reg>>)>>
       [] c.form = "deferred" /\ IsName(c.line[1], "loadlabelhigh") -> <<Low(c.line), c>>
       [] c.form = "data" -> [w \in 1 .. Len(c.words) |-> Word(c.words[w])]
       [] c.form = "ignore" -> <<>>
       [] OTHER -> <<c>>
Expanded(line) ==
  LET c == compileLine(line)
  IN CASE c.form = "both" -> <<compileLine(<<Name("load"), c.low, c.reg>>),
                               compileLine(<<Name("loadhi"), c.high, c.reg>>)>>
       [] c.form = "deferred" /\ IsName(c.line[1], "loadlabelhigh") -> <<Low(c.line), c>>
       [] c.form = "data" -> [w \in 1 .. Len(c.words) |-> Word(c.words[w])]
       [] c.form = "ignore" -> <<>>
       [] OTHER -> <<c>>

-----------------------------------------------------------------------------
(* The passes of main().  parsedLines are the lines after the last pass    *)
(* over lines, and items the result of the last pass over what they        *)
(* compile to; an item has the label that moveLabels attached to it.       *)

VARIABLES
  files,         \* what is on disk
  phase,         \* the pass main() does next, or how it ended
  stack,         \* the calls of insertLibraries, the innermost last
  libraryList,
  included,      \* the result of insertLibraries
  parsedLines,
  defines,
  items,
  labelMap

vars == <<files, phase, stack, libraryList, included, parsedLines, defines, items, labelMap>>

NoLabel == ""
Frame(lines) == [lines |-> lines, next |-> 1, returnList |-> lines]

Init ==
  /\ files \in Projects
  /\ phase = "insertLibraries"
  /\ stack = <<Frame(files[MainFile])>>
  /\ libraryList = <<>>
  /\ included = <<>> /\ parsedLines = <<>> /\ items = <<>>
  /\ defines = <<>> /\ labelMap = <<>>

Exit == phase' = "failed"

IsInclude(line) == Len(line) = 2 /\ IsName(line[1], "include")
IsNew_Always(line) == IsInclude(line)
IsNew(line) == IsInclude(line) /\ ~ Contains(libraryList, line[2].name)

\* The next line of the innermost call: go on, or call for a new library.
Top == stack[Len(stack)]
Onward_Again == Top
Onward == [Top EXCEPT !.next = @ + 1]
ScanLine ==
  /\ phase = "insertLibraries" /\ Top.next <= Len(Top.lines)
  /\ LET line == Top.lines[Top.next]
     IN IF ~ IsNew(line)
        THEN /\ stack' = Append(Front(stack), Onward)
             /\ UNCHANGED <<libraryList, phase>>
        ELSE IF line[2].name \notin DOMAIN files
        THEN Exit /\ UNCHANGED <<stack, libraryList>>
        ELSE /\ libraryList' = Append(libraryList, line[2].name)
             /\ stack' = Front(stack) \o <<Onward, Frame(files[line[2].name])>>
             /\ UNCHANGED phase
  /\ UNCHANGED <<files, included, parsedLines, defines, items, labelMap>>

\* A call returns: its lines go in front of those of its caller.
Inserted(caller, lines) == [caller EXCEPT !.returnList = lines \o @]
ReturnLines ==
  /\ phase = "insertLibraries" /\ Top.next > Len(Top.lines)
  /\ IF Len(stack) = 1
     THEN /\ included' = Top.returnList /\ stack' = <<>>
          /\ phase' = "obtainDefines"
     ELSE /\ stack' = Append(SubSeq(stack, 1, Len(stack) - 2),
                             Inserted(stack[Len(stack) - 1], Top.returnList))
          /\ UNCHANGED <<included, phase>>
  /\ UNCHANGED <<files, libraryList, parsedLines, defines, items, labelMap>>

IsDefine(line) == IsName(line[1], "define")
obtainDefines ==
  LET lines == SelectSeq(included, IsDefine)
      Code(line) == ~ IsDefine(line)
      wellFormed == \A i \in DOMAIN lines : Len(lines[i]) = 4 /\ IsName(lines[i][3], "=")
      unique == \A i, j \in DOMAIN lines : lines[i][2] = lines[j][2] => i = j
  IN /\ phase = "obtainDefines"
     /\ IF wellFormed /\ unique
        THEN /\ phase' = "processDefines"
             /\ defines' = [i \in DOMAIN lines |-> <<lines[i][2], lines[i][4]>>]
             /\ parsedLines' = SelectSeq(included, Code)
        ELSE Exit /\ UNCHANGED <<defines, parsedLines>>
     /\ UNCHANGED <<files, stack, libraryList, included, items, labelMap>>

\* defines.get(word, word)
Replaced(word) ==
  IF \E i \in DOMAIN defines : defines[i][1] = word
  THEN defines[CHOOSE i \in DOMAIN defines : defines[i][1] = word][2]
  ELSE word
processDefines ==
  /\ phase = "processDefines" /\ phase' = "passOne"
  /\ parsedLines' = [i \in DOMAIN parsedLines |->
                       [j \in DOMAIN parsedLines[i] |-> Replaced(parsedLines[i][j])]]
  /\ UNCHANGED <<files, stack, libraryList, included, defines, items, labelMap>>

Item(label, code) == [label |-> label, code |-> code]
Unlabelled(codes) == [i \in DOMAIN codes |-> Item(NoLabel, codes[i])]

passOne ==
  /\ phase = "passOne"
  /\ \E compiled \in {FlattenSeq([i \in DOMAIN parsedLines |-> Expanded(parsedLines[i])])} :
       IF \E i \in DOMAIN compiled : compiled[i].form = "error"
       THEN Exit /\ UNCHANGED items
       ELSE phase' = "addHeaderCode" /\ items' = Unlabelled(compiled)
  /\ UNCHANGED <<files, stack, libraryList, included, parsedLines, defines, labelMap>>

\* The place of the length is an item that no pass changes.
LengthOfProgram == [form |-> "length"]
Header ==
  [i \in 1 .. 5 |-> Deferred(<<Name("jump"), Name(<<"Main", "Int1", "Int2", "Int3", "Int4">>[i])>>)]
    \o <<LengthOfProgram>>
addHeaderCode ==
  /\ phase = "addHeaderCode" /\ phase' = "moveLabels"
  /\ items' = Unlabelled(Header) \o items
  /\ UNCHANGED <<files, stack, libraryList, included, parsedLines, defines, labelMap>>

\* A label goes to the item below it; between two labels there is a NOP.
IsLabel(item) == item.code.form = "label"
Moved(i) ==
  LET above == IF i > 1 /\ IsLabel(items[i - 1]) THEN items[i - 1].code.label ELSE NoLabel
  IN CASE ~ IsLabel(items[i]) -> <<Item(above, items[i].code)>>
       [] IsLabel(items[i]) /\ above # NoLabel -> <<Item(above, Word(Zeros(32)))>>
       [] OTHER -> <<>>
moveLabels ==
  /\ phase = "moveLabels"
  /\ IF IsLabel(Last(items)) THEN Exit /\ UNCHANGED items
     ELSE /\ phase' = "getLabelMap"
          /\ items' = FlattenSeq([i \in DOMAIN items |-> Moved(i)])
  /\ UNCHANGED <<files, stack, libraryList, included, parsedLines, defines, labelMap>>

\* redoLineNumbering numbers the items from 0.
getLabelMap ==
  LET at == {i \in DOMAIN items : items[i].label # NoLabel}
      labels == {items[i].label : i \in at}
  IN /\ phase = "getLabelMap"
     /\ IF \E i, j \in at : i # j /\ items[i].label = items[j].label
        THEN Exit /\ UNCHANGED <<labelMap, items>>
        ELSE /\ phase' = "passTwo"
             /\ labelMap' = [x \in labels |-> (CHOOSE i \in at : items[i].label = x) - 1]
             /\ items' = [i \in DOMAIN items |-> Item(NoLabel, items[i].code)]
     /\ UNCHANGED <<files, stack, libraryList, included, parsedLines, defines>>

\* Every word of a deferred line that is a label is replaced, each in a copy
\* of the line of its own; the copy of the last one stays.
Uses(code) ==
  {j \in DOMAIN code.line : IsA("name", code.line[j]) /\ code.line[j].name \in DOMAIN labelMap}
Resolved(code, j) == compileLine([code.line EXCEPT ![j] = Num(labelMap[code.line[j].name])])
Compiled(code) ==
  IF code.form # "deferred" \/ Uses(code) = {} THEN code
  ELSE IF \E j \in Uses(code) : Resolved(code, j) = Bad THEN Bad
  ELSE Resolved(code, CHOOSE j \in Uses(code) : \A k \in Uses(code) : k <= j)
passTwo ==
  /\ phase = "passTwo"
  /\ \E codes \in {[i \in DOMAIN items |-> Compiled(items[i].code)]} :
       IF \E i \in DOMAIN codes : codes[i] = Bad
       THEN Exit /\ UNCHANGED items
       ELSE phase' = "checkNoLabels" /\ items' = Unlabelled(codes)
  /\ UNCHANGED <<files, stack, libraryList, included, parsedLines, defines, labelMap>>

checkNoLabels ==
  /\ phase = "checkNoLabels"
  /\ IF \E i \in DOMAIN items : items[i].code.form = "deferred" THEN Exit
     ELSE phase' = "length"
  /\ UNCHANGED <<files, stack, libraryList, included, parsedLines, defines, items, labelMap>>

\* The end of main(): the length goes to its place and the words are printed.
PutLength ==
  /\ phase = "length" /\ phase' = "done"
  /\ items' = [items EXCEPT ![6] = Item(NoLabel, Word(Bin(Len(items), 32)))]
  /\ UNCHANGED <<files, stack, libraryList, included, parsedLines, defines, labelMap>>

Next ==
  \/ ScanLine \/ ReturnLines \/ obtainDefines \/ processDefines \/ passOne \/ addHeaderCode
  \/ moveLabels \/ getLabelMap \/ passTwo \/ checkNoLabels \/ PutLength

\* main() runs to its end.
Spec == Init /\ [][Next]_vars /\ WF_vars(Next)

-----------------------------------------------------------------------------
(* What the words of the output mean to the CPU: the fields that           *)
(* CPU/InstructionDecoder.v takes from them, and the instruction set as    *)
(* CPU/ControlUnit.v numbers it.  The operations of the ALU are numbered   *)
(* as in CPU/ALU.v:23-31, which the assembler follows, too:                *)
(* Documentation/docs/cpu.md:112-113 has NOT and MULT the other way round. *)

BitsOf(w, high, low) ==
  LET Value[b \in low .. high] ==
        IF b = high THEN w[32 - b] ELSE 2 * Value[b + 1] + w[32 - b]
  IN Value[low]
Decoded(w) ==
  [op |-> BitsOf(w, 31, 28), const11 |-> BitsOf(w, 22, 12), const16 |-> BitsOf(w, 27, 12),
   const27 |-> BitsOf(w, 27, 1), areg |-> BitsOf(w, 11, 8), breg |-> BitsOf(w, 7, 4),
   dreg |-> BitsOf(w, 3, 0), opcode |-> BitsOf(w, 26, 23), ce |-> BitsOf(w, 27, 27),
   he |-> BitsOf(w, 8, 8), oe |-> BitsOf(w, 0, 0), intf |-> BitsOf(w, 4, 4),
   n1 |-> BitsOf(w, 0, 0), n2 |-> BitsOf(w, 5, 5)]

\* For each mnemonic its opcode, the field of each operand, and the flags
\* that tell it from the others of its opcode.
Row(op, fields, flags) == [op |-> op, fields |-> fields, flags |-> flags]
Arithmetic(opcode) == Row(0, <<"areg", "either", "dreg">>, {<<"opcode", opcode>>})
InstructionSet ==
  ("halt" :> Row(15, <<>>, {})
   @@ "read" :> Row(14, <<"n2", "areg", "dreg">>, {<<"intf", 0>>})
   @@ "readintid" :> Row(14, <<"dreg">>, {<<"intf", 1>>})
   @@ "write" :> Row(13, <<"n1", "areg", "breg">>, {})
   @@ "copy" :> Row(12, <<"n1", "areg", "breg">>, {})
   @@ "push" :> Row(11, <<"breg">>, {})
   @@ "pop" :> Row(10, <<"dreg">>, {})
   @@ "jump" :> Row(9, <<"const27">>, {<<"oe", 0>>})
   @@ "jumpo" :> Row(9, <<"const27">>, {<<"oe", 1>>})
   @@ "jumpr" :> Row(8, <<"const16", "breg">>, {<<"oe", 0>>})
   @@ "jumpro" :> Row(8, <<"const16", "breg">>, {<<"oe", 1>>})
   @@ "load" :> Row(7, <<"const16", "dreg">>, {<<"he", 0>>})
   @@ "loadhi" :> Row(7, <<"const16", "dreg">>, {<<"he", 1>>})
   @@ "beq" :> Row(6, <<"areg", "breg", "const16">>, {})
   @@ "bne" :> Row(5, <<"areg", "breg", "const16">>, {})
   @@ "bgt" :> Row(4, <<"areg", "breg", "const16">>, {})
   @@ "bge" :> Row(3, <<"areg", "breg", "const16">>, {})
   @@ "savpc" :> Row(2, <<"dreg">>, {})
   @@ "reti" :> Row(1, <<>>, {})
   @@ "or" :> Arithmetic(0)
   @@ "and" :> Arithmetic(1)
   @@ "xor" :> Arithmetic(2)
   @@ "add" :> Arithmetic(3)
   @@ "sub" :> Arithmetic(4)
   @@ "shiftl" :> Arithmetic(5)
   @@ "shiftr" :> Arithmetic(6)
   @@ "mult" :> Arithmetic(7)
   @@ "not" :> Row(0, <<"areg", "dreg">>, {<<"opcode", 8>>}))

\* The operand t in a field of the decoded instruction i.
InField(i, field, t) ==
  CASE field \in {"areg", "breg", "dreg"} -> IsReg(t) /\ i[field] = getReg(t)
    [] field \in {"n1", "n2"} -> t.num = (IF i[field] = 1 THEN -i.const16 ELSE i.const16)
    [] field = "either" -> IF IsReg(t) THEN i.ce = 0 /\ i.breg = getReg(t)
                           ELSE i.ce = 1 /\ i.const11 = t.num
    [] OTHER -> i[field] = t.num
Means(word, mnemonic, operands) ==
  LET i == Decoded(word)
      row == InstructionSet[mnemonic]
  IN /\ i.op = row.op /\ Len(operands) = Len(row.fields)
     /\ \A f \in row.flags : i[f[1]] = f[2]
     /\ \A j \in DOMAIN operands : InField(i, row.fields[j], operands[j])

-----------------------------------------------------------------------------
(* The reference: what the included text says, line by line.               *)

\* The text without its definitions and includes, the words replaced.
SourceText ==
  LET defs == SelectSeq(included, IsDefine)
      Meant(word) == IF \E i \in DOMAIN defs : defs[i][2] = word
                     THEN defs[CHOOSE i \in DOMAIN defs : defs[i][2] = word][4] ELSE word
      Plain(line) == ~ IsDefine(line) /\ ~ IsInclude(line)
      AddMeant(text, line) == Append(text, [j \in DOMAIN line |-> Meant(line[j])])
  IN FoldLeft(AddMeant, <<>>, SelectSeq(included, Plain))

Mnemonic(line) == IF IsA("name", line[1]) THEN line[1].name ELSE ""
IsLabelLine(line) == Len(line) = 1 /\ IsA("label", line[1])
DataBits == ".dw" :> 32 @@ ".dd" :> 16 @@ ".db" :> 8
Large(t) == t.num >= 2 ^ 16

\* How many words line i of the text takes, and the address of each line.
Words(text, i) ==
  LET line == text[i]
      m == Mnemonic(line)
      InWords(n, width) == (n * width + 31) \div 32
  IN CASE IsLabelLine(line) -> IF IsLabelLine(text[i + 1]) THEN 1 ELSE 0
       [] m \in DOMAIN DataBits -> InWords(Len(line) - 1, DataBits[m])
       [] m = ".ds" -> InWords(Len(line[2].text), 8)
       [] m = "addr2reg" \/ (m = "load32" /\ Large(line[2])) -> 2
       [] OTHER -> 1
AddressOf(text) ==
  LET At[i \in 1 .. Len(text) + 1] == IF i = 1 THEN 6 ELSE At[i - 1] + Words(text, i - 1)
  IN At

LabelLines(text, x) == {i \in DOMAIN text : IsLabelLine(text[i]) /\ text[i][1].label = x}
LabelAddress(text, x) == AddressOf(text)[CHOOSE i \in LabelLines(text, x) : TRUE]

\* A use of a label stands for the address of the label.
Operand(text, t) ==
  IF IsA("name", t) /\ ~ IsReg(t) THEN Num(LabelAddress(text, t.name)) ELSE t
Halves(reg, v, words) ==
  /\ Means(words[1], "load", <<Num(v % 2 ^ 16), reg>>)
  /\ Means(words[2], "loadhi", <<Num(v \div 2 ^ 16), reg>>)
Value(words, width, j) ==
  LET per == 32 \div width
      high == 31 - width * ((j - 1) % per)
  IN BitsOf(words[1 + (j - 1) \div per], high, high - width + 1)

\* The words of line i say what the line says.
SaysLine(text, i, words) ==
  LET line == text[i]
      m == Mnemonic(line)
      Arg(j) == Operand(text, line[j])
  IN CASE IsLabelLine(line) \/ m = "nop" -> \A w \in DOMAIN words : words[w] = Zeros(32)
       [] m \in DOMAIN DataBits ->
            \A j \in 1 .. Len(line) - 1 : Value(words, DataBits[m], j) = line[j + 1].num
       [] m = ".ds" -> \A j \in DOMAIN line[2].text : Value(words, 8, j) = line[2].text[j]
       [] m = "addr2reg" -> Halves(line[3], Arg(2).num, words)
       [] m = "load32" -> IF Large(line[2]) THEN Halves(line[3], line[2].num, words)
                          ELSE Means(words[1], "load", Tail(line))
       [] OTHER -> Means(words[1], m, [j \in 1 .. Len(line) - 1 |-> Arg(j + 1)])

OutWord(a) == items[a + 1].code.bits

(* The output is the program that the text says: each word is what the     *)
(* decoder of the CPU takes for the instruction of its line, with the      *)
(* address of every label where its instruction is, behind the jumps to    *)
(* the entry points and the length.                                        *)
MeansSource ==
  phase = "done" =>
    LET text == SourceText
        at == AddressOf(text)
    IN /\ Len(items) = at[Len(text) + 1]
       /\ BitsOf(OutWord(5), 30, 0) = Len(items)
       /\ \A n \in 1 .. 5 :
            Means(OutWord(n - 1), "jump", <<Num(LabelAddress(text, Header[n].line[2].name))>>)
       /\ \A i \in DOMAIN text :
            SaysLine(text, i, [w \in 1 .. at[i + 1] - at[i] |-> OutWord(at[i] + w - 1)])

-----------------------------------------------------------------------------
(* Which programs are accepted.                                            *)

LibrariesOf(f) == {files[f][i][2].name : i \in {j \in DOMAIN files[f] : IsInclude(files[f][j])}}
Reachable ==
  LET More(S) == S \cup UNION {LibrariesOf(f) : f \in S \cap DOMAIN files}
      Within[n \in Nat] == IF n = 0 THEN {MainFile} ELSE More(Within[n - 1])
  IN Within[Cardinality(DOMAIN files)]

\* Operands, labels and definitions as Documentation/docs/asm.md allows them,
\* and load32, which it leaves out.
Fields(m) == IF m = "not" THEN <<"either", "dreg">> ELSE InstructionSet[m].fields
FieldFits(field, t) ==
  CASE field \in {"areg", "breg", "dreg"} -> IsReg(t)
    [] field \in {"n1", "n2"} -> getOffset(t, 16)
    [] field = "either" -> IsReg(t) \/ getNumber(t, 11)
    [] field = "const16" -> getNumber(t, 16)
    [] field = "const27" -> getNumber(t, 27)
IsLabelUse(text, t) == IsA("name", t) /\ LabelLines(text, t.name) # {}
LegalLine(text, line) ==
  LET m == Mnemonic(line)
      n == Len(line) - 1
  IN CASE IsLabelLine(line) -> TRUE
       [] m = "nop" -> n = 0
       [] m \in DOMAIN DataBits -> n >= 1 /\ \A j \in 1 .. n : getNumber(line[j + 1], DataBits[m])
       [] m = ".ds" -> n = 1 /\ IsA("text", line[2]) /\ line[2].text # <<>>
       [] m = "addr2reg" -> n = 2 /\ IsLabelUse(text, line[2]) /\ IsReg(line[3])
       [] m = "load32" -> n = 2 /\ getNumber(line[2], 32) /\ IsReg(line[3])
       [] m = "jump" /\ n = 1 /\ IsLabelUse(text, line[2]) -> TRUE
       [] m \in DOMAIN InstructionSet ->
            n = Len(Fields(m)) /\ \A j \in 1 .. n : FieldFits(Fields(m)[j], line[j + 1])
       [] OTHER -> FALSE

WellFormedText ==
  LET text == SourceText
      defs == SelectSeq(included, IsDefine)
      labels == {i \in DOMAIN text : IsLabelLine(text[i])}
  IN /\ \A i \in DOMAIN defs : Len(defs[i]) = 4 /\ IsName(defs[i][3], "=")
     /\ \A i, j \in DOMAIN defs : i # j => defs[i][2] # defs[j][2]
     /\ \A i \in DOMAIN text : LegalLine(text, text[i])
     /\ \A i, j \in labels : i # j => text[i] # text[j]
     /\ text = <<>> \/ ~ IsLabelLine(Last(text))
     /\ \A n \in 1 .. 5 : IsLabelUse(text, Header[n].line[2])

\* What asm.md allows and the assembler refuses: jumps to labels (asm.md:35,
\* "any character") that it takes for a register or a mnemonic where they are
\* used, and the NOT of a constant (asm.md:87).
Reserved == ToSet(RegNames) \cup {"jump", "loadlabellow", "loadlabelhigh"}
UsesReserved(text, line) ==
  /\ Mnemonic(line) \in {"jump", "addr2reg"}
  /\ \E j \in DOMAIN line : IsLabelUse(text, line[j]) /\ line[j].name \in Reserved
NegatesConstant(line) == Mnemonic(line) = "not" /\ Len(line) = 3 /\ ~ IsReg(line[2])
Unsupported ==
  LET text == SourceText
  IN \E i \in DOMAIN text : UsesReserved(text, text[i]) \/ NegatesConstant(text[i])


(* Whatever includes what, also in circles, the text is the lines of each  *)
(* library that can be reached, once, and of the program itself last.      *)
LibrariesOnce ==
  included # <<>> =>
    \E order \in SetToSeqs(Reachable \ {MainFile}) :
      included = FlattenSeq([i \in DOMAIN order |-> files[order[i]]] \o <<files[MainFile]>>)

(* Every run of the assembler ends, whatever includes what.                *)
Ends == <>(phase \in {"done", "failed"})
=============================================================================
