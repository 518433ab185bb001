-------------------------------- MODULE B322 --------------------------------
(***************************************************************************)
(* Words, instructions and arithmetic of the B322 CPU, as the decoder      *)
(* (CPU/InstructionDecoder.v) and the ALU (CPU/ALU.v) define them.  An     *)
(* instruction is a record of its fields; k is its constant, of 11, 16 or  *)
(* 27 bits.  The flags share bits with the register fields, as in the      *)
(* instruction word: that of a register field which the instruction does   *)
(* not need, or, with n2 in a COPY, does.                                  *)
(***************************************************************************)
EXTENDS Integers

CONSTANTS
  WordBits,   \* 32 in the code: bits of a word, an even number
  AddrSize,   \* 2^27 in the code: number of addresses
  Registers,  \* 16 in the code
  BitOr(_, _), BitAnd(_, _), BitXor(_, _)  \* |, & and ^ of Verilog

ASSUME WidthAssumption ==
  /\ WordBits \in Nat \ {0} /\ WordBits % 2 = 0
  /\ AddrSize \in 1 .. 2 ^ WordBits
  /\ Registers \in Nat \ {0}

WordSize == 2 ^ WordBits
HalfSize == 2 ^ (WordBits \div 2)
Word == 0 .. WordSize - 1
Addr == 0 .. AddrSize - 1
Reg == 0 .. Registers - 1

ASSUME BitwiseAssumption ==
  \A a, b \in Word : {BitOr(a, b), BitAnd(a, b), BitXor(a, b)} \subseteq Word

\* Powers of two, of which the prover knows nothing.
ASSUME PowerAssumption ==
  /\ \A n \in 0 .. 2 * WordBits : 2 ^ n \in Nat \ {0}
  /\ HalfSize \in Nat \ {0} /\ HalfSize * HalfSize = WordSize

Op == {"HALT", "READ", "WRITE", "COPY", "PUSH", "POP", "JUMP", "JUMPR", "LOAD",
       "BEQ", "BNE", "BGT", "BGE", "SAVPC", "RETI", "ARITH"}
AluOp == {"OR", "AND", "XOR", "ADD", "SUB", "SHIFTL", "SHIFTR", "MULT", "NOTA",
          "UNIMPLEMENTED"}

IsInstr(i) ==
  /\ i.op \in Op /\ i.alu \in AluOp /\ i.ce \in BOOLEAN
  /\ i.k \in Word /\ (i.op = "LOAD" => i.k < HalfSize)
  /\ {i.a, i.b, i.d} \subseteq Reg

\* The flags: bit 0 of the instruction is bit 0 of the field d, and so on.
n1(i) == i.d % 2 = 1
oe(i) == i.d % 2 = 1
n2(i) == (i.b \div 2) % 2 = 1
intf(i) == i.b % 2 = 1
he(i) == i.a % 2 = 1

\* What an instruction word of zeros is.
NoInstr ==
  [op |-> "ARITH", alu |-> "OR", ce |-> FALSE, k |-> 0, a |-> 0, b |-> 0, d |-> 0]

Alu(opcode, a, b) ==
  LET shift == 2 ^ (b % (2 * WordBits))
  IN CASE opcode = "OR" -> BitOr(a, b)
       [] opcode = "AND" -> BitAnd(a, b)
       [] opcode = "XOR" -> BitXor(a, b)
       [] opcode = "ADD" -> (a + b) % WordSize
       [] opcode = "SUB" -> (a - b) % WordSize
       [] opcode = "SHIFTL" -> (a * shift) % WordSize
       [] opcode = "SHIFTR" -> a \div shift
       [] opcode = "MULT" -> (a * b) % WordSize
       [] opcode = "NOTA" -> WordSize - 1 - a
       [] OTHER -> 0

\* An address with an offset, in the bits the address lines have.
Offset(base, k, negative) ==
  (IF negative THEN base - k ELSE base + k) % AddrSize

High(w) == w \div HalfSize
LowHalf(w) == w % HalfSize
=============================================================================
