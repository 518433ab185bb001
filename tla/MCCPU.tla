-------------------------------- MODULE MCCPU --------------------------------
(***************************************************************************)
(* Instances of CPU for TLC: words of four bits, eight addresses, two      *)
(* registers and the constant one, an interrupt line, a stack of two       *)
(* words, programs of a few instructions of every kind.                    *)
(***************************************************************************)
EXTENDS CPU, Bitwise

MCOr(a, b) == a | b
MCAnd(a, b) == a & b
MCXor(a, b) == a ^^ b

i(op, n, a, b, d) ==
  [op |-> op, alu |-> "ADD", ce |-> FALSE, k |-> n, a |-> a, b |-> b, d |-> d]
alu(opcode, a, b, d) == [i("ARITH", 0, a, b, d) EXCEPT !.alu = opcode]

Shift == alu("SHIFTL", 2, 1, 2)
LoadHigh == i("LOAD", 1, 1, 0, 2)
ReadUp == i("READ", 1, 1, 0, 2)
ReadIntId == i("READ", 0, 0, 1, 1)
WriteDown == i("WRITE", 1, 2, 1, 1)
CopyUp == i("COPY", 1, 1, 2, 0)
CopyDown == i("COPY", 1, 2, 1, 1)
Push1 == i("PUSH", 0, 0, 1, 0)
Push2 == i("PUSH", 0, 0, 2, 0)
Pop1 == i("POP", 0, 0, 0, 1)
Reti == i("RETI", 0, 0, 0, 0)
Back == i("JUMP", 7, 0, 0, 1)

Every ==
  {NoInstr, alu("SUB", 1, 2, 1), Shift, [i("ARITH", 3, 1, 0, 2) EXCEPT !.ce = TRUE],
   i("LOAD", 2, 0, 0, 1), LoadHigh, i("SAVPC", 0, 0, 0, 2),
   ReadUp, i("READ", 2, 2, 2, 2), ReadIntId,
   i("WRITE", 2, 1, 2, 0), WriteDown, CopyUp, CopyDown, Push1, Push2, Pop1,
   i("JUMP", 3, 0, 0, 0), Back, i("JUMPR", 2, 0, 1, 1), i("JUMPR", 1, 0, 2, 0),
   i("BEQ", 5, 1, 2, 0), i("BNE", 5, 1, 2, 0), i("BGT", 3, 1, 2, 0),
   i("BGE", 3, 2, 1, 0), i("HALT", 0, 0, 0, 0), Reti}
MCMenu ==
  <<Every,
    {Push1, Pop1, LoadHigh, WriteDown, CopyUp, Back, ReadIntId, i("BGT", 3, 1, 2, 0)},
    {Push2, Pop1, Reti, ReadUp, CopyDown, ReadIntId},
    {Pop1, Reti, Shift}>>
MCCopyMenu == <<{NoInstr}, {CopyUp}>>
MCLeftRegs == {[r \in 0 .. 2 |-> <<0, 6, 13>>[r + 1]]}
MCLeftMem == {[c \in 0 .. 7 |-> c + 8]}
MCWired == {5}
=============================================================================
