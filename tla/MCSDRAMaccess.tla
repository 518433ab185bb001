--------------------------- MODULE MCSDRAMaccess ---------------------------
(***************************************************************************)
(* Instances of SDRAMaccess for TLC: two rows, words whose halves differ,  *)
(* programs fetched from row 0.                                            *)
(***************************************************************************)
EXTENDS SDRAMaccess

MCRow == {0, 1}
MCCol == {0}
MCHalf == {0, 1}
MCZeroWord == [lo |-> 0, hi |-> 0]

Code == [row |-> 0, col |-> 0]
Data == [row |-> 1, col |-> 0]
i(op, from, to, d) == [op |-> op, pc |-> Code, from |-> from, to |-> to, d |-> d]
MCNoInstr == i("OTHER", Code, Code, MCZeroWord)
Written == [lo |-> 0, hi |-> 1]
MCInstr ==
  {MCNoInstr, i("READ", Data, Code, MCZeroWord), i("WRITE", Code, Data, Written),
   i("COPY", Data, Code, MCZeroWord), i("COPY", Code, Data, MCZeroWord)}
MCPowerUp == {[c \in MCRow \X MCCol |-> [lo |-> 1, hi |-> 0]]}
=============================================================================
