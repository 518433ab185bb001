----------------------------- MODULE MCIOaccess -----------------------------
(***************************************************************************)
(* Instances of IOaccess for TLC: short bytes, one cell of video           *)
(* memory, and programs that store to, load from and copy between the      *)
(* devices.                                                                *)
(***************************************************************************)
EXTENDS IOaccess

Byte(b1, b0) == [n \in 0 .. Bits - 1 |-> IF n = 0 THEN b0 ELSE b1]
MCZeroWord == [hi |-> Byte(0, 0), lo |-> Byte(0, 0)]
MCReplies == {Byte(0, 1), Byte(1, 1)}
MCCells == {0}

At(r) == [r |-> r, cell |-> 0]
i(op, from, to, d) ==
  [op |-> op, pc |-> At("ROM"), from |-> At(from), to |-> At(to), d |-> d]
MCNoInstr == i("OTHER", "ROM", "ROM", MCZeroWord)
A == [hi |-> Byte(0, 1), lo |-> Byte(1, 0)]
B == [hi |-> Byte(1, 0), lo |-> Byte(0, 1)]

Store(r, d) == i("WRITE", "ROM", r, d)
Load(r) == i("READ", r, "ROM", MCZeroWord)
Copy(from, to) == i("COPY", from, to, MCZeroWord)

MCInstr ==
  {MCNoInstr, Store("SPI", A), Load("SPI"), Copy("VRAM", "SPI"),
   Store("UART_TX", A), Copy("VRAM", "UART_TX"), Store("VRAM", A), Store("VRAM", B),
   Load("VRAM"), Copy("GPIO", "VRAM"), Store("GPIO", B), Store("TIMER", A),
   Store("NOTHING", A)}
MCLoads == {MCNoInstr, Load("UART_TX"), Load("SPI")}
=============================================================================
