---------------------------- MODULE MCFlashAccess ----------------------------
(***************************************************************************)
(* An instance of FlashAccess for TLC: two words of flash, different in    *)
(* every nibble, and a program in ROM that reads them and takes the flash  *)
(* over with SPI3.                                                         *)
(***************************************************************************)
EXTENDS FlashAccess

MCContent(k) == k % 16
None == [b \in 0 .. 3 |-> 0]
MCZeroWord == [hi |-> None, lo |-> None]
On == [MCZeroWord EXCEPT !.lo[0] = 1]
Deselected == [MCZeroWord EXCEPT !.hi[2] = 1]

At(r, c) == [r |-> r, cell |-> c]
i(op, from, to, d) ==
  [op |-> op, pc |-> At("ROM", 0), from |-> from, to |-> to, d |-> d]
Rom == At("ROM", 0)
MCNoInstr == i("OTHER", Rom, Rom, MCZeroWord)
Load(c) == i("READ", At("FLASH", c), Rom, MCZeroWord)
Store(r, d) == i("WRITE", Rom, At(r, 0), d)
MCInstr ==
  {MCNoInstr, Load(0), Load(1), Store("SPI3_ENABLE", On),
   Store("SPI3_ENABLE", MCZeroWord), Store("SPI", MCZeroWord),
   Store("GPIO", Deselected), Store("GPIO", MCZeroWord)}
=============================================================================
