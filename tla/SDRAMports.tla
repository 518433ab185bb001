----------------------------- MODULE SDRAMports -----------------------------
(***************************************************************************)
(* What the SDRAM controller and the chip have between them: addresses,    *)
(* halves of words on the data pins, and commands.                         *)
(***************************************************************************)
EXTENDS Integers

CONSTANTS Row, Col, Half   \* rows, columns, values of 16 data pins

ASSUME AddressAssumption == Row \subseteq Nat /\ Col \subseteq Nat
ASSUME HalfAssumption == 0 \in Half /\ Half \subseteq Nat

Z == -1   \* what pins that nothing drives are read as
Pins == Half \cup {Z}
Word == [lo : Half, hi : Half]
PinWord == [lo : Pins, hi : Pins]
Zero == [lo |-> 0, hi |-> 0]

Address == [row : Row, col : Col]

Command == {"UNSELECTED", "NOP", "ACTIVE", "READ", "WRITE", "PRECHARGE",
            "REFRESH", "LOADMODE"}
=============================================================================
