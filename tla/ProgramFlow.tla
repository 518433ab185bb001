----------------------------- MODULE ProgramFlow -----------------------------
(***************************************************************************)
(* What the interrupt controller promises the interrupted program: apart   *)
(* from resets it runs its instructions one after the other, each from the *)
(* address the one before it chose, whatever handlers ran in between.      *)
(***************************************************************************)
CONSTANTS
  Start,  \* where a reset sends the program
  Step    \* <<a, b>> \in Step: an instruction at a can continue at b

VARIABLES
  at,        \* address of the program's next instruction
  handling,  \* a handler is running
  down       \* the reset line is high

vars == <<at, handling, down>>

Init == at = Start /\ handling = FALSE /\ down = FALSE

\* One instruction of the program; a handler may start after it.
Execute ==
  /\ ~down /\ ~handling
  /\ <<at, at'>> \in Step
  /\ handling' \in BOOLEAN
  /\ UNCHANGED down

\* The handler ends, and the program is where it was.
Resume ==
  /\ ~down /\ handling
  /\ ~handling'
  /\ UNCHANGED <<at, down>>

\* The reset line goes high or low.
Reset ==
  /\ (down /\ ~down') \/ (~down /\ down')
  /\ at' = Start /\ ~handling'

Next == Execute \/ Resume \/ Reset

Spec == Init /\ [][Next]_vars
=============================================================================
