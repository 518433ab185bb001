------------------------------- MODULE Timer -------------------------------
(***************************************************************************)
(* The CPU's stage sequencer, src/Verilog/modules/CPU/Timer.v.  Every      *)
(* instruction walks through fetch, getRegs, readMem and writeBack; the    *)
(* three stages that may use the bus wait for busy to be low.  The         *)
(* register changes at the rising edge of the clock.                       *)
(*                                                                         *)
(* The module has no variables: it is the next-state function, used by     *)
(* every module that contains the CPU.                                     *)
(***************************************************************************)

Stage == {"init", "fetch", "getRegs", "readMem", "writeBack"}

\* The stages in which Timer.v tests busy before it moves on.
BusStage == {"fetch", "readMem", "writeBack"}

StageAfter ==
  [init |-> "fetch", fetch |-> "getRegs", getRegs |-> "readMem",
   readMem |-> "writeBack", writeBack |-> "fetch"]

\* The value of the state register after a rising edge.
TimerStep(state, busy, reset) ==
  IF reset THEN "init"
  ELSE IF state \in BusStage /\ busy THEN state
  ELSE StageAfter[state]

============================================================================
