----------------------------- MODULE TimerAccess -----------------------------
(***************************************************************************)
(* The CPU, the memory unit and one of its timers.  The lines setValue and *)
(* trigger follow the CPU's write line, not start (MemoryUnit.v:405-415):  *)
(* a store holds them for as many edges as it takes.                       *)
(***************************************************************************)
EXTENDS CPUbus, MemoryUnit, Integers

CONSTANTS delay, Values   \* Values: what the program stores in the timer

ASSUME TimerAssumption == delay \in Nat /\ Values \subseteq Nat /\ Values # {}
\* What the program stores are numbers; words it could copy to the timer from
\* elsewhere are not modelled here.
ASSUME StoredAssumption == \A i \in Instr :
  /\ i.op = "WRITE" /\ i.to = "t_value" => i.d \in Values
  /\ i.op = "COPY" => i.to # "t_value"

VARIABLES
  clock, cpu_reset,
  state, counterValue, delayCounter, keepInterruptHighCounter, interrupt,
  asked, edges, direct    \* history: the value in force, the edges since the
                          \* trigger or since a later store of a value

Ot == INSTANCE OStimer

timer == <<state, counterValue, delayCounter, keepInterruptHighCounter, interrupt>>
history == <<asked, edges, direct>>
timervars == <<clock, cpu_reset, cpuvars, muvars, timer, history>>

TimerInit ==
  /\ clock = "low" /\ cpu_reset = FALSE
  /\ CpuInit /\ MuInit /\ Ot!OtInit
  /\ asked = 0 /\ edges = 0 /\ direct = TRUE

setValue == address = "t_value" /\ we
timerValue == data(q)
trigger == address = "t_trigger" /\ we
Region == IF address \in {"t_value", "t_trigger"} THEN "TIMER" ELSE "ROM"

TimerPos ==
  /\ clock = "low" /\ clock' = "high"
  /\ CpuPos(busy, cpu_reset)
  /\ cpu_reset' \in BOOLEAN
  /\ UNCHANGED <<muvars, timer, history>>

TimerDev == [ram_q |-> ZeroWord]

Counted ==
  CASE state' = "start" /\ state # "start" ->
         asked' = counterValue' /\ edges' = 0 /\ direct' = TRUE
    [] state = "start" /\ setValue ->
         asked' = timerValue /\ edges' = 0 /\ direct' = FALSE
    [] state = "start" /\ ~setValue ->
         /\ edges' = edges + 1
         /\ UNCHANGED <<asked, direct>>
    [] OTHER -> asked' = 0 /\ edges' = 0 /\ direct' = TRUE

TimerNeg ==
  /\ clock = "high" /\ clock' = "low"
  /\ MuNeg(cpu_reset, start, Region, we, data(q), TimerDev)
  /\ Ot!OtNeg(cpu_reset, setValue, timerValue, trigger)
  /\ Counted
  /\ UNCHANGED <<cpu_reset, cpuvars>>

TimerNext == TimerPos \/ TimerNeg

TimerSpec == TimerInit /\ [][TimerNext]_timervars
\* The clock does not stop.
TimerFairSpec == TimerSpec /\ WF_timervars(TimerNext)

-----------------------------------------------------------------------------
TimerTypeOK ==
  /\ clock \in {"low", "high"} /\ cpu_reset \in BOOLEAN
  /\ stage \in Stage /\ instr \in Instr /\ busy \in BOOLEAN
  /\ Ot!OtTypeOK({v \in 0 .. counterValue : \E w \in Values : v <= w})

\* OStimer.v:58-83.  The interrupt comes when it is due: value units of
\* delay + 1 edges after the trigger, and one more edge; after a store of the
\* value while the timer runs, within the unit before that.
OnTime ==
  [][~interrupt /\ interrupt' =>
       /\ edges' <= asked * (delay + 1) + 1
       /\ direct => edges' = asked * (delay + 1) + 1
       /\ edges' > (asked - 1) * (delay + 1) + 1]_timervars

\* OStimer.v:70-73,90-96.  Each time the timer expires the interrupt line rises
\* from low, so that the interrupt controller, which looks at edges only, sees
\* one interrupt for each: also when the program triggers it again in the pulse.
SeenOnce == [][state # "done" /\ state' = "done" => ~interrupt]_timervars

\* OStimer.v:43-111.  A triggered timer raises its interrupt unless a reset
\* comes or the program never stops storing new values.
Fires ==
  state = "start" ~> interrupt \/ cpu_reset \/ setValue

-----------------------------------------------------------------------------
(* An instance for TLC: three values, and the programs that store and      *)
(* trigger.                                                                *)

SmallNoInstr == [op |-> "OTHER", pc |-> "rom", from |-> "rom", to |-> "rom", d |-> 0]
SmallInstr ==
  {SmallNoInstr}
    \cup [op : {"WRITE"}, pc : {"rom"}, from : {"rom"}, to : {"t_value"}, d : Values]
    \cup [op : {"WRITE"}, pc : {"rom"}, from : {"rom"}, to : {"t_trigger"}, d : {0}]
SmallZeroWord == [hi |-> 0, lo |-> 0]
SmallValues == {0, 1, 3}
=============================================================================
