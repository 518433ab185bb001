------------------------------- MODULE OStimer -------------------------------
(***************************************************************************)
(* IO/OStimer.v: a one shot timer, at the falling edge of the clock.  A    *)
(* store of its value and a store to its trigger reach it as the lines     *)
(* setValue and trigger, which are high as long as the store is.           *)
(***************************************************************************)
EXTENDS Integers

CONSTANT delay   \* 24999 in the code: edges per unit of timerValue, less one

VARIABLES state, counterValue, delayCounter, keepInterruptHighCounter, interrupt

otvars == <<state, counterValue, delayCounter, keepInterruptHighCounter, interrupt>>

OtInit ==
  /\ state = "idle" /\ counterValue = 0 /\ delayCounter = 0
  /\ keepInterruptHighCounter = 0 /\ interrupt = FALSE

OtIdle(setValue, timerValue, trigger) ==
  /\ state = "idle"
  /\ IF trigger THEN state' = "start" /\ delayCounter' = delay
     ELSE UNCHANGED <<state, delayCounter>>
  /\ counterValue' = IF setValue THEN timerValue ELSE counterValue
  /\ UNCHANGED <<keepInterruptHighCounter, interrupt>>

\* A store of the value, here and below, takes the edge from the countdown.
OtSet(setValue, timerValue) ==
  /\ state \in {"start", "done"} /\ setValue
  /\ counterValue' = timerValue
  /\ UNCHANGED <<state, delayCounter, keepInterruptHighCounter, interrupt>>

OtCount_Underflow(setValue) ==
  /\ state = "start" /\ ~setValue /\ counterValue # 0
  /\ delayCounter' = delayCounter - 1
  /\ counterValue' = IF delayCounter = 0 THEN counterValue - 1 ELSE counterValue
  /\ UNCHANGED <<state, keepInterruptHighCounter, interrupt>>
OtCount(setValue) ==
  /\ state = "start" /\ ~setValue /\ counterValue # 0
  /\ IF delayCounter = 0
     THEN counterValue' = counterValue - 1 /\ delayCounter' = delay
     ELSE delayCounter' = delayCounter - 1 /\ UNCHANGED counterValue
  /\ UNCHANGED <<state, keepInterruptHighCounter, interrupt>>

OtExpire_Silent(setValue) ==
  /\ state = "start" /\ ~setValue /\ counterValue = 0
  /\ state' = "done" /\ keepInterruptHighCounter' = 0
  /\ UNCHANGED <<counterValue, delayCounter, interrupt>>
OtExpire(setValue) ==
  /\ state = "start" /\ ~setValue /\ counterValue = 0
  /\ state' = "done" /\ interrupt' = TRUE /\ keepInterruptHighCounter' = 0
  /\ UNCHANGED <<counterValue, delayCounter>>

\* A new trigger ends the pulse and starts over.
OtAgain_Held(setValue, trigger) ==
  /\ state = "done" /\ ~setValue /\ trigger
  /\ state' = "start" /\ delayCounter' = delay
  /\ UNCHANGED <<counterValue, keepInterruptHighCounter, interrupt>>
OtAgain_NoDelay(setValue, trigger) ==
  /\ state = "done" /\ ~setValue /\ trigger
  /\ state' = "start" /\ interrupt' = FALSE
  /\ UNCHANGED <<counterValue, delayCounter, keepInterruptHighCounter>>
OtAgain(setValue, trigger) ==
  /\ state = "done" /\ ~setValue /\ trigger
  /\ state' = "start" /\ delayCounter' = delay /\ interrupt' = FALSE
  /\ UNCHANGED <<counterValue, keepInterruptHighCounter>>

OtPulse(setValue, trigger) ==
  /\ state = "done" /\ ~setValue /\ ~trigger
  /\ IF keepInterruptHighCounter = 15
     THEN interrupt' = FALSE /\ state' = "idle" /\ UNCHANGED keepInterruptHighCounter
     ELSE /\ keepInterruptHighCounter' = keepInterruptHighCounter + 1
          /\ UNCHANGED <<interrupt, state>>
  /\ UNCHANGED <<counterValue, delayCounter>>

OtReset ==
  /\ state' = "idle" /\ counterValue' = 0 /\ delayCounter' = 0
  /\ keepInterruptHighCounter' = 0 /\ interrupt' = FALSE

OtNeg(reset, setValue, timerValue, trigger) ==
  \/ reset /\ OtReset
  \/ /\ ~reset
     /\ \/ OtIdle(setValue, timerValue, trigger)
        \/ OtSet(setValue, timerValue)
        \/ OtCount(setValue)
        \/ OtExpire(setValue)
        \/ OtAgain(setValue, trigger)
        \/ OtPulse(setValue, trigger)

OtTypeOK(Value) ==
  /\ state \in {"idle", "start", "done"} /\ counterValue \in Value
  /\ delayCounter \in 0 .. delay /\ keepInterruptHighCounter \in 0 .. 15
  /\ interrupt \in BOOLEAN
=============================================================================
