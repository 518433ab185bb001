----------------------------- MODULE SDRAM_proofs -----------------------------
(***************************************************************************)
(* Proofs about SDRAM: the chip accepts every command that reaches it, for *)
(* every refresh period, every counter width the assumptions allow and     *)
(* every admissible set of delays, with any requester and resets at any    *)
(* time, until one of them costs it a command it cannot do without.  In    *)
(* the second part the requester is the CPU through the memory unit, the   *)
(* resets are those that cost nothing, and the whole is an atomic memory.  *)
(***************************************************************************)
EXTENDS SDRAMaccess, TLAPS

-----------------------------------------------------------------------------
(* The inductive invariant.  Controller and chip step in turn, so what     *)
(* holds when the clock is high holds, when it is low, of what the chip is *)
(* about to become.                                                        *)

\* How many clocks ago the chip took its last command of kind k, at least,
\* when the controller is about to leave state s of the operating states ...
OperatingAge(s, k) ==
  CASE k = "ACTIVE" ->
         (CASE s = "open_in_2" -> 1 [] s = "open_in_1" -> 2
            [] s \in {"write_1", "read_1"} -> 3
            [] s \in {"write_2", "read_2"} -> 4
            [] s \in {"write_3", "read_3"} -> 5
            [] s \in {"precharge", "read_4", "read_precharge"} -> 6
            [] s = "idle_in_2" -> 8 [] s = "idle_in_1" -> 9 [] s = "idle" -> 10
            [] OTHER -> 7)
    [] k = "PRECHARGE" ->
         (CASE s = "idle_in_2" -> 2 [] s = "idle_in_1" -> 3 [] s = "idle" -> 4
            [] s \in {"idle_in_6", "idle_in_5", "idle_in_4", "idle_in_3"} -> 1
            [] OTHER -> 0)
    [] k = "REFRESH" ->
         (CASE s = "idle_in_6" -> 1 [] s = "idle_in_5" -> 2
            [] s = "idle_in_4" -> 3 [] s = "idle_in_3" -> 4
            [] s = "idle_in_2" -> 5 [] s = "idle_in_1" -> 6 [] OTHER -> 7)
    [] k = "DATAIN" -> (IF s \in {"write_2", "write_3"} THEN 1 ELSE 2)
    [] OTHER -> 2

\* ... and when it is initialising, with InitCounter at c.
InitAge(c, k) ==
  CASE c >= 37 -> 0
    [] c < 37 /\ k = "PRECHARGE" ->
         (CASE c <= 10 -> 0 [] c \in 11 .. 20 -> c - 10 [] OTHER -> 11)
    [] c < 37 /\ k = "REFRESH" ->
         (CASE c <= 10 -> c + 1 [] c \in 11 .. 15 -> 11 [] c \in 16 .. 25 -> c - 15
            [] OTHER -> c - 25)
    [] c < 37 /\ k = "LOADMODE" ->
         (CASE c <= 10 -> c + 1 [] c \in 11 .. 35 -> 11 [] OTHER -> 1)
    [] OTHER -> (IF c <= 10 THEN c + 1 ELSE 11)

Age(s, c, k) == IF s = "init" THEN InitAge(c, k) ELSE OperatingAge(s, k)

\* While the clock is low the clock at hand is still to come.  The delay after
\* LOADMODE counts the chip's own clocks: none comes while it sleeps, but it
\* has had one more than the controller, and owes none when it wakes.
Pending(k) ==
  CASE k # "LOADMODE" -> (IF clk = "low" THEN 1 ELSE 0)
    [] k = "LOADMODE" /\ SDRAM_CKE -> (IF clk = "low" /\ CkeZ THEN 1 ELSE 0)
    [] k = "LOADMODE" /\ ~SDRAM_CKE -> (IF clk = "low" /\ CkeZ THEN 0 ELSE -1)
AgesHold ==
  \A k \in Timed : since[k] >= Age(state, InitCounter, k) - Pending(k)

\* The row and the mode register, once the chip has taken the command at hand,
\* if it takes it.
OpenNext ==
  IF clk = "high" \/ ~CkeZ THEN openRow
  ELSE CASE SDRAM_CMD = "ACTIVE" /\ openRow = NoRow -> SDRAM_A
         [] SDRAM_CMD = "PRECHARGE" /\ A10 -> NoRow
         [] OTHER -> openRow
LoadedNext == loaded \/ (clk = "low" /\ CkeZ /\ SDRAM_CMD = "LOADMODE")
LostNext == lost \/ (clk = "low" /\ ~CkeZ /\ Needed)

Accessing ==
  {"open_in_2", "open_in_1", "write_1", "write_2", "write_3", "precharge",
   "read_1", "read_2", "read_3", "read_4", "read_precharge"}

RowHolds ==
  /\ state \in Accessing => OpenNext # NoRow
  /\ state # "init" => InitCounter = 37
  /\ ~LostNext =>
       /\ state \notin Accessing \cup {"init"} => OpenNext = NoRow
       /\ state = "init" /\ InitCounter \in 11 .. 36 => OpenNext = NoRow
       /\ state # "init" \/ InitCounter = 36 => LoadedNext

\* The command on the pins while the clock is low.
CommandHolds ==
  clk = "low" =>
    /\ SDRAM_CMD = "ACTIVE" => state = "open_in_2" /\ SDRAM_A \in Row
    /\ SDRAM_CMD = "WRITE" => state = "write_2" /\ SDRAM_A \in Col
    /\ SDRAM_CMD = "READ" => state = "read_2" /\ SDRAM_A \in Col
    /\ SDRAM_CMD = "PRECHARGE" =>
         state = "idle_in_3" \/ (state = "init" /\ InitCounter = 11)
    /\ SDRAM_CMD = "REFRESH" =>
         state = "idle_in_6" \/ (state = "init" /\ InitCounter \in {16, 26})
    /\ SDRAM_CMD = "LOADMODE" => state = "init" /\ InitCounter = 36

\* The command stays on the pins in the states that do not write it.
CommandKept ==
  state \in {"open_in_1", "write_3", "read_3", "read_4",
            "idle_in_5", "idle_in_4", "idle_in_2", "idle_in_1"}
    => SDRAM_CMD = "NOP"

BurstHolds ==
  burst.kind = "write_hi" =>
    IF clk = "high" THEN state = "write_2"
    ELSE state = "write_3" \/ (state = "init" /\ InitCounter = 37)

\* The chip sleeps in a reset and at the first edge after it, no longer.
CkeHolds ==
  /\ state # "init" => SDRAM_CKE
  /\ clk = "high" => (CkeZ <=> SDRAM_CKE)
  /\ clk = "low" =>
       /\ state \notin {"init", "idle"} \/ burst.kind = "write_hi" => CkeZ
       /\ SDRAM_CMD = "LOADMODE" => SDRAM_CKE

IInv ==
  /\ TypeOK /\ AgesHold /\ RowHolds /\ CommandHolds /\ CommandKept /\ BurstHolds
  /\ CkeHolds /\ LegalCommands

-----------------------------------------------------------------------------
(* Facts about the ages.                                                   *)

LEMMA AgeNat ==
  ASSUME NEW s \in State, NEW c \in 0 .. InitWrap - 1, NEW k \in Timed
  PROVE  Age(s, c, k) \in 0 .. 11
<1>1. c \in Int
  BY CounterAssumption
<1>2. InitAge(c, k) \in 0 .. 11
  BY <1>1 DEF InitAge
<1>3. OperatingAge(s, k) \in 0 .. 11
  BY DEF OperatingAge
<1> QED BY <1>2, <1>3 DEF Age

\* A command that has just been issued needs no more age than it gets.
LEMMA IssuedAge ==
  ASSUME TypeOK, CommandHolds, BurstHolds, clk = "low", NEW k \in Timed,
         Restarts(SDRAM_CMD, SDRAM_DQM, k)
  PROVE  Age(state, InitCounter, k) <= 1
<1>1. CASE k = SDRAM_CMD
  <2>1. CASE k = "ACTIVE"
    BY <1>1, <2>1 DEF CommandHolds, Age, OperatingAge
  <2>2. CASE k = "PRECHARGE"
    BY <1>1, <2>2 DEF CommandHolds, Age, OperatingAge, InitAge
  <2>3. CASE k = "REFRESH"
    <3>1. CASE state = "idle_in_6"
      BY <2>3, <3>1 DEF Age, OperatingAge
    <3>2. CASE state = "init" /\ InitCounter = 16
      BY <2>3, <3>2 DEF Age, InitAge
    <3>3. CASE state = "init" /\ InitCounter = 26
      BY <2>3, <3>3 DEF Age, InitAge
    <3> QED BY <1>1, <2>3, <3>1, <3>2, <3>3 DEF CommandHolds
  <2>4. CASE k = "LOADMODE"
    BY <1>1, <2>4 DEF CommandHolds, Age, InitAge
  <2>5. CASE k = "DATAIN"
    BY <1>1, <2>5 DEF TypeOK, SdTypeOK, Command
  <2> QED BY <2>1, <2>2, <2>3, <2>4, <2>5 DEF Timed
<1>2. CASE k = "DATAIN" /\ SDRAM_CMD = "WRITE"
  BY <1>2 DEF CommandHolds, Age, OperatingAge
<1>3. CASE k = "DATAIN" /\ burst.kind = "write_hi"
  <2>1. state = "write_3" \/ (state = "init" /\ InitCounter = 37)
    BY <1>3 DEF BurstHolds
  <2> QED BY <1>3, <2>1 DEF Age, OperatingAge, InitAge
<1> QED BY <1>1, <1>2, <1>3 DEF Restarts

\* A falling edge may ask for one clock more than the state before it had, a
\* reset for none.
NegAged ==
  \A k \in Timed :
    /\ Age(state', InitCounter', k) <= Age(state, InitCounter, k) + 1
    /\ SDRAM_CKE' \/ Age(state', InitCounter', k) <= Age(state, InitCounter, k)

LEMMA NegAges ==
  ASSUME TypeOK, AgesHold, CkeHolds, clk = "high", clk' = "low",
         since' = since, CkeZ' = CkeZ, SDRAM_CKE' \in BOOLEAN,
         state' \in State, InitCounter' \in 0 .. InitWrap - 1, NegAged
  PROVE  AgesHold'
<1> SUFFICES ASSUME NEW k \in Timed
             PROVE  since'[k] >= Age(state', InitCounter', k) - Pending(k)'
  BY DEF AgesHold, Age, InitAge, OperatingAge
<1> DEFINE a == Age(state, InitCounter, k)
           b == Age(state', InitCounter', k)
<1>1. since[k] >= a - Pending(k) /\ since[k] \in Int
  BY DEF AgesHold, TypeOK, ChipTypeOK
<1>2. a \in Int /\ b \in Int
  BY AgeNat DEF TypeOK, SdTypeOK
<1>3. b <= a + 1 /\ (SDRAM_CKE' \/ b <= a)
  BY DEF NegAged
<1> HIDE DEF a, b
<1>4. CASE k # "LOADMODE"
  BY <1>1, <1>2, <1>3, <1>4 DEF Pending, b
<1>5. CASE k = "LOADMODE"
  BY <1>1, <1>2, <1>3, <1>5 DEF Pending, CkeHolds, TypeOK, SdTypeOK, ChipTypeOK, b
<1> QED BY <1>4, <1>5

-----------------------------------------------------------------------------
(* The rising edge: the chip takes the command.                            *)

LEMMA PosFacts ==
  ASSUME PosEdge
  PROVE  /\ clk = "low" /\ clk' = "high" /\ CkeZ' = SDRAM_CKE
         /\ SdPos(reset)
         /\ state' = state /\ SDRAM_CMD' = SDRAM_CMD /\ SDRAM_CKE' = SDRAM_CKE
         /\ InitCounter' = InitCounter /\ SDRAM_A' = SDRAM_A /\ A10' = A10
         /\ CkeZ => Takes(SDRAM_DQM, SDRAM_CMD, SDRAM_A, A10, Driven)
         /\ ~CkeZ => Sleeps
         /\ lost' = (lost \/ (~CkeZ /\ Needed))
BY DEF PosEdge, SdPos, ChipPos

LEMMA PosType == ASSUME IInv, PosEdge PROVE TypeOK'
<1>0. /\ SdTypeOK /\ ChipTypeOK /\ SdPos(reset)
      /\ CkeZ => Takes(SDRAM_DQM, SDRAM_CMD, SDRAM_A, A10, Driven)
      /\ ~CkeZ => Sleeps
      /\ SDRAM_CMD = "ACTIVE" => SDRAM_A \in Row
      /\ SDRAM_CMD \in {"READ", "WRITE"} => SDRAM_A \in Col
  BY PosFacts DEF IInv, TypeOK, CommandHolds
<1>1. SdTypeOK'
  BY <1>0 DEF SdTypeOK, SdPos
<1>2. openRow' \in Row \cup {NoRow} /\ loaded' \in BOOLEAN
  BY <1>0 DEF ChipTypeOK, Takes, Sleeps
<1>3. since' \in [Timed -> 1 .. SinceMax]
  <2>1. \A k \in Timed : Older(k) \in 1 .. SinceMax /\ since[k] \in 1 .. SinceMax
    BY <1>0, SinceAssumption DEF ChipTypeOK, Older
  <2> QED BY <1>0, <2>1, SinceAssumption DEF Takes, Sleeps, Ages
<1>4. burst' \in Bursts
  BY <1>0 DEF ChipTypeOK, Takes, Sleeps, BurstStep, Bursts, Idle
<1>5. Driven \in Pins
  BY <1>0 DEF SdTypeOK, Driven, Pins
<1>6. mem' \in [Row \X Col -> PinWord]
  <2>1. CASE CkeZ
    <3>1. mem' = StoredHalf(SDRAM_CMD, SDRAM_DQM, SDRAM_A, Driven)
      BY <1>0, <2>1 DEF Takes
    <3>2. CASE SDRAM_DQM
      BY <1>0, <3>1, <3>2 DEF ChipTypeOK, StoredHalf
    <3>3. CASE ~SDRAM_DQM
      BY <1>0, <1>5, <3>1, <3>3 DEF ChipTypeOK, StoredHalf, Bursts, Idle, PinWord
    <3> QED BY <3>2, <3>3
  <2>2. CASE ~CkeZ
    BY <1>0, <2>2 DEF ChipTypeOK, Sleeps
  <2> QED BY <2>1, <2>2
<1>7. dq' \in Pins
  BY <1>0 DEF ChipTypeOK, Takes, Sleeps, Bursts, Idle, PinWord, Pins
<1>8. CkeZ' \in BOOLEAN
  BY <1>0, PosFacts DEF SdTypeOK
<1>9. /\ clk' \in {"low", "high"} /\ reset' \in BOOLEAN /\ gap' \in 0 .. GapMax
      /\ lost' \in BOOLEAN
  BY DEF IInv, TypeOK, PosEdge
<1> QED BY <1>1, <1>2, <1>3, <1>4, <1>6, <1>7, <1>8, <1>9 DEF TypeOK, ChipTypeOK

LEMMA PosIInv == ASSUME IInv, PosEdge PROVE IInv'
<1>1. TypeOK'
  BY PosType
<1>2. AgesHold'
  <2> SUFFICES ASSUME NEW k \in Timed
               PROVE  since'[k] >= Age(state, InitCounter, k) - Pending(k)'
    BY PosFacts DEF AgesHold, Age, InitAge, OperatingAge
  <2> DEFINE a == Age(state, InitCounter, k)
  <2>1. /\ since[k] >= a - Pending(k)
        /\ since[k] \in 1 .. SinceMax
        /\ a \in 0 .. 11
        /\ CkeZ \in BOOLEAN /\ SDRAM_CKE \in BOOLEAN
    BY AgeNat DEF IInv, AgesHold, TypeOK, SdTypeOK, ChipTypeOK
  <2>2. CASE CkeZ /\ Restarts(SDRAM_CMD, SDRAM_DQM, k)
    <3>1. a <= 1
      BY <2>2, PosFacts, IssuedAge DEF IInv
    <3>2. since'[k] = 1
      BY <2>2, PosFacts DEF Takes, Ages
    <3>3. Pending(k)' = 0
      BY <2>2, PosFacts DEF Pending, Restarts, IInv, CkeHolds
    <3> HIDE DEF a
    <3> QED BY <2>1, <3>1, <3>2, <3>3 DEF a
  <2>3. CASE CkeZ /\ ~Restarts(SDRAM_CMD, SDRAM_DQM, k)
    <3>1. since'[k] = IF since[k] < SinceMax THEN since[k] + 1 ELSE since[k]
      BY <2>3, PosFacts DEF Takes, Ages, Older
    <3>2. Pending(k)' \in {0, -1} /\ Pending(k)' = Pending(k) - 1
      BY <2>1, <2>3, PosFacts DEF Pending
    <3> HIDE DEF a
    <3> QED BY <2>1, <3>1, <3>2, SinceAssumption DEF a
  <2>4. CASE ~CkeZ
    <3>1. since'[k] = IF k = "LOADMODE" THEN since[k]
                      ELSE IF since[k] < SinceMax THEN since[k] + 1 ELSE since[k]
      BY <2>4, PosFacts DEF Sleeps, Older
    <3>2. /\ k # "LOADMODE" => Pending(k) = 1 /\ Pending(k)' = 0
          /\ k = "LOADMODE" => Pending(k)' = Pending(k) /\ Pending(k) \in {0, -1}
      BY <2>1, <2>4, PosFacts DEF Pending
    <3> HIDE DEF a
    <3> QED BY <2>1, <3>1, <3>2, SinceAssumption DEF a
  <2> QED BY <2>2, <2>3, <2>4
<1>3. RowHolds'
  <2>1. OpenNext' = OpenNext /\ LoadedNext' = LoadedNext /\ LostNext' = LostNext
    <3>1. OpenNext' = openRow' /\ LoadedNext' = loaded' /\ LostNext' = lost'
      BY <1>1, PosFacts DEF OpenNext, LoadedNext, LostNext, TypeOK, ChipTypeOK
    <3>2. openRow' = OpenNext /\ loaded' = LoadedNext
      BY PosFacts DEF OpenNext, LoadedNext, Takes, Sleeps, IInv, TypeOK, ChipTypeOK
    <3> QED BY <3>1, <3>2, PosFacts DEF LostNext
  <2> QED BY <2>1, PosFacts DEF IInv, RowHolds
<1>4. CommandHolds' /\ LegalCommands'
  BY PosFacts DEF CommandHolds, LegalCommands
<1>5. CommandKept'
  BY PosFacts DEF IInv, CommandKept
<1>6. BurstHolds'
  <2>1. ~CkeZ => burst' = burst /\ burst.kind # "write_hi"
    BY PosFacts DEF IInv, CkeHolds, Sleeps
  <2>3. CkeZ => burst' = BurstStep(SDRAM_CMD, SDRAM_A)
    BY PosFacts DEF Takes
  <2>4. BurstStep(SDRAM_CMD, SDRAM_A).kind = "write_hi" => SDRAM_CMD = "WRITE"
    BY DEF IInv, TypeOK, ChipTypeOK, BurstStep, Bursts, Idle
  <2>2. burst'.kind = "write_hi" => SDRAM_CMD = "WRITE"
    BY <2>1, <2>3, <2>4
  <2> QED BY <2>2, PosFacts DEF IInv, BurstHolds, CommandHolds
<1>7. CkeHolds'
  BY PosFacts DEF IInv, CkeHolds
<1> QED BY <1>1, <1>2, <1>3, <1>4, <1>5, <1>6, <1>7 DEF IInv

-----------------------------------------------------------------------------
(* The falling edge: the controller issues the next command.  What each    *)
(* action has to establish.                                                *)

NegTyped == SdTypeOK'
NegControl == RowHolds' /\ CommandHolds' /\ CommandKept' /\ BurstHolds' /\ CkeHolds'
NegLegal == CkeZ /\ ~lost' => Accepts(SDRAM_CMD', A10')
NegGoal == NegTyped /\ NegAged /\ NegControl /\ NegLegal

\* Everything the actions have in common, and what the invariant says of the
\* chip when the clock is high.
Common ==
  /\ IInv /\ clk = "high" /\ clk' = "low"
  /\ q_ready_delay' = q_ready_delay
  /\ openRow' = openRow /\ loaded' = loaded /\ since' = since /\ burst' = burst
  /\ CkeZ' = CkeZ /\ lost' = (lost /\ InitCounter' # 0)

LEMMA CommonFacts ==
  ASSUME Common
  PROVE  /\ SdTypeOK
         /\ RowHolds /\ CommandKept /\ BurstHolds
         /\ OpenNext = openRow /\ (LoadedNext <=> loaded) /\ (LostNext <=> lost)
         /\ (CkeZ <=> SDRAM_CKE) /\ (state # "init" => SDRAM_CKE)
         /\ \A k \in Timed : since[k] >= Age(state, InitCounter, k)
         /\ \A k \in Timed : since[k] \in Nat
<1>1. SdTypeOK /\ RowHolds /\ CommandKept /\ BurstHolds
  BY DEF Common, IInv, TypeOK
<1>2. OpenNext = openRow /\ (LoadedNext <=> loaded) /\ (LostNext <=> lost)
  BY DEF Common, OpenNext, LoadedNext, LostNext
<1>5. (CkeZ <=> SDRAM_CKE) /\ (state # "init" => SDRAM_CKE)
  BY DEF Common, IInv, CkeHolds
<1>3. ASSUME NEW k \in Timed PROVE since[k] >= Age(state, InitCounter, k)
  <2>1. since[k] >= Age(state, InitCounter, k) - Pending(k) /\ since[k] \in Int
    BY SinceAssumption DEF Common, IInv, AgesHold, TypeOK, ChipTypeOK
  <2>2. Pending(k) \in {0, -1}
    BY DEF Common, IInv, CkeHolds, Pending
  <2>3. Age(state, InitCounter, k) \in Int
    BY AgeNat, <1>1 DEF SdTypeOK
  <2> QED BY <2>1, <2>2, <2>3
<1>4. \A k \in Timed : since[k] \in Nat
  BY SinceAssumption DEF Common, IInv, TypeOK, ChipTypeOK
<1> QED BY <1>1, <1>2, <1>3, <1>4, <1>5

LEMMA CountTyped ==
  ASSUME SdTypeOK, Count
  PROVE  startup_refresh_count' \in 0 .. CountWrap - 1
BY CounterAssumption DEF SdTypeOK, Count

\* In operation the chip is awake, and a falling edge has to say what the
\* command does to the row.
LEMMA Awake ==
  ASSUME Common, state # "init", state' # "init",
         SDRAM_CKE' = SDRAM_CKE, InitCounter' = InitCounter
  PROVE  /\ CkeZ /\ CkeZ' /\ SDRAM_CKE' /\ InitCounter = 37 /\ InitCounter' = 37
         /\ (lost' <=> lost) /\ (LostNext' <=> lost)
         /\ ~lost => loaded /\ LoadedNext'
         /\ OpenNext' = CASE SDRAM_CMD' = "ACTIVE" /\ openRow = NoRow -> SDRAM_A'
                           [] SDRAM_CMD' = "PRECHARGE" /\ A10' -> NoRow
                           [] OTHER -> openRow
         /\ ~lost /\ state \notin Accessing => openRow = NoRow
         /\ state \in Accessing => openRow # NoRow
<1>1. CkeZ /\ SDRAM_CKE /\ InitCounter = 37 /\ CkeZ' = CkeZ /\ clk' = "low"
  BY CommonFacts DEF Common, RowHolds
<1>2. CkeZ' /\ SDRAM_CKE' /\ InitCounter' = 37
  BY <1>1
<1>3. (lost' <=> lost) /\ (LostNext' <=> lost)
  <2>1. lost' = (lost /\ InitCounter' # 0) /\ InitCounter' # 0
    BY <1>2 DEF Common
  <2>2. lost' <=> lost
    BY <2>1, Zenon
  <2>3. LostNext' <=> lost'
    BY <1>2 DEF LostNext
  <2> QED BY <2>2, <2>3
<1>4. OpenNext' = CASE SDRAM_CMD' = "ACTIVE" /\ openRow = NoRow -> SDRAM_A'
                    [] SDRAM_CMD' = "PRECHARGE" /\ A10' -> NoRow
                    [] OTHER -> openRow
  BY <1>1, <1>2 DEF Common, OpenNext
<1>5. ~lost => loaded /\ LoadedNext'
  BY CommonFacts DEF Common, RowHolds, LoadedNext
<1>6. /\ ~lost /\ state \notin Accessing => openRow = NoRow
      /\ state \in Accessing => openRow # NoRow
  BY CommonFacts DEF RowHolds
<1> QED BY <1>1, <1>2, <1>3, <1>4, <1>5, <1>6

LEMMA AwakeHolds ==
  ASSUME Common, state # "init", state' # "init",
         SDRAM_CKE' = SDRAM_CKE, InitCounter' = InitCounter,
         state' \in Accessing => OpenNext' # NoRow,
         ~lost /\ state' \notin Accessing => OpenNext' = NoRow,
         SDRAM_CMD' # "LOADMODE"
  PROVE  RowHolds' /\ CkeHolds'
<1>1. RowHolds'
  BY Awake DEF RowHolds
<1>2. CkeHolds'
  BY Awake DEF CkeHolds, Common
<1> QED BY <1>1, <1>2

LEMMA ResetGoal == ASSUME Common, ResetRegs PROVE NegGoal
<1>1. NegTyped
  <2>1. state' \in State /\ SDRAM_CMD' \in Command /\ sd_q' \in PinWord
    BY HalfAssumption DEF ResetRegs, State, Command, PinWord, Pins, Zero
  <2>2. /\ SDRAM_A' \in Nat /\ WrData' \in Half
        /\ startup_refresh_count' \in 0 .. CountWrap - 1
        /\ InitCounter' \in 0 .. InitWrap - 1
    BY CommonFacts, HalfAssumption, CounterAssumption DEF ResetRegs, SdTypeOK
  <2>3. /\ A10' \in BOOLEAN /\ SDRAM_CKE' \in BOOLEAN /\ SDRAM_DQ_OE' \in BOOLEAN
        /\ q_ready' \in BOOLEAN /\ q_ready_delay' \in BOOLEAN
    BY CommonFacts, Zenon DEF ResetRegs, Common, SdTypeOK
  <2> QED BY <2>1, <2>2, <2>3 DEF NegTyped, SdTypeOK
<1>2. NegAged
  <2> SUFFICES ASSUME NEW k \in Timed
               PROVE  /\ Age("init", InitCounter, k) <= Age(state, InitCounter, k)
                      /\ Age(state, InitCounter, k) \in Int
    <3>1. state' = "init" /\ InitCounter' = InitCounter
      BY DEF ResetRegs
    <3>2. \A k \in Timed : Age("init", InitCounter, k) \in Int
      BY CommonFacts, AgeNat DEF SdTypeOK, State
    <3> QED BY <3>1, <3>2 DEF NegAged
  <2>1. CASE state = "init"
    <3>1. Age(state, InitCounter, k) \in Int
      BY CommonFacts, AgeNat DEF SdTypeOK
    <3> QED BY <2>1, <3>1
  <2>2. CASE state # "init"
    <3>1. InitCounter = 37
      BY <2>2, CommonFacts DEF RowHolds
    <3>2. Age("init", InitCounter, k) = 0
      BY <3>1 DEF Age, InitAge
    <3>3. Age(state, InitCounter, k) \in 0 .. 11
      BY CommonFacts, AgeNat DEF SdTypeOK
    <3> QED BY <3>2, <3>3
  <2> QED BY <2>1, <2>2
<1>3. NegControl
  <2>1. RowHolds'
    <3>1. /\ state' = "init" /\ InitCounter' = InitCounter /\ OpenNext' = openRow
          /\ LoadedNext' <=> loaded
          /\ ~LostNext' => ~lost \/ InitCounter = 0
      BY DEF ResetRegs, Common, OpenNext, LoadedNext, LostNext
    <3>2. state # "init" => InitCounter = 37
      BY CommonFacts DEF RowHolds
    <3> QED BY <3>1, <3>2, CommonFacts DEF RowHolds, Accessing
  <2>2. CommandHolds' /\ CommandKept'
    BY DEF ResetRegs, CommandHolds, CommandKept
  <2>3. BurstHolds'
    BY CommonFacts DEF ResetRegs, Common, BurstHolds, RowHolds
  <2>4. CkeHolds'
    BY CommonFacts DEF ResetRegs, Common, CkeHolds, BurstHolds
  <2> QED BY <2>1, <2>2, <2>3, <2>4 DEF NegControl
<1>4. NegLegal
  BY DEF NegLegal, ResetRegs, Accepts
<1> QED BY <1>1, <1>2, <1>3, <1>4 DEF NegGoal

LEMMA InitGoal == ASSUME Common, InitSequence PROVE NegGoal
<1> DEFINE c == InitCounter
<1>0. c \in 0 .. InitWrap - 1 /\ InitCounter' = (c + 1) % InitWrap
  BY CommonFacts DEF InitSequence, NextInitCounter, SdTypeOK
<1>a. /\ c \in 0 .. InitWrap - 2 => InitCounter' = c + 1
      /\ c = InitWrap - 1 => InitCounter' = 0
  BY <1>0, CounterAssumption
<1>b. c \in Int /\ InitWrap \in Int /\ InitWrap > 37
  BY <1>0, CounterAssumption
<1>1. NegTyped
  <2>1. SDRAM_CMD' \in Command /\ SDRAM_A' \in Nat /\ A10' \in BOOLEAN /\ SDRAM_CKE' \in BOOLEAN
    BY CommonFacts DEF InitSequence, InitCommand, SdTypeOK, Command
  <2>2. InitCounter' \in 0 .. InitWrap - 1
    BY <1>0, <1>a, <1>b
  <2> QED BY <2>1, <2>2, CommonFacts, CountTyped
          DEF NegTyped, InitSequence, Common, SdTypeOK, State
<1>2. NegAged
  <2> SUFFICES ASSUME NEW k \in Timed
               PROVE  Age(state', InitCounter', k) <= Age("init", c, k) + 1
    BY DEF NegAged, InitSequence
  <2>1. CASE c = 36
    <3>1. state' = "idle"
      BY <2>1 DEF InitSequence
    <3> QED BY <2>1, <3>1 DEF Age, InitAge, OperatingAge, Timed
  <2>2. CASE c < 36
    <3>1. state' = "init" /\ InitCounter' = c + 1
      BY <2>2, <1>0, <1>a, <1>b DEF InitSequence
    <3> QED BY <2>2, <3>1, <1>0, <1>b DEF Age, InitAge, Timed
  <2>3. CASE c > 36
    <3>1. /\ state' = "init" /\ InitCounter' \in Int
          /\ InitCounter' = 0 \/ InitCounter' >= 37
      BY <2>3, <1>0, <1>a, <1>b DEF InitSequence
    <3>2. InitAge(c, k) = 0
      BY <2>3, <1>b DEF InitAge
    <3>3. InitAge(InitCounter', k) <= 1
      <4>1. CASE InitCounter' = 0
        BY <4>1 DEF InitAge, Timed
      <4>2. CASE InitCounter' >= 37
        BY <3>1, <4>2 DEF InitAge
      <4> QED BY <3>1, <4>1, <4>2
    <3> QED BY <3>1, <3>2, <3>3 DEF Age
  <2> QED BY <2>1, <2>2, <2>3, <1>b
<1>3. NegControl
  <2>1. RowHolds'
    <3>0. ~LostNext' => (~lost \/ InitCounter' = 0) /\ (CkeZ \/ ~Needed')
      BY DEF LostNext, Common
    <3>1. CASE c = 10
      <4>1. /\ state' = "init" /\ InitCounter' = 11
            /\ SDRAM_CMD' = "PRECHARGE" /\ clk' = "low"
        BY <3>1, <1>a, <1>b DEF InitSequence, InitCommand, Common
      <4>3. A10'
        BY <3>1, Zenon DEF InitSequence
      <4>2. ~LostNext' => OpenNext' = NoRow
        BY <3>0, <4>1, <4>3 DEF OpenNext, Needed, Common
      <4> QED BY <4>1, <4>2 DEF RowHolds, Accessing
    <3>2. CASE c = 36
      BY <3>0, <3>2, <1>a, <1>b, CommonFacts
      DEF InitSequence, InitCommand, Common, RowHolds, OpenNext, LoadedNext, Accessing
    <3>3. CASE c = 35
      BY <3>0, <3>3, <1>a, <1>b, CommonFacts
      DEF InitSequence, InitCommand, Common, RowHolds, OpenNext, LoadedNext, Needed,
          Accessing
    <3>4. CASE c \notin {10, 35, 36}
      <4>1. state' = "init" /\ InitCounter' # 11 /\ InitCounter' # 36
        BY <3>4, <1>0, <1>a, <1>b DEF InitSequence
      <4>2. InitCounter' \in 11 .. 36 => c \in 11 .. 36
        BY <4>1, <1>0, <1>a, <1>b
      <4>3. SDRAM_CMD' \in {"REFRESH", "NOP"}
        BY <3>4 DEF InitSequence, InitCommand
      <4>4. OpenNext' = openRow
        BY <4>3 DEF Common, OpenNext
      <4> QED BY <3>0, <4>1, <4>2, <4>4, <1>a, <1>b, CommonFacts
              DEF RowHolds, Accessing, InitSequence, Common, LoadedNext
    <3> QED BY <3>1, <3>2, <3>3, <3>4
  <2>2. CommandHolds' /\ CommandKept'
    BY <1>a, <1>b DEF InitSequence, InitCommand, CommandHolds, CommandKept
  <2>3. BurstHolds'
    BY CommonFacts DEF InitSequence, Common, BurstHolds
  <2>4. CkeHolds'
    BY CommonFacts DEF InitSequence, Common, CkeHolds, BurstHolds
  <2> QED BY <2>1, <2>2, <2>3, <2>4 DEF NegControl
<1>4. NegLegal
  <2>1. \A k \in Timed : since[k] >= InitAge(c, k) /\ since[k] \in Int
    BY CommonFacts DEF InitSequence, Age
  <2>2. c \in {15, 25, 35} /\ ~lost' => openRow = NoRow
    <3>1. c \in {15, 25, 35} => InitCounter' # 0 /\ (lost' <=> lost)
      <4>1. c \in {15, 25, 35} => InitCounter' # 0
        BY <1>a, <1>b
      <4>2. lost' = (lost /\ InitCounter' # 0)
        BY DEF Common
      <4> QED BY <4>1, <4>2, Zenon
    <3> QED BY <3>1, CommonFacts DEF RowHolds, InitSequence
  <2>3. CASE c = 10
    <3>1. SDRAM_CMD' = "PRECHARGE"
      BY <2>3 DEF InitSequence, InitCommand
    <3>3. A10'
      BY <2>3, Zenon DEF InitSequence
    <3>2. since["DATAIN"] >= 11 /\ since["LOADMODE"] >= 11 /\ since["ACTIVE"] >= 11
      BY <2>1, <2>3 DEF InitAge, Timed
    <3> QED BY <3>1, <3>2, <3>3, <2>1, DelayAssumption
            DEF NegLegal, Accepts, Timed, Common
  <2>4. CASE c \in {15, 25, 35}
    BY <2>1, <2>2, <2>4, DelayAssumption
    DEF NegLegal, Accepts, InitSequence, InitCommand, InitAge, Timed
  <2>5. CASE c \notin {10, 15, 25, 35}
    BY <2>5 DEF NegLegal, Accepts, InitSequence, InitCommand
  <2> QED BY <2>3, <2>4, <2>5
<1> QED BY <1>1, <1>2, <1>3, <1>4 DEF NegGoal

LEMMA RefreshGoal == ASSUME Common, Refresh PROVE NegGoal
<1>1. NegTyped
  <2>1. state' \in State /\ SDRAM_CMD' \in Command
    BY DEF Refresh, State, Command, After
  <2>2. startup_refresh_count' \in 0 .. CountWrap - 1
    BY CounterAssumption DEF Refresh
  <2> QED BY <2>1, <2>2, CommonFacts DEF NegTyped, Refresh, Common, SdTypeOK
<1>b. /\ state # "init" /\ state' # "init" /\ SDRAM_CMD' # "LOADMODE"
      /\ SDRAM_CKE' = SDRAM_CKE /\ InitCounter' = InitCounter
  BY DEF Refresh
<1>c. CkeZ' /\ SDRAM_CKE' /\ (lost' <=> lost)
  BY <1>b, Awake
<1>2. NegAged
  BY <1>c DEF NegAged, Refresh, Age, OperatingAge, Timed
<1>3. NegControl
  <2>1. /\ state' \in Accessing => OpenNext' # NoRow
        /\ ~lost /\ state' \notin Accessing => OpenNext' = NoRow
    BY <1>b, Awake DEF Refresh, Accessing
  <2>2. CommandHolds' /\ CommandKept' /\ BurstHolds'
    BY CommonFacts
    DEF Refresh, Common, CommandHolds, CommandKept, BurstHolds
  <2> QED BY <1>b, <2>1, <2>2, AwakeHolds DEF NegControl
<1>4. NegLegal
  <2>1. \A k \in Timed : since[k] >= OperatingAge("idle", k) /\ since[k] \in Int
    BY CommonFacts DEF Refresh, Age
  <2>2. ~lost => openRow = NoRow /\ loaded
    BY <1>b, Awake DEF Refresh, Accessing
  <2>3. SDRAM_CMD' = "REFRESH" /\ since' = since /\ openRow' = openRow /\ loaded' = loaded
    BY DEF Refresh, Common
  <2> QED BY <1>c, <2>1, <2>2, <2>3, DelayAssumption
          DEF NegLegal, Accepts, OperatingAge, Timed
<1> QED BY <1>1, <1>2, <1>3, <1>4 DEF NegGoal

LEMMA OpenGoal ==
  ASSUME Common, NEW in \in Inputs, Open(in) PROVE NegGoal
<1>0. in.addr.row \in Row /\ in.addr.row \in Nat
  BY AddressAssumption DEF Inputs, Address
<1>1. NegTyped
  <2>1. state' \in State /\ SDRAM_CMD' \in Command
    BY DEF Open, State, Command, After
  <2> QED BY <2>1, <1>0, CommonFacts, CountTyped
          DEF NegTyped, Open, Common, SdTypeOK
<1>b. /\ state # "init" /\ state' # "init" /\ SDRAM_CMD' # "LOADMODE"
      /\ SDRAM_CKE' = SDRAM_CKE /\ InitCounter' = InitCounter
  BY DEF Open
<1>c. CkeZ' /\ SDRAM_CKE' /\ (lost' <=> lost)
  BY <1>b, Awake
<1>2. NegAged
  BY <1>c DEF NegAged, Open, Age, OperatingAge, Timed
<1>3. NegControl
  <2>1. /\ state' \in Accessing => OpenNext' # NoRow
        /\ ~lost /\ state' \notin Accessing => OpenNext' = NoRow
    BY <1>0, <1>b, Awake DEF Open, Accessing, NoRow
  <2>2. CommandHolds' /\ CommandKept' /\ BurstHolds'
    BY <1>0, CommonFacts
    DEF Open, Common, CommandHolds, CommandKept, BurstHolds
  <2> QED BY <1>b, <2>1, <2>2, AwakeHolds DEF NegControl
<1>4. NegLegal
  <2>1. \A k \in Timed : since[k] >= OperatingAge("idle", k) /\ since[k] \in Int
    BY CommonFacts DEF Open, Age
  <2>2. ~lost => openRow = NoRow /\ loaded
    BY <1>b, Awake DEF Open, Accessing
  <2>3. SDRAM_CMD' = "ACTIVE" /\ since' = since /\ openRow' = openRow /\ loaded' = loaded
    BY DEF Open, Common
  <2> QED BY <1>c, <2>1, <2>2, <2>3, DelayAssumption
          DEF NegLegal, Accepts, OperatingAge, Timed
<1> QED BY <1>1, <1>2, <1>3, <1>4 DEF NegGoal

LEMMA RestGoal ==
  ASSUME Common, NEW in \in Inputs, Rest(in) PROVE NegGoal
<1>1. NegTyped
  <2>1. SDRAM_CMD' \in Command /\ SDRAM_A' \in Nat
    BY DEF Rest, Command
  <2> QED BY <2>1, CommonFacts, CountTyped DEF NegTyped, Rest, Common, SdTypeOK
<1>b. /\ state # "init" /\ state' # "init" /\ SDRAM_CMD' # "LOADMODE"
      /\ SDRAM_CKE' = SDRAM_CKE /\ InitCounter' = InitCounter
  BY DEF Rest
<1>c. CkeZ' /\ SDRAM_CKE' /\ (lost' <=> lost)
  BY <1>b, Awake
<1>2. NegAged
  BY <1>c, CommonFacts, AgeNat DEF NegAged, Rest, SdTypeOK
<1>3. NegControl
  <2>1. /\ state' \in Accessing => OpenNext' # NoRow
        /\ ~lost /\ state' \notin Accessing => OpenNext' = NoRow
    BY <1>b, Awake DEF Rest, Accessing
  <2>2. CommandHolds' /\ CommandKept' /\ BurstHolds'
    BY CommonFacts
    DEF Rest, Common, CommandHolds, CommandKept, BurstHolds
  <2> QED BY <1>b, <2>1, <2>2, AwakeHolds DEF NegControl
<1>4. NegLegal
  BY DEF NegLegal, Accepts, Rest
<1> QED BY <1>1, <1>2, <1>3, <1>4 DEF NegGoal

LEMMA ChooseGoal ==
  ASSUME Common, NEW in \in Inputs, Choose(in) PROVE NegGoal
<1>0. in.we \in BOOLEAN /\ in.d.lo \in Half
  BY DEF Inputs, Word
<1>a. SDRAM_CMD = "NOP"
  BY CommonFacts DEF Choose, CommandKept
<1>1. NegTyped
  <2>1. state' \in State
    BY DEF Choose, State, After
  <2>2. WrData' \in Half
    BY <1>0, CommonFacts DEF Choose, SdTypeOK
  <2> QED BY <2>1, <2>2, <1>0, CommonFacts, CountTyped
          DEF NegTyped, Choose, Common, SdTypeOK
<1>b. /\ state # "init" /\ state' # "init" /\ SDRAM_CMD' # "LOADMODE"
      /\ SDRAM_CKE' = SDRAM_CKE /\ InitCounter' = InitCounter
  BY <1>a DEF Choose
<1>c. CkeZ' /\ SDRAM_CKE' /\ (lost' <=> lost)
  BY <1>b, Awake
<1>2. NegAged
  BY <1>c DEF NegAged, Choose, Age, OperatingAge, Timed
<1>3. NegControl
  <2>1. /\ state' \in Accessing => OpenNext' # NoRow
        /\ ~lost /\ state' \notin Accessing => OpenNext' = NoRow
    BY <1>a, <1>b, Awake DEF Choose, Accessing
  <2>2. CommandHolds' /\ CommandKept' /\ BurstHolds'
    BY <1>a, CommonFacts
    DEF Choose, Common, CommandHolds, CommandKept, BurstHolds
  <2> QED BY <1>b, <2>1, <2>2, AwakeHolds DEF NegControl
<1>4. NegLegal
  BY <1>a DEF NegLegal, Accepts, Choose
<1> QED BY <1>1, <1>2, <1>3, <1>4 DEF NegGoal

LEMMA AfterFacts ==
  /\ DOMAIN After = {"open_in_2", "write_1", "write_2", "write_3", "read_1",
       "read_2", "read_3", "read_4", "precharge", "read_precharge", "idle_in_6",
       "idle_in_5", "idle_in_4", "idle_in_3", "idle_in_2", "idle_in_1"}
  /\ After["open_in_2"] = "open_in_1" /\ After["write_1"] = "write_2"
  /\ After["write_2"] = "write_3" /\ After["write_3"] = "precharge"
  /\ After["read_1"] = "read_2" /\ After["read_2"] = "read_3"
  /\ After["read_3"] = "read_4" /\ After["read_4"] = "read_precharge"
  /\ After["precharge"] = "idle_in_3" /\ After["read_precharge"] = "idle_in_3"
  /\ After["idle_in_6"] = "idle_in_5" /\ After["idle_in_5"] = "idle_in_4"
  /\ After["idle_in_4"] = "idle_in_3" /\ After["idle_in_3"] = "idle_in_2"
  /\ After["idle_in_2"] = "idle_in_1" /\ After["idle_in_1"] = "idle"
BY DEF After

\* One state further needs at most one clock more.
LEMMA AfterAged ==
  ASSUME NEW s \in DOMAIN After, NEW k \in Timed
  PROVE  OperatingAge(After[s], k) <= OperatingAge(s, k) + 1
<1>1. CASE k = "ACTIVE"
  BY <1>1, AfterFacts DEF OperatingAge
<1>2. CASE k = "PRECHARGE"
  BY <1>2, AfterFacts DEF OperatingAge
<1>3. CASE k = "REFRESH"
  BY <1>3, AfterFacts DEF OperatingAge
<1>4. CASE k \in {"DATAIN", "LOADMODE"}
  BY <1>4, AfterFacts DEF OperatingAge
<1> QED BY <1>1, <1>2, <1>3, <1>4 DEF Timed

\* The commands of the states that only move on.
LEMMA ThroughCommand ==
  ASSUME Common, NEW in \in Inputs, Through(in, dq)
  PROVE  \/ state = "write_1" /\ SDRAM_CMD' = "WRITE"
         \/ state = "read_1" /\ SDRAM_CMD' = "READ"
         \/ state \in {"precharge", "read_precharge"} /\ SDRAM_CMD' = "PRECHARGE"
         \/ /\ state \notin {"write_1", "read_1", "precharge", "read_precharge"}
            /\ SDRAM_CMD' = "NOP"
BY CommonFacts, AfterFacts DEF Through, CommandKept

LEMMA ThroughGoal ==
  ASSUME Common, NEW in \in Inputs, Through(in, dq) PROVE NegGoal
<1>0. /\ in.addr.col \in Col /\ in.addr.col \in Nat
      /\ in.d.lo \in Half /\ in.d.hi \in Half
  BY AddressAssumption DEF Inputs, Address, Word
<1>a. /\ state \in DOMAIN After /\ state' = After[state]
      /\ InitCounter' = InitCounter /\ SDRAM_CKE' = SDRAM_CKE
  BY DEF Through
<1>b. state # "init" /\ state' # "init" /\ SDRAM_CMD' # "LOADMODE"
  BY <1>a, AfterFacts, ThroughCommand
<1>d. CkeZ' /\ SDRAM_CKE' /\ (lost' <=> lost)
  BY <1>a, <1>b, Awake
<1>1. NegTyped
  <2>1. state' \in State
    BY <1>a, AfterFacts DEF State
  <2>2. SDRAM_CMD' \in Command
    BY ThroughCommand DEF Command
  <2>3. SDRAM_A' \in Nat /\ WrData' \in Half
    BY <1>0, CommonFacts DEF Through, SdTypeOK
  <2>4. A10' \in BOOLEAN
    BY CommonFacts DEF Through, SdTypeOK
  <2>5. SDRAM_DQ_OE' \in BOOLEAN
    BY CommonFacts DEF Through, SdTypeOK
  <2>6. q_ready' \in BOOLEAN
    BY CommonFacts DEF Through, ReadyAfter, SdTypeOK
  <2>7. sd_q' \in PinWord
    <3>1. dq \in Pins /\ sd_q \in PinWord
      BY CommonFacts DEF Common, IInv, TypeOK, ChipTypeOK, SdTypeOK
    <3> QED BY <3>1 DEF Through, Latched, PinWord
  <2> QED BY <2>1, <2>2, <2>3, <2>4, <2>5, <2>6, <2>7, <1>a, CommonFacts,
             CountTyped
          DEF NegTyped, Through, Common, SdTypeOK
<1>2. NegAged
  <2> SUFFICES ASSUME NEW k \in Timed
               PROVE  Age(state', InitCounter', k) <= Age(state, InitCounter, k) + 1
    BY <1>d DEF NegAged
  <2> QED BY <1>a, <1>b, AfterAged DEF Age
<1>c. state \in {"write_1", "read_1", "precharge", "read_precharge"}
        => openRow # NoRow
  BY CommonFacts DEF RowHolds, Accessing
<1>3. NegControl
  <2>1. RowHolds' /\ CkeHolds'
    <3>2. state' \in Accessing => OpenNext' # NoRow
      <4>1. state' \in Accessing
              => state \in Accessing \ {"precharge", "read_precharge"}
        BY <1>a, AfterFacts DEF Accessing
      <4>2. state' \in Accessing => OpenNext' = openRow
        BY <1>a, <1>b, <4>1, ThroughCommand, Awake
      <4> QED BY <1>a, <1>b, <4>1, <4>2, Awake
    <3>3. ~lost /\ state' \notin Accessing => OpenNext' = NoRow
      <4>1. CASE state \in {"precharge", "read_precharge"}
        <5>1. SDRAM_CMD' = "PRECHARGE" /\ clk' = "low"
          BY <4>1, ThroughCommand DEF Common
        <5>2. A10'
          BY <4>1 DEF Through
        <5> QED BY <1>a, <1>b, <5>1, <5>2, Awake
      <4>2. CASE state \notin {"precharge", "read_precharge"}
        <5>1. state' \notin Accessing => state \notin Accessing
          BY <4>2, <1>a, AfterFacts DEF Accessing
        <5>2. ~lost /\ state' \notin Accessing => openRow = NoRow
          BY <5>1, <1>a, <1>b, Awake
        <5>3. SDRAM_CMD' \notin {"ACTIVE", "PRECHARGE"}
          BY <4>2, ThroughCommand
        <5> QED BY <1>a, <1>b, <5>2, <5>3, Awake
      <4> QED BY <4>1, <4>2
    <3> QED BY <3>2, <3>3, <1>a, <1>b, AwakeHolds
  <2>2. CommandHolds'
    <3>1. /\ SDRAM_CMD' = "WRITE" => state' = "write_2" /\ SDRAM_A' = in.addr.col
          /\ SDRAM_CMD' = "READ" => state' = "read_2" /\ SDRAM_A' = in.addr.col
          /\ SDRAM_CMD' = "PRECHARGE" => state' = "idle_in_3"
          /\ SDRAM_CMD' \notin {"ACTIVE", "REFRESH", "LOADMODE"}
      BY ThroughCommand, AfterFacts, <1>a DEF Through
    <3> QED BY <3>1, <1>0 DEF CommandHolds
  <2>3. CommandKept'
    BY ThroughCommand, AfterFacts, <1>a DEF CommandKept
  <2>4. BurstHolds'
    BY AfterFacts, <1>a, CommonFacts DEF Common, BurstHolds
  <2> QED BY <2>1, <2>2, <2>3, <2>4 DEF NegControl
<1>4. NegLegal
  <2>1. \A k \in Timed : since[k] >= OperatingAge(state, k) /\ since[k] \in Int
    BY <1>a, AfterFacts, CommonFacts DEF Age
  <2>2. CASE state \in {"write_1", "read_1"}
    <3>1. since["ACTIVE"] >= 3
      BY <2>1, <2>2 DEF OperatingAge, Timed
    <3>2. ~A10' /\ SDRAM_CMD' \in {"READ", "WRITE"}
      BY <2>2, ThroughCommand DEF Through
    <3> QED BY <3>1, <3>2, <2>1, <2>2, <1>c, DelayAssumption
            DEF NegLegal, Accepts, Common, Timed
  <2>3. CASE state \in {"precharge", "read_precharge"}
    <3>1. since["DATAIN"] >= 2 /\ since["LOADMODE"] >= 2 /\ since["ACTIVE"] >= 6
      BY <2>1, <2>3 DEF OperatingAge, Timed
    <3>2. SDRAM_CMD' = "PRECHARGE"
      BY <2>3, ThroughCommand
    <3>3. A10'
      BY <2>3 DEF Through
    <3> QED BY <3>1, <3>2, <3>3, <2>1, DelayAssumption
            DEF NegLegal, Accepts, Common, Timed
  <2>4. CASE state \notin {"write_1", "read_1", "precharge", "read_precharge"}
    <3>1. SDRAM_CMD' = "NOP"
      BY <2>4, ThroughCommand
    <3> QED BY <3>1 DEF NegLegal, Accepts
  <2> QED BY <2>2, <2>3, <2>4
<1> QED BY <1>1, <1>2, <1>3, <1>4 DEF NegGoal

LEMMA NegIInv == ASSUME IInv, NEW in \in Inputs, NegEdge(in) PROVE IInv'
<1>1. Common
  BY DEF Common, NegEdge, SdNeg, chipvars
<1>2. NegGoal
  <2>1. CASE reset /\ ResetRegs
    BY <2>1, <1>1, ResetGoal
  <2>2. CASE InitSequence \/ Refresh
    BY <2>2, <1>1, InitGoal, RefreshGoal
  <2>3. CASE Open(in) \/ Rest(in) \/ Choose(in) \/ Through(in, dq)
    BY <2>3, <1>1, OpenGoal, RestGoal, ChooseGoal, ThroughGoal
  <2> QED BY <2>1, <2>2, <2>3 DEF NegEdge, SdNeg
<1>3. TypeOK'
  <2>1. ChipTypeOK'
    BY DEF IInv, TypeOK, ChipTypeOK, NegEdge, chipvars
  <2>2. clk' \in {"low", "high"} /\ reset' \in BOOLEAN /\ gap' \in 0 .. GapMax
    BY CounterAssumption DEF IInv, TypeOK, NegEdge, GapMax
  <2>3. lost' \in BOOLEAN
    BY DEF NegEdge
  <2> QED BY <1>2, <2>1, <2>2, <2>3 DEF TypeOK, NegGoal, NegTyped
<1>4. AgesHold'
  <2>1. NegAged /\ SDRAM_CKE' \in BOOLEAN /\ state' \in State
        /\ InitCounter' \in 0 .. InitWrap - 1
    BY <1>2 DEF NegGoal, NegTyped, SdTypeOK
  <2> QED BY <1>1, <2>1, NegAges DEF Common, IInv
<1>5. LegalCommands'
  BY <1>1, <1>2 DEF LegalCommands, Accepts, NegGoal, NegLegal, Common
<1> QED BY <1>2, <1>3, <1>4, <1>5 DEF IInv, NegGoal, NegControl

-----------------------------------------------------------------------------
LEMMA InitIInv == Init => IInv
<1> SUFFICES ASSUME Init PROVE IInv
  OBVIOUS
<1> USE DEF Init, SdInit, ChipInit
<1>1. SdTypeOK
  <2>1. state \in State /\ SDRAM_CMD \in Command /\ sd_q \in PinWord
    BY HalfAssumption DEF State, Command, PinWord, Pins, Zero
  <2>2. /\ SDRAM_A \in Nat /\ WrData \in Half
        /\ startup_refresh_count \in 0 .. CountWrap - 1
        /\ InitCounter \in 0 .. InitWrap - 1
    BY HalfAssumption, CounterAssumption
  <2>3. /\ A10 \in BOOLEAN /\ SDRAM_DQ_OE \in BOOLEAN
        /\ q_ready \in BOOLEAN /\ q_ready_delay \in BOOLEAN
    OBVIOUS
  <2> QED BY <2>1, <2>2, <2>3 DEF SdTypeOK
<1>2. ChipTypeOK
  <2>1. mem \in [Row \X Col -> PinWord]
    BY DEF PinWord, Pins, Word
  <2>2. since \in [Timed -> 1 .. SinceMax]
    BY SinceAssumption
  <2> QED BY <2>1, <2>2 DEF ChipTypeOK, Bursts, Pins
<1>3. TypeOK
  <2>1. clk \in {"low", "high"} /\ reset \in BOOLEAN
    BY Zenon
  <2>2. gap \in 0 .. GapMax
    BY CounterAssumption DEF GapMax
  <2> QED BY <1>1, <1>2, <2>1, <2>2 DEF TypeOK
<1>4. AgesHold
  <2>1. \A k \in Timed : InitAge(0, k) \in 0 .. 1
    BY DEF InitAge, Timed
  <2>2. \A k \in Timed : Age(state, InitCounter, k) \in 0 .. 1
    BY <2>1 DEF Age
  <2>3. \A k \in Timed : since[k] = SinceMax
    OBVIOUS
  <2>4. ASSUME NEW k \in Timed
        PROVE  since[k] >= Age(state, InitCounter, k) - Pending(k)
    <3>1. Pending(k) \in {1, -1}
      BY DEF Pending
    <3> QED BY <2>2, <2>3, <3>1, SinceAssumption
  <2> QED BY <2>4 DEF AgesHold
<1>5. RowHolds /\ CommandHolds /\ CommandKept /\ BurstHolds /\ CkeHolds
  BY DEF RowHolds, Accessing, CommandHolds, CommandKept, BurstHolds, CkeHolds, Idle
<1>6. LegalCommands
  BY DEF LegalCommands, Accepts
<1> QED BY <1>3, <1>4, <1>5, <1>6 DEF IInv

LEMMA Stutters == ASSUME IInv, UNCHANGED vars PROVE IInv'
BY DEF vars, sdvars, chipvars, IInv, TypeOK, SdTypeOK, ChipTypeOK, AgesHold,
     Pending, RowHolds, CommandHolds, CommandKept, BurstHolds, CkeHolds,
     LegalCommands, OpenNext, LoadedNext, LostNext, Needed, Accepts

\* The invariant is inductive, whatever the requester and the reset line do.
THEOREM Invariance == Spec => []IInv
<1>1. Init => IInv
  BY InitIInv
<1>2. IInv /\ [Next]_vars => IInv'
  <2> SUFFICES ASSUME IInv, [Next]_vars PROVE IInv'
    OBVIOUS
  <2>1. CASE PosEdge
    BY <2>1, PosIInv
  <2>2. CASE \E in \in Inputs : NegEdge(in)
    BY <2>2, NegIInv
  <2>3. CASE UNCHANGED vars
    BY <2>3, Stutters
  <2> QED BY <2>1, <2>2, <2>3 DEF Next
<1> QED BY <1>1, <1>2, PTL DEF Spec

\* Every register of SDRAMcontroller.v and of the chip keeps its type: the
\* counters stay inside their widths and the chip only drives data it stores.
THEOREM TypeCorrect == Spec => []TypeOK
<1>1. IInv => TypeOK
  BY DEF IInv
<1> QED BY <1>1, Invariance, PTL

\* SDRAMcontroller.v:130-307.  Every command that reaches the chip meets its
\* conditions and minimum delays, for every requester, every reset and every
\* refresh period, as long as no PRECHARGE or LOADMODE that mattered was lost
\* to a chip that a reset had put to sleep.
THEOREM CommandsLegal == Spec => []LegalCommands
<1>1. IInv => LegalCommands
  BY DEF IInv
<1> QED BY <1>1, Invariance, PTL

-----------------------------------------------------------------------------
(* Refreshes in time.  The counter runs from the last refresh or, after a  *)
(* reset, from the reset; neither in an access nor while initialising does *)
(* it come near its width, so a refresh that is due is never forgotten.    *)

\* How many clocks a state of the operating ones is away from idle, where the
\* counter is compared.
Behind(s) ==
  CASE s = "open_in_2" -> 1 [] s = "open_in_1" -> 2
    [] s \in {"write_1", "read_1"} -> 3
    [] s \in {"write_2", "read_2"} -> 4
    [] s \in {"write_3", "read_3", "idle_in_6"} -> 5
    [] s \in {"precharge", "read_4", "idle_in_5"} -> 6
    [] s \in {"read_precharge", "idle_in_4"} -> 7
    [] s = "idle_in_3" -> 8 [] s = "idle_in_2" -> 9 [] s = "idle_in_1" -> 10
    [] OTHER -> 11

\* Initialisation takes what InitCounter still has to go to 36.
InitTime == IF InitCounter >= 37 THEN InitCounter - 37
            ELSE InitCounter + InitWrap - 37

GapHolds ==
  /\ state = "init" => gap = 0 /\ startup_refresh_count <= InitTime
  /\ state # "init" =>
       /\ gap <= startup_refresh_count
       /\ \/ startup_refresh_count <= cycles_per_refresh + Behind(state)
          \/ state = "idle" /\ gap <= 1 /\ startup_refresh_count <= InitWrap

LEMMA BehindNat == ASSUME NEW s PROVE Behind(s) \in 1 .. 11
BY DEF Behind

\* The counter does not wrap.
LEMMA Counts ==
  ASSUME SdTypeOK, GapHolds, Count
  PROVE  startup_refresh_count' = startup_refresh_count + 1
<1> DEFINE n == startup_refresh_count
<1>1. n \in Nat /\ InitCounter \in 0 .. InitWrap - 1
  BY CounterAssumption DEF SdTypeOK
<1>2. n <= InitWrap \/ n <= cycles_per_refresh + 11
  BY <1>1, BehindNat, CounterAssumption DEF GapHolds, InitTime
<1>3. n + 1 < CountWrap
  BY <1>1, <1>2, CounterAssumption
<1>4. n + 1 \in 0 .. CountWrap - 1
  BY <1>1, <1>3, CounterAssumption
<1>5. (n + 1) % CountWrap = n + 1
  BY <1>4, CounterAssumption
<1> QED BY <1>5 DEF Count

LEMMA NegGap ==
  ASSUME IInv, GapHolds, NEW in \in Inputs, NegEdge(in) PROVE GapHolds'
<1> DEFINE n == startup_refresh_count
<1>1. /\ SdTypeOK /\ n \in Nat /\ gap \in Nat
      /\ InitCounter \in 0 .. InitWrap - 1
      /\ cycles_per_refresh \in Nat /\ InitWrap \in Nat /\ 37 < InitWrap
  BY CounterAssumption DEF IInv, TypeOK, SdTypeOK, GapMax
<1>2. gap' = IF state' = "init" \/ (CkeZ /\ SDRAM_CMD' = "REFRESH") THEN 0
             ELSE IF gap < GapMax THEN gap + 1 ELSE gap
  BY DEF NegEdge
<1>3. gap' \in Nat /\ gap' <= gap + 1
  BY <1>1, <1>2
<1>4. Behind(state) \in 1 .. 11 /\ Behind(state') \in 1 .. 11
  BY BehindNat
<1>5. CASE ResetRegs
  BY <1>1, <1>2, <1>5 DEF ResetRegs, GapHolds, InitTime
<1>6. CASE InitSequence
  <2>1. n' = n + 1 /\ n <= InitTime /\ gap = 0
    BY <1>1, <1>6, Counts DEF InitSequence, GapHolds
  <2>2. /\ InitCounter' = (InitCounter + 1) % InitWrap
        /\ InitCounter = InitWrap - 1 => InitCounter' = 0
        /\ InitCounter < InitWrap - 1 => InitCounter' = InitCounter + 1
    BY <1>1, <1>6 DEF InitSequence, NextInitCounter
  <2>3. CASE InitCounter = 36
    <3>1. state' = "idle" /\ n' <= InitWrap
      BY <1>1, <1>6, <2>1, <2>3 DEF InitSequence, InitTime
    <3> QED BY <1>1, <1>3, <2>1, <3>1 DEF GapHolds
  <2>4. CASE InitCounter # 36
    <3>1. state' = "init" /\ gap' = 0
      BY <1>2, <1>6, <2>4 DEF InitSequence
    <3>2. n' <= InitTime'
      BY <1>1, <2>1, <2>2, <2>4 DEF InitTime
    <3> QED BY <3>1, <3>2 DEF GapHolds
  <2> QED BY <2>3, <2>4
<1>7. CASE Refresh
  <2>1. gap' = 0 /\ n' = 0 /\ state' = "idle_in_6"
    BY <1>2, <1>7 DEF Refresh, NegEdge, IInv, CkeHolds
  <2> QED BY <1>1, <1>4, <2>1 DEF GapHolds
<1>8. CASE Open(in) \/ Rest(in)
  <2>1. n' = n + 1 /\ gap <= n /\ n <= cycles_per_refresh
    BY <1>1, <1>8, Counts DEF Open, Rest, RefreshDue, GapHolds
  <2>2. state' # "init"
    BY <1>8 DEF Open, Rest
  <2> QED BY <1>1, <1>3, <1>4, <2>1, <2>2 DEF GapHolds
<1>9. CASE Choose(in) \/ Through(in, dq)
  <2>1. /\ state \notin {"init", "idle"} /\ state' # "init"
        /\ Behind(state') >= Behind(state) + 1
    <3>1. CASE Choose(in)
      BY <3>1 DEF Choose, Behind
    <3>2. CASE Through(in, dq)
      <4>1. state \in DOMAIN After /\ state' = After[state]
        BY <3>2 DEF Through
      <4> QED BY <4>1, AfterFacts DEF Behind
    <3> QED BY <1>9, <3>1, <3>2
  <2>2. n' = n + 1
    BY <1>1, <1>9, Counts DEF Choose, Through
  <2>3. gap <= n /\ n <= cycles_per_refresh + Behind(state)
    BY <2>1 DEF GapHolds
  <2> QED BY <1>1, <1>3, <1>4, <2>1, <2>2, <2>3 DEF GapHolds
<1> QED BY <1>5, <1>6, <1>7, <1>8, <1>9 DEF NegEdge, SdNeg

\* SDRAMcontroller.v:185.  In operation two refreshes are never more than the
\* refresh period and one access apart, however densely requests arrive.
THEOREM RefreshesInTime == Spec => []RefreshInTime
<1>1. Init => GapHolds
  BY CounterAssumption DEF Init, SdInit, GapHolds, InitTime
<1>2. IInv /\ GapHolds /\ [Next]_vars => GapHolds'
  <2> SUFFICES ASSUME IInv, GapHolds, [Next]_vars PROVE GapHolds'
    OBVIOUS
  <2>1. CASE PosEdge
    BY <2>1 DEF PosEdge, SdPos, GapHolds, InitTime, Behind
  <2>2. CASE \E in \in Inputs : NegEdge(in)
    BY <2>2, NegGap
  <2>3. CASE UNCHANGED vars
    BY <2>3 DEF vars, sdvars, GapHolds, InitTime, Behind
  <2> QED BY <2>1, <2>2, <2>3 DEF Next
<1>3. IInv /\ GapHolds => RefreshInTime
  <2> SUFFICES ASSUME IInv, GapHolds PROVE RefreshInTime
    OBVIOUS
  <2>1. /\ startup_refresh_count \in Nat /\ gap \in Nat
        /\ cycles_per_refresh \in Nat /\ Behind(state) \in 1 .. 11
    BY CounterAssumption, BehindNat DEF IInv, TypeOK, SdTypeOK, GapMax
  <2> QED BY <2>1 DEF GapHolds, RefreshInTime
<1> QED BY <1>1, <1>2, <1>3, Invariance, PTL DEF Spec

-----------------------------------------------------------------------------
(* The refinement of SDRAMaccess: with the CPU and the memory unit as the  *)
(* requester, controller and chip implement Memory.  First the invariant   *)
(* of an access.                                                           *)

InAccess == state \in Accessing \/ q_ready

AccessTypeOK ==
  /\ clk \in {"low", "high"} /\ reset \in BOOLEAN /\ busy \in BOOLEAN
  /\ instr \in Instr /\ q \in Word
  /\ state \in State /\ WrData \in Half /\ sd_q \in Word /\ q_ready \in BOOLEAN
  /\ SDRAM_DQ_OE \in BOOLEAN
  /\ burst \in Bursts /\ dq \in Pins
  /\ mem \in [Row \X Col -> Word]

\* No command that mattered was lost: the chip sleeps, or a reset lasts, only
\* where the initialisation does not stand at its PRECHARGE or its LOADMODE.
NotLost ==
  /\ ~lost
  /\ (clk = "high" /\ reset) \/ ~SDRAM_CKE => Survived
  /\ clk = "low" /\ ~CkeZ => SDRAM_CMD \notin {"PRECHARGE", "LOADMODE"}

\* The unit is busy during an access, the CPU holds its lines as long, and the
\* answer stands for a clock.  A reset leaves nothing of it.
BusHolds ==
  /\ busy => start
  /\ InAccess => busy
  /\ reset /\ clk = "low" => state = "init" /\ ~busy /\ ~SDRAM_CKE
  /\ q_ready => state = "idle_in_3"
  /\ clk = "high" => (q_ready_delay <=> q_ready)

\* The commands of an access, with its row and column.
PinsHold ==
  /\ clk = "low" =>
       /\ SDRAM_CMD = "ACTIVE" => state = "open_in_2"
       /\ SDRAM_CMD = "WRITE" <=> state = "write_2"
       /\ SDRAM_CMD = "READ" <=> state = "read_2"
       /\ SDRAM_CMD = "PRECHARGE" => state \notin Accessing
       /\ state \in {"write_2", "read_2"} => SDRAM_A = address.col
  /\ CommandKept
  /\ state \in Accessing => OpenNext = address.row

WriteHolds ==
  /\ state \in {"write_1", "write_2", "write_3", "precharge"} => we
  /\ state \in {"write_1", "write_2", "write_3"} => SDRAM_DQ_OE
  /\ state = "write_2" => WrData = data(q).lo
  /\ state = "write_3" => WrData = data(q).hi
  /\ burst.kind = "write_hi" =>
       IF clk = "high" THEN state = "write_2"
       ELSE state = "write_3" \/ (state = "init" /\ ~SDRAM_CKE)

ReadHolds ==
  /\ state \in {"read_1", "read_2", "read_3", "read_4", "read_precharge"} => ~we
  /\ (state = "read_2" /\ clk = "high") \/ (state = "read_3" /\ clk = "low") =>
       burst = [kind |-> "read_lo", row |-> address.row, col |-> address.col]
  /\ (state = "read_3" /\ clk = "high") \/ (state = "read_4" /\ clk = "low") =>
       burst = [kind |-> "read_hi", row |-> address.row, col |-> address.col]
  /\ state = "read_3" /\ clk = "high" => dq = mem[Cell].lo
  /\ state = "read_4" => sd_q.lo = mem[Cell].lo
  /\ state = "read_4" /\ clk = "high" => dq = mem[Cell].hi
  /\ state = "read_precharge" \/ (q_ready /\ ~we) => sd_q = mem[Cell]

AccessInv ==
  /\ IInv /\ NotLost
  /\ AccessTypeOK /\ BusHolds /\ PinsHold /\ WriteHolds /\ ReadHolds

LEMMA Halves ==
  ASSUME NEW w \in Word, NEW h \in Half
  PROVE  /\ [w EXCEPT !.lo = h] \in Word /\ [w EXCEPT !.hi = h] \in Word
         /\ [w EXCEPT !.lo = h].lo = h /\ [w EXCEPT !.lo = h].hi = w.hi
         /\ [w EXCEPT !.hi = h].hi = h /\ [w EXCEPT !.hi = h].lo = w.lo
BY DEF Word

LEMMA SameHalves ==
  ASSUME NEW v \in Word, NEW w \in Word, v.lo = w.lo, v.hi = w.hi
  PROVE  v = w
BY DEF Word

LEMMA LinesTyped ==
  ASSUME AccessTypeOK
  PROVE  /\ address \in Address /\ data(q) \in Word /\ Cell \in Row \X Col
         /\ Request \in Inputs
<1>1. instr.pc \in Address /\ instr.from \in Address /\ instr.to \in Address
  BY AccessAssumption DEF AccessTypeOK, Address
<1>2. instr.d \in Word
  BY AccessAssumption DEF AccessTypeOK
<1>3. address \in Address
  BY <1>1 DEF address
<1>4. data(q) \in Word
  BY <1>2 DEF data, AccessTypeOK
<1>5. start \in BOOLEAN /\ we \in BOOLEAN
  BY DEF start, we
<1>6. Request \in Inputs
  BY <1>3, <1>4, <1>5 DEF Request, Inputs
<1> QED BY <1>3, <1>4, <1>6 DEF Cell, Address

\* While an access lasts, a rising edge leaves the request as it is.
LEMMA PosLines ==
  ASSUME AccessInv, AccessPos, busy
  PROVE  /\ ~reset /\ stage' = stage /\ instr' = instr
         /\ address' = address /\ data(q)' = data(q) /\ Cell' = Cell
         /\ we' = we /\ start' = start
<1>1. ~reset /\ start
  BY DEF AccessInv, BusHolds, AccessPos, PosEdge
<1>2. stage \in {"fetch", "readMem", "writeBack"}
  BY <1>1 DEF start
<1>3. stage' = stage
  BY <1>1, <1>2 DEF AccessPos, CpuPos, TimerStep, BusStage
<1>4. instr' = instr
  BY <1>2, <1>3 DEF AccessPos, CpuPos
<1>5. q' = q
  BY DEF AccessPos, muvars
<1> QED BY <1>1, <1>3, <1>4, <1>5 DEF address, Cell, we, start, data

\* What a rising edge does, in the terms of the controller and the chip.
LEMMA PosParts ==
  ASSUME AccessInv, AccessPos
  PROVE  /\ clk = "low" /\ clk' = "high"
         /\ reset' \in {FALSE, Resets} /\ (reset' => Survived)
         /\ SdPos(reset)
         /\ CkeZ => Takes(SDRAM_DQM, SDRAM_CMD, SDRAM_A, A10, Driven)
         /\ ~CkeZ => Sleeps
         /\ state \notin {"init", "idle"} \/ burst.kind = "write_hi" => CkeZ
         /\ busy' = busy /\ q' = q
         /\ IInv'
<1>1. PosEdge
  BY DEF AccessPos
<1> QED BY <1>1, PosFacts, PosIInv DEF AccessPos, muvars, AccessInv, IInv, CkeHolds

LEMMA PosNotLost ==
  ASSUME AccessInv, AccessPos
  PROVE  NotLost'
<1>1. /\ clk = "low" /\ clk' = "high" /\ state' = state /\ InitCounter' = InitCounter
      /\ SDRAM_CKE' = SDRAM_CKE /\ lost' = (lost \/ (~CkeZ /\ Needed))
      /\ NotLost /\ (reset' => Survived)
  BY PosFacts DEF AccessPos, AccessInv
<1>2. ~lost'
  BY <1>1 DEF NotLost, Needed
<1> QED BY <1>1, <1>2 DEF NotLost, Survived

LEMMA PosAccessType ==
  ASSUME AccessInv, AccessPos
  PROVE  AccessTypeOK'
<1>1. AccessTypeOK /\ PinsHold /\ WriteHolds /\ clk = "low" /\ SdPos(reset) /\ IInv'
  BY PosParts DEF AccessInv
<1>2. /\ state' \in State /\ WrData' \in Half /\ q_ready' \in BOOLEAN
      /\ SDRAM_DQ_OE' \in BOOLEAN /\ burst' \in Bursts /\ dq' \in Pins
      /\ clk' \in {"low", "high"} /\ reset' \in BOOLEAN
  BY <1>1 DEF IInv, TypeOK, SdTypeOK, ChipTypeOK
<1>3. mem' \in [Row \X Col -> Word]
  <2>1. CASE ~CkeZ \/ SDRAM_DQM
    BY <1>1, <2>1, PosParts DEF Sleeps, Takes, StoredHalf, AccessTypeOK
  <2>2. CASE CkeZ /\ ~SDRAM_DQM
    <3>1. mem' = StoredHalf(SDRAM_CMD, SDRAM_DQM, SDRAM_A, Driven)
      BY <2>2, PosParts DEF Takes
    <3>2. CASE SDRAM_CMD = "WRITE" /\ openRow # NoRow
      <4>1. state = "write_2" /\ SDRAM_A = address.col /\ openRow = address.row
        BY <1>1, <3>2 DEF PinsHold, OpenNext, Accessing
      <4>2. <<openRow, SDRAM_A>> \in Row \X Col
        BY <1>1, <4>1, LinesTyped DEF Address
      <4>3. Driven \in Half
        BY <1>1, <4>1 DEF WriteHolds, Driven, AccessTypeOK
      <4>4. mem' = [mem EXCEPT ![<<openRow, SDRAM_A>>].lo = Driven]
        BY <2>2, <3>1, <3>2 DEF StoredHalf
      <4>5. [mem[<<openRow, SDRAM_A>>] EXCEPT !.lo = Driven] \in Word
        BY <1>1, <4>2, <4>3, Halves DEF AccessTypeOK
      <4> QED BY <1>1, <4>2, <4>4, <4>5 DEF AccessTypeOK
    <3>3. CASE SDRAM_CMD # "WRITE" /\ burst.kind = "write_hi"
      <4>1. <<burst.row, burst.col>> \in Row \X Col
        BY <1>1, <3>3 DEF AccessTypeOK, Bursts, Idle
      <4>2. Driven \in Half
        BY <1>1, <2>2, <3>3 DEF WriteHolds, Driven, AccessTypeOK, SDRAM_DQM
      <4>3. mem' = [mem EXCEPT ![<<burst.row, burst.col>>].hi = Driven]
        BY <2>2, <3>1, <3>3 DEF StoredHalf
      <4>4. [mem[<<burst.row, burst.col>>] EXCEPT !.hi = Driven] \in Word
        BY <1>1, <4>1, <4>2, Halves DEF AccessTypeOK
      <4> QED BY <1>1, <4>1, <4>3, <4>4 DEF AccessTypeOK
    <3>4. CASE /\ ~(SDRAM_CMD = "WRITE" /\ openRow # NoRow)
               /\ ~(SDRAM_CMD # "WRITE" /\ burst.kind = "write_hi")
      <4>1. mem' = mem
        BY <2>2, <3>1, <3>4 DEF StoredHalf
      <4> QED BY <1>1, <4>1 DEF AccessTypeOK
    <3> QED BY <3>2, <3>3, <3>4
  <2> QED BY <2>1, <2>2
<1>4. instr' \in Instr
  BY <1>1, InstrAssumption DEF AccessTypeOK, AccessPos, CpuPos
<1>5. busy' \in BOOLEAN /\ q' \in Word /\ sd_q' \in Word
  BY <1>1, PosParts DEF SdPos, AccessTypeOK
<1> QED BY <1>2, <1>3, <1>4, <1>5 DEF AccessTypeOK

LEMMA PosBus ==
  ASSUME AccessInv, AccessPos
  PROVE  BusHolds'
<1>1. /\ BusHolds /\ AccessTypeOK /\ SdPos(reset) /\ clk = "low" /\ clk' = "high" /\ busy' = busy
  BY PosParts DEF AccessInv
<1>2. state' = state /\ q_ready' = q_ready
  BY <1>1 DEF SdPos
<1>3. busy' => start'
  BY <1>1, PosLines DEF BusHolds
<1>4. InAccess' => busy'
  BY <1>1, <1>2 DEF BusHolds, InAccess
<1>5. q_ready_delay' <=> q_ready'
  BY <1>1, <1>2 DEF SdPos, BusHolds, AccessTypeOK
<1> QED BY <1>1, <1>2, <1>3, <1>4, <1>5 DEF BusHolds

LEMMA PosPins ==
  ASSUME AccessInv, AccessPos
  PROVE  PinsHold'
<1>1. PinsHold /\ SdPos(reset) /\ clk = "low" /\ clk' = "high"
  BY PosParts DEF AccessInv
<1>2. OpenNext' = OpenNext
  BY <1>1, PosParts DEF OpenNext, Takes, Sleeps
<1>3. state \in Accessing => address' = address
  BY PosLines DEF AccessInv, BusHolds, InAccess
<1> QED BY <1>1, <1>2, <1>3 DEF PinsHold, SdPos, CommandKept

LEMMA PosWrite ==
  ASSUME AccessInv, AccessPos
  PROVE  WriteHolds'
<1>1. WriteHolds /\ PinsHold /\ SdPos(reset) /\ clk = "low" /\ clk' = "high"
  BY PosParts DEF AccessInv
<1>2. state \in Accessing => we' = we /\ data(q)' = data(q)
  BY PosLines DEF AccessInv, BusHolds, InAccess
<1>3. state' = state /\ SDRAM_DQ_OE' = SDRAM_DQ_OE /\ WrData' = WrData
  BY <1>1 DEF SdPos
<1>4. burst'.kind = "write_hi" => state' = "write_2"
  <2>1. ~CkeZ => burst' = burst /\ burst.kind # "write_hi"
    BY PosParts DEF Sleeps
  <2>2. CkeZ => burst' = BurstStep(SDRAM_CMD, SDRAM_A)
    BY PosParts DEF Takes
  <2>3. BurstStep(SDRAM_CMD, SDRAM_A).kind = "write_hi" => SDRAM_CMD = "WRITE"
    BY DEF BurstStep, Idle
  <2> QED BY <1>1, <1>3, <2>1, <2>2, <2>3 DEF PinsHold
<1> QED BY <1>1, <1>2, <1>3, <1>4 DEF WriteHolds, Accessing

LEMMA PosRead ==
  ASSUME AccessInv, AccessPos
  PROVE  ReadHolds'
<1>1. /\ ReadHolds /\ WriteHolds /\ PinsHold /\ BusHolds /\ AccessTypeOK
      /\ SdPos(reset) /\ clk = "low" /\ clk' = "high"
  BY PosParts DEF AccessInv
<1>2. InAccess => we' = we /\ address' = address /\ Cell' = Cell
  BY PosLines DEF AccessInv, BusHolds
<1>3. state' = state /\ sd_q' = sd_q /\ q_ready' = q_ready
  BY <1>1 DEF SdPos
<1>a. state \notin {"init", "idle"} =>
        /\ burst' = BurstStep(SDRAM_CMD, SDRAM_A)
        /\ mem' = StoredHalf(SDRAM_CMD, SDRAM_DQM, SDRAM_A, Driven)
        /\ dq' = CASE burst.kind = "read_lo" -> mem[<<burst.row, burst.col>>].lo
                   [] burst.kind = "read_hi" -> mem[<<burst.row, burst.col>>].hi
                   [] OTHER -> Z
  BY PosParts DEF Takes
<1>4. state \in {"read_1", "read_2", "read_3", "read_4", "read_precharge", "idle_in_3"} =>
        mem' = mem
  BY <1>1, <1>a DEF StoredHalf, WriteHolds, PinsHold
<1>5. CASE state \notin Accessing /\ ~q_ready
  BY <1>3, <1>5 DEF ReadHolds, Accessing
<1>6. CASE InAccess
  <2>1. state' = "read_2" => burst' = [kind |-> "read_lo", row |-> address'.row, col |-> address'.col]
    <3>1. state = "read_2" => openRow = address.row /\ SDRAM_A = address.col /\ SDRAM_CMD = "READ"
      BY <1>1, PosParts DEF PinsHold, OpenNext, Accessing
    <3>2. address.row \in Nat
      BY <1>1, LinesTyped, AddressAssumption DEF Address
    <3> QED BY <1>1, <1>2, <1>3, <1>6, <1>a, <3>1, <3>2 DEF BurstStep, NoRow
  <2>2. state' = "read_3" =>
          /\ burst' = [kind |-> "read_hi", row |-> address'.row, col |-> address'.col]
          /\ dq' = mem'[Cell'].lo
    <3>1. state = "read_3" =>
            /\ burst = [kind |-> "read_lo", row |-> address.row, col |-> address.col]
            /\ SDRAM_CMD = "NOP"
      BY <1>1 DEF ReadHolds, PinsHold, CommandKept
    <3> QED BY <1>1, <1>2, <1>3, <1>4, <1>6, <1>a, <3>1 DEF BurstStep, Cell
  <2>3. state' = "read_4" => sd_q'.lo = mem'[Cell'].lo /\ dq' = mem'[Cell'].hi
    BY <1>1, <1>2, <1>3, <1>4, <1>6, <1>a DEF ReadHolds, Cell
  <2>4. state' = "read_precharge" \/ (q_ready' /\ ~we') => sd_q' = mem'[Cell']
    BY <1>1, <1>2, <1>3, <1>4, <1>6 DEF ReadHolds, BusHolds
  <2> QED BY <1>1, <1>2, <1>3, <1>6, <2>1, <2>2, <2>3, <2>4 DEF ReadHolds
<1> QED BY <1>5, <1>6 DEF InAccess

LEMMA Preceding ==
  ASSUME state \in DOMAIN After, state' = After[state]
  PROVE  /\ state' \in State
         /\ state' = "open_in_1" => state = "open_in_2"
         /\ state' = "write_2" => state = "write_1"
         /\ state' = "write_3" => state = "write_2"
         /\ state' = "precharge" => state = "write_3"
         /\ state' = "read_2" => state = "read_1"
         /\ state' = "read_3" => state = "read_2"
         /\ state' = "read_4" => state = "read_3"
         /\ state' = "read_precharge" => state = "read_4"
         /\ state' \notin {"init", "open_in_2", "write_1", "read_1"}
         /\ state = "write_2" => state' = "write_3"
         /\ state = "write_3" => state' = "precharge"
         /\ state = "read_2" => state' = "read_3"
         /\ state = "read_3" => state' = "read_4"
         /\ state = "read_4" => state' = "read_precharge"
         /\ state \in {"precharge", "read_precharge"} => state' = "idle_in_3"
BY DEF After, State

\* What a falling edge does: the lines stay, the unit answers when the
\* controller is ready and becomes busy at a start otherwise.
Answers == ~reset /\ busy /\ q_ready

LEMMA NegParts ==
  ASSUME AccessInv, AccessNeg
  PROVE  /\ clk = "high" /\ clk' = "low" /\ reset' = reset
         /\ SdNeg(reset, Request, dq)
         /\ burst' = burst /\ dq' = dq /\ mem' = mem /\ openRow' = openRow
         /\ stage' = stage /\ instr' = instr
         /\ address' = address /\ Cell' = Cell
         /\ we' = we /\ start' = start
         /\ CkeZ' = CkeZ /\ lost' = (lost /\ InitCounter' # 0)
         /\ IInv'
<1>1. stage' = stage /\ instr' = instr
  BY DEF AccessNeg, cpuvars
<1>2. /\ address' = address /\ Cell' = Cell
      /\ we' = we /\ start' = start
  BY <1>1 DEF address, Cell, we, start
<1>3. IInv'
  BY LinesTyped, NegIInv DEF AccessNeg, AccessInv
<1> QED BY <1>1, <1>2, <1>3 DEF AccessNeg, NegEdge, chipvars

\* The chip is awake and its row as the controller takes it to be.
LEMMA NegAwake ==
  ASSUME AccessInv, AccessNeg, ~reset, state # "init"
  PROVE  /\ CkeZ' /\ SDRAM_CKE' /\ SDRAM_CKE
         /\ state = "idle" => openRow = NoRow
<1>1. IInv /\ NotLost /\ clk = "high"
  BY NegParts DEF AccessInv
<1>2. CkeZ /\ SDRAM_CKE
  BY <1>1 DEF IInv, CkeHolds
<1>3. SDRAM_CKE' = SDRAM_CKE
  BY NegParts DEF SdNeg, InitSequence, Refresh, Open, Rest, Choose, Through
<1>4. state = "idle" => openRow = NoRow
  BY <1>1 DEF IInv, RowHolds, NotLost, OpenNext, LostNext, Accessing
<1> QED BY <1>2, <1>3, <1>4, NegParts

LEMMA NegNotLost ==
  ASSUME AccessInv, AccessNeg
  PROVE  NotLost'
<1>1. /\ clk = "high" /\ clk' = "low" /\ NotLost /\ CkeHolds /\ RowHolds
      /\ CkeZ' = CkeZ /\ lost' = (lost /\ InitCounter' # 0) /\ reset' = reset
      /\ SdNeg(reset, Request, dq)
  BY NegParts DEF AccessInv, IInv
<1>2. ~lost'
  BY <1>1, Zenon DEF NotLost
<1>3. CASE reset
  <2>1. /\ SDRAM_CMD' = "UNSELECTED" /\ InitCounter' = InitCounter
    BY <1>1, <1>3 DEF SdNeg, ResetRegs
  <2>2. InitCounter \notin {10, 35}
    BY <1>1, <1>3 DEF NotLost, Survived, RowHolds
  <2> QED BY <1>1, <1>2, <2>1, <2>2 DEF NotLost, Survived
<1>4. CASE ~reset /\ state # "init"
  BY <1>1, <1>2, <1>4, NegAwake DEF NotLost
<1>5. CASE ~reset /\ state = "init"
  <2>1. InitSequence
    BY <1>1, <1>5 DEF SdNeg, Refresh, Open, Rest, Choose, Through, After
  <2>2. ~CkeZ => SDRAM_CMD' \notin {"PRECHARGE", "LOADMODE"}
    BY <1>1, <1>5, <2>1
    DEF CkeHolds, NotLost, Survived, InitSequence, InitCommand
  <2> QED BY <1>1, <1>2, <2>1, <2>2 DEF NotLost, InitSequence
<1> QED BY <1>3, <1>4, <1>5

LEMMA NegUnit ==
  ASSUME AccessInv, AccessNeg
  PROVE  /\ reset => busy' = FALSE /\ q' = ZeroWord
         /\ Answers => busy' = FALSE /\ q' = sd_q
         /\ ~reset /\ ~Answers =>
              (busy' <=> (busy \/ start)) /\ q' = q /\ data(q)' = data(q)
<1> DEFINE ready == Ready("SDRAM", Dev)
           Got == Answer("SDRAM", data(q), Dev)
<1>1. ready <=> q_ready
  BY NegParts DEF Ready, Dev, AccessInv, BusHolds, AccessTypeOK
<1>2. Got = sd_q
  BY DEF Answer, Dev
<1>3. MuNeg(reset, start, "SDRAM", we, data(q), Dev)
  BY DEF AccessNeg
<1>4. reset => busy' = FALSE /\ q' = ZeroWord
  BY <1>3 DEF MuNeg, MuReset
<1>5. Answers => busy' = FALSE /\ q' = sd_q
  <2>1. Answers => Finish("SDRAM", we, data(q), Dev)
    BY <1>1, <1>3 DEF Answers, MuNeg, Wait
  <2> QED BY <1>2, <2>1 DEF Finish
<1>6. ~reset /\ ~Answers =>
        (busy' <=> (busy \/ start)) /\ q' = q
  <2>1. ~reset /\ ~Answers => Wait(start, "SDRAM", Dev)
    BY <1>1, <1>3 DEF Answers, MuNeg, Finish
  <2> QED BY <2>1 DEF Wait
<1>7. q' = q => data(q)' = data(q)
  BY NegParts DEF data
<1> QED BY <1>4, <1>5, <1>6, <1>7

LEMMA NegAccessType ==
  ASSUME AccessInv, AccessNeg
  PROVE  AccessTypeOK'
<1>1. /\ AccessTypeOK /\ ReadHolds /\ clk = "high" /\ SdNeg(reset, Request, dq)
      /\ IInv'
  BY NegParts DEF AccessInv
<1>2. /\ state' \in State /\ WrData' \in Half /\ q_ready' \in BOOLEAN
      /\ SDRAM_DQ_OE' \in BOOLEAN /\ burst' \in Bursts /\ dq' \in Pins
      /\ clk' \in {"low", "high"} /\ reset' \in BOOLEAN
  BY <1>1 DEF IInv, TypeOK, SdTypeOK, ChipTypeOK
<1>3. Zero \in Word /\ ZeroWord \in Word
  BY HalfAssumption, AccessAssumption DEF Zero, Word
<1>4. q' \in Word
  BY <1>1, <1>3, NegUnit DEF AccessTypeOK, Answers
<1>5. busy' \in BOOLEAN
  <2>1. start \in BOOLEAN
    BY DEF start
  <2>2. CASE reset \/ Answers
    BY <2>2, NegUnit DEF Answers
  <2>3. CASE ~reset /\ ~Answers
    <3>1. busy' <=> (busy \/ start)
      BY <2>3, NegUnit
    <3> QED BY <1>1, <2>1, <3>1, Zenon DEF AccessTypeOK
  <2> QED BY <2>2, <2>3
<1>6. sd_q' \in Word
  <2>1. Latched(dq) \in Word
    <3>1. mem[Cell].lo \in Half /\ mem[Cell].hi \in Half
      BY <1>1, LinesTyped DEF AccessTypeOK, Word
    <3>2. state \in {"read_3", "read_4"} => dq \in Half
      BY <1>1, <3>1 DEF ReadHolds
    <3> QED BY <1>1, <3>2, Halves DEF Latched, AccessTypeOK
  <2> QED BY <1>1, <1>3, <2>1 DEF SdNeg, ResetRegs, InitSequence, Refresh, Open,
       Rest, Choose, Through, AccessTypeOK
<1>7. instr' \in Instr /\ mem' \in [Row \X Col -> Word]
  BY <1>1, NegParts DEF AccessTypeOK
<1> QED BY <1>2, <1>4, <1>5, <1>6, <1>7 DEF AccessTypeOK

\* What an action of the controller has to establish of an access.
AccessKept ==
  /\ q_ready' => state' = "idle_in_3"
  /\ InAccess' => (InAccess \/ (state' = "open_in_2" /\ start)) /\ ~Answers
  /\ PinsHold' /\ WriteHolds' /\ ReadHolds'

LEMMA NegReset ==
  ASSUME AccessInv, AccessNeg, reset, ResetRegs
  PROVE  AccessKept
<1>1. /\ state' = "init" /\ SDRAM_CMD' = "UNSELECTED" /\ ~q_ready' /\ burst' = burst
      /\ clk' = "low" /\ ~SDRAM_CKE'
  BY NegParts DEF ResetRegs
<1>2. PinsHold'
  BY <1>1 DEF PinsHold, CommandKept, Accessing
<1>3. WriteHolds' /\ ReadHolds'
  BY <1>1 DEF WriteHolds, ReadHolds
<1> QED BY <1>1, <1>2, <1>3 DEF AccessKept, InAccess, Accessing

LEMMA NegElsewhere ==
  ASSUME AccessInv, AccessNeg, ~reset,
         InitSequence \/ Refresh \/ Rest(Request)
  PROVE  AccessKept
<1>1. /\ state \in {"init", "idle"} /\ state' \in {"init", "idle", "idle_in_6"}
      /\ SDRAM_CMD' \in {"NOP", "PRECHARGE", "REFRESH", "LOADMODE"} /\ burst' = burst
      /\ clk' = "low" /\ clk = "high"
      /\ q_ready' => q_ready
  BY NegParts DEF InitSequence, InitCommand, Refresh, Rest
<1>2. burst.kind # "write_hi" /\ ~q_ready
  BY <1>1 DEF AccessInv, WriteHolds, BusHolds
<1>3. PinsHold'
  BY <1>1 DEF PinsHold, CommandKept, Accessing
<1>4. WriteHolds' /\ ReadHolds'
  BY <1>1, <1>2 DEF WriteHolds, ReadHolds
<1> QED BY <1>1, <1>2, <1>3, <1>4 DEF AccessKept, InAccess, Accessing

LEMMA NegOpen ==
  ASSUME AccessInv, AccessNeg, ~reset, Open(Request)
  PROVE  AccessKept
<1>1. /\ state = "idle" /\ state' = "open_in_2" /\ SDRAM_CMD' = "ACTIVE"
      /\ SDRAM_A' = address.row /\ ~q_ready' /\ start
      /\ clk = "high" /\ clk' = "low" /\ burst' = burst /\ address' = address
  BY NegParts DEF Open, Request, address
<1>2. burst.kind # "write_hi" /\ ~q_ready
  BY <1>1 DEF AccessInv, WriteHolds, BusHolds
<1>3. PinsHold'
  <2>1. CkeZ' /\ openRow' = NoRow
    BY <1>1, NegAwake, NegParts
  <2> QED BY <1>1, <2>1 DEF PinsHold, CommandKept, Accessing, OpenNext
<1>4. WriteHolds' /\ ReadHolds'
  BY <1>1, <1>2 DEF WriteHolds, ReadHolds
<1> QED BY <1>1, <1>2, <1>3, <1>4 DEF AccessKept, Answers

LEMMA NegChoose ==
  ASSUME AccessInv, AccessNeg, ~reset, Choose(Request)
  PROVE  AccessKept
<1>1. /\ state = "open_in_1" /\ state' = IF we THEN "write_1" ELSE "read_1"
      /\ (SDRAM_DQ_OE' <=> we) /\ SDRAM_CMD' = SDRAM_CMD /\ SDRAM_A' = SDRAM_A
      /\ A10' = A10 /\ (q_ready' <=> q_ready)
      /\ clk = "high" /\ clk' = "low" /\ burst' = burst /\ openRow' = openRow
      /\ address' = address /\ we' = we
  BY NegParts DEF Choose, Request
<1>2. burst.kind # "write_hi" /\ ~q_ready
  BY <1>1 DEF AccessInv, WriteHolds, BusHolds
<1>3. PinsHold'
  BY <1>1, NegAwake DEF AccessInv, PinsHold, CommandKept, Accessing, OpenNext
<1>4. WriteHolds' /\ ReadHolds'
  BY <1>1, <1>2 DEF WriteHolds, ReadHolds
<1> QED BY <1>1, <1>2, <1>3, <1>4 DEF AccessKept, InAccess, Accessing, Answers

LEMMA NegThrough ==
  ASSUME AccessInv, AccessNeg, ~reset,
         Through(Request, dq)
  PROVE  AccessKept
<1>1. /\ clk = "high" /\ clk' = "low" /\ burst' = burst /\ openRow' = openRow
      /\ dq' = dq /\ mem' = mem
      /\ address' = address /\ Cell' = Cell /\ we' = we
      /\ AccessTypeOK /\ BusHolds /\ PinsHold /\ WriteHolds /\ ReadHolds
  BY NegParts DEF AccessInv
<1>2. /\ Request.addr = address /\ Request.d = data(q)
  BY DEF Request, address
<1>0. state \in DOMAIN After /\ state' = After[state]
  BY DEF Through
<1>3. q_ready' => state \in {"precharge", "read_precharge"} /\ state' = "idle_in_3"
  BY <1>0, <1>1, Preceding DEF Through, ReadyAfter, BusHolds
<1>4. state' \in Accessing => state \in Accessing
  BY DEF Through, After, Accessing
<1>5. InAccess' => InAccess /\ ~Answers
  BY <1>1, <1>3, <1>4 DEF InAccess, Accessing, Answers, BusHolds
<1>6. PinsHold'
  <2>1. CommandKept'
    BY <1>1 DEF Through, After, PinsHold, CommandKept
  <2>2. state' \in Accessing => OpenNext' = address'.row
    <3>1. CkeZ' /\ openRow' = openRow
      BY <1>0, NegAwake, NegParts DEF After
    <3> QED BY <1>1, <1>4, <3>1
            DEF Through, After, PinsHold, CommandKept, OpenNext, Accessing
  <2>3. /\ SDRAM_CMD' = "ACTIVE" => state' = "open_in_2"
        /\ SDRAM_CMD' = "WRITE" <=> state' = "write_2"
        /\ SDRAM_CMD' = "READ" <=> state' = "read_2"
        /\ SDRAM_CMD' = "PRECHARGE" => state' \notin Accessing
    BY <1>1 DEF Through, After, PinsHold, CommandKept, Accessing
  <2>4. state' \in {"write_2", "read_2"} => SDRAM_A' = address'.col
    BY <1>1, <1>2 DEF Through, After
  <2> QED BY <1>1, <2>1, <2>2, <2>3, <2>4 DEF PinsHold
<1>7. WriteHolds'
  <2>1. state' \in {"write_1", "write_2", "write_3"} => data(q)' = data(q)
    BY <1>0, <1>1, NegUnit, Preceding DEF BusHolds, Answers
  <2>2. /\ state' = "write_2" => WrData' = data(q)'.lo
        /\ state' = "write_3" => WrData' = data(q)'.hi
    BY <1>0, <1>2, <2>1, Preceding DEF Through
  <2>3. state' \in {"write_1", "write_2", "write_3", "precharge"} => we'
    BY <1>0, <1>1, Preceding DEF Through, WriteHolds
  <2>4. state' \in {"write_1", "write_2", "write_3"} => SDRAM_DQ_OE'
    BY <1>0, <1>1, Preceding DEF Through, WriteHolds
  <2>5. burst'.kind = "write_hi" => state' = "write_3"
    BY <1>0, <1>1, Preceding DEF Through, WriteHolds
  <2> QED BY <1>1, <2>2, <2>3, <2>4, <2>5 DEF WriteHolds
<1>8. ReadHolds'
  <2>1. state' \in {"read_1", "read_2", "read_3", "read_4", "read_precharge"} => ~we'
    BY <1>0, <1>1, Preceding DEF ReadHolds
  <2>2. state' = "read_3" =>
          burst' = [kind |-> "read_lo", row |-> address'.row, col |-> address'.col]
    BY <1>0, <1>1, Preceding DEF ReadHolds
  <2>3. state' = "read_4" =>
          /\ burst' = [kind |-> "read_hi", row |-> address'.row, col |-> address'.col]
          /\ sd_q'.lo = mem'[Cell'].lo
    <3>1. state' = "read_4" => state = "read_3" /\ sd_q' = [sd_q EXCEPT !.lo = dq]
      BY <1>0, Preceding DEF Through, Latched
    <3>2. state = "read_3" => dq = mem[Cell].lo /\ dq \in Half
      BY <1>1, LinesTyped DEF ReadHolds, AccessTypeOK, Word
    <3>3. dq \in Half => [sd_q EXCEPT !.lo = dq].lo = dq
      BY <1>1, Halves DEF AccessTypeOK
    <3> QED BY <1>1, <3>1, <3>2, <3>3 DEF ReadHolds
  <2>4. state' = "read_precharge" => sd_q' = mem'[Cell']
    <3>1. state' = "read_precharge" => state = "read_4" /\ sd_q' = [sd_q EXCEPT !.hi = dq]
      BY <1>0, Preceding DEF Through, Latched
    <3>2. Cell \in Row \X Col /\ mem[Cell] \in Word /\ mem[Cell].hi \in Half
      BY <1>1, LinesTyped DEF AccessTypeOK, Word
    <3>3. state = "read_4" => sd_q.lo = mem[Cell].lo /\ dq = mem[Cell].hi
      BY <1>1 DEF ReadHolds
    <3>4. state = "read_4" => [sd_q EXCEPT !.hi = dq] = mem[Cell]
      <4> DEFINE w == [sd_q EXCEPT !.hi = dq]
      <4>1. dq \in Half => w \in Word /\ w.hi = dq /\ w.lo = sd_q.lo
        BY <1>1, Halves DEF AccessTypeOK
      <4> HIDE DEF w
      <4>2. ASSUME state = "read_4" PROVE w = mem[Cell]
        <5>1. w \in Word /\ w.lo = mem[Cell].lo /\ w.hi = mem[Cell].hi
          BY <3>2, <3>3, <4>1, <4>2
        <5> DEFINE v == mem[Cell]
        <5>2. v \in Word
          BY <3>2
        <5> HIDE DEF v
        <5>3. w.lo = v.lo /\ w.hi = v.hi
          BY <5>1 DEF v
        <5>4. w = v
          BY <5>1, <5>2, <5>3, SameHalves
        <5> QED BY <5>4 DEF v
      <4> QED BY <4>2 DEF w
    <3> QED BY <1>1, <3>1, <3>4
  <2>5. q_ready' /\ ~we' => sd_q' = mem'[Cell']
    <3>1. q_ready' /\ ~we => state = "read_precharge" /\ sd_q' = sd_q
      BY <1>1, <1>3 DEF Through, Latched, WriteHolds
    <3> QED BY <1>1, <3>1 DEF ReadHolds
  <2> QED BY <1>1, <2>1, <2>2, <2>3, <2>4, <2>5 DEF ReadHolds
<1> QED BY <1>3, <1>5, <1>6, <1>7, <1>8 DEF AccessKept

LEMMA NegKept ==
  ASSUME AccessInv, AccessNeg
  PROVE  AccessKept
BY NegParts, NegReset, NegElsewhere, NegOpen, NegChoose, NegThrough DEF SdNeg

LEMMA NegBus ==
  ASSUME AccessInv, AccessNeg
  PROVE  BusHolds'
<1>1. AccessTypeOK /\ BusHolds /\ AccessKept /\ clk = "high" /\ clk' = "low" /\ reset' = reset
  BY NegParts, NegKept DEF AccessInv
<1>2. busy' => start'
  BY <1>1, NegUnit, NegParts DEF BusHolds
<1>3. reset' => state' = "init" /\ ~busy' /\ ~q_ready' /\ ~SDRAM_CKE'
  BY <1>1, NegUnit, NegParts DEF SdNeg, ResetRegs
<1>4. InAccess' => busy'
  <2>1. CASE reset
    BY <1>1, <1>3, <2>1 DEF InAccess, Accessing
  <2>2. CASE ~reset
    BY <1>1, <2>2, NegUnit DEF AccessKept, BusHolds
  <2> QED BY <2>1, <2>2
<1> QED BY <1>1, <1>2, <1>3, <1>4 DEF BusHolds, AccessKept

LEMMA AccessStep ==
  ASSUME AccessInv, [AccessNext]_accessvars
  PROVE  AccessInv'
<1>1. CASE AccessPos
  BY <1>1, PosParts, PosNotLost, PosAccessType, PosBus, PosPins, PosWrite, PosRead
  DEF AccessInv
<1>2. CASE AccessNeg
  BY <1>2, NegParts, NegNotLost, NegAccessType, NegBus, NegKept
  DEF AccessInv, AccessKept
<1>3. CASE UNCHANGED accessvars
  <2>1. UNCHANGED vars
    BY <1>3 DEF accessvars
  <2>2. IInv'
    BY <2>1, Stutters DEF AccessInv
  <2>3. NotLost'
    BY <2>1 DEF vars, sdvars, chipvars, AccessInv, NotLost, Survived
  <2>4. AccessTypeOK'
    BY <1>3 DEF accessvars, vars, cpuvars, muvars, sdvars, chipvars, AccessInv,
         AccessTypeOK
  <2>5. BusHolds' /\ PinsHold' /\ WriteHolds' /\ ReadHolds'
    BY <1>3 DEF accessvars, vars, cpuvars, muvars, sdvars, chipvars, AccessInv,
         BusHolds, PinsHold, WriteHolds, ReadHolds, InAccess, CommandKept,
         OpenNext, Cell, address, start, we, data
  <2> QED BY <2>2, <2>3, <2>4, <2>5 DEF AccessInv
<1> QED BY <1>1, <1>2, <1>3 DEF AccessNext

LEMMA AccessBegins ==
  ASSUME AccessInit
  PROVE  AccessInv
<1>1. /\ clk = "low" /\ reset = FALSE /\ busy = FALSE /\ SdInit /\ ChipInit
      /\ q = ZeroWord /\ instr = NoInstr /\ mem \in PowerUp
  BY DEF AccessInit, Init, CpuInit, MuInit
<1>2. AccessTypeOK
  <2>1. ZeroWord \in Word /\ Zero \in Word /\ 0 \in Half /\ Z \in Pins
    BY HalfAssumption, AccessAssumption DEF Zero, Word, Pins
  <2>2. mem \in [Row \X Col -> Word]
    BY <1>1, AccessAssumption
  <2>3. instr \in Instr
    BY <1>1, InstrAssumption
  <2> QED BY <1>1, <2>1, <2>2, <2>3 DEF AccessTypeOK, SdInit, ChipInit, State, Bursts
<1>3. BusHolds /\ PinsHold /\ WriteHolds /\ ReadHolds
  BY <1>1 DEF SdInit, ChipInit, Idle, BusHolds, PinsHold, WriteHolds, ReadHolds,
       InAccess, Accessing, CommandKept
<1>4. NotLost
  BY <1>1 DEF AccessInit, Init, SdInit, NotLost, Survived
<1>5. IInv
  BY InitIInv DEF AccessInit
<1> QED BY <1>2, <1>3, <1>4, <1>5 DEF AccessInv

-----------------------------------------------------------------------------
(* The steps of SDRAMaccess are steps of Memory.                           *)

Req ==
  IF ~Outstanding THEN NoRequest
  ELSE [kind |-> IF we THEN "write" ELSE "read", cell |-> Cell, word |-> data(q)]
Value ==
  IF ~Outstanding \/ ~Carried THEN NoRequest
  ELSE IF we THEN [kind |-> "write", cell |-> Cell, word |-> data(q)]
  ELSE [kind |-> "value", word |-> Contents[Cell]]

LEMMA CarriedAccess ==
  ASSUME AccessInv, Carried
  PROVE  InAccess /\ busy
BY DEF AccessInv, BusHolds, Carried, InAccess, Accessing

\* The memory of Memory, where no write is between its halves.
LEMMA Settled ==
  ASSUME burst.kind # "write_hi"
  PROVE  Contents = mem
BY DEF Contents

\* The second half of a write does not change the contents: they count it in.
LEMMA PosContents ==
  ASSUME AccessInv, AccessPos, state # "write_2"
  PROVE  Contents' = Contents
<1>1. /\ clk = "low" /\ PinsHold /\ WriteHolds /\ CkeHolds /\ SDRAM_CMD # "WRITE"
  BY PosParts DEF AccessInv, IInv, PinsHold
<1>2. CASE ~CkeZ
  <2>1. burst' = burst /\ mem' = mem /\ burst.kind # "write_hi"
    BY <1>2, PosParts DEF Sleeps
  <2> QED BY <2>1 DEF Contents
<1>3. CASE CkeZ
  <2>1. /\ burst' = BurstStep(SDRAM_CMD, SDRAM_A)
        /\ mem' = StoredHalf(SDRAM_CMD, SDRAM_DQM, SDRAM_A, Driven)
    BY <1>3, PosParts DEF Takes
  <2>2. burst'.kind # "write_hi"
    BY <1>1, <2>1 DEF BurstStep, Idle
  <2>3. Contents' = mem'
    BY <2>2 DEF Contents
  <2>4. CASE burst.kind # "write_hi" \/ SDRAM_DQM
    BY <1>1, <2>1, <2>3, <2>4 DEF StoredHalf, Contents, Masked
  <2>5. CASE burst.kind = "write_hi" /\ ~SDRAM_DQM
    <3>1. state = "write_3" /\ Driven = data(q).hi
      BY <1>1, <2>5 DEF WriteHolds, Driven, SDRAM_DQM
    <3> QED BY <1>1, <2>1, <2>3, <2>5, <3>1 DEF StoredHalf, Contents, Masked
  <2> QED BY <2>4, <2>5
<1> QED BY <1>2, <1>3

LEMMA BothHalves ==
  ASSUME NEW w \in Word, NEW v \in Word
  PROVE  [[w EXCEPT !.lo = v.lo] EXCEPT !.hi = v.hi] = v
<1>1. [w EXCEPT !.lo = v.lo] = [lo |-> v.lo, hi |-> w.hi]
  BY DEF Word
<1>2. [[lo |-> v.lo, hi |-> w.hi] EXCEPT !.hi = v.hi] = [lo |-> v.lo, hi |-> v.hi]
  OBVIOUS
<1>3. [lo |-> v.lo, hi |-> v.hi] = v
  BY DEF Word
<1> QED BY <1>1, <1>2, <1>3

LEMMA PosContentsWrite ==
  ASSUME AccessInv, AccessPos, state = "write_2"
  PROVE  /\ ~reset' => Contents' = [Contents EXCEPT ![Cell] = data(q)]
         /\ reset' => Contents' = [Contents EXCEPT ![Cell] = Torn(Contents[Cell], data(q))]
<1>1. /\ AccessTypeOK /\ WriteHolds /\ PinsHold /\ clk = "low" /\ clk' = "high"
      /\ busy /\ CkeZ /\ ~SDRAM_DQM
  BY PosParts DEF AccessInv, BusHolds, InAccess, Accessing, IInv, CkeHolds, SDRAM_DQM
<1>2. /\ SDRAM_CMD = "WRITE" /\ SDRAM_A = address.col /\ openRow = address.row
      /\ Driven = data(q).lo
  BY <1>1 DEF PinsHold, WriteHolds, OpenNext, Accessing, Driven
<1>3. Cell \in Row \X Col /\ data(q) \in Word /\ openRow # NoRow
  <2>1. address.row \in Nat
    BY <1>1, LinesTyped, AddressAssumption DEF Address
  <2>2. openRow # NoRow
    BY <1>2, <2>1 DEF NoRow
  <2> QED BY <1>1, <2>2, LinesTyped
<1>4. /\ mem' = [mem EXCEPT ![Cell].lo = data(q).lo]
      /\ burst'.kind = "write_hi" /\ <<burst'.row, burst'.col>> = Cell
  <2>1. /\ burst' = BurstStep(SDRAM_CMD, SDRAM_A)
        /\ mem' = StoredHalf(SDRAM_CMD, SDRAM_DQM, SDRAM_A, Driven)
    BY <1>1, PosParts DEF Takes
  <2> QED BY <1>1, <1>2, <1>3, <2>1 DEF StoredHalf, BurstStep, Cell
<1>5. Contents = mem
  BY <1>1, Settled DEF WriteHolds
<1>6. data(q)' = data(q)
  BY <1>1, PosLines
<1>7. mem[Cell] \in Word
  BY <1>1, <1>3 DEF AccessTypeOK
<1>8. CASE reset'
  <2>1. Contents' = mem'
    BY <1>1, <1>8 DEF Contents, Masked
  <2> QED BY <1>4, <1>5, <1>8, <2>1 DEF Torn
<1>9. CASE ~reset'
  <2>1. Contents' = [mem' EXCEPT ![Cell].hi = data(q).hi]
    BY <1>1, <1>4, <1>6, <1>9 DEF Contents, Masked
  <2>2. [[mem[Cell] EXCEPT !.lo = data(q).lo] EXCEPT !.hi = data(q).hi] = data(q)
    BY <1>3, <1>7, BothHalves
  <2>3. Contents' = [mem EXCEPT ![Cell] = data(q)]
    BY <1>1, <1>3, <1>4, <2>1, <2>2 DEF AccessTypeOK
  <2> QED BY <1>5, <1>9, <2>3
<1> QED BY <1>8, <1>9

LEMMA NegContents ==
  ASSUME AccessInv, AccessNeg
  PROVE  Contents' = Contents
<1>1. /\ WriteHolds /\ BusHolds /\ clk = "high" /\ clk' = "low" /\ burst' = burst
      /\ mem' = mem /\ SdNeg(reset, Request, dq)
  BY NegParts DEF AccessInv
<1>2. CASE burst.kind # "write_hi"
  BY <1>1, <1>2 DEF Contents
<1>3. CASE burst.kind = "write_hi"
  <2>1. state = "write_2"
    BY <1>1, <1>3 DEF WriteHolds
  <2>2. CASE reset
    <3>1. SDRAM_DQM'
      BY <1>1, <2>2 DEF SdNeg, ResetRegs, SDRAM_DQM
    <3> QED BY <1>1, <2>2, <3>1 DEF Contents, Masked
  <2>3. CASE ~reset
    <3>1. ~SDRAM_DQM'
      BY <2>1, <2>3, NegAwake DEF SDRAM_DQM
    <3>2. data(q)' = data(q)
      BY <1>1, <2>1, <2>3, NegUnit DEF BusHolds, Answers
    <3> QED BY <1>1, <2>3, <3>1, <3>2 DEF Contents, Masked
  <2> QED BY <2>2, <2>3
<1> QED BY <1>2, <1>3

\* The actions of Memory in these terms.
LEMMA MemoryActions ==
  /\ Atomic!Ask <=>
       /\ ~reset /\ Req = NoRequest /\ Req' # NoRequest
       /\ Contents' = Contents /\ Value' = Value /\ q' = q /\ reset' = reset
  /\ Atomic!Do <=>
       /\ ~reset /\ Req # NoRequest /\ Value = NoRequest
       /\ IF Req.kind = "write"
          THEN Contents' = [Contents EXCEPT ![Req.cell] = Req.word] /\ Value' = Req
          ELSE /\ Contents' = Contents
               /\ Value' = [kind |-> "value", word |-> Contents[Req.cell]]
       /\ Req' = Req /\ q' = q /\ reset' = reset
  /\ Atomic!Return <=>
       /\ ~reset /\ Value # NoRequest
       /\ Req' = NoRequest /\ Value' = NoRequest
       /\ Req.kind = "read" => q' = Value.word
       /\ Contents' = Contents /\ reset' = reset
  /\ Atomic!Reset <=>
       /\ ~reset /\ reset' = TRUE
       /\ Req' = NoRequest /\ Value' = NoRequest
       /\ \/ Contents' = Contents
          \/ /\ Req.kind = "write"
             /\ \E w \in {Req.word, Torn(Contents[Req.cell], Req.word)} :
                  Contents' = [Contents EXCEPT ![Req.cell] = w]
       /\ q' = q
  /\ Atomic!Stay <=>
       reset /\ Contents' = Contents /\ Req' = Req /\ Value' = Value
  /\ UNCHANGED Atomic!mvars <=>
       /\ Contents' = Contents /\ Req' = Req /\ Value' = Value
       /\ q' = q /\ reset' = reset
<1> USE DEF Req, Value, Contents, Outstanding, Carried, Cell, address,
     Cell, Outstanding, Carried, NoRequest, Atomic!None
<1>1. UNCHANGED Atomic!mvars <=>
       /\ Contents' = Contents /\ Req' = Req /\ Value' = Value
       /\ q' = q /\ reset' = reset
  BY DEF Atomic!mvars
<1>2. Atomic!Stay <=>
       reset /\ Contents' = Contents /\ Req' = Req /\ Value' = Value
  BY DEF Atomic!Stay
<1>3. Atomic!Ask <=>
       /\ ~reset /\ Req = NoRequest /\ Req' # NoRequest
       /\ Contents' = Contents /\ Value' = Value /\ q' = q /\ reset' = reset
  BY DEF Atomic!Ask
<1>4. Atomic!Do <=>
       /\ ~reset /\ Req # NoRequest /\ Value = NoRequest
       /\ IF Req.kind = "write"
          THEN Contents' = [Contents EXCEPT ![Req.cell] = Req.word] /\ Value' = Req
          ELSE /\ Contents' = Contents
               /\ Value' = [kind |-> "value", word |-> Contents[Req.cell]]
       /\ Req' = Req /\ q' = q /\ reset' = reset
  BY DEF Atomic!Do
<1>5. Atomic!Return <=>
       /\ ~reset /\ Value # NoRequest
       /\ Req' = NoRequest /\ Value' = NoRequest
       /\ Req.kind = "read" => q' = Value.word
       /\ Contents' = Contents /\ reset' = reset
  BY DEF Atomic!Return
<1>6. Atomic!Reset <=>
       /\ ~reset /\ reset' = TRUE
       /\ Req' = NoRequest /\ Value' = NoRequest
       /\ \/ Contents' = Contents
          \/ /\ Req.kind = "write"
             /\ \E w \in {Req.word, Torn(Contents[Req.cell], Req.word)} :
                  Contents' = [Contents EXCEPT ![Req.cell] = w]
       /\ q' = q
  BY DEF Atomic!Reset
<1> QED BY <1>1, <1>2, <1>3, <1>4, <1>5, <1>6

LEMMA ReqKind ==
  /\ Req = NoRequest <=> ~Outstanding
  /\ Outstanding => (Req.kind = "write" <=> we) /\ (Req.kind = "read" <=> ~we)
  /\ Value = NoRequest <=> ~Outstanding \/ ~Carried
BY DEF Req, Value, NoRequest

\* Rising edge: the chip takes the first half of a write, or begins a read; a
\* reset may begin.
LEMMA PosMemory ==
  ASSUME AccessInv, AccessPos
  PROVE  Atomic!Next \/ UNCHANGED Atomic!mvars
<1>1. /\ AccessTypeOK /\ BusHolds /\ WriteHolds /\ clk = "low" /\ clk' = "high"
      /\ busy' = busy /\ q' = q /\ state' = state /\ q_ready' = q_ready
  BY PosParts DEF AccessInv, SdPos
<1>2. CASE reset
  <2>1. ~busy /\ state # "write_2"
    BY <1>1, <1>2 DEF BusHolds
  <2>2. Contents' = Contents
    BY <2>1, PosContents
  <2>3. Req' = Req /\ Value' = Value
    BY <1>1, <2>1 DEF Req, Value, Outstanding
  <2> QED BY <1>2, <2>2, <2>3, MemoryActions DEF Atomic!Next
<1>3. CASE ~reset /\ reset'
  <2>1. Req' = NoRequest /\ Value' = NoRequest
    BY <1>3 DEF Req, Value, Outstanding
  <2>2. reset' = TRUE
    BY <1>3, PosParts, ResetsAssumption
  <2>3. CASE state # "write_2"
    BY <1>1, <1>3, <2>1, <2>2, <2>3, PosContents, MemoryActions DEF Atomic!Next
  <2>4. CASE state = "write_2"
    <3>1. we /\ Outstanding
      BY <1>1, <1>3, <2>4 DEF WriteHolds, BusHolds, InAccess, Accessing, Outstanding
    <3>2. Req.kind = "write" /\ Req.cell = Cell /\ Req.word = data(q)
      BY <3>1 DEF Req
    <3>3. Contents' = [Contents EXCEPT ![Req.cell] = Torn(Contents[Req.cell], Req.word)]
      BY <1>3, <2>4, <3>2, PosContentsWrite
    <3> QED BY <1>1, <1>3, <2>1, <2>2, <3>2, <3>3, MemoryActions DEF Atomic!Next
  <2> QED BY <2>3, <2>4
<1>4. CASE ~reset /\ ~reset'
  <2>0. reset' = reset
    <3>1. reset \in BOOLEAN /\ reset' \in BOOLEAN
      BY <1>1, PosParts, ResetsAssumption DEF AccessTypeOK
    <3> QED BY <1>4, <3>1
  <2>1. Outstanding' = Outstanding
    BY <1>1, <1>4 DEF Outstanding
  <2>2. CASE ~busy
    <3>1. state # "write_2"
      BY <1>1, <2>2 DEF BusHolds, InAccess, Accessing
    <3>2. Req' = Req /\ Value' = Value
      BY <1>1, <2>2 DEF Req, Value, Outstanding
    <3> QED BY <1>1, <2>0, <3>1, <3>2, PosContents, MemoryActions
  <2>3. CASE busy
    <3>1. Req' = Req
      BY <2>1, <2>3, PosLines DEF Req
    <3>2. Outstanding
      BY <1>4, <2>3 DEF Outstanding
    <3>3. CASE state \notin {"write_2", "read_2"}
      <4>1. Carried' <=> Carried
        BY <1>1, <3>3 DEF Carried
      <4>2. Contents' = Contents
        BY <3>3, PosContents
      <4>3. Value' = Value
        BY <2>1, <2>3, <4>1, <4>2, PosLines DEF Value
      <4> QED BY <1>1, <2>0, <3>1, <4>2, <4>3, MemoryActions
    <3>4. CASE state = "write_2"
      <4>1. we /\ ~Carried /\ Carried'
        BY <1>1, <3>4 DEF WriteHolds, Carried, BusHolds
      <4>2. Req.kind = "write" /\ Req.cell = Cell /\ Req.word = data(q)
        BY <3>2, <4>1 DEF Req
      <4>3. Value' = Req
        BY <2>1, <2>3, <3>2, <4>1, PosLines DEF Req, Value
      <4>4. Contents' = [Contents EXCEPT ![Req.cell] = Req.word]
        BY <1>4, <3>4, <4>2, PosContentsWrite
      <4>5. Req # NoRequest /\ Value = NoRequest
        BY <3>2, <4>1, ReqKind
      <4> QED BY <1>1, <1>4, <2>0, <3>1, <4>2, <4>3, <4>4, <4>5, MemoryActions DEF
           Atomic!Next
    <3>5. CASE state = "read_2"
      <4>1. ~we /\ ~Carried /\ Carried'
        BY <1>1, <3>5 DEF AccessInv, ReadHolds, Carried, BusHolds
      <4>2. Req.kind = "read" /\ Req.cell = Cell
        BY <3>2, <4>1 DEF Req
      <4>3. Contents' = Contents
        BY <3>5, PosContents
      <4>4. Value' = [kind |-> "value", word |-> Contents[Req.cell]]
        BY <2>1, <2>3, <3>2, <4>1, <4>2, <4>3, PosLines DEF Value
      <4>5. Req # NoRequest /\ Value = NoRequest
        BY <3>2, <4>1, ReqKind
      <4> QED BY <1>1, <1>4, <2>0, <3>1, <4>2, <4>3, <4>4, <4>5, MemoryActions DEF
           Atomic!Next
    <3> QED BY <3>3, <3>4, <3>5
  <2> QED BY <2>2, <2>3
<1> QED BY <1>2, <1>3, <1>4

\* Falling edge: a request is made, or answered with what the chip has read.
LEMMA NegMemory ==
  ASSUME AccessInv, AccessNeg
  PROVE  Atomic!Next \/ UNCHANGED Atomic!mvars
<1>1. /\ AccessTypeOK /\ BusHolds /\ WriteHolds /\ ReadHolds
      /\ clk = "high" /\ clk' = "low" /\ reset' = reset
      /\ SdNeg(reset, Request, dq)
      /\ Contents' = Contents /\ mem' = mem
  BY NegParts, NegContents DEF AccessInv
<1>2. CASE reset
  <2>1. Req' = Req /\ Value' = Value
    BY <1>1, <1>2 DEF Req, Value, Outstanding
  <2> QED BY <1>1, <1>2, <2>1, MemoryActions DEF Atomic!Next
<1>3. CASE Answers
  <2>1. /\ busy' = FALSE /\ q' = sd_q /\ Outstanding /\ Carried /\ ~reset
    BY <1>3, NegUnit DEF Answers, Outstanding, Carried
  <2>2. Req' = NoRequest /\ Value' = NoRequest /\ Value # NoRequest
    BY <2>1, ReqKind DEF Req, Value, Outstanding
  <2>3. Req.kind = "read" => q' = Value.word
    <3>1. burst.kind # "write_hi"
      BY <1>1, <1>3 DEF WriteHolds, BusHolds, Answers
    <3>2. Req.kind = "read" => ~we /\ sd_q = Contents[Cell]
      BY <1>1, <1>3, <2>1, <3>1, ReqKind, Settled DEF ReadHolds, Answers
    <3> QED BY <2>1, <3>2 DEF Value
  <2> QED BY <1>1, <2>1, <2>2, <2>3, MemoryActions DEF Atomic!Next
<1>4. CASE ~reset /\ ~Answers
  <2>1. /\ busy' <=> (busy \/ start)
        /\ q' = q /\ data(q)' = data(q)
        /\ Cell' = Cell /\ we' = we
    BY <1>4, NegUnit, NegParts
  <2>2. CASE busy
    <3>1. Outstanding /\ Outstanding'
      BY <1>1, <1>4, <2>1, <2>2 DEF Outstanding
    <3>2. Req' = Req
      BY <2>1, <3>1 DEF Req
    <3>3. Carried' <=> Carried
      <4>1. ~q_ready
        BY <1>4, <2>2 DEF Answers
      <4>2. CASE Through(Request, dq)
        BY <1>1, <4>1, <4>2, Preceding DEF Through, ReadyAfter, Carried
      <4>3. CASE ~Through(Request, dq)
        BY <1>1, <1>4, <4>1, <4>3 DEF SdNeg, InitSequence, Refresh, Open, Rest,
             Choose, Carried
      <4> QED BY <4>2, <4>3
    <3>4. Value' = Value
      BY <1>1, <2>1, <3>1, <3>3 DEF Value
    <3> QED BY <1>1, <2>1, <3>2, <3>4, MemoryActions
  <2>3. CASE ~busy /\ start
    <3>1. Outstanding' /\ ~Outstanding
      BY <1>1, <1>4, <2>1, <2>3 DEF Outstanding
    <3>2. ~Carried'
      <4>1. ~InAccess
        BY <1>1, <2>3 DEF BusHolds
      <4>2. InAccess' => state' = "open_in_2"
        BY <4>1, NegKept DEF AccessKept
      <4>3. q_ready' => state' = "idle_in_3"
        BY NegKept DEF AccessKept
      <4> QED BY <1>1, <4>2, <4>3 DEF Carried, InAccess, Accessing
    <3>3. /\ Req = NoRequest /\ Value = NoRequest
          /\ Value' = NoRequest /\ Req' # NoRequest
      BY <3>1, <3>2, ReqKind DEF Req, Value, NoRequest
    <3> QED BY <1>1, <1>4, <2>1, <3>3, MemoryActions DEF Atomic!Next
  <2>4. CASE ~busy /\ ~start
    <3>1. ~Outstanding' /\ ~Outstanding
      BY <1>1, <1>4, <2>1, <2>4 DEF Outstanding
    <3>2. Req' = Req /\ Value' = Value
      BY <3>1 DEF Req, Value
    <3> QED BY <1>1, <2>1, <3>2, MemoryActions
  <2> QED BY <2>2, <2>3, <2>4
<1> QED BY <1>2, <1>3, <1>4 DEF Answers

LEMMA MemoryInit ==
  ASSUME AccessInit
  PROVE  Atomic!Init
<1>1. /\ clk = "low" /\ reset = FALSE /\ busy = FALSE /\ burst = Idle /\ mem \in PowerUp
  BY DEF AccessInit, Init, MuInit, ChipInit
<1>2. Contents = mem
  BY <1>1, Settled DEF Idle
<1>3. mem \in [Row \X Col -> Word]
  BY <1>1, AccessAssumption
<1> QED BY <1>1, <1>2, <1>3 DEF Atomic!Init, Outstanding, NoRequest, Atomic!None

-----------------------------------------------------------------------------
\* SDRAMcontroller.v:125-307, MemoryUnit.v:392-397.  For every number of rows
\* and columns, every program and every reset but one that stops the
\* initialisation at its PRECHARGE or its LOADMODE, controller and chip are an
\* atomic memory to the CPU: what a read returns is what the last write before
\* it wrote, a refresh or a reset in between changes nothing, and a write that
\* a reset interrupts leaves the old word, the new one or the first half of
\* the new one with the second half of the old.
THEOREM SDRAMIsAtomic == AccessSpec => AtomicSpec
<1>1. AccessInit => AccessInv /\ Atomic!Init
  BY AccessBegins, MemoryInit
<1>2. AccessInv /\ [AccessNext]_accessvars => AccessInv'
  BY AccessStep
<1>3. AccessInv /\ [AccessNext]_accessvars => [Atomic!Next]_(Atomic!mvars)
  <2>1. ASSUME AccessInv, UNCHANGED accessvars
        PROVE  UNCHANGED Atomic!mvars
    BY <2>1, MemoryActions DEF accessvars, vars, cpuvars, muvars, sdvars, chipvars,
         Contents, Req, Value, Outstanding, Carried, Cell, address,
         Masked, SDRAM_DQM, we, data
  <2> QED BY <2>1, PosMemory, NegMemory DEF AccessNext
<1> QED BY <1>1, <1>2, <1>3, PTL DEF AccessSpec, AtomicSpec, Atomic!Spec
=============================================================================
