------------------------------ MODULE PC_proofs ------------------------------
(***************************************************************************)
(* Proofs about PC: the inductive invariant, the properties that follow    *)
(* from it, and that PC implements ProgramFlow.                            *)
(***************************************************************************)
EXTENDS PC, TLAPS

-----------------------------------------------------------------------------
(* The inductive invariant.                                                *)

\* Between clock edges writeBack_prev holds the stage, unless a reset is on.
PrevTracks == clk = "low" => writeBack_prev = (~reset /\ state = "writeBack")

\* The update of the writeBack stage is either to come or done.
UpdateCount ==
  state = "writeBack" =>
    updates = IF clk = "high" /\ ~writeBack_prev THEN 0 ELSE 1

\* held counts the rising edges of a reset; from the second one on, first the
\* Timer and then PC.v are in their reset state.
ResetProgress ==
  /\ ~reset <=> held = 0
  /\ held >= 2 => state = "init"
  /\ held >= 2 /\ clk = "low" => ResetState

IInv == TypeOK /\ PrevTracks /\ UpdateCount /\ ResetProgress /\ IntIdNamesCause

-----------------------------------------------------------------------------
(* 27-bit arithmetic stays in the address range.                           *)

LEMMA ModBound ==
  ASSUME NEW n \in Nat \ {0}, NEW a \in Nat
  PROVE  a % n \in 0 .. n - 1
  OBVIOUS

LEMMA NextPCInRange ==
  ASSUME NEW i \in Instr, NEW pc \in 0 .. AddrSize - 1
  PROVE  NextPC(i, pc) \in 0 .. AddrSize - 1
<1>1. i.arg \in 0 .. AddrSize - 1
  <2>1. Operand \cup {0} \subseteq 0 .. AddrSize - 1
    BY AddrAssumption
  <2>2. i.arg \in Operand \cup {0}
    BY Zenon DEF Instr
  <2> QED BY <2>1, <2>2
<1>2. AddrSize \in Nat \ {0} /\ pc + 1 \in Nat /\ pc + i.arg \in Nat
      /\ pc + pc \in Nat
  BY <1>1, AddrAssumption
<1>3. /\ (pc + 1) % AddrSize \in 0 .. AddrSize - 1
      /\ (pc + i.arg) % AddrSize \in 0 .. AddrSize - 1
      /\ (pc + pc) % AddrSize \in 0 .. AddrSize - 1
  BY <1>2, ModBound
<1>4. jump_addr(i, pc) = i.arg \/ jump_addr(i, pc) = pc
  BY DEF jump_addr
<1> QED BY <1>1, <1>3, <1>4 DEF NextPC

-----------------------------------------------------------------------------
LEMMA InitIInv == Init => IInv
<1> SUFFICES ASSUME Init PROVE IInv
  OBVIOUS
<1>1. /\ 0 \in 0 .. MinReset /\ PCstart \in 0 .. AddrSize - 1
      /\ 0 \in 0 .. AddrSize - 1 /\ 0 \in 0 .. 4 /\ 0 \in 0 .. 8 /\ 0 \in Nat
      /\ ~(0 >= 2)
  BY AddrAssumption, ResetAssumption
<1>2. NoLine \in [Source -> BOOLEAN]
  BY DEF NoLine
<1>3. TypeOK
  BY <1>1, <1>2, Zenon DEF Init, TypeOK, Stage
<1>4. PrevTracks /\ UpdateCount /\ IntIdNamesCause
  BY Zenon DEF Init, PrevTracks, UpdateCount, IntIdNamesCause
<1>5. ResetProgress
  BY <1>1, Zenon DEF Init, ResetProgress
<1> QED BY <1>3, <1>4, <1>5 DEF IInv

LEMMA PosEdgeIInv ==
  ASSUME IInv, NEW busy \in BOOLEAN, PosEdge(busy)
  PROVE  IInv'
<1> USE DEF IInv, PosEdge
<1>1. state' \in Stage /\ (reset => state' = "init")
      /\ (state' = "writeBack" =>
            (state = "writeBack" \/ state = "readMem") /\ ~reset)
  BY DEF TypeOK, TimerStep, Stage, StageAfter, BusStage
<1>2. TypeOK'
  BY <1>1, ResetAssumption DEF TypeOK, ResetLine
<1>3. PrevTracks'
  BY DEF PrevTracks
<1>4. UpdateCount'
  BY <1>1 DEF UpdateCount, PrevTracks
<1>5. ResetProgress'
  BY <1>1, ResetAssumption DEF ResetProgress, ResetLine, TypeOK
<1>6. IntIdNamesCause'
  BY DEF IntIdNamesCause
<1> QED BY <1>2, <1>3, <1>4, <1>5, <1>6

LEMMA LatchTypes ==
  ASSUME TypeOK, NEW line \in Levels
  PROVE  /\ line \in [Source -> BOOLEAN] /\ NoLine \in [Source -> BOOLEAN]
         /\ RisingBase(line) \in [Source -> BOOLEAN]
         /\ IntEnBase \in BOOLEAN
         /\ BackupBase \in 0 .. AddrSize - 1
<1>1. line \in [Source -> BOOLEAN] /\ NoLine \in [Source -> BOOLEAN]
  <2>1. PICK up \in SUBSET Wired : line = [s \in Source |-> s \in up]
    BY Zenon DEF Levels
  <2>2. \A s \in Source : (s \in up) \in BOOLEAN
    OBVIOUS
  <2>3. line \in [Source -> BOOLEAN]
    BY <2>1, <2>2
  <2> QED BY <2>3 DEF NoLine
<1>2. RisingBase(line) \in [Source -> BOOLEAN]
  BY <1>1, Zenon DEF RisingBase, Sampled
<1>3. IntEnBase \in BOOLEAN
  BY Zenon DEF IntEnBase
<1>4. BackupBase \in 0 .. AddrSize - 1
  BY AddrAssumption DEF BackupBase, TypeOK
<1> QED BY <1>1, <1>2, <1>3, <1>4

LEMMA HoldIInv ==
  ASSUME IInv, NEW line \in Levels, Hold(line)
  PROVE  IInv'
<1> USE DEF IInv, Hold, SampleLines
<1>1. TypeOK'
  BY LatchTypes, AddrAssumption DEF TypeOK
<1>2. PrevTracks' /\ UpdateCount'
  BY DEF PrevTracks, UpdateCount, WriteBackEdge, TypeOK
<1>3. ResetProgress'
  <2>1. reset => ResetState'
    BY Zenon DEF ResetState, RisingBase, IntEnBase, BackupBase
  <2>2. held >= 2 => reset
    BY DEF ResetProgress
  <2> QED BY <2>1, <2>2, Zenon DEF ResetProgress
<1>4. IntIdNamesCause'
  BY DEF IntIdNamesCause, IntEnBase, TypeOK
<1> QED BY <1>1, <1>2, <1>3, <1>4

\* What the three actions of an instruction's end share.
LEMMA EdgeIInv ==
  ASSUME IInv, NEW line \in Levels, WriteBackEdge, SampleLines(line),
         updates' = updates + 1
  PROVE  /\ PrevTracks' /\ UpdateCount' /\ ResetProgress'
         /\ clk' \in {"low", "high"} /\ state' \in Stage
         /\ reset' \in BOOLEAN /\ held' \in 0 .. MinReset
         /\ writeBack_prev' \in BOOLEAN /\ prev' \in [Source -> BOOLEAN]
         /\ updates' \in Nat
<1> USE DEF IInv, WriteBackEdge, SampleLines
<1>1. PrevTracks' /\ UpdateCount'
  BY DEF PrevTracks, UpdateCount, TypeOK
<1>2. ResetProgress'
  BY DEF ResetProgress, TypeOK
<1> QED BY <1>1, <1>2, LatchTypes DEF TypeOK

LEMMA ReturnIInv ==
  ASSUME IInv, NEW line \in Levels, NEW i \in Instr, Return(i, line)
  PROVE  IInv'
<1>1. PrevTracks' /\ UpdateCount' /\ ResetProgress'
  BY EdgeIInv DEF Return
<1>2. TypeOK'
  BY EdgeIInv, LatchTypes DEF IInv, TypeOK, Return
<1>3. IntIdNamesCause'
  BY DEF IInv, IntIdNamesCause, Return
<1> QED BY <1>1, <1>2, <1>3 DEF IInv

LEMMA DispatchIInv ==
  ASSUME IInv, NEW line \in Levels, NEW i \in Instr, NEW s \in Source,
         Dispatch(s, i, line)
  PROVE  IInv'
<1>1. PrevTracks' /\ UpdateCount' /\ ResetProgress'
  BY EdgeIInv DEF Dispatch
<1>2. /\ Vector(s) \in 0 .. AddrSize - 1
      /\ SetsIntId(s) => IntId(s) \in 0 .. 4
  BY AddrAssumption DEF Vector, Source, SetsIntId, IntId
<1>3. NextPC(i, pc_out) \in 0 .. AddrSize - 1
  BY NextPCInRange DEF IInv, TypeOK
<1>4. rising' \in [Source -> BOOLEAN]
  BY LatchTypes DEF IInv, Dispatch
<1>5. ext_int_id' \in 0 .. 4 /\ cause' \in 0 .. 8
  BY <1>2 DEF IInv, TypeOK, Dispatch, Source
<1>6. TypeOK'
  BY EdgeIInv, <1>2, <1>3, <1>4, <1>5 DEF IInv, TypeOK, Dispatch
<1>7. IntIdNamesCause'
  <2>1. s = 2 => ext_int_id' = 0
    BY DEF Dispatch, SetsIntId, IntId
  <2>2. s \in 5 .. 8 => ext_int_id' = s - 4
    <3>1. s \in 5 .. 8 => SetsIntId(s) /\ IntId(s) = s - 4
      BY DEF SetsIntId, IntId
    <3> QED BY <3>1 DEF Dispatch
  <2>3. cause' = s
    BY DEF Dispatch
  <2> QED BY <2>1, <2>2, <2>3 DEF IntIdNamesCause
<1> QED BY <1>1, <1>6, <1>7 DEF IInv

LEMMA AdvanceIInv ==
  ASSUME IInv, NEW line \in Levels, NEW i \in Instr, Advance(i, line)
  PROVE  IInv'
<1>1. PrevTracks' /\ UpdateCount' /\ ResetProgress'
  BY EdgeIInv DEF Advance
<1>2. NextPC(i, pc_out) \in 0 .. AddrSize - 1
  BY NextPCInRange DEF IInv, TypeOK
<1>3. TypeOK'
  BY EdgeIInv, LatchTypes, <1>2 DEF IInv, TypeOK, Advance
<1>4. IntIdNamesCause'
  BY DEF IInv, TypeOK, IntIdNamesCause, Advance, IntEnBase
<1> QED BY <1>1, <1>3, <1>4 DEF IInv

LEMMA NextIInv == IInv /\ [Next]_vars => IInv'
<1> SUFFICES ASSUME IInv, [Next]_vars PROVE IInv'
  OBVIOUS
<1>1. CASE \E busy \in BOOLEAN : PosEdge(busy)
  BY <1>1, PosEdgeIInv
<1>2. CASE \E line \in Levels : NegEdge(line)
  <2>1. PICK line \in Levels : NegEdge(line)
    BY <1>2
  <2> QED BY <2>1, HoldIInv, ReturnIInv, DispatchIInv, AdvanceIInv DEF NegEdge
<1>3. CASE UNCHANGED vars
  BY <1>3 DEF vars, regs, IInv, TypeOK, PrevTracks, UpdateCount,
              ResetProgress, ResetState, IntIdNamesCause
<1> QED BY <1>1, <1>2, <1>3 DEF Next

THEOREM Invariance == Spec => []IInv
  BY InitIInv, NextIInv, PTL DEF Spec

-----------------------------------------------------------------------------
(* The properties.                                                         *)

\* Every register keeps its type for every address width and reset length.
THEOREM TypeCorrect == Spec => []TypeOK
<1>1. IInv => TypeOK
  BY DEF IInv
<1> QED BY <1>1, Invariance, PTL

\* PC.v:87.  An instruction updates the program counter exactly once.
THEOREM OneUpdate == Spec => []UpdatedOnce
<1>1. IInv => UpdatedOnce
  BY DEF IInv, UpdateCount, UpdatedOnce
<1> QED BY <1>1, Invariance, PTL

\* PC.v:126-226.  The interrupt id belongs to the source being handled.
THEOREM IntIdCorrect == Spec => []IntIdNamesCause
<1>1. IInv => IntIdNamesCause
  BY DEF IInv
<1> QED BY <1>1, Invariance, PTL

\* PC.v:31-55.  A reset of at least two cycles always takes effect.
THEOREM ResetTakesEffect ==
  ASSUME MinReset >= 2
  PROVE  Spec => ResetComplete
<1>1. IInv /\ [Next]_vars => [reset /\ ~reset' => ResetState /\ state' = "init"]_vars
  <2> SUFFICES ASSUME IInv, Next, reset, ~reset'
               PROVE  ResetState /\ state' = "init"
    BY DEF vars
  <2>1. PICK busy \in BOOLEAN : PosEdge(busy)
    BY DEF Next, NegEdge, Hold, Return, Dispatch, Advance, SampleLines
  <2>2. held >= 2
    BY <2>1, ResetAssumption DEF PosEdge, ResetLine, IInv, TypeOK
  <2> QED BY <2>1, <2>2 DEF PosEdge, IInv, ResetProgress, TimerStep
<1> QED BY <1>1, Invariance, PTL DEF Spec, ResetComplete

\* PC.v:68-84.  No edge is lost.
THEOREM EdgesKept == Spec => EdgeKept
<1> DEFINE Kept ==
      (clk = "high" /\ ~reset) =>
        \A s \in Source : rising[s] \/ (prev'[s] /\ ~prev[s])
                            => rising'[s] \/ Started(s)
<1>1. IInv /\ [Next]_vars => [Kept]_vars
  <2> SUFFICES ASSUME IInv, Next, clk = "high", ~reset, NEW t \in Source,
                      rising[t] \/ (prev'[t] /\ ~prev[t])
               PROVE  rising'[t] \/ Started(t)
    BY Zenon DEF Kept
  <2>1. PICK line \in Levels : NegEdge(line)
    BY DEF Next, PosEdge
  <2>2. RisingBase(line) = Sampled(line)
    BY DEF RisingBase
  <2>3. SampleLines(line)
    BY <2>1 DEF NegEdge, Hold, Return, Dispatch, Advance
  <2>4. Sampled(line)[t]
    BY <2>3 DEF Sampled, SampleLines
  <2>5. CASE rising' = RisingBase(line)
    BY <2>5, <2>2, <2>4
  <2>6. ASSUME NEW i \in Instr, NEW s \in Source, Dispatch(s, i, line)
        PROVE  rising'[t] \/ Started(t)
    <3>1. CASE s = t
      BY <2>6, <3>1 DEF Dispatch, Valid, Started
    <3>2. CASE s # t
      BY <2>6, <3>2, <2>2, <2>4, LatchTypes DEF Dispatch, IInv
    <3> QED BY <3>1, <3>2
  <2> QED BY <2>1, <2>5, <2>6 DEF NegEdge, Hold, Return, Advance
<1> QED BY <1>1, Invariance, PTL DEF Spec, EdgeKept

-----------------------------------------------------------------------------
(* PC implements ProgramFlow.                                              *)

LEMMA FlowPosEdge ==
  ASSUME MinReset >= 2, IInv, NEW busy \in BOOLEAN, PosEdge(busy)
  PROVE  [Flow!Next]_(Flow!vars)
<1>1. CASE reset' = reset
  BY <1>1, Zenon DEF PosEdge, Flow!vars
<1>2. CASE ~reset /\ reset'
  BY <1>2, Zenon DEF Flow!Next, Flow!Reset
<1>3. CASE reset /\ ~reset'
  <2>1. held >= 2
    BY <1>3, ResetAssumption DEF PosEdge, ResetLine, IInv, TypeOK
  <2>2. pc_out = PCstart /\ int_en
    BY <2>1 DEF IInv, ResetProgress, ResetState, PosEdge
  <2>3. pc_out' = PCstart /\ int_en'
    BY <2>2 DEF PosEdge
  <2>4. Flow!Reset
    BY <1>3, <2>3 DEF Flow!Reset
  <2> QED BY <2>4 DEF Flow!Next
<1>4. reset \in BOOLEAN /\ reset' \in BOOLEAN
  BY DEF PosEdge, ResetLine, IInv, TypeOK
<1> QED BY <1>1, <1>2, <1>3, <1>4

LEMMA FlowNegEdge ==
  ASSUME ~StrayReti, IInv, NEW line \in Levels, NegEdge(line)
  PROVE  [Flow!Next]_(Flow!vars)
<1>1. reset' = reset
  BY DEF NegEdge, Hold, Return, Dispatch, Advance, SampleLines
<1>2. CASE reset
  BY <1>1, <1>2, Zenon DEF Flow!vars
<1>3. CASE ~reset /\ Hold(line)
  BY <1>1, <1>3, Zenon DEF Hold, IntEnBase, BackupBase, Flow!vars
<1>4. ASSUME ~reset, NEW i \in Instr, Return(i, line)
      PROVE  Flow!Next
  BY <1>1, <1>4, Zenon DEF Return, Flow!Next, Flow!Resume
<1>5. ASSUME NEW i \in Instr
      PROVE  <<pc_out, NextPC(i, pc_out)>> \in Steps
  <2>1. pc_out \in 0 .. AddrSize - 1
    BY DEF IInv, TypeOK
  <2> QED BY <2>1, <1>5 DEF Steps
<1>6. ASSUME ~reset, NEW i \in Instr, NEW s \in Source, Dispatch(s, i, line)
      PROVE  Flow!Next
  BY <1>1, <1>5, <1>6, Zenon DEF Dispatch, Valid, Flow!Next, Flow!Execute
<1>7. ASSUME ~reset, NEW i \in Instr, Advance(i, line)
      PROVE  [Flow!Next]_(Flow!vars)
  <2>1. CASE int_en
    BY <1>1, <1>5, <1>7, <2>1, Zenon
    DEF Advance, IntEnBase, Flow!Next, Flow!Execute
  <2>2. CASE ~int_en
    BY <1>1, <1>7, <2>2, Zenon DEF Advance, IntEnBase, BackupBase, Flow!vars
  <2> QED BY <2>1, <2>2
<1>8. reset \in BOOLEAN
  BY DEF IInv, TypeOK
<1> QED BY <1>2, <1>3, <1>4, <1>6, <1>7, <1>8, Zenon DEF NegEdge

\* PC.v:87-238.  With resets of two cycles and RETI only in handlers, handlers
\* are transparent to the interrupted program.
THEOREM HandlersTransparent ==
  ASSUME MinReset >= 2, ~StrayReti
  PROVE  Spec => FlowSpec
<1>1. Init => Flow!Init
  BY Zenon DEF Init, Flow!Init
<1>2. IInv /\ [Next]_vars => [Flow!Next]_(Flow!vars)
  <2> SUFFICES ASSUME IInv, [Next]_vars PROVE [Flow!Next]_(Flow!vars)
    OBVIOUS
  <2>1. CASE UNCHANGED vars
    BY <2>1, Zenon DEF vars, regs, Flow!vars
  <2>2. CASE Next
    BY <2>2, FlowPosEdge, FlowNegEdge DEF Next
  <2> QED BY <2>1, <2>2
<1> QED BY <1>1, <1>2, Invariance, PTL DEF Spec, FlowSpec, Flow!Spec, Flow!vars
=============================================================================
