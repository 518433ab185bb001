--------------------------- MODULE SDRAMcontroller ---------------------------
(***************************************************************************)
(* Memory/SDRAMcontroller.v: the state machine between the memory unit and *)
(* the SDRAM chip.  It runs at the falling edge of the clock (NegEdge);    *)
(* one flip-flop, q_ready_delay, follows at the rising edge (PosEdge).     *)
(*                                                                         *)
(* The ports are parameters: the requester's in, and the chip's data pins. *)
(* A word is two halves of 16 bits, an address a row and a column (the row *)
(* stands for the bank as well).                                           *)
(***************************************************************************)
EXTENDS SDRAMports

CONSTANTS
  cycles_per_refresh,  \* 195 in the code
  InitWrap,            \* 2^9: InitCounter has nine bits
  CountWrap            \* 2^10: startup_refresh_count has ten

ASSUME CounterAssumption ==
  /\ cycles_per_refresh \in Nat /\ InitWrap \in Nat /\ CountWrap \in Nat
  /\ 37 < InitWrap
  /\ InitWrap + 16 < CountWrap /\ cycles_per_refresh + 16 < CountWrap

Inputs == [start : BOOLEAN, we : BOOLEAN, addr : Address, d : Word]

\* The states that only move on, in the order they do.
After == [open_in_2 |-> "open_in_1",
          write_1 |-> "write_2", write_2 |-> "write_3", write_3 |-> "precharge",
          read_1 |-> "read_2", read_2 |-> "read_3", read_3 |-> "read_4",
          read_4 |-> "read_precharge",
          precharge |-> "idle_in_3", read_precharge |-> "idle_in_3",
          idle_in_6 |-> "idle_in_5", idle_in_5 |-> "idle_in_4",
          idle_in_4 |-> "idle_in_3", idle_in_3 |-> "idle_in_2",
          idle_in_2 |-> "idle_in_1", idle_in_1 |-> "idle"]
State == {"init", "idle", "open_in_1"} \cup DOMAIN After

VARIABLES
  state, SDRAM_CMD,
  SDRAM_CKE,             \* clock enable
  SDRAM_A, A10,          \* the address pins, bit 10 apart
  startup_refresh_count, InitCounter,
  WrData, SDRAM_DQ_OE,   \* the data pins as an output
  sd_q,                  \* q: q_low and q_high
  q_ready, q_ready_delay

sdvars == <<state, SDRAM_CMD, SDRAM_CKE, SDRAM_A, A10,
            startup_refresh_count, InitCounter, WrData, SDRAM_DQ_OE, sd_q,
            q_ready, q_ready_delay>>

SdInit ==
  /\ state = "init" /\ SDRAM_CMD = "UNSELECTED" /\ SDRAM_CKE = FALSE
  /\ SDRAM_A = 0 /\ A10 = FALSE
  /\ startup_refresh_count = 0 /\ InitCounter = 0
  /\ WrData = 0 /\ SDRAM_DQ_OE = FALSE
  /\ sd_q = Zero /\ q_ready = FALSE /\ q_ready_delay = FALSE

\* The mask of the data pins: a reset raises it and the initialisation, which
\* raises the clock enable, clears it.  What operation writes to either is what
\* it has by then.
SDRAM_DQM == ~SDRAM_CKE

-----------------------------------------------------------------------------
(* Falling edge.  InitCounter is not among the registers a reset clears.   *)

ResetRegs ==
  /\ state' = "init" /\ SDRAM_CMD' = "UNSELECTED" /\ SDRAM_CKE' = FALSE
  /\ SDRAM_A' = 0 /\ A10' = FALSE
  /\ startup_refresh_count' = 0
  /\ WrData' = 0 /\ SDRAM_DQ_OE' = FALSE
  /\ sd_q' = Zero /\ q_ready' = FALSE
  /\ UNCHANGED InitCounter

Count == startup_refresh_count' = (startup_refresh_count + 1) % CountWrap

InitCommand_Early ==
  CASE InitCounter = 10 -> "PRECHARGE"
    [] InitCounter \in {13, 25} -> "REFRESH"
    [] InitCounter = 35 -> "LOADMODE"
    [] OTHER -> "NOP"
InitCommand ==
  CASE InitCounter = 10 -> "PRECHARGE"
    [] InitCounter \in {15, 25} -> "REFRESH"
    [] InitCounter = 35 -> "LOADMODE"
    [] OTHER -> "NOP"

NextInitCounter_Wide == InitCounter + 1
NextInitCounter == (InitCounter + 1) % InitWrap

InitSequence ==
  /\ state = "init"
  /\ state' = IF InitCounter = 36 THEN "idle" ELSE "init"
  /\ SDRAM_CMD' = InitCommand /\ SDRAM_CKE' = TRUE
  /\ SDRAM_A' = CASE InitCounter \in {10, 36} -> 0
                  [] InitCounter = 35 -> 33
                  [] OTHER -> SDRAM_A
  /\ A10' = (InitCounter = 10 \/ (A10 /\ InitCounter \notin {35, 36}))
  /\ InitCounter' = NextInitCounter
  /\ Count
  /\ UNCHANGED <<WrData, SDRAM_DQ_OE, sd_q, q_ready>>

RefreshDue_Exact == startup_refresh_count = cycles_per_refresh + 1
RefreshDue == startup_refresh_count > cycles_per_refresh

Refresh ==
  /\ state = "idle" /\ RefreshDue
  /\ state' = "idle_in_6" /\ SDRAM_CMD' = "REFRESH"
  /\ startup_refresh_count' = 0 /\ q_ready' = FALSE
  /\ UNCHANGED <<SDRAM_CKE, SDRAM_A, A10, InitCounter, WrData, SDRAM_DQ_OE, sd_q>>

Open(in) ==
  /\ state = "idle" /\ ~RefreshDue /\ in.start
  /\ state' = "open_in_2" /\ SDRAM_CMD' = "ACTIVE"
  /\ SDRAM_A' = in.addr.row /\ A10' = FALSE
  /\ Count /\ q_ready' = FALSE
  /\ UNCHANGED <<SDRAM_CKE, InitCounter, WrData, SDRAM_DQ_OE, sd_q>>

Rest(in) ==
  /\ state = "idle" /\ ~RefreshDue /\ ~in.start
  /\ SDRAM_CMD' = "NOP" /\ SDRAM_A' = 0 /\ A10' = FALSE
  /\ Count /\ q_ready' = FALSE
  /\ UNCHANGED <<state, SDRAM_CKE, InitCounter, WrData, SDRAM_DQ_OE, sd_q>>

Choose(in) ==
  /\ state = "open_in_1"
  /\ state' = IF in.we THEN "write_1" ELSE "read_1"
  /\ WrData' = IF in.we THEN in.d.lo ELSE WrData
  /\ SDRAM_DQ_OE' = in.we
  /\ Count
  /\ UNCHANGED <<SDRAM_CMD, SDRAM_CKE, SDRAM_A, A10, InitCounter, sd_q, q_ready>>

\* q_ready after a state of After.
ReadyAfter_ReadsOnly ==
  CASE state = "read_precharge" -> TRUE
    [] state = "idle_in_3" -> FALSE
    [] OTHER -> q_ready
ReadyAfter ==
  CASE state \in {"precharge", "read_precharge"} -> TRUE
    [] state = "idle_in_3" -> FALSE
    [] OTHER -> q_ready

\* What is latched from the data pins.
Latched_Early(dq) ==
  CASE state = "read_2" -> [sd_q EXCEPT !.lo = dq]
    [] state = "read_3" -> [sd_q EXCEPT !.hi = dq]
    [] OTHER -> sd_q
Latched(dq) ==
  CASE state = "read_3" -> [sd_q EXCEPT !.lo = dq]
    [] state = "read_4" -> [sd_q EXCEPT !.hi = dq]
    [] OTHER -> sd_q

\* The states of After: what each drives and latches on its way.
Through(in, dq) ==
  /\ state \in DOMAIN After
  /\ state' = After[state]
  /\ SDRAM_CMD' =
       CASE state = "write_1" -> "WRITE"
         [] state = "read_1" -> "READ"
         [] state \in {"precharge", "read_precharge"} -> "PRECHARGE"
         [] state \in {"open_in_2", "write_2", "read_2", "idle_in_6",
                       "idle_in_3"} -> "NOP"
         [] OTHER -> SDRAM_CMD
  /\ SDRAM_A' = IF state \in {"write_1", "read_1"} THEN in.addr.col ELSE SDRAM_A
  /\ A10' = CASE state \in {"write_1", "read_1"} -> FALSE
              [] state \in {"precharge", "read_precharge"} -> TRUE
              [] OTHER -> A10
  /\ WrData' = CASE state = "write_1" -> in.d.lo
                 [] state = "write_2" -> in.d.hi
                 [] OTHER -> WrData
  /\ SDRAM_DQ_OE' = (SDRAM_DQ_OE /\ state # "write_3")
  /\ sd_q' = Latched(dq)
  /\ q_ready' = ReadyAfter
  /\ Count
  /\ UNCHANGED <<SDRAM_CKE, InitCounter>>

SdNeg(reset, in, dq) ==
  /\ \/ reset /\ ResetRegs
     \/ ~reset /\ (\/ InitSequence \/ Refresh \/ Open(in) \/ Rest(in)
                   \/ Choose(in) \/ Through(in, dq))
  /\ UNCHANGED q_ready_delay

(* Rising edge.                                                            *)
SdPos(reset) ==
  /\ q_ready_delay' = (~reset /\ q_ready)
  /\ UNCHANGED <<state, SDRAM_CMD, SDRAM_CKE, SDRAM_A, A10, InitCounter,
                 startup_refresh_count, WrData, SDRAM_DQ_OE, sd_q, q_ready>>

SdTypeOK ==
  /\ state \in State /\ SDRAM_CMD \in Command /\ SDRAM_CKE \in BOOLEAN
  /\ SDRAM_A \in Nat /\ A10 \in BOOLEAN
  /\ startup_refresh_count \in 0 .. CountWrap - 1
  /\ InitCounter \in 0 .. InitWrap - 1
  /\ WrData \in Half /\ SDRAM_DQ_OE \in BOOLEAN
  /\ sd_q \in PinWord /\ q_ready \in BOOLEAN /\ q_ready_delay \in BOOLEAN
=============================================================================
