----------------------------- MODULE MemoryUnit -----------------------------
(***************************************************************************)
(* Memory/MemoryUnit.v: the unit between the CPU and everything that has   *)
(* an address.  It runs at the falling edge.  A start line makes it busy;  *)
(* it answers when the device behind the address is ready.                 *)
(*                                                                         *)
(* An address is known by the device it selects, r.  What the devices      *)
(* present is the record dev.  A word is a record of two parts: lo is what *)
(* the devices of 8 bits use, hi the rest.                                 *)
(***************************************************************************)
CONSTANT ZeroWord   \* the word 0

Low(b) == [ZeroWord EXCEPT !.lo = b]

\* The two ports of the address decoder that carry a second UART and two more
\* SPI devices are further copies of UART_TX, UART_RX and SPI.
Device ==
  {"SDRAM", "FLASH", "VRAM", "ROM", "REGISTER", "TIMER", "UART_TX", "GPIO",
   "SPI", "SPI3_ENABLE", "NOTHING"}

VARIABLES busy, q, GPO, enableSPI3
muvars == <<busy, q, GPO, enableSPI3>>

MuInit == busy = FALSE /\ q = ZeroWord /\ GPO = ZeroWord.hi /\ enableSPI3 = FALSE

Ready_Unguarded(r, dev) ==
  CASE r = "SDRAM" -> dev.sd_q_ready
    [] r = "FLASH" -> dev.sr_recvDone \/ enableSPI3
    [] r = "UART_TX" -> dev.Tx_Done
    [] r = "SPI" -> ~dev.s_busy
    [] OTHER -> r # "NOTHING"
Ready_Early(r, dev) ==
  CASE r = "SDRAM" -> dev.sd_q_ready
    [] r = "FLASH" -> dev.sr_recvDone \/ enableSPI3
    [] OTHER -> TRUE
Ready_Deaf(r, dev) ==
  CASE r = "FLASH" -> dev.sr_recvDone
    [] r = "SPI" -> ~dev.s_busy
    [] OTHER -> TRUE
Ready(r, dev) ==
  CASE r = "SDRAM" -> dev.sd_q_ready
    [] r = "FLASH" -> dev.sr_recvDone \/ enableSPI3
    [] r = "UART_TX" -> dev.Tx_Done
    [] r = "SPI" -> ~dev.s_busy
    [] OTHER -> TRUE

\* REGISTER stands for the input registers: game pad, keyboard, CH376
\* interrupt line and the UART receiver.
Answer(r, data, dev) ==
  CASE r = "SDRAM" -> dev.sd_q
    [] r = "FLASH" -> dev.sr_q
    [] r \in {"VRAM", "ROM"} -> dev.ram_q
    [] r = "REGISTER" -> Low(dev.input)
    [] r = "GPIO" -> [hi |-> GPO, lo |-> dev.GPI]
    [] r = "SPI" -> Low(dev.s_out)
    [] r = "SPI3_ENABLE" -> Low([ZeroWord.lo EXCEPT ![0] = data.lo[0]])
    [] OTHER -> ZeroWord

MuReset ==
  /\ busy' = FALSE /\ q' = ZeroWord /\ GPO' = ZeroWord.hi /\ enableSPI3' = FALSE

Finish(r, we, data, dev) ==
  /\ busy /\ Ready(r, dev)
  /\ busy' = FALSE
  /\ q' = Answer(r, data, dev)
  /\ GPO' = IF r = "GPIO" /\ we THEN data.hi ELSE GPO
  /\ enableSPI3' = IF r = "SPI3_ENABLE" /\ we THEN data.lo[0] = 1
                    ELSE enableSPI3

Wait(start, r, dev) ==
  /\ ~(busy /\ Ready(r, dev))
  /\ busy' = (busy \/ start)
  /\ UNCHANGED <<q, GPO, enableSPI3>>

MuNeg(reset, start, r, we, data, dev) ==
  \/ reset /\ MuReset
  \/ ~reset /\ (Finish(r, we, data, dev) \/ Wait(start, r, dev))
=============================================================================
