------------------------------- MODULE Memory -------------------------------
(***************************************************************************)
(* What a program expects of its main memory: requests one at a time, each *)
(* carried out at one instant between its start and its answer, and the    *)
(* contents kept over a reset.  A write that a reset interrupts may leave  *)
(* the old word, the new one or what Torn makes of the two.                *)
(***************************************************************************)
CONSTANTS Cell, Contents, Torn(_, _)

VARIABLES mem, req, value, answer, down

None == [kind |-> "none"]
mvars == <<mem, req, value, answer, down>>

\* value is what the request has returned, None while it is not carried out;
\* answer is the register the requester reads.
Init ==
  /\ mem \in [Cell -> Contents]
  /\ req = None /\ value = None /\ down = FALSE

Ask ==
  /\ ~down /\ req = None
  /\ req' # None
  /\ UNCHANGED <<mem, value, answer, down>>

Do ==
  /\ ~down /\ req # None /\ value = None
  /\ IF req.kind = "write"
     THEN mem' = [mem EXCEPT ![req.cell] = req.word] /\ value' = req
     ELSE mem' = mem /\ value' = [kind |-> "value", word |-> mem[req.cell]]
  /\ UNCHANGED <<req, answer, down>>

Return ==
  /\ ~down /\ value # None
  /\ req' = None /\ value' = None
  /\ req.kind = "read" => answer' = value.word
  /\ UNCHANGED <<mem, down>>

Reset ==
  /\ ~down /\ down' = TRUE
  /\ req' = None /\ value' = None
  /\ \/ UNCHANGED mem
     \/ /\ req.kind = "write"
        /\ \E w \in {req.word, Torn(mem[req.cell], req.word)} :
             mem' = [mem EXCEPT ![req.cell] = w]
  /\ UNCHANGED answer

Stay == down /\ UNCHANGED <<mem, req, value>>

Next == Ask \/ Do \/ Return \/ Reset \/ Stay

Spec == Init /\ [][Next]_mvars
=============================================================================
