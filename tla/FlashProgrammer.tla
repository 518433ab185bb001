--------------------------- MODULE FlashProgrammer ---------------------------
(***************************************************************************)
(* The client of the SPI flash programmer,                                 *)
(* Programmer/spi_flash_programmer_client.py, with the programmer board at *)
(* the other end of its serial port, which runs                            *)
(* Programmer/spi_flash_programmer/spi_flash_programmer.ino, and the flash *)
(* behind that board.                                                      *)
(*                                                                         *)
(* The client sends a command letter with an argument and waits for the    *)
(* same letter and what comes with it; it has no other way to tell which   *)
(* command an answer belongs to.  Commands and answers arrive in order,    *)
(* but a command or an answer may get lost, an answer may come after the   *)
(* client has given up waiting for it, its second half may be missing, and *)
(* erasing, storing, writing and reading may go wrong unnoticed.           *)
(*                                                                         *)
(* Some of a command's digits may get lost, or become no digits.  The      *)
(* board waits for missing digits without a time limit and takes the next  *)
(* command for them, which ends in its error answer as no command letter   *)
(* is a digit; what is left of that command it ignores.  But an argument   *)
(* has no checksum: digits that change into digits, or that come in the    *)
(* place of missing ones when the letter before them got lost, mislead the *)
(* board to a page nobody asked for.  The model keeps a history of that.   *)
(*                                                                         *)
(* A page content stands for its own checksum (CRC32): two contents with   *)
(* one checksum are left out, and so are letters that change into letters. *)
(***************************************************************************)
EXTENDS Integers, Sequences, FiniteSets

CONSTANTS
  Sectors,          \* sectors of the flash
  pages_per_sector,
  Requests,         \* what the program may be asked to do, with which flash
  MaxFaults,        \* bound: faults in a run
  CutAnswers        \* may the second half of an answer be missing?

ASSUME GeometryAssumption == Sectors \in Nat \ {0} /\ pages_per_sector \in Nat \ {0}
ASSUME FaultAssumption == MaxFaults \in Nat /\ CutAnswers \in BOOLEAN

Pages == 0 .. Sectors * pages_per_sector - 1

\* Contents of a page: of a file, <<name>>; erased; and what nobody asked
\* for, different at each fault.
Erased == <<"erased">>
Garbage(n) == <<"garbage", n>>
None == <<"none">>   \* no page at all

\* A request: the command, its offset and length in pages, the pages of the
\* file, whether --pad is given, and what the flash holds before.  A page of
\* the file has no checksum that noise could have.
ASSUME RequestAssumption == \A r \in Requests :
  /\ r.command \in {"write", "read", "verify", "erase", "register", "protection", "set"}
  /\ r.offset \in Pages /\ r.length \in Nat /\ r.pad \in BOOLEAN
  /\ DOMAIN r.before = Pages
  /\ Len(r.file) \in Nat /\ DOMAIN r.file = 1 .. Len(r.file)
  /\ \A i \in DOMAIN r.file :
       r.file[i] # None /\ \A n \in 0 .. MaxFaults : r.file[i] # Garbage(n)

VARIABLES
  request,
  c,          \* the client: its place, loop variables and results
  commands,   \* on their way to the board
  answers,    \* on their way to the client, or in its port
  buffer,     \* the board's copy of a page
  flash,
  board,      \* "ready", or the command whose digits it waits for
  misled,     \* history: it took an argument the client did not send
  faults      \* commands and answers that something happened to

boardVars == <<board, misled>>
vars == <<request, c, commands, answers, buffer, flash, board, misled, faults>>

tries == 3

-----------------------------------------------------------------------------
(* The checks of writeFromFile, readToFile, verifyWithFile and erase.      *)

Whole(n) == n % pages_per_sector = 0
Padding(n) == [i \in 1 .. n |-> <<"pad">>]

\* With --pad the file is filled up to whole sectors on both sides, and the
\* offset is masked with sector_size - 1.
PaddedData(r) ==
  LET before == Padding(r.offset % pages_per_sector) \o r.file
      after == (- Len(before)) % pages_per_sector
  IN before \o Padding(after)
PaddedOffset(r) == r.offset % pages_per_sector

Data(r) == IF r.pad THEN PaddedData(r) ELSE r.file
Offset(r) == IF r.pad THEN PaddedOffset(r) ELSE r.offset

\* The arguments are refused, and the usage printed.
Refused(r) ==
  CASE r.command = "write" -> ~ r.pad /\ ~ (Whole(r.offset) /\ Whole(Len(r.file)))
    [] r.command = "erase" -> ~ (Whole(r.offset) /\ Whole(r.length))
    [] OTHER -> FALSE

PageCount(r) == IF r.command = "write" THEN Len(Data(r)) ELSE r.length

\* The pages asked for; nothing in the client asks whether the flash has them.
Region(r) == r.offset .. r.offset + PageCount(r) - 1
ASSUME RegionAssumption == \A r \in Requests : ~ r.pad => Region(r) \subseteq Pages

-----------------------------------------------------------------------------
(* The client between two exchanges with the board, as functions from its  *)
(* state before to its state after.  pc names the exchange it is in.       *)

Goto(s, pc) == [s EXCEPT !.pc = pc, !.stage = "send"]

page_index(s) == s.offset + s.sector * pages_per_sector + s.page
sector_index(s) == s.offset \div pages_per_sector + s.sector
PageData(s) == s.data[s.sector * pages_per_sector + s.page + 1]

StartSector(s) == [Goto(s, "eraseSector") EXCEPT !.erase_try = 0, !.page = 0]
StartLoad(s) == [Goto(s, "loadPage") EXCEPT !.crc_list = {}, !.load_try = 0]

\* After hello: _writeSectors asserts that its offset is whole.
Started(s, r) ==
  IF Refused(r) THEN Goto(s, "usage")
  ELSE IF r.command = "write" /\ ~ Whole(Offset(r)) THEN Goto(s, "crashed")
  ELSE IF r.command \in {"write", "read", "verify", "erase"} /\ PageCount(r) = 0 THEN Goto(s, "done")
  ELSE
  CASE r.command \in {"write", "erase"} -> StartSector(s)
    [] r.command \in {"read", "verify"} -> StartLoad(s)
    [] r.command = "register" -> Goto(s, "read_register")
    [] r.command = "protection" -> Goto(s, "check_write_protection")
    [] r.command = "set" -> Goto(s, "set")

NextSector(s, r) ==
  IF (s.sector + 1) * pages_per_sector = PageCount(r) THEN Goto(s, "done")
  ELSE StartSector([s EXCEPT !.sector = @ + 1])
NextPage(s, r) ==
  IF r.command = "write"
  THEN IF s.page + 1 = pages_per_sector THEN NextSector(s, r)
       ELSE [Goto(s, "store") EXCEPT !.page = @ + 1]
  ELSE IF s.page + 1 = PageCount(r) THEN Goto(s, "done")
       ELSE StartLoad([s EXCEPT !.page = @ + 1])

\* One count of failed pages for all sectors; the sector starts again.
PageFailed_SamePage(s) ==
  IF s.sector_write_attempt + 1 < tries
  THEN [Goto(s, "store") EXCEPT !.sector_write_attempt = @ + 1]
  ELSE Goto(s, "aborted")
PageFailed(s) ==
  IF s.sector_write_attempt + 1 < tries
  THEN StartSector([s EXCEPT !.sector_write_attempt = @ + 1])
  ELSE Goto(s, "aborted")

eraseSector(s, r, erased) ==
  CASE erased /\ r.command = "erase" -> NextSector(s, r)
    [] erased /\ r.command = "write" -> Goto(s, "store")
    [] ~ erased /\ s.erase_try + 1 < tries -> [Goto(s, "eraseSector") EXCEPT !.erase_try = @ + 1]
    [] OTHER -> Goto(s, "aborted")

\* _writePage, after BUFFER_STORE and after FLASH_WRITE.
Stored(s, crc) == IF crc = PageData(s) THEN Goto(s, "write") ELSE PageFailed(s)
Written(s, ok) == IF ok THEN StartLoad(s) ELSE PageFailed(s)

Loaded_Unchecked(s, r, crc) ==
  CASE r.command = "write" -> IF crc # None THEN NextPage(s, r) ELSE PageFailed(s)
    [] r.command = "read" -> [Goto(s, "fetch") EXCEPT !.crc = crc, !.fetch_try = 0]
    [] r.command = "verify" ->
         IF crc = None THEN Goto(s, "aborted")
         ELSE NextPage([s EXCEPT !.verdicts = Append(@, crc = r.file[s.page + 1])], r)
\* What writing, verifying and reading do with the checksum of a page.
Loaded(s, r, crc) ==
  CASE r.command = "write" -> IF crc = PageData(s) THEN NextPage(s, r) ELSE PageFailed(s)
    [] r.command = "read" -> [Goto(s, "fetch") EXCEPT !.crc = crc, !.fetch_try = 0]
    [] r.command = "verify" ->
         IF crc = None THEN Goto(s, "aborted")
         ELSE NextPage([s EXCEPT !.verdicts = Append(@, crc = r.file[s.page + 1])], r)

\* _loadPageMultiple: until a checksum comes that came before.
loadPageMultiple_Once(s, r, crc) == Loaded(s, r, crc)
loadPageMultiple(s, r, crc) ==
  LET counts == crc = None \/ s.crc_list # {}
      again == [Goto(s, "loadPage") EXCEPT !.load_try = IF counts THEN @ + 1 ELSE @,
                                           !.crc_list = @ \cup ({crc} \ {None})]
  IN IF crc \in s.crc_list THEN Loaded(s, r, crc)
     ELSE IF again.load_try = tries THEN Loaded(s, r, None)
     ELSE again

readPage_Uncounted(s, r, content) ==
  IF content # None /\ content = s.crc THEN NextPage([s EXCEPT !.file = Append(@, content)], r)
  ELSE Goto(s, "fetch")
\* _readPage, with the content it fetched or None.
readPage(s, r, content) ==
  IF content # None /\ content = s.crc THEN NextPage([s EXCEPT !.file = Append(@, content)], r)
  ELSE IF s.fetch_try + 1 < tries THEN [Goto(s, "fetch") EXCEPT !.fetch_try = @ + 1]
  ELSE Goto(s, "aborted")

\* An exchange ended: with the value of the answer, or without.
Ended(s, r, ok, value) ==
  CASE s.pc = "hello" -> IF ok THEN Started(s, r) ELSE Goto(s, "usage")
    [] s.pc = "eraseSector" -> eraseSector(s, r, ok)
    [] s.pc = "store" -> Stored(s, IF ok THEN value ELSE None)
    [] s.pc = "write" -> Written(s, ok)
    [] s.pc = "loadPage" -> loadPageMultiple(s, r, IF ok THEN value ELSE None)
    [] s.pc = "fetch" -> readPage(s, r, IF ok THEN value ELSE None)
    [] OTHER -> Goto(s, IF ok THEN "done" ELSE "invalid")

Init ==
  /\ request \in Requests /\ flash = request.before
  /\ c = [pc |-> "hello", stage |-> "send", offset |-> Offset(request), data |-> Data(request),
          sector |-> 0, page |-> 0, erase_try |-> 0, sector_write_attempt |-> 0,
          crc_list |-> {}, load_try |-> 0, crc |-> None, fetch_try |-> 0,
          file |-> <<>>, verdicts |-> <<>>]
  /\ commands = <<>> /\ answers = <<>> /\ buffer = Garbage(0) /\ faults = 0
  /\ board = "ready" /\ misled = FALSE

-----------------------------------------------------------------------------
(* The exchanges: the letters, and which answers hold a value.             *)

Letter(at) ==
  CASE at = "hello" -> ">" [] at = "eraseSector" -> "k" [] at = "store" -> "s"
    [] at = "write" -> "w" [] at = "loadPage" -> "r" [] at = "fetch" -> "l"
    [] at = "read_register" -> "y" [] at = "check_write_protection" -> "x" [] at = "set" -> "p"
Valued == {">", "s", "r", "l", "y", "x"}
Exchanges == {"hello", "eraseSector", "store", "write", "loadPage", "fetch",
              "read_register", "check_write_protection", "set"}
Argument(s) ==
  CASE s.pc = "eraseSector" -> sector_index(s)
    [] s.pc \in {"write", "loadPage"} -> page_index(s)
    [] s.pc = "store" -> PageData(s)
    [] OTHER -> 0

\* What is on the line to the client: letters, values, and the part of a
\* page of data that a wait for a letter left, in waits it takes to read.
Sign(letter) == [kind |-> "letter", of |-> letter]
Value(v) == [kind |-> "value", of |-> v]
Page(v) == [kind |-> "page", of |-> v]
Rest(waits) == [kind |-> "rest", of |-> waits]
Error == [kind |-> "error", of |-> "!"]
PageWaits == 4

\* A command cut short takes the next one with it: that counts, too.
Owed == IF board = "ready" THEN 0 ELSE 1
Fault == faults + Owed < MaxFaults /\ faults' = faults + 1
NoFault == UNCHANGED faults

sendCommand ==
  /\ c.pc \in Exchanges /\ c.stage = "send"
  /\ commands' = Append(commands, [letter |-> Letter(c.pc), arg |-> Argument(c)])
  /\ c' = [c EXCEPT !.stage = "wait"]
  /\ UNCHANGED <<request, answers, buffer, flash, boardVars, faults>>

\* _waitFor: whatever is not the letter is dropped.  After 100 bytes, which
\* only a page of data has, it gives up.
waitForMessage ==
  /\ c.pc \in Exchanges /\ c.stage = "wait" /\ answers # <<>>
  /\ LET next == Head(answers)
     IN CASE next.kind = "page" ->
               /\ answers' = <<Rest(PageWaits)>> \o Tail(answers)
               /\ c' = Ended(c, request, FALSE, None)
          [] next.kind = "rest" /\ next.of > 0 ->
               /\ answers' = <<Rest(next.of - 1)>> \o Tail(answers)
               /\ c' = Ended(c, request, FALSE, None)
          [] next.kind = "letter" /\ next.of = Letter(c.pc) ->
               /\ answers' = Tail(answers)
               /\ c' = IF Letter(c.pc) \in Valued THEN [c EXCEPT !.stage = "value"]
                       ELSE Ended(c, request, TRUE, None)
          [] OTHER -> answers' = Tail(answers) /\ UNCHANGED c
  /\ UNCHANGED <<request, commands, buffer, flash, boardVars, faults>>

\* Three seconds pass and nothing comes: it is lost, or late.
NothingComes == answers = <<>> /\ (IF commands = <<>> THEN NoFault ELSE Fault)
waitFails ==
  /\ c.pc \in Exchanges /\ c.stage = "wait" /\ NothingComes
  /\ c' = Ended(c, request, FALSE, None)
  /\ UNCHANGED <<request, commands, answers, buffer, flash, boardVars>>

\* _readExactly, with what is expected.
IsValue(next) == next.kind \in {"value", "page"}
readExactly ==
  /\ c.pc \in Exchanges /\ c.stage = "value" /\ answers # <<>> /\ IsValue(Head(answers))
  /\ answers' = Tail(answers)
  /\ c' = Ended(c, request, TRUE, Head(answers).of)
  /\ UNCHANGED <<request, commands, buffer, flash, boardVars, faults>>

\* The value is missing and the next answer is read in its place: eight of
\* its characters are no number, but 512 of them raise an exception nobody
\* catches (a2b_hex raises ValueError).
readsNextAnswer ==
  /\ c.pc \in Exchanges /\ c.stage = "value" /\ answers # <<>> /\ ~ IsValue(Head(answers))
  /\ IF c.pc = "fetch" THEN answers' = Tail(answers) /\ c' = Goto(c, "crashed")
     ELSE /\ answers' = IF Len(answers) > 1 /\ IsValue(answers[2]) THEN SubSeq(answers, 3, Len(answers))
                        ELSE Tail(answers)
          /\ c' = Ended(c, request, FALSE, None)
  /\ UNCHANGED <<request, commands, buffer, flash, boardVars, faults>>

\* The value is missing and nothing else comes, or one character that is
\* none of it: _readExactly returns None.  _readPage tries again, hello
\* fails, and everybody else decodes None.
DecodesNone(s) ==
  IF s.pc \in {"fetch", "hello"} THEN Ended(s, request, FALSE, None) ELSE Goto(s, "crashed")
readsTooLittle ==
  /\ c.pc \in Exchanges /\ c.stage = "value"
  /\ Len(answers) = 1 /\ Head(answers).kind \in {"letter", "error"}
  /\ answers' = <<>> /\ c' = DecodesNone(c)
  /\ UNCHANGED <<request, commands, buffer, flash, boardVars, faults>>
valueMissing ==
  /\ c.pc \in Exchanges /\ c.stage = "value" /\ NothingComes
  /\ c' = DecodesNone(c)
  /\ UNCHANGED <<request, commands, answers, buffer, flash, boardVars>>

-----------------------------------------------------------------------------
(* The board and the flash.                                                *)

SectorOf(p) == p \div pages_per_sector
\* Writing clears bits: a page that is not erased holds a mixture after it.
Burnt(old, new) == IF old \in {Erased, new} THEN new ELSE <<"mixture", old, new>>

\* What a command does to the buffer and the flash.
Effect(cmd) ==
  CASE cmd.letter = "k" -> /\ flash' = [p \in Pages |-> IF SectorOf(p) = cmd.arg THEN Erased ELSE flash[p]]
                           /\ UNCHANGED buffer
    [] cmd.letter = "s" -> buffer' = cmd.arg /\ UNCHANGED flash
    [] cmd.letter = "w" -> flash' = [flash EXCEPT ![cmd.arg] = Burnt(@, buffer)] /\ UNCHANGED buffer
    [] cmd.letter = "r" -> buffer' = flash[cmd.arg] /\ UNCHANGED flash
    [] OTHER -> UNCHANGED <<buffer, flash>>
\* What it does when it goes wrong.
BadEffect(cmd) ==
  CASE cmd.letter = "k" -> UNCHANGED <<buffer, flash>>
    [] cmd.letter \in {"s", "r"} -> buffer' = Garbage(faults') /\ UNCHANGED flash
    [] cmd.letter = "w" -> flash' = [flash EXCEPT ![cmd.arg] = Garbage(faults')] /\ UNCHANGED buffer
    [] OTHER -> UNCHANGED <<buffer, flash>>

Answer(cmd, content) ==
  CASE cmd.letter = "l" -> <<Sign("l"), Page(content)>>
    [] cmd.letter \in Valued \ {"l"} -> <<Sign(cmd.letter), Value(content)>>
    [] OTHER -> <<Sign(cmd.letter)>>

\* The commands with digits.  Those of a page go to the buffer as they come.
WithDigits == {"k", "s", "w", "r"}
PartStored(letter, cmd) ==
  /\ IF letter = "s" /\ cmd.letter \in WithDigits
     THEN buffer' \in {buffer, Garbage(faults')} \cup (IF cmd.letter = "s" THEN {cmd.arg} ELSE {})
     ELSE UNCHANGED buffer
  /\ UNCHANGED flash

\* A command executed, whatever becomes of its effect and its answer.
Executed(cmd) ==
  \/ /\ NoFault /\ Effect(cmd) /\ answers' = answers \o Answer(cmd, buffer')
  \/ /\ Fault /\ BadEffect(cmd) /\ answers' = answers \o Answer(cmd, buffer')
  \/ /\ Fault /\ cmd.letter = "l" /\ answers' = answers \o Answer(cmd, Garbage(faults'))
     /\ UNCHANGED <<buffer, flash>>
  \/ /\ Fault /\ Effect(cmd) /\ UNCHANGED answers
  \/ /\ CutAnswers /\ Fault /\ Effect(cmd) /\ cmd.letter \in Valued
     /\ answers' = Append(answers, Sign(cmd.letter))

\* While the board is ready, a command gets lost, is refused for what is no
\* digit, or is cut short.
Spoiled(cmd) ==
  /\ Fault
  /\ \/ UNCHANGED <<answers, buffer, flash, board>>
     \/ /\ cmd.letter \in WithDigits /\ PartStored(cmd.letter, cmd)
        /\ \/ answers' = Append(answers, Error) /\ UNCHANGED board
           \/ faults' < MaxFaults /\ board' = cmd.letter /\ UNCHANGED answers

\* While it waits for digits, a command gets lost, all of it or its letter
\* and too few digits, or ends the waiting with its letter.
Swallowed(cmd) ==
  \/ Fault /\ PartStored(board, cmd) /\ UNCHANGED <<answers, board>>
  \/ /\ faults' = faults + 1 /\ board' = "ready"
     /\ answers' = Append(answers, Error) /\ UNCHANGED <<buffer, flash>>

Execute ==
  /\ commands # <<>> /\ commands' = Tail(commands)
  /\ LET cmd == Head(commands)
     IN \/ board = "ready" /\ Executed(cmd) /\ UNCHANGED board
        \/ board = "ready" /\ Spoiled(cmd)
        \/ board # "ready" /\ Swallowed(cmd)
  /\ UNCHANGED <<request, c, misled>>

\* The digits of an address are taken for others, or those of a command whose
\* letter got lost for the missing ones of the command the board waits with.
Mislead ==
  /\ commands # <<>> /\ commands' = Tail(commands)
  /\ Fault /\ misled' = TRUE /\ board' = "ready"
  /\ LET sent == Head(commands)
         letter == IF board = "ready" THEN sent.letter ELSE board
     IN /\ sent.letter \in WithDigits /\ (board = "ready" => letter # "s")
        /\ \E arg \in CASE letter = "k" -> 0 .. Sectors - 1
                        [] letter = "s" -> {Garbage(faults')} \cup (IF sent.letter = "s" THEN {sent.arg} ELSE {})
                        [] OTHER -> Pages :
             LET cmd == [letter |-> letter, arg |-> arg]
             IN Effect(cmd) /\ answers' = answers \o Answer(cmd, buffer')
  /\ UNCHANGED <<request, c>>

Client == sendCommand \/ waitForMessage \/ waitFails \/ readExactly \/ readsNextAnswer \/ readsTooLittle
            \/ valueMissing
Next == Client \/ Execute \/ Mislead

Spec == Init /\ [][Next]_vars
\* The client runs on, and the board executes what it gets.
FairSpec == Spec /\ WF_vars(Client) /\ WF_vars(Execute)

-----------------------------------------------------------------------------
Final == {"done", "aborted", "invalid", "usage", "crashed"}

(* When a write ends with Done, the flash holds the file at the offset     *)
(* asked for, whatever was lost, late, cut short or went wrong; and no      *)
(* command ever changes a page outside the sectors it was asked for: unless *)
(* the board was misled, as no argument has a checksum.                     *)
DoneMeansWritten ==
  ~ misled =>
    /\ request.command = "write" /\ c.pc = "done" =>
         \A i \in DOMAIN request.file : flash[request.offset + i - 1] = request.file[i]
    /\ \A p \in Pages :
         request.command \notin {"write", "erase"} \/ SectorOf(p) \notin {SectorOf(q) : q \in Region(request)} =>
           flash[p] = request.before[p]

(* Two faults never make a write or an erase give up: the tries of a        *)
(* sector, a page and a load never pay twice for one fault.  Characters     *)
(* lost from one command are two of them, as the next command goes for the  *)
(* missing ones, and both have to be sent again.                            *)
TwoFaultsSurvived ==
  ~ misled /\ request.command \in {"write", "erase"} /\ c.pc = "aborted" => faults > 2

(* What read writes to the file is what the flash holds, page by page; and  *)
(* verify calls a page good exactly if it is, unless two answers got lost,  *)
(* late or noisy: answers of the page before may then count for this one.   *)
(* A board that was misled may have loaded another page.                    *)
ReadsTrue ==
  ~ misled =>
    /\ \A i \in DOMAIN c.file : c.file[i] = flash[request.offset + i - 1]
    /\ faults < 2 => \A i \in DOMAIN c.verdicts :
                       c.verdicts[i] = (flash[request.offset + i - 1] = request.file[i])

(* Every command ends, whatever the board does.                            *)
Ends == <>(c.pc \in Final)

(* --flash-offset is documented as the offset for flash read/write in      *)
(* bytes: nothing but the sectors there is written, with --pad, too.       *)
WrittenAtOffset ==
  \A p \in Pages :
    SectorOf(p) \notin {SectorOf(q) : q \in Region(request)} => flash[p] = request.before[p]

(* The client treats a missing answer as a failed try: _readExactly        *)
(* promises None for it, and its callers test for None.                    *)
NeverCrashes == c.pc # "crashed"
=============================================================================
