------------------------ MODULE FlashProgrammer_proofs ------------------------
(***************************************************************************)
(* Proofs about FlashProgrammer: a write that ends with Done has written   *)
(* the file, no command touches sectors it was not asked for, a read saves *)
(* what the flash holds, with one fault a verify judges every page rightly *)
(* and with two no write or erase gives up, for every request and every    *)
(* geometry of the flash; all until the board takes an argument that       *)
(* nobody sent (misled).                                                   *)
(***************************************************************************)
EXTENDS FlashProgrammer, SequenceTheorems, FiniteSetTheorems, TLAPS

-----------------------------------------------------------------------------
(* The inductive invariant.  What is outstanding are the answers on their  *)
(* way to the client and behind them the commands on their way to the      *)
(* board.  A letter that is outstanding for longer than its exchange is    *)
(* what can be taken for the answer to a later one.                        *)

IsSeq(s) == \E S : s \in Seq(S)

\* All letters outstanding are in S; none of X is before one of Y.
IsSign(item, S) == item.kind = "letter" /\ item.of \in S
All(ans, com, S) ==
  /\ \A i \in 1 .. Len(ans) : ans[i].kind = "letter" => ans[i].of \in S
  /\ \A i \in 1 .. Len(com) : com[i].letter \in S
No(ans, com, X, Y) ==
  /\ \A i, j \in 1 .. Len(ans) : i < j /\ IsSign(ans[i], X) => ~ IsSign(ans[j], Y)
  /\ \A i \in 1 .. Len(ans), j \in 1 .. Len(com) : IsSign(ans[i], X) => com[j].letter \notin Y
  /\ \A i, j \in 1 .. Len(com) : i < j /\ com[i].letter \in X => com[j].letter \notin Y

\* Pages after the first, and the first in the first attempt, start with
\* nothing outstanding that could be mistaken for their own; each further
\* attempt may be out of step by one more letter.
Level(s) == IF s.page > 0 THEN 0 ELSE s.sector_write_attempt

AtHello(s, ans, com) ==
  IF s.stage = "wait" THEN All(ans, com, {">"}) /\ No(ans, com, {">"}, {">"})
  ELSE All(ans, com, {})
AtErase(s, ans, com) ==
  /\ All(ans, com, {"r", "k", "s", "w"}) /\ No(ans, com, {"k", "s", "w"}, {"r"})
  /\ Level(s) = 0 => All(ans, com, {"r", "k"})
  /\ Level(s) = 1 => No(ans, com, {"k"}, {"w"})
AtStore(s, ans, com) ==
  /\ Level(s) = 0 /\ s.stage = "send" => All(ans, com, {"r", "k"}) /\ No(ans, com, {"k"}, {"r"})
  /\ Level(s) = 0 /\ s.stage = "wait" =>
       /\ All(ans, com, {"r", "k", "s"}) /\ No(ans, com, {"k"}, {"r"})
       /\ No(ans, com, {"s"}, {"r", "k", "s"})
  /\ Level(s) = 0 /\ s.stage = "value" => All(ans, com, {})
  /\ Level(s) = 1 => All(ans, com, {"k", "s"})
  /\ Level(s) = 2 => All(ans, com, {"k", "s", "w"})
AtWrite(s, ans, com) ==
  /\ Level(s) = 0 /\ s.stage = "send" => All(ans, com, {})
  /\ Level(s) = 0 /\ s.stage = "wait" => All(ans, com, {"w"}) /\ No(ans, com, {"w"}, {"w"})
  /\ Level(s) = 1 /\ s.stage = "send" => All(ans, com, {"k", "s"})
  /\ Level(s) = 1 /\ s.stage = "wait" =>
       All(ans, com, {"k", "s", "w"}) /\ No(ans, com, {"w"}, {"k", "s", "w"})
  /\ Level(s) = 2 => All(ans, com, {"k", "s", "w"})
AtLoad(s, ans, com) ==
  /\ All(ans, com, {"r", "k", "s", "w"}) /\ No(ans, com, {"r"}, {"k", "s", "w"})
  /\ Level(s) \in {0, 1} \/ s.stage = "value" => All(ans, com, {"r"})

InStep(s, ans, com) ==
  /\ s.pc = "hello" => AtHello(s, ans, com)
  /\ s.pc = "eraseSector" => AtErase(s, ans, com)
  /\ s.pc = "store" => AtStore(s, ans, com)
  /\ s.pc = "write" => AtWrite(s, ans, com)
  /\ s.pc = "loadPage" => AtLoad(s, ans, com)
  /\ s.pc = "done" => All(ans, com, {"r"})

\* A write: no other exchanges, and pages of data are never on the line.
Steps == {"eraseSector", "store", "write", "loadPage"}
Writes(s) ==
  /\ s.pc \in {"hello"} \cup Steps \cup Final
  /\ s.pc \in {"hello", "store", "loadPage"} => s.stage \in {"send", "wait", "value"}
  /\ s.pc \in {"eraseSector", "write"} => s.stage \in {"send", "wait"}
  /\ s.sector_write_attempt \in 0 .. 2
Plain(ans) == IsSeq(ans) /\ \A i \in 1 .. Len(ans) : ans[i].kind \in {"letter", "value", "error"}

\* The sector and the page are within the request; other requests neither
\* erase nor write.
Fields ==
  {"pc", "stage", "offset", "data", "sector", "page", "erase_try", "sector_write_attempt",
   "crc_list", "load_try", "crc", "fetch_try", "file", "verdicts"}
Changes(r) == r.command \in {"write", "erase"}
Within(s, r) ==
  /\ DOMAIN s = Fields /\ s.offset = r.offset /\ s.data = r.file
  /\ s.pc \in {"eraseSector", "store", "write"} => Changes(r)
  /\ s.pc \in {"store", "write"} => r.command = "write"
  /\ s.pc = "loadPage" => r.command \in {"write", "read", "verify"}
  /\ s.pc = "fetch" => r.command = "read"
  /\ Changes(r) =>
       /\ s.sector \in Nat /\ s.page \in 0 .. pages_per_sector - 1
       /\ s.pc \in {"hello", "eraseSector"} => s.page = 0
       /\ s.pc = "hello" => s.sector = 0
       /\ s.pc \in Steps =>
            Whole(r.offset) /\ Whole(PageCount(r)) /\ (s.sector + 1) * pages_per_sector <= PageCount(r)

\* No command on its way erases or writes outside the request.
Target(r, cmd) ==
  /\ cmd.letter \in {"k", "w"} => Changes(r)
  /\ cmd.letter = "k" => cmd.arg \in {SectorOf(q) : q \in Region(r)}
  /\ cmd.letter = "w" => cmd.arg \in Region(r)
Targets(r, com) == IsSeq(com) /\ \A i \in 1 .. Len(com) : Target(r, com[i])
Untouched ==
  \A p \in Pages :
    ~ Changes(request) \/ SectorOf(p) \notin {SectorOf(q) : q \in Region(request)} =>
      flash[p] = request.before[p]

\* The pages before Front hold the file, and no command on its way erases or
\* writes them.
Front(s) == IF s.pc = "done" THEN s.offset + Len(s.data) ELSE page_index(s)
Ahead(s, com) ==
  \A i \in 1 .. Len(com) :
    /\ com[i].letter \in {"k", "w"} => com[i].arg \in Nat
    /\ com[i].letter = "k" => com[i].arg * pages_per_sector >= Front(s)
    /\ com[i].letter = "w" => com[i].arg >= Front(s)
Committed(s, fl) == \A p \in s.offset .. Front(s) - 1 : fl[p] = s.data[p - s.offset + 1]

\* Checksums on their way are of the page that is loaded: one that is right
\* says that the flash is.
Right(s, fl) == fl[page_index(s)] = PageData(s)
Checked(s, item, fl) == item.kind = "value" /\ item.of = PageData(s) => Right(s, fl)
Requested(s, ans, com, fl) ==
  /\ \A i \in 1 .. Len(com) : com[i].letter = "r" => com[i].arg = page_index(s)
  /\ \A i \in 2 .. Len(ans) : IsSign(ans[i - 1], {"r"}) => Checked(s, ans[i], fl)
Loads(s, ans, com, fl) ==
  s.pc = "loadPage" =>
    /\ Requested(s, ans, com, fl)
    /\ s.stage = "value" /\ Len(ans) > 0 => Checked(s, ans[1], fl)

Active(s) == s.pc \in {"hello", "done"} \cup Steps
Writing(s, ans, com, fl) ==
  /\ Writes(s)
  /\ Active(s) => /\ Plain(ans) /\ InStep(s, ans, com)
                  /\ Ahead(s, com) /\ Committed(s, fl) /\ Loads(s, ans, com, fl)

\* What a command cut short owes can be paid.
Affords == board # "ready" => faults < MaxFaults

IInv ==
  /\ request \in Requests /\ faults \in 0 .. MaxFaults /\ Affords /\ DOMAIN flash = Pages
  /\ Within(c, request) /\ Targets(request, commands) /\ Untouched
  /\ request.command = "write" => Writing(c, answers, commands, flash)

-----------------------------------------------------------------------------
(* Sequences, and the three things that happen to what is outstanding.     *)

LEMMA NothingIsSeq == IsSeq(<<>>)
BY DEF IsSeq

LEMMA SeqFacts ==
  ASSUME NEW s, IsSeq(s)
  PROVE  Len(s) \in Nat /\ DOMAIN s = 1 .. Len(s)
<1>1. PICK S : s \in Seq(S)
  BY DEF IsSeq
<1> QED BY <1>1

LEMMA AppendFacts ==
  ASSUME NEW s, IsSeq(s), NEW e
  PROVE  /\ IsSeq(Append(s, e)) /\ Len(Append(s, e)) = Len(s) + 1
         /\ \A i \in 1 .. Len(s) : Append(s, e)[i] = s[i]
         /\ Append(s, e)[Len(s) + 1] = e
<1>1. PICK S : s \in Seq(S)
  BY DEF IsSeq
<1>2. s \in Seq(S \cup {e}) /\ e \in S \cup {e}
  BY <1>1
<1>3. Append(s, e) \in Seq(S \cup {e})
  BY <1>2
<1>4. IsSeq(Append(s, e))
  BY <1>3 DEF IsSeq
<1> QED BY <1>2, <1>4

LEMMA TailFacts ==
  ASSUME NEW s, IsSeq(s), s # <<>>
  PROVE  /\ IsSeq(Tail(s)) /\ Len(Tail(s)) = Len(s) - 1 /\ Len(s) >= 1
         /\ \A i \in 1 .. Len(s) - 1 : Tail(s)[i] = s[i + 1]
         /\ Head(s) = s[1]
<1>1. PICK S : s \in Seq(S)
  BY DEF IsSeq
<1>2. Tail(s) \in Seq(S)
  BY <1>1
<1>3. IsSeq(Tail(s))
  BY <1>2 DEF IsSeq
<1> QED BY <1>1, <1>3

\* b is a with an answer to the letter x behind it, an error, or nothing.
Answered(a, b, x) ==
  /\ Len(b) >= Len(a) /\ \A i \in 1 .. Len(a) : b[i] = a[i]
  /\ \A i \in Len(a) + 1 .. Len(b) :
       \/ i = Len(a) + 1 /\ b[i] = Sign(x)
       \/ b[i].kind # "letter"

LEMMA OneAnswer ==
  ASSUME NEW a, IsSeq(a), NEW x
  PROVE  IsSeq(a \o <<Sign(x)>>) /\ Answered(a, a \o <<Sign(x)>>, x)
<1>1. PICK S : a \in Seq(S)
  BY DEF IsSeq
<1>2. a \in Seq(S \cup {Sign(x)}) /\ <<Sign(x)>> \in Seq(S \cup {Sign(x)})
  BY <1>1
<1>3. a \o <<Sign(x)>> \in Seq(S \cup {Sign(x)})
  BY <1>2
<1>4. IsSeq(a \o <<Sign(x)>>)
  BY <1>3 DEF IsSeq
<1> QED BY <1>2, <1>4 DEF Answered

LEMMA TwoAnswers ==
  ASSUME NEW a, IsSeq(a), NEW x, NEW item, item.kind # "letter"
  PROVE  LET b == a \o <<Sign(x), item>> IN
           /\ IsSeq(b) /\ Answered(a, b, x) /\ Len(b) = Len(a) + 2
           /\ b[Len(a) + 1] = Sign(x) /\ b[Len(a) + 2] = item
<1> DEFINE T == {Sign(x), item}
           b == a \o <<Sign(x), item>>
<1>1. PICK S : a \in Seq(S)
  BY DEF IsSeq
<1>2. a \in Seq(S \cup T) /\ <<Sign(x), item>> \in Seq(S \cup T)
  BY <1>1
<1>3. b \in Seq(S \cup T)
  BY <1>2
<1>4. IsSeq(b)
  BY <1>3 DEF IsSeq
<1>5. /\ Len(b) = Len(a) + 2 /\ \A i \in 1 .. Len(a) : b[i] = a[i]
      /\ b[Len(a) + 1] = Sign(x) /\ b[Len(a) + 2] = item
  BY <1>2
<1>6. Len(a) \in Nat
  BY SeqFacts
<1> QED BY <1>4, <1>5, <1>6 DEF Answered

LEMMA NoAnswer ==
  ASSUME NEW a, IsSeq(a), NEW x
  PROVE  Answered(a, a, x)
BY SeqFacts DEF Answered

\* The first answer is taken from the line.
LEMMA AllTail ==
  ASSUME NEW a, IsSeq(a), a # <<>>, NEW com, NEW S, All(a, com, S)
  PROVE  All(Tail(a), com, S)
BY TailFacts, SeqFacts DEF All

LEMMA NoTail ==
  ASSUME NEW a, IsSeq(a), a # <<>>, NEW com, NEW X, NEW Y, No(a, com, X, Y)
  PROVE  No(Tail(a), com, X, Y)
<1> DEFINE b == Tail(a)
<1>1. /\ IsSeq(b) /\ Len(b) = Len(a) - 1 /\ Len(a) \in Nat /\ Len(b) \in Nat
      /\ \A i \in 1 .. Len(b) : i + 1 \in 1 .. Len(a) /\ b[i] = a[i + 1]
  BY TailFacts, SeqFacts
<1> HIDE DEF b
<1>2. ASSUME NEW i \in 1 .. Len(b), NEW j \in 1 .. Len(b), i < j, IsSign(b[i], X)
      PROVE  ~ IsSign(b[j], Y)
  <2>1. i + 1 \in 1 .. Len(a) /\ j + 1 \in 1 .. Len(a) /\ i + 1 < j + 1
    BY <1>1, <1>2
  <2>2. IsSign(a[i + 1], X)
    BY <1>1, <1>2
  <2>3. ~ IsSign(a[j + 1], Y)
    BY <2>1, <2>2 DEF No
  <2> QED BY <1>1, <2>3
<1>3. ASSUME NEW i \in 1 .. Len(b), NEW j \in 1 .. Len(com), IsSign(b[i], X)
      PROVE  com[j].letter \notin Y
  BY <1>1, <1>3 DEF No
<1>4. No(b, com, X, Y)
  BY <1>2, <1>3 DEF No
<1> QED BY <1>4 DEF b

\* What was behind a letter of X has none of Y.
LEMMA Drained ==
  ASSUME NEW a, IsSeq(a), a # <<>>, NEW com, NEW S, NEW X, NEW Y,
         All(a, com, S), No(a, com, X, Y), IsSign(Head(a), X)
  PROVE  All(Tail(a), com, S \ Y)
<1>1. /\ Len(Tail(a)) = Len(a) - 1 /\ Len(a) \in Nat /\ 1 \in 1 .. Len(a) /\ Head(a) = a[1]
      /\ \A i \in 1 .. Len(Tail(a)) : i + 1 \in 1 .. Len(a) /\ Tail(a)[i] = a[i + 1] /\ 1 < i + 1
  BY TailFacts, SeqFacts
<1>2. IsSign(a[1], X)
  BY <1>1
<1>3. ASSUME NEW i \in 1 .. Len(Tail(a)), Tail(a)[i].kind = "letter"
      PROVE  Tail(a)[i].of \in S \ Y
  <2>1. ~ IsSign(a[i + 1], Y)
    BY <1>1, <1>2 DEF No
  <2>2. a[i + 1].of \in S
    BY <1>1, <1>3 DEF All
  <2> QED BY <1>1, <1>3, <2>1, <2>2 DEF IsSign
<1>4. \A j \in 1 .. Len(com) : com[j].letter \in S \ Y
  BY <1>1, <1>2 DEF No, All
<1> QED BY <1>3, <1>4 DEF All

\* A command is sent.
LEMMA AllSend ==
  ASSUME NEW ans, NEW com, IsSeq(com), NEW cmd, NEW S, NEW T,
         All(ans, com, S), S \subseteq T, cmd.letter \in T
  PROVE  All(ans, Append(com, cmd), T)
<1>1. Len(com) \in Nat /\ Len(Append(com, cmd)) = Len(com) + 1
  BY AppendFacts, SeqFacts
<1>2. \A i \in 1 .. Len(com) + 1 : i \in 1 .. Len(com) \/ i = Len(com) + 1
  BY <1>1
<1> QED BY <1>1, <1>2, AppendFacts DEF All

LEMMA NoSend ==
  ASSUME NEW ans, NEW com, IsSeq(com), NEW cmd, NEW X, NEW Y,
         No(ans, com, X, Y), cmd.letter \notin Y
  PROVE  No(ans, Append(com, cmd), X, Y)
<1>1. /\ Len(com) \in Nat /\ Len(Append(com, cmd)) = Len(com) + 1
      /\ \A i \in 1 .. Len(com) : Append(com, cmd)[i] = com[i]
      /\ Append(com, cmd)[Len(com) + 1] = cmd
  BY AppendFacts, SeqFacts
<1>2. \A i \in 1 .. Len(com) + 1 : i \in 1 .. Len(com) \/ i = Len(com) + 1
  BY <1>1
<1>3. ASSUME NEW i \in 1 .. Len(com) + 1, NEW j \in 1 .. Len(com) + 1,
             i < j, Append(com, cmd)[i].letter \in X
      PROVE  Append(com, cmd)[j].letter \notin Y
  <2>1. CASE j = Len(com) + 1
    BY <1>1, <2>1
  <2>2. CASE j \in 1 .. Len(com)
    <3>1. i \in 1 .. Len(com)
      BY <1>1, <1>3, <2>2
    <3> QED BY <1>1, <1>3, <2>2, <3>1 DEF No
  <2> QED BY <1>2, <2>1, <2>2
<1>4. ASSUME NEW i \in 1 .. Len(ans), NEW j \in 1 .. Len(com) + 1, IsSign(ans[i], X)
      PROVE  Append(com, cmd)[j].letter \notin Y
  BY <1>1, <1>2, <1>4 DEF No
<1> QED BY <1>1, <1>3, <1>4 DEF No

\* The board has executed the first command.
LEMMA AllExecuted ==
  ASSUME NEW a, IsSeq(a), NEW b, IsSeq(b), NEW com, IsSeq(com), com # <<>>, NEW S,
         All(a, com, S), Answered(a, b, Head(com).letter)
  PROVE  All(b, Tail(com), S)
<1>1. /\ Len(a) \in Nat /\ Len(b) \in Nat /\ Len(com) \in Nat /\ 1 \in 1 .. Len(com)
      /\ Len(Tail(com)) = Len(com) - 1 /\ Head(com) = com[1]
      /\ \A i \in 1 .. Len(Tail(com)) : i + 1 \in 1 .. Len(com) /\ Tail(com)[i] = com[i + 1]
  BY TailFacts, SeqFacts
<1>2. ASSUME NEW i \in 1 .. Len(b), b[i].kind = "letter"
      PROVE  b[i].of \in S
  <2>1. CASE i \in 1 .. Len(a)
    BY <1>2, <2>1 DEF All, Answered
  <2>2. CASE i \notin 1 .. Len(a)
    <3>1. b[i] = Sign(com[1].letter)
      BY <1>1, <1>2, <2>2 DEF Answered
    <3>2. com[1].letter \in S
      BY <1>1 DEF All
    <3> QED BY <3>1, <3>2 DEF Sign
  <2> QED BY <2>1, <2>2
<1> QED BY <1>1, <1>2 DEF All

LEMMA NoExecuted ==
  ASSUME NEW a, IsSeq(a), NEW b, IsSeq(b), NEW com, IsSeq(com), com # <<>>, NEW X, NEW Y,
         No(a, com, X, Y), Answered(a, b, Head(com).letter)
  PROVE  No(b, Tail(com), X, Y)
<1>1. /\ Len(a) \in Nat /\ Len(b) \in Nat /\ Len(com) \in Nat /\ 1 \in 1 .. Len(com)
      /\ Len(Tail(com)) = Len(com) - 1 /\ Head(com) = com[1]
      /\ \A i \in 1 .. Len(Tail(com)) :
           i + 1 \in 1 .. Len(com) /\ Tail(com)[i] = com[i + 1] /\ 1 < i + 1
  BY TailFacts, SeqFacts
<1>2. ASSUME NEW i \in 1 .. Len(b), NEW Z, IsSign(b[i], Z), i \notin 1 .. Len(a)
      PROVE  i = Len(a) + 1 /\ com[1].letter \in Z
  <2>1. b[i].kind = "letter" /\ b[i].of \in Z
    BY <1>2 DEF IsSign
  <2>2. i = Len(a) + 1 /\ b[i] = Sign(com[1].letter)
    BY <1>1, <1>2, <2>1 DEF Answered
  <2> QED BY <2>1, <2>2 DEF Sign
<1>3. \A i \in 1 .. Len(a) : b[i] = a[i]
  BY DEF Answered
<1>4. ASSUME NEW i \in 1 .. Len(b), NEW j \in 1 .. Len(b), i < j, IsSign(b[i], X), IsSign(b[j], Y)
      PROVE  FALSE
  <2>1. CASE j \in 1 .. Len(a)
    <3>1. i \in 1 .. Len(a)
      BY <1>1, <1>4, <2>1
    <3> QED BY <1>3, <1>4, <2>1, <3>1 DEF No
  <2>2. CASE j \notin 1 .. Len(a)
    <3>1. j = Len(a) + 1 /\ com[1].letter \in Y
      BY <1>2, <1>4, <2>2
    <3>2. i \in 1 .. Len(a)
      BY <1>1, <1>4, <3>1
    <3>3. IsSign(a[i], X)
      BY <1>3, <1>4, <3>2
    <3> QED BY <1>1, <3>1, <3>2, <3>3 DEF No
  <2> QED BY <2>1, <2>2
<1>5. ASSUME NEW i \in 1 .. Len(b), NEW j \in 1 .. Len(Tail(com)), IsSign(b[i], X)
      PROVE  Tail(com)[j].letter \notin Y
  <2>1. CASE i \in 1 .. Len(a)
    <3>1. IsSign(a[i], X)
      BY <1>3, <1>5, <2>1
    <3> QED BY <1>1, <2>1, <3>1 DEF No
  <2>2. CASE i \notin 1 .. Len(a)
    <3>1. com[1].letter \in X
      BY <1>2, <1>5, <2>2
    <3> QED BY <1>1, <3>1 DEF No
  <2> QED BY <2>1, <2>2
<1>6. ASSUME NEW i \in 1 .. Len(Tail(com)), NEW j \in 1 .. Len(Tail(com)),
             i < j, Tail(com)[i].letter \in X
      PROVE  Tail(com)[j].letter \notin Y
  <2>1. i + 1 \in 1 .. Len(com) /\ j + 1 \in 1 .. Len(com) /\ i + 1 < j + 1
    BY <1>1, <1>6
  <2> QED BY <1>1, <1>6, <2>1 DEF No
<1> QED BY <1>4, <1>5, <1>6 DEF No

\* Smaller and larger sets.
LEMMA AllMore ==
  ASSUME NEW ans, NEW com, NEW S, NEW T, All(ans, com, S), S \subseteq T
  PROVE  All(ans, com, T)
BY DEF All

LEMMA NoLess ==
  ASSUME NEW ans, NEW com, NEW X, NEW Y, NEW X2, NEW Y2,
         No(ans, com, X, Y), X2 \subseteq X, Y2 \subseteq Y
  PROVE  No(ans, com, X2, Y2)
BY DEF No, IsSign

LEMMA NoneOf ==
  ASSUME NEW ans, NEW com, NEW S, NEW X, NEW Y,
         All(ans, com, S), S \cap X = {} \/ S \cap Y = {}
  PROVE  No(ans, com, X, Y)
<1>1. ASSUME NEW Z, S \cap Z = {}
      PROVE  /\ \A i \in 1 .. Len(ans) : ~ IsSign(ans[i], Z)
             /\ \A i \in 1 .. Len(com) : com[i].letter \notin Z
  BY <1>1 DEF All, IsSign
<1> QED BY <1>1 DEF No

\* A command is sent whose letter was not outstanding.
LEMMA NoFirst ==
  ASSUME NEW ans, NEW com, IsSeq(com), NEW cmd, NEW S, NEW X, NEW Y,
         All(ans, com, S), S \cap X = {}
  PROVE  No(ans, Append(com, cmd), X, Y)
<1>1. /\ Len(com) \in Nat /\ Len(Append(com, cmd)) = Len(com) + 1
      /\ \A i \in 1 .. Len(com) : Append(com, cmd)[i] = com[i]
  BY AppendFacts, SeqFacts
<1>2. \A i \in 1 .. Len(com) + 1 : i \in 1 .. Len(com) \/ i = Len(com) + 1
  BY <1>1
<1>3. \A i \in 1 .. Len(ans) : ~ IsSign(ans[i], X)
  BY DEF All, IsSign
<1>4. \A i, j \in 1 .. Len(com) + 1 : i < j => Append(com, cmd)[i].letter \notin X
  BY <1>1, <1>2 DEF All
<1> QED BY <1>1, <1>3, <1>4 DEF No

-----------------------------------------------------------------------------
(* The client between two exchanges: what Ended does with its place.       *)

\* t is s in another exchange; pages and sectors come separately.
Moved(s, t) ==
  /\ DOMAIN t = Fields /\ t.offset = s.offset /\ t.data = s.data /\ t.stage = "send"
Stays(s, t) ==
  t.sector = s.sector /\ t.page = s.page /\ t.sector_write_attempt = s.sector_write_attempt

\* The sector starts again; all tries may be used up.
Restarts(s, t) ==
  /\ Moved(s, t) /\ t.sector = s.sector
  /\ \/ t.pc = "aborted" /\ Stays(s, t)
     \/ /\ t.pc = "eraseSector" /\ t.page = 0
        /\ t.sector_write_attempt = s.sector_write_attempt + 1 /\ t.sector_write_attempt < tries

\* The page, or the sector, is through.
EntersSector(s, t, r) ==
  /\ Moved(s, t) /\ t.sector_write_attempt = s.sector_write_attempt
  /\ \/ /\ (s.sector + 1) * pages_per_sector = PageCount(r)
        /\ t.pc = "done" /\ Stays(s, t)
     \/ /\ (s.sector + 1) * pages_per_sector # PageCount(r)
        /\ t.pc = "eraseSector" /\ t.sector = s.sector + 1 /\ t.page = 0
Advances(s, t, r) ==
  \/ /\ s.page + 1 # pages_per_sector /\ Moved(s, t) /\ t.pc = "store"
     /\ t.sector = s.sector /\ t.page = s.page + 1
     /\ t.sector_write_attempt = s.sector_write_attempt
  \/ s.page + 1 = pages_per_sector /\ EntersSector(s, t, r)

LEMMA GotoFacts ==
  ASSUME NEW s, DOMAIN s = Fields, NEW pc
  PROVE  Moved(s, Goto(s, pc)) /\ Stays(s, Goto(s, pc)) /\ Goto(s, pc).pc = pc
BY DEF Fields, Goto, Moved, Stays

LEMMA StartSectorFacts ==
  ASSUME NEW s, DOMAIN s = Fields
  PROVE  /\ Moved(s, StartSector(s)) /\ StartSector(s).pc = "eraseSector"
         /\ StartSector(s).page = 0 /\ StartSector(s).sector = s.sector
         /\ StartSector(s).sector_write_attempt = s.sector_write_attempt
BY DEF Fields, Goto, Moved, StartSector

LEMMA StartLoadFacts ==
  ASSUME NEW s, DOMAIN s = Fields
  PROVE  Moved(s, StartLoad(s)) /\ Stays(s, StartLoad(s)) /\ StartLoad(s).pc = "loadPage"
BY DEF Fields, Goto, Moved, Stays, StartLoad

LEMMA NextSectorFacts ==
  ASSUME NEW s, DOMAIN s = Fields, NEW r
  PROVE  EntersSector(s, NextSector(s, r), r)
<1> DEFINE u == [s EXCEPT !.sector = @ + 1]
<1>1. /\ DOMAIN u = Fields /\ u.sector = s.sector + 1 /\ u.offset = s.offset /\ u.data = s.data
      /\ u.sector_write_attempt = s.sector_write_attempt
  BY DEF Fields
<1> HIDE DEF u
<1>2. CASE (s.sector + 1) * pages_per_sector = PageCount(r)
  <2>1. NextSector(s, r) = Goto(s, "done")
    BY <1>2 DEF NextSector
  <2> QED BY <1>2, <2>1, GotoFacts DEF EntersSector, Stays
<1>3. CASE (s.sector + 1) * pages_per_sector # PageCount(r)
  <2>1. NextSector(s, r) = StartSector(u)
    BY <1>3 DEF NextSector, u
  <2> QED BY <1>1, <1>3, <2>1, StartSectorFacts DEF EntersSector, Moved
<1> QED BY <1>2, <1>3

LEMMA NextPageFacts ==
  ASSUME NEW s, DOMAIN s = Fields, NEW r, r.command = "write"
  PROVE  Advances(s, NextPage(s, r), r)
<1>1. CASE s.page + 1 = pages_per_sector
  BY <1>1, NextSectorFacts DEF Advances, NextPage
<1>2. CASE s.page + 1 # pages_per_sector
  <2>1. NextPage(s, r) = [Goto(s, "store") EXCEPT !.page = @ + 1]
    BY <1>2 DEF NextPage
  <2> QED BY <1>2, <2>1 DEF Advances, Moved, Goto, Fields
<1> QED BY <1>1, <1>2

LEMMA PageFailedFacts ==
  ASSUME NEW s, DOMAIN s = Fields
  PROVE  Restarts(s, PageFailed(s))
<1> DEFINE u == [s EXCEPT !.sector_write_attempt = @ + 1]
<1>1. /\ DOMAIN u = Fields /\ u.sector = s.sector /\ u.offset = s.offset /\ u.data = s.data
      /\ u.sector_write_attempt = s.sector_write_attempt + 1
  BY DEF Fields
<1> HIDE DEF u
<1>2. CASE s.sector_write_attempt + 1 < tries
  <2>1. PageFailed(s) = StartSector(u)
    BY <1>2 DEF PageFailed, u
  <2> QED BY <1>1, <1>2, <2>1, StartSectorFacts DEF Restarts, Moved
<1>3. CASE ~ (s.sector_write_attempt + 1 < tries)
  <2>1. PageFailed(s) = Goto(s, "aborted")
    BY <1>3 DEF PageFailed
  <2> QED BY <2>1, GotoFacts DEF Restarts, Stays
<1> QED BY <1>2, <1>3

LEMMA EraseEnds ==
  ASSUME NEW s, DOMAIN s = Fields, NEW r, Changes(r), NEW ok \in BOOLEAN, NEW v,
         s.pc = "eraseSector", NEW t, t = Ended(s, r, ok, v)
  PROVE  \/ Moved(s, t) /\ Stays(s, t) /\ t.pc \in {"eraseSector", "aborted"}
         \/ ok /\ r.command = "write" /\ Moved(s, t) /\ Stays(s, t) /\ t.pc = "store"
         \/ r.command = "erase" /\ EntersSector(s, t, r)
<1>1. t = eraseSector(s, r, ok)
  BY DEF Ended
<1>2. CASE ok /\ r.command = "erase"
  BY <1>1, <1>2, NextSectorFacts DEF eraseSector
<1>3. CASE ok /\ r.command = "write"
  BY <1>1, <1>3, GotoFacts DEF eraseSector
<1>4. CASE ~ ok
  <2>1. CASE s.erase_try + 1 < tries
    <3>1. t = [Goto(s, "eraseSector") EXCEPT !.erase_try = @ + 1]
      BY <1>1, <1>4, <2>1 DEF eraseSector
    <3> QED BY <3>1 DEF Moved, Stays, Goto, Fields
  <2>2. CASE ~ (s.erase_try + 1 < tries)
    BY <1>1, <1>4, <2>2, GotoFacts DEF eraseSector
  <2> QED BY <2>1, <2>2
<1> QED BY <1>2, <1>3, <1>4 DEF Changes

LEMMA StoreEnds ==
  ASSUME NEW s, DOMAIN s = Fields, NEW r, NEW ok \in BOOLEAN, NEW v,
         s.pc = "store", PageData(s) # None, NEW t, t = Ended(s, r, ok, v)
  PROVE  \/ Restarts(s, t)
         \/ ok /\ Moved(s, t) /\ Stays(s, t) /\ t.pc = "write"
<1> DEFINE crc == IF ok THEN v ELSE None
<1>1. t = Stored(s, crc)
  BY DEF Ended
<1>2. CASE crc = PageData(s)
  <2>1. t = Goto(s, "write")
    BY <1>1, <1>2 DEF Stored
  <2> QED BY <1>2, <2>1, GotoFacts
<1>3. CASE crc # PageData(s)
  <2>1. t = PageFailed(s)
    BY <1>1, <1>3 DEF Stored
  <2> QED BY <2>1, PageFailedFacts
<1> QED BY <1>2, <1>3

LEMMA WriteEnds ==
  ASSUME NEW s, DOMAIN s = Fields, NEW r, NEW ok \in BOOLEAN, NEW v,
         s.pc = "write", NEW t, t = Ended(s, r, ok, v)
  PROVE  \/ Restarts(s, t)
         \/ ok /\ Moved(s, t) /\ Stays(s, t) /\ t.pc = "loadPage"
<1>1. t = Written(s, ok)
  BY DEF Ended
<1>2. CASE ok
  BY <1>1, <1>2, StartLoadFacts DEF Written
<1>3. CASE ~ ok
  BY <1>1, <1>3, PageFailedFacts DEF Written
<1> QED BY <1>2, <1>3

LEMMA LoadEnds ==
  ASSUME NEW s, DOMAIN s = Fields, NEW r, r.command = "write", NEW ok \in BOOLEAN, NEW v,
         s.pc = "loadPage", PageData(s) # None, NEW t, t = Ended(s, r, ok, v)
  PROVE  \/ Restarts(s, t)
         \/ Moved(s, t) /\ Stays(s, t) /\ t.pc = "loadPage"
         \/ ok /\ v = PageData(s) /\ Advances(s, t, r)
<1> DEFINE crc == IF ok THEN v ELSE None
           counts == crc = None \/ s.crc_list # {}
           again == [Goto(s, "loadPage") EXCEPT !.load_try = IF counts THEN @ + 1 ELSE @,
                                                !.crc_list = @ \cup ({crc} \ {None})]
<1>1. t = loadPageMultiple(s, r, crc)
  BY DEF Ended
<1>2. t = Loaded(s, r, crc) \/ t = Loaded(s, r, None) \/ t = again
  BY <1>1 DEF loadPageMultiple
<1>3. ASSUME NEW x, t = Loaded(s, r, x), x = crc \/ x = None
      PROVE  Restarts(s, t) \/ (ok /\ v = PageData(s) /\ Advances(s, t, r))
  <2>1. CASE x = PageData(s)
    <3>1. t = NextPage(s, r)
      BY <1>3, <2>1 DEF Loaded
    <3> QED BY <1>3, <2>1, <3>1, NextPageFacts
  <2>2. CASE x # PageData(s)
    <3>1. t = PageFailed(s)
      BY <1>3, <2>2 DEF Loaded
    <3> QED BY <3>1, PageFailedFacts
  <2> QED BY <2>1, <2>2
<1>4. CASE t = again
  BY <1>4 DEF Moved, Stays, Goto, Fields
<1> QED BY <1>2, <1>3, <1>4

LEMMA HelloEnds ==
  ASSUME NEW s, DOMAIN s = Fields, NEW r, Changes(r), ~ r.pad, NEW ok \in BOOLEAN, NEW v,
         s.pc = "hello", NEW t, t = Ended(s, r, ok, v)
  PROVE  /\ Moved(s, t) /\ (~ ok => t.pc = "usage")
         /\ \/ Stays(s, t) /\ t.pc \in {"usage", "crashed"}
            \/ Stays(s, t) /\ t.pc = "done" /\ PageCount(r) = 0
            \/ /\ t.pc = "eraseSector" /\ t.page = 0 /\ t.sector = s.sector
               /\ t.sector_write_attempt = s.sector_write_attempt
               /\ Whole(r.offset) /\ Whole(PageCount(r)) /\ PageCount(r) # 0
<1>1. CASE ~ ok
  BY <1>1, GotoFacts DEF Ended
<1>2. CASE ok
  <2>1. t = Started(s, r)
    BY <1>2 DEF Ended
  <2>2. CASE Refused(r)
    BY <2>1, <2>2, GotoFacts DEF Started
  <2>3. CASE ~ Refused(r)
    <3>1. Whole(r.offset) /\ Whole(PageCount(r)) /\ Offset(r) = r.offset
      <4>1. CASE r.command = "write"
        <5>1. Refused(r) <=> ~ (Whole(r.offset) /\ Whole(Len(r.file)))
          BY <4>1 DEF Refused
        <5> QED BY <2>3, <4>1, <5>1 DEF PageCount, Data, Offset
      <4>2. CASE r.command = "erase"
        <5>1. Refused(r) <=> ~ (Whole(r.offset) /\ Whole(r.length))
          BY <4>2 DEF Refused
        <5> QED BY <2>3, <4>2, <5>1 DEF PageCount, Offset
      <4> QED BY <4>1, <4>2 DEF Changes
    <3>4. ~ (r.command = "write" /\ ~ Whole(Offset(r)))
      BY <3>1
    <3>2. CASE PageCount(r) = 0
      <4>1. t = Goto(s, "done")
        BY <2>1, <2>3, <3>2, <3>4 DEF Started, Changes
      <4> QED BY <1>2, <3>2, <4>1, GotoFacts
    <3>3. CASE PageCount(r) # 0
      <4>1. t = StartSector(s)
        BY <2>1, <2>3, <3>3, <3>4 DEF Started, Changes
      <4> QED BY <1>2, <3>1, <3>3, <4>1, StartSectorFacts
    <3> QED BY <3>2, <3>3
  <2> QED BY <2>2, <2>3
<1> QED BY <1>1, <1>2

-----------------------------------------------------------------------------
(* What is outstanding, step by step.                                      *)

LEMMA AllBoth ==
  ASSUME NEW ans, NEW com, NEW S, NEW T, NEW U, All(ans, com, S), All(ans, com, T),
         S \cap T \subseteq U
  PROVE  All(ans, com, U)
BY DEF All

LEMMA NoBoth ==
  ASSUME NEW ans, NEW com, NEW S, NEW X1, NEW X2, NEW X, NEW Y, All(ans, com, S),
         No(ans, com, X1, Y), No(ans, com, X2, Y), X \cap S \subseteq X1 \cup X2
  PROVE  No(ans, com, X, Y)
<1>1. \A i \in 1 .. Len(ans) : IsSign(ans[i], X) => IsSign(ans[i], X1) \/ IsSign(ans[i], X2)
  BY DEF All, IsSign
<1>2. \A i \in 1 .. Len(com) : com[i].letter \in X => com[i].letter \in X1 \cup X2
  BY DEF All
<1> QED BY <1>1, <1>2 DEF No

LEMMA InStepTail ==
  ASSUME NEW s, NEW ans, IsSeq(ans), ans # <<>>, NEW com, InStep(s, ans, com)
  PROVE  InStep(s, Tail(ans), com)
<1>1. \A S : All(ans, com, S) => All(Tail(ans), com, S)
  BY AllTail
<1>2. \A X, Y : No(ans, com, X, Y) => No(Tail(ans), com, X, Y)
  BY NoTail
<1> QED BY <1>1, <1>2, Zenon DEF InStep, AtHello, AtErase, AtStore, AtWrite, AtLoad

LEMMA InStepExecuted ==
  ASSUME NEW s, NEW ans, IsSeq(ans), NEW b, IsSeq(b), NEW com, IsSeq(com), com # <<>>,
         InStep(s, ans, com), Answered(ans, b, Head(com).letter)
  PROVE  InStep(s, b, Tail(com))
<1>1. \A S : All(ans, com, S) => All(b, Tail(com), S)
  BY AllExecuted
<1>2. \A X, Y : No(ans, com, X, Y) => No(b, Tail(com), X, Y)
  BY NoExecuted
<1> QED BY <1>1, <1>2, Zenon DEF InStep, AtHello, AtErase, AtStore, AtWrite, AtLoad

LEMMA Levels ==
  ASSUME NEW s, NEW r, Changes(r), Within(s, r), Writes(s)
  PROVE  Level(s) \in {0, 1, 2} /\ s.page \in Nat /\ (s.page = 0 => Level(s) = s.sector_write_attempt)
BY GeometryAssumption DEF Within, Writes, Level

\* A command is sent.
LEMMA SendInStep ==
  ASSUME NEW s, NEW ans, NEW com, IsSeq(com), NEW cmd, InStep(s, ans, com),
         s.pc \in {"hello"} \cup Steps, s.stage = "send", cmd.letter = Letter(s.pc),
         Level(s) \in {0, 1, 2}, NEW t, t = [s EXCEPT !.stage = "wait"], DOMAIN s = Fields
  PROVE  InStep(t, ans, Append(com, cmd))
<1> DEFINE b == Append(com, cmd)
<1>1. /\ t.pc = s.pc /\ t.stage = "wait" /\ Level(t) = Level(s)
  BY DEF Fields, Level
<1>2. ASSUME NEW S, NEW T, All(ans, com, S), S \subseteq T, cmd.letter \in T
      PROVE  All(ans, b, T)
  BY <1>2, AllSend
<1>3. ASSUME NEW X, NEW Y, No(ans, com, X, Y), cmd.letter \notin Y
      PROVE  No(ans, b, X, Y)
  BY <1>3, NoSend
<1>4. ASSUME NEW S, NEW X, NEW Y, All(ans, com, S), S \cap X = {}
      PROVE  No(ans, b, X, Y)
  BY <1>4, NoFirst
<1> HIDE DEF b
<1>5. CASE s.pc = "hello"
  <2>1. All(ans, com, {}) /\ cmd.letter = ">"
    BY <1>5 DEF InStep, AtHello, Letter
  <2>2. All(ans, b, {">"}) /\ No(ans, b, {">"}, {">"})
    BY <1>2, <1>4, <2>1
  <2> QED BY <1>1, <1>5, <2>2 DEF InStep, AtHello, b
<1>6. CASE s.pc = "eraseSector"
  <2>1. AtErase(s, ans, com) /\ cmd.letter = "k"
    BY <1>6 DEF InStep, Letter
  <2>2. All(ans, b, {"r", "k", "s", "w"}) /\ No(ans, b, {"k", "s", "w"}, {"r"})
    BY <1>2, <1>3, <2>1 DEF AtErase
  <2>3. Level(s) = 0 => All(ans, b, {"r", "k"})
    BY <1>2, <2>1 DEF AtErase
  <2>4. Level(s) = 1 => No(ans, b, {"k"}, {"w"})
    BY <1>3, <2>1 DEF AtErase
  <2> QED BY <1>1, <1>6, <2>2, <2>3, <2>4 DEF InStep, AtErase, b
<1>7. CASE s.pc = "store"
  <2>1. AtStore(s, ans, com) /\ cmd.letter = "s"
    BY <1>7 DEF InStep, Letter
  <2>2. Level(s) = 0 => /\ All(ans, b, {"r", "k", "s"}) /\ No(ans, b, {"k"}, {"r"})
                        /\ No(ans, b, {"s"}, {"r", "k", "s"})
    BY <1>2, <1>3, <1>4, <2>1 DEF AtStore
  <2>3. Level(s) = 1 => All(ans, b, {"k", "s"})
    BY <1>2, <2>1 DEF AtStore
  <2>4. Level(s) = 2 => All(ans, b, {"k", "s", "w"})
    BY <1>2, <2>1 DEF AtStore
  <2> QED BY <1>1, <1>7, <2>2, <2>3, <2>4 DEF InStep, AtStore, b
<1>8. CASE s.pc = "write"
  <2>1. AtWrite(s, ans, com) /\ cmd.letter = "w"
    BY <1>8 DEF InStep, Letter
  <2>2. Level(s) = 0 => All(ans, b, {"w"}) /\ No(ans, b, {"w"}, {"w"})
    BY <1>2, <1>4, <2>1 DEF AtWrite
  <2>3. Level(s) = 1 => All(ans, b, {"k", "s", "w"}) /\ No(ans, b, {"w"}, {"k", "s", "w"})
    BY <1>2, <1>4, <2>1 DEF AtWrite
  <2>4. Level(s) = 2 => All(ans, b, {"k", "s", "w"})
    BY <1>2, <2>1 DEF AtWrite
  <2> QED BY <1>1, <1>8, <2>2, <2>3, <2>4 DEF InStep, AtWrite, b
<1>9. CASE s.pc = "loadPage"
  <2>1. AtLoad(s, ans, com) /\ cmd.letter = "r"
    BY <1>9 DEF InStep, Letter
  <2>2. All(ans, b, {"r", "k", "s", "w"}) /\ No(ans, b, {"r"}, {"k", "s", "w"})
    BY <1>2, <1>3, <2>1 DEF AtLoad
  <2>3. Level(s) \in {0, 1} => All(ans, b, {"r"})
    BY <1>2, <2>1 DEF AtLoad
  <2> QED BY <1>1, <1>9, <2>2, <2>3 DEF InStep, AtLoad, b
<1> QED BY <1>5, <1>6, <1>7, <1>8, <1>9 DEF Steps

\* A sector starts again: the next attempt may be out of step by one more.
LEMMA RestartInStep ==
  ASSUME NEW s, NEW t, NEW ans, NEW com, InStep(s, ans, com),
         s.pc \in {"store", "write", "loadPage"}, s.stage \in {"wait", "value"},
         s.pc = "write" => s.stage = "wait",
         s.sector_write_attempt \in 0 .. 2, s.page \in Nat, Restarts(s, t)
  PROVE  InStep(t, ans, com)
<1> DEFINE Any == {"r", "k", "s", "w"}
           Others == {"k", "s", "w"}
<1>1. CASE t.pc = "aborted"
  BY <1>1 DEF InStep
<1>2. CASE t.pc = "eraseSector"
  <2>1. /\ s.sector_write_attempt \in {0, 1} /\ Level(t) \in {1, 2} /\ Level(s) \in {0, 1}
        /\ Level(t) = 1 => Level(s) = 0
    BY <1>2 DEF Restarts, Level, tries
  <2>2. ASSUME All(ans, com, Any), No(ans, com, Others, {"r"}),
               Level(s) = 0 => No(ans, com, {"k"}, {"w"})
        PROVE  InStep(t, ans, com)
    BY <1>2, <2>1, <2>2 DEF InStep, AtErase
  <2>3. CASE s.pc = "store" /\ Level(s) = 0
    <3>1. All(ans, com, {"r", "k", "s"})
      BY <2>3, AllMore DEF InStep, AtStore
    <3>2. No(ans, com, Others, {"r"})
      <4>1. CASE s.stage = "wait"
        <5>1. No(ans, com, {"k"}, {"r"}) /\ No(ans, com, {"s"}, {"r"})
          BY <2>3, <4>1, NoLess DEF InStep, AtStore
        <5> QED BY <3>1, <5>1, NoBoth
      <4>2. CASE s.stage = "value"
        <5>1. All(ans, com, {})
          BY <2>3, <4>2 DEF InStep, AtStore
        <5> QED BY <5>1, NoneOf
      <4> QED BY <4>1, <4>2
    <3>3. All(ans, com, Any) /\ No(ans, com, {"k"}, {"w"})
      BY <3>1, AllMore, NoneOf
    <3> QED BY <2>2, <3>2, <3>3
  <2>4. CASE s.pc = "store" /\ Level(s) = 1
    <3>1. All(ans, com, {"k", "s"})
      BY <2>4 DEF InStep, AtStore
    <3>2. All(ans, com, Any) /\ No(ans, com, Others, {"r"})
      BY <3>1, AllMore, NoneOf
    <3> QED BY <2>2, <2>4, <3>2
  <2>5. CASE s.pc = "write" /\ Level(s) = 0
    <3>1. All(ans, com, {"w"})
      BY <2>5 DEF InStep, AtWrite
    <3>2. All(ans, com, Any) /\ No(ans, com, Others, {"r"}) /\ No(ans, com, {"k"}, {"w"})
      BY <3>1, AllMore, NoneOf
    <3> QED BY <2>2, <3>2
  <2>6. CASE s.pc = "write" /\ Level(s) = 1
    <3>1. All(ans, com, Others)
      BY <2>6 DEF InStep, AtWrite
    <3>2. All(ans, com, Any) /\ No(ans, com, Others, {"r"})
      BY <3>1, AllMore, NoneOf
    <3> QED BY <2>2, <2>6, <3>2
  <2>7. CASE s.pc = "loadPage"
    <3>1. All(ans, com, {"r"})
      BY <2>1, <2>7 DEF InStep, AtLoad
    <3>2. All(ans, com, Any) /\ No(ans, com, Others, {"r"}) /\ No(ans, com, {"k"}, {"w"})
      BY <3>1, AllMore, NoneOf
    <3> QED BY <2>2, <3>2
  <2> QED BY <2>1, <2>3, <2>4, <2>5, <2>6, <2>7
<1> QED BY <1>1, <1>2 DEF Restarts

\* The letter comes, and nothing more belongs to the answer.
LEMMA LetterInStep ==
  ASSUME NEW s, NEW r, r.command = "write", NEW ans, IsSeq(ans), ans # <<>>, NEW com,
         InStep(s, ans, com), DOMAIN s = Fields, Writes(s), s.page \in Nat, Level(s) \in {0, 1, 2},
         s.stage = "wait", s.pc \in {"eraseSector", "write"}, s.pc = "eraseSector" => s.page = 0,
         IsSign(Head(ans), {Letter(s.pc)}), NEW t, t = Ended(s, r, TRUE, None)
  PROVE  InStep(t, Tail(ans), com)
<1> DEFINE b == Tail(ans)
<1>1. ASSUME NEW S, NEW X, NEW Y, NEW T, All(ans, com, S), No(ans, com, X, Y),
             Letter(s.pc) \in X, S \ Y \subseteq T
      PROVE  All(b, com, T)
  <2>1. IsSign(Head(ans), X)
    BY <1>1 DEF IsSign
  <2>2. All(b, com, S \ Y)
    BY <1>1, <2>1, Drained
  <2> QED BY <1>1, <2>2, AllMore
<1>2. InStep(s, b, com)
  BY InStepTail
<1>3. \A S : All(ans, com, S) => All(b, com, S)
  BY AllTail
<1> HIDE DEF b
<1>4. CASE s.pc = "eraseSector"
  <2>1. Letter(s.pc) = "k" /\ AtErase(s, ans, com)
    BY <1>4 DEF Letter, InStep
  <2>2. All(b, com, {"k", "s", "w"})
    BY <1>1, <2>1 DEF AtErase
  <2>3. \/ Stays(s, t) /\ t.pc \in {"eraseSector", "aborted"}
        \/ Moved(s, t) /\ Stays(s, t) /\ t.pc = "store"
    <3>1. Changes(r)
      BY DEF Changes
    <3> QED BY <1>4, <3>1, EraseEnds
  <2>4. Level(t) = Level(s)
    BY <2>3 DEF Level, Stays
  <2>5. CASE t.pc = "store" /\ t.stage = "send"
    <3>1. Level(s) = 0 => All(b, com, {"r", "k"}) /\ No(b, com, {"k"}, {"r"})
      <4>1. ASSUME Level(s) = 0
            PROVE  All(b, com, {"k"})
        BY <1>1, <2>1, <4>1 DEF AtErase
      <4> QED BY <4>1, AllMore, NoneOf
    <3>2. Level(s) = 1 => All(b, com, {"k", "s"})
      <4>1. ASSUME Level(s) = 1
            PROVE  All(b, com, {"r", "k", "s"})
        BY <1>1, <2>1, <4>1 DEF AtErase
      <4> QED BY <2>2, <4>1, AllBoth
    <3> QED BY <2>2, <2>4, <2>5, <3>1, <3>2 DEF InStep, AtStore, b
  <2>6. CASE t.pc \in {"eraseSector", "aborted"}
    BY <1>2, <1>4, <2>4, <2>6 DEF InStep, AtErase, b
  <2> QED BY <2>3, <2>5, <2>6 DEF Moved
<1>5. CASE s.pc = "write"
  <2>1. Letter(s.pc) = "w" /\ AtWrite(s, ans, com)
    BY <1>5 DEF Letter, InStep
  <2>2. Restarts(s, t) \/ (Stays(s, t) /\ t.pc = "loadPage" /\ Moved(s, t))
    BY <1>5, WriteEnds
  <2>3. CASE Restarts(s, t)
    <3>1. s.sector_write_attempt \in 0 .. 2
      BY DEF Writes
    <3> QED BY <1>2, <1>5, <2>3, <3>1, RestartInStep DEF b
  <2>4. CASE Stays(s, t) /\ t.pc = "loadPage" /\ t.stage = "send"
    <3>1. Level(t) = Level(s)
      BY <2>4 DEF Level, Stays
    <3>2. Level(s) \in {0, 1} => All(b, com, {})
      BY <1>1, <2>1 DEF AtWrite
    <3>3. All(b, com, {"k", "s", "w"})
      <4>1. CASE Level(s) \in {0, 1}
        BY <3>2, <4>1, AllMore
      <4>2. CASE Level(s) = 2
        BY <1>3, <2>1, <4>2 DEF AtWrite
      <4> QED BY <4>1, <4>2
    <3>4. All(b, com, {"r", "k", "s", "w"}) /\ No(b, com, {"r"}, {"k", "s", "w"})
      BY <3>3, AllMore, NoneOf
    <3>5. Level(s) \in {0, 1} => All(b, com, {"r"})
      BY <3>2, AllMore
    <3> QED BY <2>4, <3>1, <3>4, <3>5 DEF InStep, AtLoad, b
  <2> QED BY <2>2, <2>3, <2>4 DEF Moved
<1> QED BY <1>4, <1>5

\* The letter comes, and its value is to come.
LEMMA ValueToCome ==
  ASSUME NEW s, NEW ans, IsSeq(ans), ans # <<>>, NEW com,
         InStep(s, ans, com), DOMAIN s = Fields, Level(s) \in {0, 1, 2},
         s.stage = "wait", s.pc \in {"hello", "store", "loadPage"},
         IsSign(Head(ans), {Letter(s.pc)}), NEW t, t = [s EXCEPT !.stage = "value"]
  PROVE  InStep(t, Tail(ans), com)
<1> DEFINE b == Tail(ans)
<1>1. ASSUME NEW S, NEW X, NEW Y, NEW T, All(ans, com, S), No(ans, com, X, Y),
             Letter(s.pc) \in X, S \ Y \subseteq T
      PROVE  All(b, com, T)
  <2>1. IsSign(Head(ans), X)
    BY <1>1 DEF IsSign
  <2>2. All(b, com, S \ Y)
    BY <1>1, <2>1, Drained
  <2> QED BY <1>1, <2>2, AllMore
<1>2. t.pc = s.pc /\ t.stage = "value" /\ Level(t) = Level(s)
  BY DEF Fields, Level
<1>3. \A S : All(ans, com, S) => All(b, com, S)
  BY AllTail
<1> HIDE DEF b
<1>4. CASE s.pc = "hello"
  <2>1. All(b, com, {})
    <3>1. Letter(s.pc) = ">" /\ AtHello(s, ans, com)
      BY <1>4 DEF Letter, InStep
    <3> QED BY <1>1, <3>1 DEF AtHello
  <2> QED BY <1>2, <1>4, <2>1 DEF InStep, AtHello, b
<1>5. CASE s.pc = "store"
  <2>1. Letter(s.pc) = "s" /\ AtStore(s, ans, com)
    BY <1>5 DEF Letter, InStep
  <2>2. Level(s) = 0 => All(b, com, {})
    BY <1>1, <2>1 DEF AtStore
  <2>3. /\ Level(s) = 1 => All(b, com, {"k", "s"})
        /\ Level(s) = 2 => All(b, com, {"k", "s", "w"})
    BY <1>3, <2>1 DEF AtStore
  <2> QED BY <1>2, <1>5, <2>2, <2>3 DEF InStep, AtStore, b
<1>6. CASE s.pc = "loadPage"
  <2>1. Letter(s.pc) = "r" /\ AtLoad(s, ans, com)
    BY <1>6 DEF Letter, InStep
  <2>2. All(b, com, {"r"})
    BY <1>1, <2>1 DEF AtLoad
  <2>3. All(b, com, {"r", "k", "s", "w"}) /\ No(b, com, {"r"}, {"k", "s", "w"})
    BY <2>2, AllMore, NoneOf
  <2> QED BY <1>2, <1>6, <2>2, <2>3 DEF InStep, AtLoad, b
<1> QED BY <1>4, <1>5, <1>6

\* A page that is through has left nothing but reads of it.
LEMMA AdvanceInStep ==
  ASSUME NEW s, NEW t, NEW r, NEW ans, NEW com, All(ans, com, {"r"}), s.page \in Nat, Advances(s, t, r)
  PROVE  InStep(t, ans, com)
<1>1. /\ All(ans, com, {"r", "k"}) /\ All(ans, com, {"r", "k", "s", "w"})
      /\ No(ans, com, {"k"}, {"r"}) /\ No(ans, com, {"k", "s", "w"}, {"r"})
      /\ No(ans, com, {"k"}, {"w"})
  BY AllMore, NoneOf
<1>2. CASE t.pc = "store" /\ t.page = s.page + 1 /\ t.stage = "send"
  <2>1. Level(t) = 0
    BY <1>2 DEF Level
  <2> QED BY <1>1, <1>2, <2>1 DEF InStep, AtStore
<1>3. CASE t.pc = "eraseSector"
  BY <1>1, <1>3 DEF InStep, AtErase
<1>4. CASE t.pc = "done"
  BY <1>4 DEF InStep
<1> QED BY <1>2, <1>3, <1>4 DEF Advances, EntersSector, Moved

\* An exchange ends, with its value or without an answer.
LEMMA EndInStep ==
  ASSUME NEW s, NEW r, r.command = "write", ~ r.pad, NEW ans, NEW com,
         InStep(s, ans, com), DOMAIN s = Fields, Writes(s), s.page \in Nat, Level(s) \in {0, 1, 2},
         s.pc \in {"hello"} \cup Steps, s.pc \in Steps => PageData(s) # None,
         s.pc = "eraseSector" => s.page = 0, NEW ok \in BOOLEAN, NEW v,
         \/ s.stage = "wait" /\ ~ ok
         \/ s.stage = "value",
         NEW t, t = Ended(s, r, ok, v)
  PROVE  InStep(t, ans, com)
<1>1. Changes(r) /\ s.sector_write_attempt \in 0 .. 2
  BY DEF Changes, Writes
<1>2. CASE s.pc = "hello"
  <2>1. CASE t.pc \in {"usage", "crashed"}
    BY <2>1 DEF InStep
  <2>2. CASE ok /\ t.pc \in {"done", "eraseSector"}
    <3>1. All(ans, com, {})
      BY <1>2, <2>2 DEF InStep, AtHello
    <3>2. /\ All(ans, com, {"r"}) /\ All(ans, com, {"r", "k"}) /\ All(ans, com, {"r", "k", "s", "w"})
          /\ No(ans, com, {"k", "s", "w"}, {"r"}) /\ No(ans, com, {"k"}, {"w"})
      BY <3>1, AllMore, NoneOf
    <3> QED BY <2>2, <3>2 DEF InStep, AtErase
  <2> QED BY <1>1, <1>2, <2>1, <2>2, HelloEnds
<1>3. CASE s.pc = "eraseSector"
  <2>1. s.stage = "wait" /\ ~ ok
    BY <1>3 DEF Writes
  <2>2. Stays(s, t) /\ t.pc \in {"eraseSector", "aborted"}
    BY <1>1, <1>3, <2>1, EraseEnds
  <2>3. Level(t) = Level(s)
    BY <2>2 DEF Level, Stays
  <2> QED BY <1>3, <2>2, <2>3 DEF InStep, AtErase
<1>4. CASE Restarts(s, t) /\ s.pc \in {"store", "write", "loadPage"}
  <2>1. s.pc = "write" => s.stage = "wait"
    BY DEF Writes
  <2> QED BY <1>1, <1>4, <2>1, RestartInStep
<1>5. CASE s.pc = "store" /\ ~ Restarts(s, t)
  <2>1. ok /\ Stays(s, t) /\ t.pc = "write" /\ t.stage = "send"
    BY <1>5, StoreEnds DEF Steps, Moved
  <2>2. Level(t) = Level(s) /\ s.stage = "value"
    BY <2>1 DEF Level, Stays
  <2> QED BY <1>5, <2>1, <2>2 DEF InStep, AtStore, AtWrite
<1>6. CASE s.pc = "write" /\ ~ Restarts(s, t)
  BY <1>6, WriteEnds DEF Writes
<1>7. CASE s.pc = "loadPage" /\ ~ Restarts(s, t)
  <2>1. CASE Moved(s, t) /\ Stays(s, t) /\ t.pc = "loadPage"
    <3>1. Level(t) = Level(s) /\ t.stage = "send"
      BY <2>1 DEF Level, Stays, Moved
    <3> QED BY <1>7, <2>1, <3>1 DEF InStep, AtLoad
  <2>2. CASE ok /\ Advances(s, t, r)
    <3>1. All(ans, com, {"r"})
      BY <1>7, <2>2 DEF InStep, AtLoad
    <3> QED BY <2>2, <3>1, AdvanceInStep
  <2> QED BY <1>7, <2>1, <2>2, LoadEnds DEF Steps
<1> QED BY <1>2, <1>3, <1>4, <1>5, <1>6, <1>7 DEF Steps

-----------------------------------------------------------------------------
(* Sectors and pages.                                                      *)

LEMMA Distribute ==
  ASSUME NEW a \in Nat
  PROVE  (a + 1) * pages_per_sector = a * pages_per_sector + pages_per_sector /\ a * pages_per_sector \in Nat
BY GeometryAssumption, SMT

LEMMA Monotone ==
  ASSUME NEW a \in Nat, NEW b \in Nat, a < b
  PROVE  a * pages_per_sector + pages_per_sector <= b * pages_per_sector
<1>1. PICK k \in Nat : b = a + 1 + k
  <2>1. b - a - 1 \in Nat /\ b = a + 1 + (b - a - 1)
    BY SMT
  <2> QED BY <2>1
<1>2. /\ b * pages_per_sector = a * pages_per_sector + pages_per_sector + k * pages_per_sector
      /\ k * pages_per_sector \in Nat
  BY <1>1, GeometryAssumption, SMT
<1> QED BY <1>2, GeometryAssumption, SMT

LEMMA Division ==
  ASSUME NEW n \in Nat
  PROVE  /\ n \div pages_per_sector \in Nat /\ n % pages_per_sector \in 0 .. pages_per_sector - 1
         /\ n = (n \div pages_per_sector) * pages_per_sector + (n % pages_per_sector)
BY GeometryAssumption, SMT

LEMMA Quotient ==
  ASSUME NEW n \in Nat, NEW m \in Nat
  PROVE  n >= m * pages_per_sector <=> n \div pages_per_sector >= m
<1>1. /\ n \div pages_per_sector \in Nat /\ n % pages_per_sector \in 0 .. pages_per_sector - 1
      /\ n = (n \div pages_per_sector) * pages_per_sector + (n % pages_per_sector)
  BY Division
<1>2. CASE n \div pages_per_sector >= m
  <2>1. (n \div pages_per_sector) * pages_per_sector >= m * pages_per_sector
    <3>1. CASE n \div pages_per_sector = m
      BY <1>1, <3>1, Distribute
    <3>2. CASE m < n \div pages_per_sector
      BY <1>1, <3>2, Monotone, Distribute, GeometryAssumption
    <3> QED BY <1>1, <1>2, <3>1, <3>2
  <2> QED BY <1>1, <1>2, <2>1, Distribute
<1>3. CASE n \div pages_per_sector < m
  <2>1. (n \div pages_per_sector) * pages_per_sector + pages_per_sector <= m * pages_per_sector
    BY <1>1, <1>3, Monotone
  <2> QED BY <1>1, <1>3, <2>1, Distribute, GeometryAssumption
<1> QED BY <1>1, <1>2, <1>3

LEMMA Exactly ==
  ASSUME NEW m \in Nat
  PROVE  (m * pages_per_sector) \div pages_per_sector = m
<1>1. /\ m * pages_per_sector \in Nat /\ m + 1 \in Nat
      /\ (m + 1) * pages_per_sector = m * pages_per_sector + pages_per_sector
  BY Distribute
<1>2. (m * pages_per_sector) \div pages_per_sector >= m
  BY <1>1, Quotient, GeometryAssumption
<1>3. ~ (m * pages_per_sector) \div pages_per_sector >= m + 1
  BY <1>1, Quotient, GeometryAssumption
<1> QED BY <1>1, <1>2, <1>3, Division

LEMMA RequestFacts ==
  ASSUME NEW r \in Requests, ~ r.pad
  PROVE  /\ r.offset \in Nat /\ PageCount(r) \in Nat /\ Region(r) \subseteq Pages
         /\ Offset(r) = r.offset /\ Data(r) = r.file /\ Pages \subseteq Nat
         /\ r.command = "write" => PageCount(r) = Len(r.file)
BY RequestAssumption, RegionAssumption, GeometryAssumption
DEF PageCount, Data, Offset, Pages

\* Where the client is, in the request and in the flash.
Start(s) == s.sector * pages_per_sector
LEMMA Place ==
  ASSUME NEW r \in Requests, ~ r.pad, Changes(r), NEW s, Within(s, r), s.pc \in Steps
  PROVE  /\ Start(s) \in Nat /\ s.page \in Nat /\ s.page < pages_per_sector
         /\ page_index(s) = r.offset + Start(s) + s.page /\ page_index(s) \in Region(r)
         /\ sector_index(s) \in {SectorOf(q) : q \in Region(r)} /\ sector_index(s) \in Nat
         /\ sector_index(s) * pages_per_sector = r.offset + Start(s)
<1> DEFINE d == pages_per_sector
           o == r.offset \div d
           q == r.offset + Start(s)
<1>1. /\ r.offset \in Nat /\ PageCount(r) \in Nat /\ d \in Nat /\ d >= 1
      /\ s.offset = r.offset /\ s.sector \in Nat /\ s.page \in 0 .. d - 1
      /\ r.offset % d = 0 /\ (s.sector + 1) * d <= PageCount(r)
  BY RequestFacts, GeometryAssumption DEF Within, Whole, Changes
<1>2. o \in Nat /\ r.offset = o * d
  <2>1. /\ r.offset \div pages_per_sector \in Nat
        /\ r.offset = (r.offset \div pages_per_sector) * pages_per_sector + (r.offset % pages_per_sector)
    BY <1>1, Division
  <2>2. (r.offset \div pages_per_sector) * pages_per_sector \in Nat
    BY <2>1, Distribute
  <2> QED BY <1>1, <2>1, <2>2
<1>3. Start(s) \in Nat /\ (s.sector + 1) * d = Start(s) + d
  BY <1>1, Distribute DEF Start
<1>4. page_index(s) = q + s.page /\ page_index(s) \in Region(r) /\ q \in Region(r)
  <2>1. page_index(s) = q + s.page
    BY <1>1 DEF page_index, Start
  <2>2. q >= r.offset /\ q + s.page <= r.offset + PageCount(r) - 1 /\ q \in Nat
    BY <1>1, <1>3
  <2> QED BY <1>1, <1>3, <2>1, <2>2 DEF Region
<1>5. q = (o + s.sector) * d
  BY <1>1, <1>2, SMT DEF Start
<1>6. SectorOf(q) = o + s.sector /\ o + s.sector \in Nat
  BY <1>1, <1>2, <1>5, Exactly DEF SectorOf
<1>7. sector_index(s) = o + s.sector
  BY <1>1 DEF sector_index
<1> QED BY <1>1, <1>3, <1>4, <1>5, <1>6, <1>7

\* A page of the file is no noise.
LEMMA PageOfFile ==
  ASSUME NEW r \in Requests, ~ r.pad, r.command = "write", NEW s, Within(s, r), s.pc \in Steps
  PROVE  /\ PageData(s) # None /\ \A n \in 0 .. MaxFaults : PageData(s) # Garbage(n)
         /\ PageData(s) = s.data[page_index(s) - s.offset + 1]
<1> DEFINE i == Start(s) + s.page + 1
<1>1. /\ Start(s) \in Nat /\ s.page \in Nat /\ page_index(s) = r.offset + Start(s) + s.page
      /\ page_index(s) \in Region(r)
  BY Place DEF Changes
<1>2. PageCount(r) = Len(r.file) /\ r.offset \in Nat /\ Len(r.file) \in Nat
  BY RequestFacts
<1>3. i \in 1 .. Len(r.file)
  BY <1>1, <1>2 DEF Region
<1>4. s.data = r.file /\ s.offset = r.offset
  BY DEF Within
<1>5. PageData(s) = r.file[i]
  BY <1>4 DEF PageData, Start
<1>6. page_index(s) - s.offset + 1 = i
  BY <1>1, <1>2, <1>4
<1>7. i \in DOMAIN r.file
  BY <1>3, RequestAssumption
<1> QED BY <1>4, <1>5, <1>6, <1>7, RequestAssumption

\* Whole sectors: there is room for one more, or there is none.
LEMMA NextWhole ==
  ASSUME NEW a \in Nat, NEW n \in Nat, Whole(n), a * pages_per_sector < n
  PROVE  a * pages_per_sector + pages_per_sector <= n
<1> DEFINE k == n \div pages_per_sector
<1>1. k \in Nat /\ n % pages_per_sector \in 0 .. pages_per_sector - 1
      /\ n = k * pages_per_sector + (n % pages_per_sector)
  BY Division
<1>2. k * pages_per_sector \in Nat /\ a * pages_per_sector \in Nat
  BY <1>1, Distribute
<1>3. n = k * pages_per_sector
  BY <1>1, <1>2 DEF Whole
<1>4. k = a => FALSE
  BY <1>3
<1>5. k < a => FALSE
  BY <1>1, <1>2, <1>3, Monotone, GeometryAssumption
<1>6. a < k
  BY <1>1, <1>4, <1>5
<1> QED BY <1>1, <1>3, <1>6, Monotone

-----------------------------------------------------------------------------
(* The client stays within the request.                                    *)

LEMMA StaysWithin ==
  ASSUME NEW r, Changes(r), NEW s, Within(s, r), s.pc \in Steps, NEW t, Moved(s, t), Stays(s, t),
         t.pc \in Steps \cup Final, t.pc = "eraseSector" => s.pc = "eraseSector",
         t.pc \in {"store", "write", "loadPage"} => r.command = "write"
  PROVE  Within(t, r)
<1>1. t.pc \notin {"hello", "fetch"}
  BY DEF Steps, Final
<1>2. t.pc \in {"hello", "eraseSector"} => t.page = 0
  BY <1>1 DEF Stays, Within
<1> QED BY <1>1, <1>2 DEF Within, Moved, Stays

LEMMA RestartsWithin ==
  ASSUME NEW r, Changes(r), NEW s, Within(s, r), s.pc \in Steps, NEW t, Restarts(s, t)
  PROVE  Within(t, r)
<1>1. CASE t.pc = "aborted" /\ Moved(s, t) /\ Stays(s, t)
  BY <1>1, StaysWithin DEF Steps, Final
<1>2. CASE t.pc = "eraseSector" /\ Moved(s, t) /\ t.page = 0 /\ t.sector = s.sector
  BY <1>2, GeometryAssumption DEF Within, Moved
<1> QED BY <1>1, <1>2 DEF Restarts

LEMMA EntersWithin ==
  ASSUME NEW r \in Requests, ~ r.pad, Changes(r), NEW s, Within(s, r), s.pc \in Steps, NEW t,
         EntersSector(s, t, r)
  PROVE  Within(t, r)
<1>1. CASE t.pc = "done" /\ Moved(s, t) /\ Stays(s, t)
  BY <1>1, StaysWithin DEF Steps, Final
<1>2. CASE /\ t.pc = "eraseSector" /\ t.sector = s.sector + 1 /\ t.page = 0
           /\ Moved(s, t) /\ (s.sector + 1) * pages_per_sector # PageCount(r)
  <2>1. /\ s.sector \in Nat /\ Whole(r.offset) /\ Whole(PageCount(r))
        /\ (s.sector + 1) * pages_per_sector <= PageCount(r) /\ PageCount(r) \in Nat
    BY RequestFacts DEF Within
  <2>2. s.sector + 1 \in Nat /\ (s.sector + 1) * pages_per_sector \in Nat
    BY <2>1, Distribute
  <2>3. (s.sector + 1) * pages_per_sector + pages_per_sector <= PageCount(r)
    BY <1>2, <2>1, <2>2, NextWhole
  <2>4. (t.sector + 1) * pages_per_sector <= PageCount(r)
    BY <1>2, <2>2, <2>3, Distribute
  <2> QED BY <1>2, <2>1, <2>4, GeometryAssumption DEF Within, Moved
<1> QED BY <1>1, <1>2 DEF EntersSector

LEMMA AdvancesWithin ==
  ASSUME NEW r \in Requests, ~ r.pad, r.command = "write", NEW s, Within(s, r), s.pc \in Steps,
         NEW t, Advances(s, t, r)
  PROVE  Within(t, r)
<1>1. Changes(r)
  BY DEF Changes
<1>2. CASE EntersSector(s, t, r)
  BY <1>1, <1>2, EntersWithin
<1>3. CASE /\ s.page + 1 # pages_per_sector /\ Moved(s, t) /\ t.pc = "store"
           /\ t.sector = s.sector /\ t.page = s.page + 1
  <2>1. s.page \in 0 .. pages_per_sector - 1
    BY <1>1 DEF Within
  <2>2. t.page \in 0 .. pages_per_sector - 1
    BY <1>3, <2>1, GeometryAssumption
  <2> QED BY <1>1, <1>3, <2>2 DEF Within, Moved
<1> QED BY <1>2, <1>3 DEF Advances

\* A request that changes the flash.
LEMMA ChangesWithin ==
  ASSUME NEW r \in Requests, ~ r.pad, Changes(r), NEW s, Within(s, r), s.pc \in Exchanges,
         NEW ok \in BOOLEAN, NEW v, NEW t, t = Ended(s, r, ok, v)
  PROVE  Within(t, r)
<1>1. DOMAIN s = Fields /\ PageCount(r) \in Nat
  BY RequestFacts DEF Within
<1>2. CASE s.pc = "hello"
  <2>1. Moved(s, t) /\ t.sector = s.sector /\ t.page = 0 /\ s.sector = 0
    BY <1>1, <1>2, HelloEnds DEF Within, Stays
  <2>2. \/ t.pc \in {"usage", "crashed", "done"}
        \/ t.pc = "eraseSector" /\ Whole(r.offset) /\ Whole(PageCount(r)) /\ PageCount(r) # 0
    BY <1>1, <1>2, HelloEnds
  <2>3. t.pc = "eraseSector" => (t.sector + 1) * pages_per_sector <= PageCount(r)
    <3>1. 0 * pages_per_sector = 0 /\ (0 + 1) * pages_per_sector = 0 * pages_per_sector + pages_per_sector
      BY Distribute, GeometryAssumption
    <3>2. t.pc = "eraseSector" => 0 * pages_per_sector + pages_per_sector <= PageCount(r)
      BY <1>1, <2>2, <3>1, NextWhole
    <3> QED BY <2>1, <3>1, <3>2
  <2>4. t.sector \in Nat /\ t.page \in 0 .. pages_per_sector - 1
    BY <2>1, GeometryAssumption
  <2>5. t.pc \in Steps => t.pc = "eraseSector"
    BY <2>2 DEF Steps
  <2>6. t.pc \notin {"hello", "store", "write", "loadPage", "fetch"}
    BY <2>2
  <2> QED BY <1>2, <2>1, <2>2, <2>3, <2>4, <2>5, <2>6 DEF Within, Moved
<1>3. CASE s.pc = "eraseSector"
  <2>1. CASE EntersSector(s, t, r)
    BY <1>3, <2>1, EntersWithin DEF Steps
  <2>2. CASE /\ Moved(s, t) /\ Stays(s, t) /\ t.pc \in {"eraseSector", "aborted", "store"}
             /\ t.pc = "store" => r.command = "write"
    BY <1>3, <2>2, StaysWithin DEF Steps, Final
  <2> QED BY <1>1, <1>3, <2>1, <2>2, EraseEnds
<1>4. CASE s.pc \in {"store", "write", "loadPage"}
  <2>1. r.command = "write"
    BY <1>4 DEF Within, Changes
  <2>2. PageData(s) # None /\ s.pc \in Steps
    BY <1>4, <2>1, PageOfFile DEF Steps
  <2>3. CASE Restarts(s, t)
    BY <2>2, <2>3, RestartsWithin
  <2>4. CASE Advances(s, t, r)
    BY <2>1, <2>2, <2>4, AdvancesWithin
  <2>5. CASE Moved(s, t) /\ Stays(s, t) /\ t.pc \in {"write", "loadPage"}
    BY <2>1, <2>2, <2>5, StaysWithin DEF Steps, Final
  <2> QED BY <1>1, <1>4, <2>1, <2>2, <2>3, <2>4, <2>5, StoreEnds, WriteEnds, LoadEnds
<1>5. CASE s.pc \in {"read_register", "check_write_protection", "set"}
  <2>1. t = Goto(s, "done") \/ t = Goto(s, "invalid")
    BY <1>5 DEF Ended
  <2>2. Moved(s, t) /\ Stays(s, t) /\ t.pc \in {"done", "invalid"}
    BY <1>1, <2>1, GotoFacts
  <2> QED BY <1>5, <2>2 DEF Within, Moved, Stays, Steps
<1>6. s.pc # "fetch"
  BY DEF Within, Changes
<1> QED BY <1>2, <1>3, <1>4, <1>5, <1>6 DEF Exchanges

\* A request that does not: no exchange of it erases, stores or writes.
Reads(r, pc) ==
  /\ pc \notin {"eraseSector", "store", "write"}
  /\ pc = "loadPage" => r.command \in {"read", "verify"}
  /\ pc = "fetch" => r.command = "read"
Keeps(s, t) == DOMAIN t = DOMAIN s /\ t.offset = s.offset /\ t.data = s.data

LEMMA NextPageReads ==
  ASSUME NEW r, r.command \in {"read", "verify"}, NEW s, DOMAIN s = Fields, NEW t, t = NextPage(s, r)
  PROVE  Keeps(s, t) /\ Reads(r, t.pc)
<1> DEFINE u == [s EXCEPT !.page = @ + 1]
<1>1. DOMAIN u = Fields /\ u.offset = s.offset /\ u.data = s.data
  BY DEF Fields
<1>2. t = Goto(s, "done") \/ t = StartLoad(u)
  BY DEF NextPage
<1> HIDE DEF u
<1>3. CASE t = Goto(s, "done")
  BY <1>3, GotoFacts DEF Moved, Keeps, Reads
<1>4. CASE t = StartLoad(u)
  BY <1>1, <1>4, StartLoadFacts DEF Moved, Keeps, Reads
<1> QED BY <1>2, <1>3, <1>4

LEMMA LoadReads ==
  ASSUME NEW r, r.command \in {"read", "verify"}, NEW s, DOMAIN s = Fields, NEW crc,
         NEW t, t = loadPageMultiple(s, r, crc)
  PROVE  Keeps(s, t) /\ Reads(r, t.pc)
<1> DEFINE counts == crc = None \/ s.crc_list # {}
           again == [Goto(s, "loadPage") EXCEPT !.load_try = IF counts THEN @ + 1 ELSE @,
                                                !.crc_list = @ \cup ({crc} \ {None})]
<1>1. t = Loaded(s, r, crc) \/ t = Loaded(s, r, None) \/ t = again
  BY DEF loadPageMultiple
<1>2. CASE t = again
  BY <1>2 DEF Goto, Keeps, Reads, Fields
<1>3. ASSUME NEW x, t = Loaded(s, r, x)
      PROVE  Keeps(s, t) /\ Reads(r, t.pc)
  <2>1. CASE r.command = "read"
    <3>1. t = [Goto(s, "fetch") EXCEPT !.crc = x, !.fetch_try = 0]
      BY <1>3, <2>1 DEF Loaded
    <3> QED BY <2>1, <3>1 DEF Goto, Keeps, Reads, Fields
  <2>2. CASE r.command = "verify" /\ x = None
    <3>1. t = Goto(s, "aborted")
      BY <1>3, <2>2 DEF Loaded
    <3> QED BY <3>1, GotoFacts DEF Moved, Keeps, Reads
  <2>3. CASE r.command = "verify" /\ x # None
    <3> DEFINE u == [s EXCEPT !.verdicts = Append(@, x = r.file[s.page + 1])]
    <3>1. DOMAIN u = Fields /\ u.offset = s.offset /\ u.data = s.data
      BY DEF Fields
    <3>2. t = NextPage(u, r)
      BY <1>3, <2>3 DEF Loaded
    <3> HIDE DEF u
    <3> QED BY <3>1, <3>2, NextPageReads DEF Keeps
  <2> QED BY <2>1, <2>2, <2>3
<1> QED BY <1>1, <1>2, <1>3

LEMMA FetchReads ==
  ASSUME NEW r, r.command = "read", NEW s, DOMAIN s = Fields, NEW content,
         NEW t, t = readPage(s, r, content)
  PROVE  Keeps(s, t) /\ Reads(r, t.pc)
<1> DEFINE u == [s EXCEPT !.file = Append(@, content)]
           again == [Goto(s, "fetch") EXCEPT !.fetch_try = @ + 1]
<1>1. DOMAIN u = Fields /\ u.offset = s.offset /\ u.data = s.data
  BY DEF Fields
<1>2. t = NextPage(u, r) \/ t = again \/ t = Goto(s, "aborted")
  BY DEF readPage
<1>3. CASE t = again
  BY <1>3 DEF Goto, Keeps, Reads, Fields
<1>4. CASE t = Goto(s, "aborted")
  BY <1>4, GotoFacts DEF Moved, Keeps, Reads
<1>5. CASE t = NextPage(u, r)
  <2> HIDE DEF u
  <2> QED BY <1>1, <1>5, NextPageReads DEF Keeps
<1> QED BY <1>2, <1>3, <1>4, <1>5

LEMMA OthersWithin ==
  ASSUME NEW r \in Requests, ~ Changes(r), NEW s, Within(s, r), s.pc \in Exchanges,
         NEW ok \in BOOLEAN, NEW v, NEW t, t = Ended(s, r, ok, v)
  PROVE  Within(t, r)
<1>1. DOMAIN s = Fields /\ s.pc \notin {"eraseSector", "store", "write"}
  BY DEF Within
<1>2. r.command \in {"read", "verify", "register", "protection", "set"}
  BY RequestAssumption DEF Changes
<1>3. Keeps(s, t) /\ Reads(r, t.pc)
  <2>1. ASSUME NEW pc \in {"usage", "crashed", "done", "invalid", "read_register",
                           "check_write_protection", "set"}, t = Goto(s, pc)
        PROVE  Keeps(s, t) /\ Reads(r, t.pc)
    BY <1>1, <2>1, GotoFacts DEF Moved, Keeps, Reads
  <2>2. CASE s.pc = "hello"
    <3>1. CASE ~ ok
      BY <2>1, <2>2, <3>1 DEF Ended
    <3>2. CASE ok /\ t = Started(s, r)
      <4>1. CASE r.command \in {"read", "verify"} /\ t = StartLoad(s)
        BY <1>1, <4>1, StartLoadFacts DEF Moved, Keeps, Reads
      <4>2. \/ r.command \in {"read", "verify"} /\ t = StartLoad(s)
            \/ t \in {Goto(s, pc) : pc \in {"usage", "crashed", "done", "read_register",
                                            "check_write_protection", "set"}}
        BY <1>2, <3>2 DEF Started
      <4> QED BY <2>1, <4>1, <4>2
    <3> QED BY <2>2, <3>1, <3>2 DEF Ended
  <2>3. CASE s.pc = "loadPage"
    <3>1. t = loadPageMultiple(s, r, IF ok THEN v ELSE None) /\ r.command \in {"read", "verify"}
      BY <1>2, <2>3 DEF Ended, Within
    <3> QED BY <1>1, <3>1, LoadReads
  <2>4. CASE s.pc = "fetch"
    <3>1. t = readPage(s, r, IF ok THEN v ELSE None) /\ r.command = "read"
      BY <2>4 DEF Ended, Within
    <3> QED BY <1>1, <3>1, FetchReads
  <2>5. CASE s.pc \in {"read_register", "check_write_protection", "set"}
    BY <2>1, <2>5 DEF Ended
  <2> QED BY <1>1, <2>2, <2>3, <2>4, <2>5 DEF Exchanges
<1> QED BY <1>1, <1>3 DEF Within, Keeps, Reads

LEMMA WithinEnd ==
  ASSUME NEW r \in Requests, ~ r.pad, NEW s, Within(s, r), s.pc \in Exchanges,
         NEW ok \in BOOLEAN, NEW v, NEW t, t = Ended(s, r, ok, v)
  PROVE  Within(t, r)
BY ChangesWithin, OthersWithin

-----------------------------------------------------------------------------
(* What is written stays written, and a checksum is of the page asked for. *)

\* The first page that may not hold the file yet.
LEMMA FrontFacts ==
  ASSUME NEW r \in Requests, ~ r.pad, r.command = "write", NEW s, Within(s, r), Active(s)
  PROVE  /\ Front(s) \in Nat /\ s.offset \in Nat
         /\ s.pc \in Steps => Front(s) = r.offset + Start(s) + s.page /\ Start(s) \in Nat /\ s.page \in Nat
         /\ s.pc = "hello" => Front(s) = r.offset
         /\ s.pc = "done" => Front(s) = r.offset + PageCount(r)
<1>1. /\ r.offset \in Nat /\ s.offset = r.offset /\ s.data = r.file /\ PageCount(r) = Len(r.file)
      /\ PageCount(r) \in Nat
  BY RequestFacts DEF Within
<1>2. CASE s.pc \in Steps
  <2>1. s.pc \notin {"hello", "done"}
    BY <1>2 DEF Steps
  <2>2. Changes(r)
    BY DEF Changes
  <2>3. /\ Start(s) \in Nat /\ s.page \in Nat /\ page_index(s) = r.offset + Start(s) + s.page
    BY <1>2, <2>2, Place
  <2>4. Front(s) = r.offset + Start(s) + s.page
    BY <2>1, <2>3 DEF Front
  <2> QED BY <1>1, <1>2, <2>1, <2>3, <2>4
<1>3. CASE s.pc = "hello"
  <2>1. s.sector = 0 /\ s.page = 0
    BY <1>3 DEF Within, Changes
  <2>2. 0 * pages_per_sector = 0
    BY GeometryAssumption
  <2>3. page_index(s) = r.offset
    BY <1>1, <2>1, <2>2 DEF page_index
  <2> QED BY <1>1, <1>3, <2>3 DEF Front, Steps
<1>4. CASE s.pc = "done"
  BY <1>1, <1>4 DEF Front, Steps
<1> QED BY <1>2, <1>3, <1>4 DEF Active

\* As long as the front does not move on.
LEMMA Holds ==
  ASSUME NEW s, NEW t, NEW com, NEW fl, Ahead(s, com), Committed(s, fl),
         Front(s) \in Nat, Front(t) \in Nat, Front(t) <= Front(s),
         s.offset \in Nat, t.offset = s.offset, t.data = s.data
  PROVE  Ahead(t, com) /\ Committed(t, fl)
<1>1. ASSUME NEW i \in 1 .. Len(com), com[i].letter = "k"
      PROVE  com[i].arg * pages_per_sector >= Front(t)
  <2>1. com[i].arg \in Nat /\ com[i].arg * pages_per_sector >= Front(s)
    BY <1>1 DEF Ahead
  <2>2. com[i].arg * pages_per_sector \in Nat
    BY <2>1, Distribute
  <2> QED BY <2>1, <2>2
<1>2. ASSUME NEW i \in 1 .. Len(com), com[i].letter = "w"
      PROVE  com[i].arg >= Front(t)
  <2>1. com[i].arg \in Nat /\ com[i].arg >= Front(s)
    BY <1>2 DEF Ahead
  <2> QED BY <2>1
<1>3. Ahead(t, com)
  BY <1>1, <1>2 DEF Ahead
<1>4. Committed(t, fl)
  BY DEF Committed
<1> QED BY <1>3, <1>4

\* When a page is through.
LEMMA HoldsMore ==
  ASSUME NEW s, NEW t, NEW ans, NEW com, NEW fl, All(ans, com, {"r"}), Committed(s, fl),
         Front(s) \in Nat, Front(s) = page_index(s), Front(t) = Front(s) + 1, s.offset \in Nat,
         t.offset = s.offset, t.data = s.data, Right(s, fl),
         PageData(s) = s.data[page_index(s) - s.offset + 1]
  PROVE  Ahead(t, com) /\ Committed(t, fl)
<1>1. Ahead(t, com)
  BY DEF Ahead, All
<1>2. ASSUME NEW p \in s.offset .. Front(s)
      PROVE  fl[p] = s.data[p - s.offset + 1]
  <2>1. CASE p = Front(s)
    BY <2>1 DEF Right
  <2>2. CASE p # Front(s)
    BY <1>2, <2>2 DEF Committed
  <2> QED BY <2>1, <2>2
<1> QED BY <1>1, <1>2 DEF Committed

LEMMA RequestedTail ==
  ASSUME NEW s, NEW ans, IsSeq(ans), ans # <<>>, NEW com, NEW fl, Requested(s, ans, com, fl)
  PROVE  Requested(s, Tail(ans), com, fl)
<1>1. /\ Len(Tail(ans)) = Len(ans) - 1 /\ Len(ans) \in Nat
      /\ \A i \in 1 .. Len(ans) - 1 : Tail(ans)[i] = ans[i + 1]
  BY TailFacts, SeqFacts
<1>2. ASSUME NEW i \in 2 .. Len(Tail(ans)), IsSign(Tail(ans)[i - 1], {"r"})
      PROVE  Checked(s, Tail(ans)[i], fl)
  <2>1. i + 1 \in 2 .. Len(ans) /\ Tail(ans)[i] = ans[i + 1] /\ Tail(ans)[i - 1] = ans[(i + 1) - 1]
    BY <1>1
  <2> QED BY <1>2, <2>1 DEF Requested
<1> QED BY <1>2 DEF Requested

\* Nothing has been asked for.
LEMMA RequestedNone ==
  ASSUME NEW s, NEW ans, IsSeq(ans), NEW com, NEW fl, All(ans, com, {"k", "s", "w"})
  PROVE  Requested(s, ans, com, fl)
<1>1. ASSUME NEW i \in 2 .. Len(ans)
      PROVE  ~ IsSign(ans[i - 1], {"r"})
  <2>1. i - 1 \in 1 .. Len(ans)
    BY SeqFacts
  <2> QED BY <2>1 DEF All, IsSign
<1> QED BY <1>1 DEF Requested, All

\* An exchange of a write ends.
LEMMA EndWriting ==
  ASSUME NEW r \in Requests, ~ r.pad, r.command = "write", NEW s, Within(s, r), Writes(s),
         s.pc \in Exchanges, NEW ans, IsSeq(ans), NEW com, NEW fl, InStep(s, ans, com),
         Ahead(s, com), Committed(s, fl),
         s.pc = "loadPage" => Requested(s, ans, com, fl),
         NEW ok \in BOOLEAN, NEW v,
         ok => s.stage = IF s.pc \in {"eraseSector", "write"} THEN "wait" ELSE "value",
         s.pc = "loadPage" /\ ok /\ v = PageData(s) => Right(s, fl),
         NEW t, t = Ended(s, r, ok, v)
  PROVE  /\ Writes(t)
         /\ Active(t) => Ahead(t, com) /\ Committed(t, fl) /\ Loads(t, ans, com, fl)
<1>1. /\ Changes(r) /\ DOMAIN s = Fields /\ Active(s) /\ s.pc \in {"hello"} \cup Steps
      /\ s.offset = r.offset /\ s.data = r.file
  BY DEF Changes, Within, Active, Writes, Exchanges, Final
<1>2. Front(s) \in Nat /\ s.offset \in Nat
  BY <1>1, FrontFacts
<1>3. Within(t, r)
  BY WithinEnd
<1>4. Active(t) => Front(t) \in Nat
  BY <1>3, FrontFacts
<1>5. s.sector_write_attempt \in 0 .. 2
  BY DEF Writes
<1>6. CASE s.pc = "hello"
  <2>1. /\ Moved(s, t) /\ t.pc \in {"usage", "crashed", "done", "eraseSector"}
        /\ t.sector_write_attempt = s.sector_write_attempt /\ t.sector = s.sector
        /\ t.page = s.page
        /\ t.pc = "done" => PageCount(r) = 0
    BY <1>1, <1>6, HelloEnds DEF Stays, Within
  <2>2. Writes(t)
    BY <1>5, <2>1 DEF Writes, Final, Steps, Moved
  <2>3. Active(t) => Front(t) = Front(s)
    <3>1. CASE t.pc = "eraseSector"
      <4>1. page_index(t) = page_index(s)
        BY <2>1 DEF page_index, Moved
      <4> QED BY <1>6, <3>1, <4>1 DEF Front
    <3>2. CASE t.pc = "done"
      BY <1>1, <1>2, <1>3, <1>6, <2>1, <3>2, FrontFacts DEF Active
    <3>3. CASE t.pc \in {"usage", "crashed"}
      BY <3>3 DEF Active, Steps
    <3> QED BY <2>1, <3>1, <3>2, <3>3
  <2>4. t.offset = s.offset /\ t.data = s.data
    BY <2>1 DEF Moved
  <2>5. Active(t) => Ahead(t, com) /\ Committed(t, fl)
    BY <1>2, <2>3, <2>4, Holds
  <2> QED BY <2>1, <2>2, <2>5 DEF Loads
<1>7. CASE s.pc \in Steps /\ Moved(s, t) /\ Stays(s, t) /\ t.pc = "aborted"
  BY <1>5, <1>7 DEF Writes, Active, Steps, Final, Stays
<1>8. CASE /\ s.pc \in Steps /\ Moved(s, t) /\ Stays(s, t) /\ t.pc \in Steps
           /\ t.pc = "loadPage" => Requested(s, ans, com, fl)
  <2>1. page_index(t) = page_index(s) /\ PageData(t) = PageData(s) /\ t.offset = s.offset /\ t.data = s.data
        /\ t.stage = "send"
    BY <1>8 DEF page_index, PageData, Moved, Stays
  <2>2. Front(t) = Front(s)
    BY <1>8, <2>1 DEF Front, Steps
  <2>3. Ahead(t, com) /\ Committed(t, fl)
    BY <1>2, <2>1, <2>2, Holds
  <2>4. Loads(t, ans, com, fl)
    BY <1>8, <2>1 DEF Loads, Requested, Checked, Right
  <2>5. Writes(t)
    BY <1>5, <1>8, <2>1 DEF Writes, Stays
  <2> QED BY <2>3, <2>4, <2>5
<1>9. CASE s.pc \in Steps /\ Restarts(s, t)
  <2>1. CASE t.pc = "aborted" /\ Moved(s, t) /\ Stays(s, t)
    BY <1>7, <1>9, <2>1
  <2>2. CASE /\ t.pc = "eraseSector" /\ t.page = 0 /\ Moved(s, t) /\ t.sector = s.sector
             /\ t.sector_write_attempt = s.sector_write_attempt + 1 /\ t.sector_write_attempt < tries
    <3>1. Writes(t)
      BY <1>5, <2>2 DEF Writes, Steps, Moved, tries
    <3>2. t.offset = s.offset /\ t.data = s.data /\ t.pc \in Steps /\ Active(t)
      BY <2>2 DEF Moved, Steps, Active
    <3>3. Start(t) = Start(s)
      BY <2>2 DEF Start
    <3>4. Front(t) <= Front(s)
      BY <1>1, <1>2, <1>3, <1>9, <2>2, <3>2, <3>3, FrontFacts
    <3>5. Ahead(t, com) /\ Committed(t, fl)
      BY <1>2, <1>4, <3>2, <3>4, Holds
    <3> QED BY <2>2, <3>1, <3>5 DEF Loads
  <2> QED BY <1>9, <2>1, <2>2 DEF Restarts
<1>10. CASE s.pc = "loadPage" /\ ok /\ v = PageData(s) /\ Advances(s, t, r)
  <2>1. All(ans, com, {"r"}) /\ Right(s, fl)
    BY <1>10 DEF InStep, AtLoad
  <2>2. /\ Moved(s, t) /\ t.sector_write_attempt = s.sector_write_attempt
        /\ t.pc \in {"store", "eraseSector", "done"}
    BY <1>10 DEF Advances, EntersSector, Stays
  <2>3. Writes(t) /\ Active(t) /\ t.offset = s.offset /\ t.data = s.data
    BY <1>5, <2>2 DEF Writes, Steps, Final, Moved, Active
  <2>4. s.pc \in Steps
    BY <1>10 DEF Steps
  <2>5. Front(t) = Front(s) + 1
    <3>1. /\ Front(s) = r.offset + Start(s) + s.page /\ Start(s) \in Nat /\ s.page \in Nat
          /\ s.sector \in Nat /\ r.offset \in Nat
      BY <1>1, <1>2, <2>4, FrontFacts DEF Within
    <3>2. (s.sector + 1) * pages_per_sector = Start(s) + pages_per_sector
      BY <3>1, Distribute DEF Start
    <3>3. CASE t.pc = "store" /\ t.sector = s.sector /\ t.page = s.page + 1
      <4>1. Start(t) = Start(s) /\ t.pc \in Steps
        BY <3>3 DEF Start, Steps
      <4> QED BY <1>3, <2>3, <3>1, <3>3, <4>1, FrontFacts
    <3>4. CASE s.page + 1 = pages_per_sector /\ t.pc = "eraseSector" /\ t.sector = s.sector + 1 /\ t.page = 0
      <4>1. Start(t) = Start(s) + pages_per_sector /\ t.pc \in Steps
        BY <3>2, <3>4 DEF Start, Steps
      <4> QED BY <1>3, <2>3, <3>1, <3>4, <4>1, FrontFacts
    <3>5. CASE /\ s.page + 1 = pages_per_sector /\ t.pc = "done"
               /\ (s.sector + 1) * pages_per_sector = PageCount(r)
      BY <1>3, <2>3, <3>1, <3>2, <3>5, FrontFacts
    <3> QED BY <1>10, <3>3, <3>4, <3>5 DEF Advances, EntersSector
  <2>6. Front(s) = page_index(s)
    BY <1>10 DEF Front
  <2>7. PageData(s) = s.data[page_index(s) - s.offset + 1]
    BY <2>4, PageOfFile
  <2>8. Ahead(t, com) /\ Committed(t, fl)
    BY <1>2, <2>1, <2>3, <2>5, <2>6, <2>7, HoldsMore
  <2> QED BY <2>2, <2>3, <2>8 DEF Loads
<1>11. CASE s.pc = "eraseSector"
  <2>1. \/ Moved(s, t) /\ Stays(s, t) /\ t.pc \in {"eraseSector", "aborted", "store"}
    BY <1>1, <1>11, EraseEnds
  <2> QED BY <1>7, <1>8, <1>11, <2>1 DEF Steps
<1>12. CASE s.pc \in {"store", "write", "loadPage"}
  <2>1. PageData(s) # None /\ s.pc \in Steps
    BY <1>12, PageOfFile DEF Steps
  <2>2. CASE s.pc = "store"
    <3>1. Restarts(s, t) \/ (Moved(s, t) /\ Stays(s, t) /\ t.pc = "write")
      BY <1>1, <2>1, <2>2, StoreEnds
    <3> QED BY <1>8, <1>9, <2>1, <3>1 DEF Steps
  <2>3. CASE s.pc = "write"
    <3>1. Restarts(s, t) \/ (ok /\ Moved(s, t) /\ Stays(s, t) /\ t.pc = "loadPage")
      BY <1>1, <2>1, <2>3, WriteEnds
    <3>2. ASSUME ok PROVE Requested(s, ans, com, fl)
      <4>1. s.stage = "wait" /\ AtWrite(s, ans, com) /\ Level(s) \in {0, 1, 2}
        BY <1>1, <2>3, <3>2, Levels DEF InStep
      <4>2. All(ans, com, {"k", "s", "w"})
        BY <4>1, AllMore DEF AtWrite
      <4> QED BY <4>2, RequestedNone
    <3> QED BY <1>8, <1>9, <2>1, <3>1, <3>2 DEF Steps
  <2>4. CASE s.pc = "loadPage"
    <3>1. \/ Restarts(s, t)
          \/ Moved(s, t) /\ Stays(s, t) /\ t.pc = "loadPage"
          \/ ok /\ v = PageData(s) /\ Advances(s, t, r)
      BY <1>1, <2>1, <2>4, LoadEnds
    <3> QED BY <1>8, <1>9, <1>10, <2>1, <2>4, <3>1 DEF Steps
  <2> QED BY <1>12, <2>2, <2>3, <2>4
<1> QED BY <1>1, <1>6, <1>11, <1>12 DEF Steps

-----------------------------------------------------------------------------
(* The steps of the client.                                                *)

LEMMA LetterFacts ==
  ASSUME NEW pc \in Exchanges
  PROVE  /\ Letter(pc) = "k" <=> pc = "eraseSector"
         /\ Letter(pc) = "w" <=> pc = "write"
         /\ Letter(pc) = "r" <=> pc = "loadPage"
         /\ pc \in {"hello"} \cup Steps =>
              (Letter(pc) \in Valued <=> pc \in {"hello", "store", "loadPage"})
BY DEF Letter, Exchanges, Steps, Valued

LEMMA TwoTails ==
  ASSUME NEW s, IsSeq(s), Len(s) > 1
  PROVE  Tail(s) # <<>> /\ SubSeq(s, 3, Len(s)) = Tail(Tail(s))
<1>1. PICK S : s \in Seq(S)
  BY DEF IsSeq
<1>2. s # <<>> /\ Len(s) \in Nat
  BY <1>1, EmptySeq
<1>3. Len(Tail(s)) = Len(s) - 1
  BY <1>2, TailFacts
<1>4. Tail(s) # <<>>
  <2>1. Len(<<>>) = 0
    BY EmptySeq
  <2>2. Len(Tail(s)) # 0
    BY <1>2, <1>3
  <2> QED BY <2>1, <2>2
<1>5. Tail(s) = SubSeq(s, 2, Len(s))
  BY <1>1, <1>2, TailIsSubSeq
<1>6. 2 \in 1 .. Len(s) /\ Len(s) \in 2 .. Len(s) /\ 2 + 1 = 3
  BY <1>2
<1>7. Tail(SubSeq(s, 2, Len(s))) = SubSeq(s, 2 + 1, Len(s))
  BY <1>1, <1>6, HeadTailOfSubSeq
<1> QED BY <1>4, <1>5, <1>6, <1>7

LEMMA PlainTail ==
  ASSUME NEW ans, Plain(ans), ans # <<>>
  PROVE  Plain(Tail(ans)) /\ Head(ans).kind \in {"letter", "value", "error"} /\ Head(ans) = ans[1]
<1>1. /\ IsSeq(Tail(ans)) /\ Len(Tail(ans)) = Len(ans) - 1 /\ Len(ans) \in Nat /\ Len(ans) >= 1
      /\ \A i \in 1 .. Len(ans) - 1 : Tail(ans)[i] = ans[i + 1]
      /\ Head(ans) = ans[1]
  BY TailFacts, SeqFacts DEF Plain
<1> QED BY <1>1 DEF Plain

\* What the invariant says of a write in an exchange.
LEMMA InExchange ==
  ASSUME IInv, ~ request.pad, request.command = "write", c.pc \in Exchanges
  PROVE  /\ Changes(request) /\ Within(c, request) /\ DOMAIN c = Fields /\ Writes(c)
         /\ c.pc \in {"hello"} \cup Steps /\ Active(c)
         /\ Plain(answers) /\ IsSeq(answers) /\ InStep(c, answers, commands) /\ IsSeq(commands)
         /\ Ahead(c, commands) /\ Committed(c, flash) /\ Loads(c, answers, commands, flash)
         /\ Level(c) \in {0, 1, 2} /\ c.page \in Nat
         /\ c.pc \in Steps => PageData(c) # None
         /\ c.pc \in {"hello", "eraseSector"} => c.page = 0
<1>1. /\ Changes(request) /\ Within(c, request) /\ DOMAIN c = Fields /\ Writes(c)
      /\ c.pc \in {"hello"} \cup Steps /\ Active(c)
  BY DEF IInv, Changes, Within, Writing, Writes, Exchanges, Active, Final
<1>2. /\ Plain(answers) /\ IsSeq(answers) /\ InStep(c, answers, commands) /\ IsSeq(commands)
      /\ Ahead(c, commands) /\ Committed(c, flash) /\ Loads(c, answers, commands, flash)
  BY <1>1 DEF IInv, Writing, Plain, Targets
<1>3. Level(c) \in {0, 1, 2} /\ c.page \in Nat
  BY <1>1, Levels
<1>4. c.pc \in Steps => PageData(c) # None
  BY <1>1, PageOfFile DEF IInv
<1> QED BY <1>1, <1>2, <1>3, <1>4 DEF Within

\* An exchange ends.
LEMMA EndStep ==
  ASSUME IInv, ~ request.pad, c.pc \in Exchanges, NEW ok \in BOOLEAN, NEW v,
         c' = Ended(c, request, ok, v), faults' \in 0 .. MaxFaults, Affords',
         UNCHANGED <<request, commands, flash>>,
         request.command = "write" =>
           /\ Plain(answers') /\ InStep(c, answers', commands) /\ InStep(c', answers', commands)
           /\ c.pc = "loadPage" => Requested(c, answers', commands, flash)
           /\ ok => c.stage = IF c.pc \in {"eraseSector", "write"} THEN "wait" ELSE "value"
           /\ c.pc = "loadPage" /\ ok /\ v = PageData(c) => Right(c, flash)
  PROVE  IInv'
<1>1. request \in Requests /\ Within(c, request)
  BY DEF IInv
<1>2. Within(c', request)
  BY <1>1, WithinEnd
<1>3. Targets(request', commands') /\ Untouched' /\ DOMAIN flash' = Pages
  BY DEF IInv, Untouched
<1>4. ASSUME request.command = "write"
      PROVE  Writing(c', answers', commands', flash')
  <2>1. /\ Writes(c) /\ Ahead(c, commands) /\ Committed(c, flash) /\ IsSeq(answers')
    BY <1>4, InExchange DEF Plain
  <2>2. /\ Writes(c')
        /\ Active(c') => /\ Ahead(c', commands) /\ Committed(c', flash)
                         /\ Loads(c', answers', commands, flash)
    BY <1>1, <1>4, <2>1, EndWriting
  <2> QED BY <1>4, <2>2 DEF Writing
<1> QED BY <1>1, <1>2, <1>3, <1>4 DEF IInv

\* It does not, and the client is where it was.
LEMMA SameStep ==
  ASSUME IInv, ~ request.pad, c.pc \in Exchanges,
         c' = c \/ (\E stage : c' = [c EXCEPT !.stage = stage]),
         UNCHANGED <<request, flash, board, faults>>, Targets(request, commands'),
         request.command = "write" =>
           /\ Writes(c') /\ Plain(answers') /\ InStep(c', answers', commands')
           /\ Ahead(c, commands') /\ Loads(c', answers', commands', flash)
  PROVE  IInv'
<1>1. DOMAIN c = Fields
  BY DEF IInv, Within
<1>2. /\ DOMAIN c' = Fields /\ c'.pc = c.pc /\ c'.offset = c.offset /\ c'.data = c.data
      /\ c'.sector = c.sector /\ c'.page = c.page
  BY <1>1 DEF Fields
<1>3. Within(c', request)
  BY <1>2 DEF IInv, Within
<1>4. Front(c') = Front(c)
  BY <1>2 DEF Front, page_index
<1>5. ASSUME request.command = "write"
      PROVE  Writing(c', answers', commands', flash')
  <2>1. Committed(c, flash)
    BY <1>5, InExchange
  <2>2. Committed(c', flash) /\ Ahead(c', commands')
    BY <1>2, <1>4, <1>5, <2>1 DEF Committed, Ahead
  <2> QED BY <1>5, <2>2 DEF Writing
<1> QED BY <1>3, <1>5 DEF IInv, Untouched, Affords

\* An exception that nobody catches.
LEMMA CrashStep ==
  ASSUME IInv, c.pc \in Exchanges, c' = Goto(c, "crashed"), faults' \in 0 .. MaxFaults, Affords',
         UNCHANGED <<request, commands, flash>>
  PROVE  IInv'
<1>1. Moved(c, c') /\ Stays(c, c') /\ c'.pc = "crashed"
  BY GotoFacts DEF IInv, Within
<1>2. Within(c', request)
  BY <1>1 DEF IInv, Within, Moved, Stays, Steps
<1>3. request.command = "write" => Writing(c', answers', commands', flash')
  BY <1>1 DEF IInv, Writing, Writes, Active, Steps, Final, Stays
<1> QED BY <1>2, <1>3 DEF IInv, Untouched

LEMMA SendStep ==
  ASSUME IInv, ~ request.pad, sendCommand
  PROVE  IInv'
<1> DEFINE cmd == [letter |-> Letter(c.pc), arg |-> Argument(c)]
           com == Append(commands, cmd)
<1>1. /\ c.pc \in Exchanges /\ c.stage = "send" /\ commands' = com /\ c' = [c EXCEPT !.stage = "wait"]
      /\ UNCHANGED <<request, answers, flash, board, faults>>
  BY DEF sendCommand, boardVars
<1>2. /\ request \in Requests /\ Within(c, request) /\ DOMAIN c = Fields /\ IsSeq(commands)
      /\ Targets(request, commands)
  BY DEF IInv, Within, Targets
<1>3. /\ IsSeq(com) /\ Len(com) = Len(commands) + 1 /\ Len(commands) \in Nat
      /\ \A i \in 1 .. Len(commands) : com[i] = commands[i]
      /\ com[Len(commands) + 1] = cmd
  BY <1>2, AppendFacts, SeqFacts
<1>4. \A i \in 1 .. Len(com) : i \in 1 .. Len(commands) \/ i = Len(commands) + 1
  BY <1>3
<1>5. /\ cmd.letter = "k" => c.pc = "eraseSector" /\ cmd.arg = sector_index(c)
      /\ cmd.letter = "w" => c.pc = "write" /\ cmd.arg = page_index(c)
      /\ cmd.letter = "r" => c.pc = "loadPage" /\ cmd.arg = page_index(c)
  BY <1>1, LetterFacts DEF Argument
<1>6. c.pc \in {"eraseSector", "write"} =>
        /\ Changes(request) /\ page_index(c) \in Region(request) /\ page_index(c) \in Nat
        /\ sector_index(c) \in {SectorOf(q) : q \in Region(request)} /\ sector_index(c) \in Nat
        /\ sector_index(c) * pages_per_sector = request.offset + Start(c)
        /\ page_index(c) = request.offset + Start(c) + c.page
  <2>1. c.pc \in {"eraseSector", "write"} => c.pc \in Steps /\ Changes(request)
    BY <1>2 DEF Steps, Within
  <2>2. c.pc \in {"eraseSector", "write"} => page_index(c) \in Nat
    BY <1>2, <2>1, Place, RequestFacts
  <2> QED BY <1>2, <2>1, <2>2, Place
<1> HIDE DEF cmd, com
<1>7. Targets(request, com)
  <2>1. Target(request, cmd)
    BY <1>5, <1>6 DEF Target
  <2>2. \A i \in 1 .. Len(commands) : Target(request, commands[i])
    BY <1>2 DEF Targets
  <2> QED BY <1>3, <1>4, <2>1, <2>2 DEF Targets
<1>8. ASSUME request.command = "write"
      PROVE  /\ Writes(c') /\ Plain(answers) /\ InStep(c', answers, com)
             /\ Ahead(c, com) /\ Loads(c', answers, com, flash)
  <2>1. /\ Writes(c) /\ c.pc \in {"hello"} \cup Steps /\ Plain(answers) /\ InStep(c, answers, commands)
        /\ Ahead(c, commands) /\ Loads(c, answers, commands, flash) /\ Level(c) \in {0, 1, 2}
        /\ c.pc \in {"hello", "eraseSector"} => c.page = 0
    BY <1>1, <1>8, InExchange
  <2>2. /\ c'.pc = c.pc /\ c'.stage = "wait" /\ c'.sector_write_attempt = c.sector_write_attempt
        /\ page_index(c') = page_index(c) /\ PageData(c') = PageData(c)
    BY <1>1, <1>2 DEF Fields, page_index, PageData
  <2>3. Writes(c')
    BY <2>1, <2>2 DEF Writes
  <2>4. InStep(c', answers, com)
    <3>1. cmd.letter = Letter(c.pc)
      BY DEF cmd
    <3> QED BY <1>1, <1>2, <2>1, <3>1, SendInStep DEF com
  <2>5. Ahead(c, com)
    <3>1. cmd.letter \in {"k", "w"} => c.pc # "done" /\ cmd.arg \in Nat
      BY <1>5, <1>6
    <3>2. cmd.letter = "w" => cmd.arg >= Front(c)
      BY <1>5, <1>6, <3>1 DEF Front
    <3>3. cmd.letter = "k" => cmd.arg * pages_per_sector >= Front(c)
      <4>1. ASSUME cmd.letter = "k"
            PROVE  cmd.arg * pages_per_sector = Front(c) /\ Front(c) \in Nat
        <5>1. request.offset \in Nat /\ Start(c) \in Nat /\ c.page = 0
          <6>1. c.pc = "eraseSector" /\ c.pc \in Steps /\ Changes(request)
            BY <1>5, <1>8, <4>1 DEF Steps, Changes
          <6> QED BY <1>2, <2>1, <6>1, Place, RequestFacts
        <5> QED BY <1>5, <1>6, <3>1, <4>1, <5>1 DEF Front
      <4> QED BY <4>1
    <3> QED BY <1>3, <1>4, <2>1, <3>1, <3>2, <3>3 DEF Ahead
  <2>6. Loads(c', answers, com, flash)
    <3>1. ASSUME c.pc = "loadPage"
          PROVE  Requested(c', answers, com, flash)
      <4>1. Requested(c, answers, commands, flash)
        BY <2>1, <3>1 DEF Loads
      <4> QED BY <1>3, <1>4, <1>5, <2>2, <4>1 DEF Requested, Checked, Right
    <3> QED BY <2>2, <3>1 DEF Loads
  <2> QED BY <2>1, <2>3, <2>4, <2>5, <2>6
<1> QED BY <1>1, <1>7, <1>8, SameStep

\* What an answer taken from the line leaves.
LEMMA Taken ==
  ASSUME IInv, ~ request.pad, request.command = "write", c.pc \in Exchanges, answers # <<>>
  PROVE  /\ Plain(Tail(answers)) /\ InStep(c, Tail(answers), commands)
         /\ Head(answers).kind \in {"letter", "value", "error"} /\ Head(answers) = answers[1]
         /\ c.pc = "loadPage" => Requested(c, Tail(answers), commands, flash)
BY InExchange, PlainTail, InStepTail, RequestedTail DEF Loads

LEMMA WaitStep ==
  ASSUME IInv, ~ request.pad, waitForMessage
  PROVE  IInv'
<1> DEFINE next == Head(answers)
<1>1. /\ c.pc \in Exchanges /\ c.stage = "wait" /\ answers # <<>>
      /\ UNCHANGED <<request, commands, flash, board, faults>>
  BY DEF waitForMessage, boardVars
<1>2. faults' \in 0 .. MaxFaults /\ Affords' /\ DOMAIN c = Fields /\ Targets(request, commands)
  BY <1>1 DEF IInv, Within, Affords
<1>3. \/ next.kind \in {"page", "rest"} /\ c' = Ended(c, request, FALSE, None)
      \/ /\ next.kind = "letter" /\ next.of = Letter(c.pc) /\ answers' = Tail(answers)
         /\ Letter(c.pc) \in Valued /\ c' = [c EXCEPT !.stage = "value"]
      \/ /\ next.kind = "letter" /\ next.of = Letter(c.pc) /\ answers' = Tail(answers)
         /\ Letter(c.pc) \notin Valued /\ c' = Ended(c, request, TRUE, None)
      \/ answers' = Tail(answers) /\ c' = c
  BY DEF waitForMessage
<1>4. CASE next.kind \in {"page", "rest"} /\ c' = Ended(c, request, FALSE, None)
  <2>1. request.command # "write"
    BY <1>1, <1>4, Taken
  <2> QED BY <1>1, <1>2, <1>4, <2>1, EndStep
<1>5. CASE /\ next.kind = "letter" /\ next.of = Letter(c.pc) /\ answers' = Tail(answers)
           /\ Letter(c.pc) \in Valued /\ c' = [c EXCEPT !.stage = "value"]
  <2>1. ASSUME request.command = "write"
        PROVE  /\ Writes(c') /\ Plain(answers') /\ InStep(c', answers', commands')
               /\ Ahead(c, commands') /\ Loads(c', answers', commands', flash)
    <3>1. /\ Writes(c) /\ InStep(c, answers, commands) /\ IsSeq(answers) /\ Ahead(c, commands)
          /\ Level(c) \in {0, 1, 2} /\ c.pc \in {"hello"} \cup Steps
          /\ Loads(c, answers, commands, flash)
      BY <1>1, <2>1, InExchange
    <3>2. c.pc \in {"hello", "store", "loadPage"}
      BY <1>1, <1>5, <3>1, LetterFacts
    <3>3. /\ c'.pc = c.pc /\ c'.stage = "value" /\ c'.sector_write_attempt = c.sector_write_attempt
          /\ page_index(c') = page_index(c) /\ PageData(c') = PageData(c)
      BY <1>2, <1>5 DEF Fields, page_index, PageData
    <3>4. Writes(c')
      BY <3>1, <3>2, <3>3 DEF Writes
    <3>5. IsSign(next, {Letter(c.pc)})
      BY <1>5 DEF IsSign
    <3>6. InStep(c', answers', commands)
      BY <1>1, <1>2, <1>5, <3>1, <3>2, <3>5, ValueToCome
    <3>7. Loads(c', answers', commands, flash)
      <4>1. ASSUME c.pc = "loadPage"
            PROVE  /\ Requested(c', Tail(answers), commands, flash)
                   /\ Len(Tail(answers)) > 0 => Checked(c', Tail(answers)[1], flash)
        <5>1. Requested(c, Tail(answers), commands, flash) /\ Requested(c, answers, commands, flash)
          BY <1>1, <2>1, <3>1, <4>1, Taken DEF Loads
        <5>2. /\ Len(Tail(answers)) = Len(answers) - 1 /\ Len(answers) \in Nat /\ next = answers[1]
              /\ \A i \in 1 .. Len(answers) - 1 : Tail(answers)[i] = answers[i + 1]
          BY <1>1, <3>1, TailFacts, SeqFacts
        <5>3. IsSign(answers[1], {"r"})
          BY <1>1, <3>5, <4>1, <5>2, LetterFacts
        <5>4. Len(Tail(answers)) > 0 => Checked(c, Tail(answers)[1], flash)
          <6>1. ASSUME Len(Tail(answers)) > 0
                PROVE  Checked(c, answers[2], flash) /\ Tail(answers)[1] = answers[2]
            <7>1. 2 \in 2 .. Len(answers) /\ 2 - 1 = 1 /\ 1 \in 1 .. Len(answers) - 1 /\ 1 + 1 = 2
              BY <5>2, <6>1
            <7>2. Tail(answers)[1] = answers[1 + 1]
              BY <5>2, <7>1
            <7>3. IsSign(answers[2 - 1], {"r"}) => Checked(c, answers[2], flash)
              BY <5>1, <7>1 DEF Requested
            <7> QED BY <5>3, <7>1, <7>2, <7>3
          <6> QED BY <6>1
        <5> QED BY <3>3, <5>1, <5>4 DEF Requested, Checked, Right
      <4> QED BY <1>5, <3>3, <4>1 DEF Loads
    <3> QED BY <1>1, <1>5, <2>1, <3>1, <3>4, <3>6, <3>7, Taken
  <2> QED BY <1>1, <1>2, <1>5, <2>1, SameStep
<1>6. CASE /\ next.kind = "letter" /\ next.of = Letter(c.pc) /\ answers' = Tail(answers)
           /\ Letter(c.pc) \notin Valued /\ c' = Ended(c, request, TRUE, None)
  <2>1. ASSUME request.command = "write"
        PROVE  /\ Plain(answers') /\ InStep(c, answers', commands) /\ InStep(c', answers', commands)
               /\ c.pc \in {"eraseSector", "write"}
    <3>1. /\ Writes(c) /\ InStep(c, answers, commands) /\ IsSeq(answers)
          /\ Level(c) \in {0, 1, 2} /\ c.pc \in {"hello"} \cup Steps /\ c.page \in Nat
          /\ c.pc = "eraseSector" => c.page = 0
      BY <1>1, <2>1, InExchange
    <3>2. c.pc \in {"eraseSector", "write"}
      BY <1>1, <1>6, <3>1, LetterFacts DEF Steps
    <3>3. IsSign(next, {Letter(c.pc)})
      BY <1>6 DEF IsSign
    <3>4. InStep(c', Tail(answers), commands)
      BY <1>1, <1>2, <1>6, <2>1, <3>1, <3>2, <3>3, LetterInStep
    <3> QED BY <1>1, <1>6, <2>1, <3>2, <3>4, Taken
  <2> QED BY <1>1, <1>2, <1>6, <2>1, EndStep
<1>7. CASE answers' = Tail(answers) /\ c' = c
  <2>1. ASSUME request.command = "write"
        PROVE  /\ Writes(c') /\ Plain(answers') /\ InStep(c', answers', commands')
               /\ Ahead(c, commands') /\ Loads(c', answers', commands', flash)
    BY <1>1, <1>7, <2>1, InExchange, Taken DEF Loads
  <2> QED BY <1>1, <1>2, <1>7, <2>1, SameStep
<1> QED BY <1>3, <1>4, <1>5, <1>6, <1>7

LEMMA FaultCount ==
  ASSUME faults \in 0 .. MaxFaults, Affords, Fault \/ NoFault, UNCHANGED board
  PROVE  faults' \in 0 .. MaxFaults /\ Affords'
BY FaultAssumption DEF Fault, NoFault, Owed, Affords

\* Nobody answers, or not with what is asked for.
LEMMA FailStep ==
  ASSUME IInv, ~ request.pad, c.pc \in Exchanges, c.stage \in {"wait", "value"},
         c' = Ended(c, request, FALSE, None),
         faults' \in 0 .. MaxFaults, Affords', UNCHANGED <<request, commands, flash>>,
         request.command = "write" =>
           /\ Plain(answers') /\ InStep(c, answers', commands)
           /\ c.pc = "loadPage" => Requested(c, answers', commands, flash)
  PROVE  IInv'
<1>1. ASSUME request.command = "write"
      PROVE  InStep(c', answers', commands)
  BY <1>1, InExchange, EndInStep
<1> QED BY <1>1, EndStep

LEMMA WaitFailsStep ==
  ASSUME IInv, ~ request.pad, waitFails
  PROVE  IInv'
<1>1. /\ c.pc \in Exchanges /\ c.stage = "wait" /\ c' = Ended(c, request, FALSE, None)
      /\ UNCHANGED <<request, commands, answers, flash, board>> /\ (Fault \/ NoFault)
  BY DEF waitFails, NothingComes, boardVars
<1>2. faults' \in 0 .. MaxFaults /\ Affords'
  BY <1>1, FaultCount DEF IInv
<1>3. request.command = "write" =>
        /\ Plain(answers) /\ InStep(c, answers, commands)
        /\ c.pc = "loadPage" => Requested(c, answers, commands, flash)
  BY <1>1, InExchange DEF Loads
<1> QED BY <1>1, <1>2, <1>3, FailStep

LEMMA ReadStep ==
  ASSUME IInv, ~ request.pad, readExactly
  PROVE  IInv'
<1> DEFINE v == Head(answers).of
<1>1. /\ c.pc \in Exchanges /\ c.stage = "value" /\ answers # <<>> /\ IsValue(Head(answers))
      /\ answers' = Tail(answers) /\ c' = Ended(c, request, TRUE, v)
      /\ UNCHANGED <<request, commands, flash, board, faults>>
  BY DEF readExactly, boardVars
<1>2. faults' \in 0 .. MaxFaults /\ Affords'
  BY <1>1 DEF IInv, Affords
<1>3. ASSUME request.command = "write"
      PROVE  /\ Plain(answers') /\ InStep(c, answers', commands) /\ InStep(c', answers', commands)
             /\ c.pc = "loadPage" => Requested(c, answers', commands, flash)
             /\ c.pc \notin {"eraseSector", "write"}
             /\ c.pc = "loadPage" /\ v = PageData(c) => Right(c, flash)
  <2>1. /\ Plain(Tail(answers)) /\ InStep(c, Tail(answers), commands)
        /\ Head(answers).kind \in {"letter", "value", "error"} /\ Head(answers) = answers[1]
        /\ c.pc = "loadPage" => Requested(c, Tail(answers), commands, flash)
    BY <1>1, <1>3, Taken
  <2>2. /\ Writes(c) /\ Loads(c, answers, commands, flash) /\ IsSeq(answers)
    BY <1>1, <1>3, InExchange
  <2>3. c.pc \notin {"eraseSector", "write"}
    BY <1>1, <2>2 DEF Writes
  <2>4. answers[1].kind = "value"
    BY <1>1, <2>1 DEF IsValue
  <2>5. Len(answers) > 0
    BY <1>1, <2>2, TailFacts, SeqFacts
  <2>6. c.pc = "loadPage" /\ v = PageData(c) => Right(c, flash)
    BY <1>1, <2>1, <2>2, <2>4, <2>5 DEF Loads, Checked
  <2>7. InStep(c', Tail(answers), commands)
    BY <1>1, <1>3, <2>1, InExchange, EndInStep
  <2> QED BY <1>1, <2>1, <2>3, <2>6, <2>7
<1> QED BY <1>1, <1>2, <1>3, EndStep

LEMMA ReadNextStep ==
  ASSUME IInv, ~ request.pad, readsNextAnswer
  PROVE  IInv'
<1>1. /\ c.pc \in Exchanges /\ c.stage = "value" /\ answers # <<>>
      /\ UNCHANGED <<request, commands, flash, board, faults>>
  BY DEF readsNextAnswer, boardVars
<1>2. faults' \in 0 .. MaxFaults /\ Affords'
  BY <1>1 DEF IInv, Affords
<1>3. CASE c' = Goto(c, "crashed")
  BY <1>1, <1>2, <1>3, CrashStep
<1>4. CASE /\ c' = Ended(c, request, FALSE, None)
           /\ answers' = IF Len(answers) > 1 /\ IsValue(answers[2]) THEN SubSeq(answers, 3, Len(answers))
                         ELSE Tail(answers)
  <2>1. ASSUME request.command = "write"
        PROVE  /\ Plain(answers') /\ InStep(c, answers', commands)
               /\ c.pc = "loadPage" => Requested(c, answers', commands, flash)
    <3>1. /\ Plain(Tail(answers)) /\ InStep(c, Tail(answers), commands) /\ IsSeq(Tail(answers))
          /\ c.pc = "loadPage" => Requested(c, Tail(answers), commands, flash)
      BY <1>1, <2>1, Taken DEF Plain
    <3>2. CASE answers' = Tail(answers)
      BY <3>1, <3>2
    <3>3. CASE Tail(answers) # <<>> /\ answers' = Tail(Tail(answers))
      BY <3>1, <3>3, PlainTail, InStepTail, RequestedTail
    <3>4. answers' = Tail(answers) \/ (Tail(answers) # <<>> /\ answers' = Tail(Tail(answers)))
      <4>1. IsSeq(answers)
        BY <1>1, <2>1, InExchange
      <4> QED BY <1>4, <4>1, TwoTails
    <3> QED BY <3>2, <3>3, <3>4
  <2> QED BY <1>1, <1>2, <1>4, <2>1, FailStep
<1> QED BY <1>3, <1>4 DEF readsNextAnswer

LEMMA DecodesNoneFacts ==
  ASSUME NEW s
  PROVE  \/ DecodesNone(s) = Ended(s, request, FALSE, None) /\ s.pc \in {"fetch", "hello"}
         \/ DecodesNone(s) = Goto(s, "crashed") /\ s.pc \notin {"fetch", "hello"}
BY DEF DecodesNone

LEMMA TooLittleStep ==
  ASSUME IInv, ~ request.pad, readsTooLittle
  PROVE  IInv'
<1>1. /\ c.pc \in Exchanges /\ c.stage = "value" /\ Len(answers) = 1
      /\ c' = Ended(c, request, FALSE, None) \/ c' = Goto(c, "crashed")
      /\ answers' = <<>> /\ UNCHANGED <<request, commands, flash, board, faults>>
  BY DecodesNoneFacts DEF readsTooLittle, boardVars
<1>2. faults' \in 0 .. MaxFaults /\ Affords'
  BY <1>1 DEF IInv, Affords
<1>3. ASSUME request.command = "write"
      PROVE  /\ Plain(answers') /\ InStep(c, answers', commands)
             /\ c.pc = "loadPage" => Requested(c, answers', commands, flash)
  <2>1. IsSeq(answers) /\ answers # <<>>
    <3>1. Len(<<>>) = 0
      OBVIOUS
    <3>2. answers # <<>>
      BY <1>1, <3>1
    <3>3. c.pc \in Exchanges
      BY <1>1
    <3>4. IsSeq(answers)
      BY <1>3, <3>3, InExchange
    <3> QED BY <3>2, <3>4
  <2>2. Tail(answers) = <<>>
    <3>1. PICK S : Tail(answers) \in Seq(S)
      BY <2>1, TailFacts DEF IsSeq
    <3>2. Len(Tail(answers)) = 0
      BY <1>1, <2>1, TailFacts
    <3> QED BY <3>1, <3>2, EmptySeq
  <2> QED BY <1>1, <1>3, <2>1, <2>2, Taken
<1>4. CASE c' = Goto(c, "crashed")
  BY <1>1, <1>2, <1>4, CrashStep
<1>5. CASE c' = Ended(c, request, FALSE, None)
  BY <1>1, <1>2, <1>3, <1>5, FailStep
<1> QED BY <1>1, <1>4, <1>5

LEMMA MissingStep ==
  ASSUME IInv, ~ request.pad, valueMissing
  PROVE  IInv'
<1>1. /\ c.pc \in Exchanges /\ c.stage = "value" /\ (Fault \/ NoFault)
      /\ c' = Ended(c, request, FALSE, None) \/ c' = Goto(c, "crashed")
      /\ UNCHANGED <<request, commands, answers, flash, board>>
  BY DecodesNoneFacts DEF valueMissing, NothingComes, boardVars
<1>2. faults' \in 0 .. MaxFaults /\ Affords'
  BY <1>1, FaultCount DEF IInv
<1>3. request.command = "write" =>
        /\ Plain(answers) /\ InStep(c, answers, commands)
        /\ c.pc = "loadPage" => Requested(c, answers, commands, flash)
  BY <1>1, InExchange DEF Loads
<1>4. CASE c' = Goto(c, "crashed")
  BY <1>1, <1>2, <1>4, CrashStep
<1>5. CASE c' = Ended(c, request, FALSE, None)
  BY <1>1, <1>2, <1>3, <1>5, FailStep
<1> QED BY <1>1, <1>4, <1>5

-----------------------------------------------------------------------------
(* The steps of the board.                                                 *)

\* What a command may do to the flash, and what it answers.
Touches(cmd, new) ==
  \/ new = flash
  \/ cmd.letter = "k" /\ new = [p \in Pages |-> IF SectorOf(p) = cmd.arg THEN Erased ELSE flash[p]]
  \/ cmd.letter = "w" /\ \E x : new = [flash EXCEPT ![cmd.arg] = x]
Replies(cmd, ans, new, n) ==
  \/ ans = answers
  \/ ans = Append(answers, Error)
  \/ ans = Append(answers, Sign(cmd.letter))
  \/ ans = answers \o <<Sign(cmd.letter)>>
  \/ \E v : /\ ans = answers \o <<Sign(cmd.letter), Value(v)>>
            /\ cmd.letter = "r" => new = flash /\ v \in {flash[cmd.arg], Garbage(n)}

LEMMA AnswerFacts ==
  ASSUME NEW cmd, cmd.letter # "l", NEW v
  PROVE  \/ Answer(cmd, v) = <<Sign(cmd.letter)>> /\ cmd.letter # "r"
         \/ Answer(cmd, v) = <<Sign(cmd.letter), Value(v)>>
<1>1. CASE cmd.letter \in Valued \ {"l"}
  BY <1>1 DEF Answer
<1>2. CASE cmd.letter \notin Valued
  <2>1. Answer(cmd, v) = <<Sign(cmd.letter)>>
    BY <1>2 DEF Answer
  <2> QED BY <1>2, <2>1 DEF Valued
<1> QED BY <1>1, <1>2

LEMMA EffectFacts ==
  ASSUME NEW cmd, Effect(cmd)
  PROVE  Touches(cmd, flash') /\ (cmd.letter = "r" => flash' = flash /\ buffer' = flash[cmd.arg])
<1>1. CASE cmd.letter = "k"
  BY <1>1 DEF Effect, Touches
<1>2. CASE cmd.letter = "s"
  BY <1>2 DEF Effect, Touches
<1>3. CASE cmd.letter = "w"
  BY <1>3 DEF Effect, Touches
<1>4. CASE cmd.letter = "r"
  BY <1>4 DEF Effect, Touches
<1>5. CASE cmd.letter \notin {"k", "s", "w", "r"}
  BY <1>5 DEF Effect, Touches
<1> QED BY <1>1, <1>2, <1>3, <1>4, <1>5

LEMMA BadEffectFacts ==
  ASSUME NEW cmd, BadEffect(cmd)
  PROVE  Touches(cmd, flash') /\ (cmd.letter = "r" => flash' = flash /\ buffer' = Garbage(faults'))
<1>1. CASE cmd.letter = "k"
  BY <1>1 DEF BadEffect, Touches
<1>2. CASE cmd.letter \in {"s", "r"}
  BY <1>2 DEF BadEffect, Touches
<1>3. CASE cmd.letter = "w"
  BY <1>3 DEF BadEffect, Touches
<1>4. CASE cmd.letter \notin {"k", "s", "w", "r"}
  BY <1>4 DEF BadEffect, Touches
<1> QED BY <1>1, <1>2, <1>3, <1>4

\* A fault is counted, and what a command cut short owes is paid.
LEMMA BoardCounts ==
  ASSUME Execute, faults \in 0 .. MaxFaults, Affords
  PROVE  faults' \in 0 .. MaxFaults /\ Affords' /\ faults' \in {faults, faults + 1}
<1>1. /\ faults' = faults \/ (faults < MaxFaults /\ faults' = faults + 1)
      /\ board' # "ready" /\ board = "ready" => faults' < MaxFaults
      /\ board' # "ready" /\ board # "ready" => faults' = faults + 1 /\ faults + 1 < MaxFaults
      /\ board' = "ready" \/ board # "ready" \/ board # board'
  BY DEF Execute, Executed, Spoiled, Swallowed, Fault, NoFault, Owed, Affords
<1> QED BY <1>1, FaultAssumption DEF Affords

LEMMA Outcome ==
  ASSUME Execute
  PROVE  LET cmd == Head(commands) IN
           /\ Touches(cmd, flash')
           /\ cmd.letter # "l" => Replies(cmd, answers', flash', faults')
<1> DEFINE cmd == Head(commands)
<1>1. \/ /\ Effect(cmd) \/ BadEffect(cmd)
         /\ answers' = answers \o Answer(cmd, buffer')
      \/ cmd.letter = "l" /\ flash' = flash
      \/ Effect(cmd) /\ answers' = answers
      \/ flash' = flash /\ (answers' = answers \/ answers' = Append(answers, Error))
      \/ Effect(cmd) /\ answers' = Append(answers, Sign(cmd.letter))
  BY DEF Execute, Executed, Spoiled, Swallowed, PartStored
<1>2. CASE flash' = flash /\ answers' = Append(answers, Error)
  BY <1>2 DEF Touches, Replies
<1>3. CASE answers' = answers /\ (Effect(cmd) \/ flash' = flash)
  BY <1>3, EffectFacts DEF Touches, Replies
<1>4. CASE Effect(cmd) /\ answers' = Append(answers, Sign(cmd.letter))
  BY <1>4, EffectFacts DEF Replies
<1>5. CASE cmd.letter = "l" /\ flash' = flash
  BY <1>5 DEF Touches
<1>6. CASE (Effect(cmd) \/ BadEffect(cmd)) /\ answers' = answers \o Answer(cmd, buffer')
  <2>1. /\ Touches(cmd, flash')
        /\ cmd.letter = "r" => flash' = flash /\ buffer' \in {flash[cmd.arg], Garbage(faults')}
    BY <1>6, EffectFacts, BadEffectFacts
  <2>2. ASSUME cmd.letter # "l"
        PROVE  Replies(cmd, answers', flash', faults')
    <3>1. CASE Answer(cmd, buffer') = <<Sign(cmd.letter)>>
      BY <1>6, <3>1 DEF Replies
    <3>2. CASE Answer(cmd, buffer') = <<Sign(cmd.letter), Value(buffer')>>
      BY <1>6, <2>1, <3>2 DEF Replies
    <3> QED BY <2>2, <3>1, <3>2, AnswerFacts
  <2> QED BY <2>1, <2>2
<1> QED BY <1>1, <1>2, <1>3, <1>4, <1>5, <1>6

\* A command changes the pages it is for, and the sectors of the request.
LEMMA Touched ==
  ASSUME DOMAIN flash = Pages, NEW cmd, NEW r \in Requests, ~ r.pad, Target(r, cmd),
         NEW new, Touches(cmd, new)
  PROVE  /\ DOMAIN new = Pages
         /\ \A p \in Pages :
              \/ new[p] = flash[p]
              \/ /\ Changes(r) /\ SectorOf(p) \in {SectorOf(q) : q \in Region(r)}
                 /\ \/ cmd.letter = "k" /\ SectorOf(p) = cmd.arg
                    \/ cmd.letter = "w" /\ p = cmd.arg
<1>1. CASE new = flash
  BY <1>1
<1>2. CASE cmd.letter = "k" /\ new = [p \in Pages |-> IF SectorOf(p) = cmd.arg THEN Erased ELSE flash[p]]
  BY <1>2 DEF Target
<1>3. CASE cmd.letter = "w" /\ \E x : new = [flash EXCEPT ![cmd.arg] = x]
  BY <1>3 DEF Target
<1> QED BY <1>1, <1>2, <1>3 DEF Touches

\* The line after an answer.
LEMMA Replied ==
  ASSUME Plain(answers), NEW cmd, NEW ans, NEW new, NEW n, Replies(cmd, ans, new, n)
  PROVE  /\ Plain(ans) /\ Answered(answers, ans, cmd.letter)
         /\ \A i \in Len(answers) + 1 .. Len(ans) :
              /\ i > Len(answers) + 1 \/ ans[i].kind # "value"
              /\ i > Len(answers) + 1 /\ cmd.letter = "r" =>
                   new = flash /\ ans[i].of \in {flash[cmd.arg], Garbage(n)}
<1> DEFINE x == cmd.letter
<1>1. /\ IsSeq(answers) /\ Len(answers) \in Nat
      /\ \A i \in 1 .. Len(answers) : answers[i].kind \in {"letter", "value", "error"}
  BY SeqFacts DEF Plain
<1>2. Sign(x).kind = "letter" /\ Error.kind = "error" /\ \A v : Value(v).kind = "value" /\ Value(v).of = v
  BY DEF Sign, Value, Error
<1>3. CASE ans = answers
  BY <1>1, <1>3, NoAnswer DEF Plain
<1>4. CASE ans = Append(answers, Sign(x)) \/ ans = answers \o <<Sign(x)>>
  <2>1. /\ IsSeq(ans) /\ Answered(answers, ans, x) /\ Len(ans) = Len(answers) + 1
        /\ ans[Len(answers) + 1] = Sign(x)
    <3>1. CASE ans = Append(answers, Sign(x))
      BY <1>1, <3>1, AppendFacts DEF Answered
    <3>2. CASE ans = answers \o <<Sign(x)>>
      <4>1. PICK S : answers \in Seq(S)
        BY <1>1 DEF IsSeq
      <4>2. answers \in Seq(S \cup {Sign(x)}) /\ <<Sign(x)>> \in Seq(S \cup {Sign(x)})
        BY <4>1
      <4>3. Len(ans) = Len(answers) + 1 /\ ans[Len(answers) + 1] = Sign(x)
        BY <3>2, <4>2
      <4> QED BY <1>1, <3>2, <4>3, OneAnswer
    <3> QED BY <1>4, <3>1, <3>2
  <2>2. \A i \in 1 .. Len(ans) : ans[i].kind \in {"letter", "value", "error"}
    BY <1>1, <1>2, <2>1 DEF Answered
  <2> QED BY <1>1, <1>2, <2>1, <2>2 DEF Plain
<1>5. ASSUME NEW v, ans = answers \o <<Sign(x), Value(v)>>,
             x = "r" => new = flash /\ v \in {flash[cmd.arg], Garbage(n)}
      PROVE  /\ Plain(ans) /\ Answered(answers, ans, x)
             /\ \A i \in Len(answers) + 1 .. Len(ans) :
                  /\ i > Len(answers) + 1 \/ ans[i].kind # "value"
                  /\ i > Len(answers) + 1 /\ x = "r" =>
                       new = flash /\ ans[i].of \in {flash[cmd.arg], Garbage(n)}
  <2>1. /\ IsSeq(ans) /\ Answered(answers, ans, x) /\ Len(ans) = Len(answers) + 2
        /\ ans[Len(answers) + 2] = Value(v)
    BY <1>1, <1>2, <1>5, TwoAnswers
  <2>2. ans[Len(answers) + 1] = Sign(x)
    BY <1>1, <1>2, <1>5, TwoAnswers
  <2>3. \A i \in Len(answers) + 1 .. Len(ans) : i = Len(answers) + 1 \/ i = Len(answers) + 2
    BY <1>1, <2>1
  <2>4. \A i \in 1 .. Len(ans) : ans[i].kind \in {"letter", "value", "error"}
    BY <1>1, <1>2, <2>1, <2>2, <2>3 DEF Answered
  <2> QED BY <1>1, <1>2, <1>5, <2>1, <2>2, <2>3, <2>4 DEF Plain
<1>6. CASE ans = Append(answers, Error)
  <2>1. /\ IsSeq(ans) /\ Answered(answers, ans, x) /\ Len(ans) = Len(answers) + 1
        /\ ans[Len(answers) + 1] = Error
    BY <1>1, <1>2, <1>6, AppendFacts DEF Answered
  <2>2. \A i \in 1 .. Len(ans) : ans[i].kind \in {"letter", "value", "error"}
    BY <1>1, <1>2, <2>1 DEF Answered
  <2> QED BY <1>1, <1>2, <2>1, <2>2 DEF Plain
<1> QED BY <1>3, <1>4, <1>5, <1>6 DEF Replies

\* The letters a write has outstanding.
LEMMA Outstanding ==
  ASSUME NEW s, Writes(s), Active(s), Level(s) \in {0, 1, 2} \/ s.pc \notin Steps,
         NEW ans, NEW com, InStep(s, ans, com)
  PROVE  All(ans, com, {">", "r", "k", "s", "w"})
<1>1. CASE s.pc = "hello"
  BY <1>1, AllMore DEF InStep, AtHello
<1>2. CASE s.pc = "eraseSector"
  BY <1>2, AllMore DEF InStep, AtErase
<1>3. CASE s.pc = "store"
  <2>1. Level(s) \in {0, 1, 2} /\ s.stage \in {"send", "wait", "value"}
    BY <1>3 DEF Steps, Writes
  <2> QED BY <1>3, <2>1, AllMore DEF InStep, AtStore
<1>4. CASE s.pc = "write"
  <2>1. Level(s) \in {0, 1, 2} /\ s.stage \in {"send", "wait"}
    BY <1>4 DEF Steps, Writes
  <2> QED BY <1>4, <2>1, AllMore DEF InStep, AtWrite
<1>5. CASE s.pc = "loadPage"
  BY <1>5, AllMore DEF InStep, AtLoad
<1>6. CASE s.pc = "done"
  BY <1>6, AllMore DEF InStep
<1> QED BY <1>1, <1>2, <1>3, <1>4, <1>5, <1>6 DEF Active, Steps

\* What has been written is not touched.
LEMMA Spared ==
  ASSUME NEW r \in Requests, ~ r.pad, r.command = "write", NEW s, Within(s, r), Active(s),
         DOMAIN flash = Pages, NEW com, IsSeq(com), com # <<>>, Ahead(s, com), Committed(s, flash),
         Target(r, Head(com)), NEW new, Touches(Head(com), new)
  PROVE  Ahead(s, Tail(com)) /\ Committed(s, new)
<1> DEFINE cmd == Head(com)
<1>1. /\ Len(com) \in Nat /\ Len(com) >= 1 /\ Len(Tail(com)) = Len(com) - 1 /\ cmd = com[1]
      /\ \A i \in 1 .. Len(com) - 1 : Tail(com)[i] = com[i + 1] /\ i + 1 \in 1 .. Len(com)
  BY TailFacts, SeqFacts
<1>2. Ahead(s, Tail(com))
  BY <1>1 DEF Ahead
<1>3. /\ r.offset \in Nat /\ PageCount(r) \in Nat /\ Region(r) \subseteq Pages /\ Pages \subseteq Nat
      /\ s.offset = r.offset
  BY RequestFacts DEF Within
<1>4. Front(s) \in Nat /\ Front(s) <= r.offset + PageCount(r)
  <2>1. Front(s) \in Nat
    BY FrontFacts
  <2>2. CASE s.pc \in Steps
    <3>1. Front(s) \in Region(r)
      <4>1. Front(s) = page_index(s)
        BY <2>2 DEF Front, Steps
      <4> QED BY <2>2, <4>1, Place DEF Changes
    <3> QED BY <1>3, <2>1, <3>1 DEF Region
  <2>3. CASE s.pc \in {"hello", "done"}
    BY <1>3, <2>3, FrontFacts
  <2> QED BY <2>1, <2>2, <2>3 DEF Active
<1>5. ASSUME NEW p \in s.offset .. Front(s) - 1
      PROVE  new[p] = s.data[p - s.offset + 1]
  <2>1. p \in Pages /\ p \in Nat /\ p < Front(s)
    BY <1>3, <1>4 DEF Region
  <2>2. flash[p] = s.data[p - s.offset + 1]
    BY DEF Committed
  <2>3. CASE cmd.letter = "w" /\ p = cmd.arg
    BY <1>1, <1>4, <2>1, <2>3 DEF Ahead
  <2>4. CASE cmd.letter = "k" /\ SectorOf(p) = cmd.arg
    <3>1. cmd.arg \in Nat /\ cmd.arg * pages_per_sector >= Front(s)
      BY <1>1, <2>4 DEF Ahead
    <3>2. p >= cmd.arg * pages_per_sector
      BY <2>1, <2>4, <3>1, Quotient DEF SectorOf
    <3>3. cmd.arg * pages_per_sector \in Nat
      BY <3>1, Distribute
    <3> QED BY <1>4, <2>1, <3>1, <3>2, <3>3
  <2>5. CASE new[p] = flash[p]
    BY <2>2, <2>5
  <2> QED BY <2>1, <2>3, <2>4, <2>5, Touched
<1> QED BY <1>2, <1>5 DEF Committed

\* A checksum is of the page that is loaded.
LEMMA LoadsExecuted ==
  ASSUME NEW r \in Requests, ~ r.pad, r.command = "write", NEW s, Within(s, r),
         Plain(answers), NEW com, IsSeq(com), com # <<>>, InStep(s, answers, com),
         Loads(s, answers, com, flash),
         NEW new, Touches(Head(com), new), NEW ans, NEW n \in 0 .. MaxFaults,
         Replies(Head(com), ans, new, n)
  PROVE  Loads(s, ans, Tail(com), new)
<1> DEFINE cmd == Head(com)
<1> SUFFICES ASSUME s.pc = "loadPage"
             PROVE  /\ Requested(s, ans, Tail(com), new)
                    /\ s.stage = "value" /\ Len(ans) > 0 => Checked(s, ans[1], new)
  BY DEF Loads
<1>1. /\ Len(com) \in Nat /\ Len(com) >= 1 /\ Len(Tail(com)) = Len(com) - 1 /\ cmd = com[1]
      /\ \A i \in 1 .. Len(com) - 1 : Tail(com)[i] = com[i + 1] /\ i + 1 \in 1 .. Len(com)
      /\ 1 \in 1 .. Len(com)
  BY TailFacts, SeqFacts
<1>2. /\ Plain(ans) /\ Answered(answers, ans, cmd.letter)
      /\ \A i \in Len(answers) + 1 .. Len(ans) :
           /\ i > Len(answers) + 1 \/ ans[i].kind # "value"
           /\ i > Len(answers) + 1 /\ cmd.letter = "r" =>
                new = flash /\ ans[i].of \in {flash[cmd.arg], Garbage(n)}
  BY Replied
<1>3. Len(answers) \in Nat /\ Len(ans) \in Nat /\ \A i \in 1 .. Len(answers) : ans[i] = answers[i]
  BY <1>2, SeqFacts DEF Plain, Answered
<1>4. Requested(s, answers, com, flash) /\ AtLoad(s, answers, com)
  BY DEF Loads, InStep
<1>5. PageData(s) # Garbage(n)
  BY PageOfFile DEF Steps
<1>6. cmd.letter \notin {"k", "w"} => new = flash
  BY DEF Touches
<1>7. ASSUME NEW i \in 2 .. Len(ans), IsSign(ans[i - 1], {"r"}),
             ans[i].kind = "value", ans[i].of = PageData(s)
      PROVE  Right(s, new)
  <2>1. CASE i \in 2 .. Len(answers)
    <3>1. i - 1 \in 1 .. Len(answers) /\ i \in 1 .. Len(answers)
      BY <1>3, <2>1
    <3>2. IsSign(answers[i - 1], {"r"}) /\ answers[i].kind = "value" /\ answers[i].of = PageData(s)
      BY <1>3, <1>7, <3>1
    <3>3. Right(s, flash)
      BY <1>4, <2>1, <3>2 DEF Requested, Checked
    <3>4. cmd.letter \notin {"k", "s", "w"}
      BY <1>1, <1>4, <3>1, <3>2 DEF AtLoad, No
    <3> QED BY <1>6, <3>3, <3>4 DEF Right
  <2>2. CASE i \notin 2 .. Len(answers)
    <3>1. i \in Len(answers) + 1 .. Len(ans) /\ i > Len(answers) + 1
      <4>1. i \in Len(answers) + 1 .. Len(ans)
        BY <1>3, <1>7, <2>2
      <4> QED BY <1>2, <1>7, <4>1
    <3>2. i - 1 = Len(answers) + 1 /\ ans[i - 1] = Sign(cmd.letter)
      <4>1. i - 1 \in Len(answers) + 1 .. Len(ans)
        BY <1>3, <3>1
      <4> QED BY <1>2, <1>7, <4>1 DEF Answered, IsSign
    <3>3. cmd.letter = "r"
      BY <1>7, <3>2 DEF IsSign, Sign
    <3>4. new = flash /\ ans[i].of \in {flash[cmd.arg], Garbage(n)}
      BY <1>2, <3>1, <3>3
    <3>5. cmd.arg = page_index(s)
      BY <1>1, <1>4, <3>3 DEF Requested
    <3> QED BY <1>5, <1>7, <3>4, <3>5 DEF Right
  <2> QED BY <2>1, <2>2
<1>8. Requested(s, ans, Tail(com), new)
  BY <1>1, <1>4, <1>7 DEF Requested, Checked
<1>9. ASSUME s.stage = "value", Len(ans) > 0
      PROVE  Checked(s, ans[1], new)
  <2>1. CASE Len(answers) > 0
    <3>1. ans[1] = answers[1]
      BY <1>3, <2>1
    <3>2. Checked(s, answers[1], flash)
      BY <1>9, <2>1 DEF Loads
    <3>3. cmd.letter = "r"
      BY <1>1, <1>4, <1>9 DEF AtLoad, All
    <3> QED BY <1>6, <3>1, <3>2, <3>3 DEF Checked, Right
  <2>2. CASE Len(answers) = 0
    <3>1. 1 \in Len(answers) + 1 .. Len(ans) /\ ~ 1 > Len(answers) + 1
      BY <1>3, <1>9, <2>2
    <3>2. ans[1].kind # "value"
      BY <1>2, <3>1
    <3> QED BY <3>2 DEF Checked
  <2> QED BY <1>3, <2>1, <2>2
<1> QED BY <1>8, <1>9

LEMMA ExecuteStep ==
  ASSUME IInv, ~ request.pad, Execute
  PROVE  IInv'
<1> DEFINE cmd == Head(commands)
<1>1. commands # <<>> /\ commands' = Tail(commands) /\ UNCHANGED <<request, c>>
  BY DEF Execute
<1>2. /\ request \in Requests /\ faults \in 0 .. MaxFaults /\ Affords /\ DOMAIN flash = Pages
      /\ Within(c, request) /\ Targets(request, commands) /\ Untouched
  BY DEF IInv
<1>3. /\ Touches(cmd, flash') /\ faults' \in 0 .. MaxFaults /\ Affords'
      /\ cmd.letter # "l" => Replies(cmd, answers', flash', faults')
  BY <1>2, Outcome, BoardCounts
<1>4. /\ IsSeq(commands) /\ IsSeq(Tail(commands)) /\ Len(commands) \in Nat /\ Len(commands) >= 1
      /\ Len(Tail(commands)) = Len(commands) - 1 /\ cmd = commands[1] /\ 1 \in 1 .. Len(commands)
      /\ \A i \in 1 .. Len(commands) - 1 : Tail(commands)[i] = commands[i + 1] /\ i + 1 \in 1 .. Len(commands)
  BY <1>1, <1>2, TailFacts, SeqFacts DEF Targets
<1>5. Target(request, cmd) /\ Targets(request, Tail(commands))
  BY <1>2, <1>4 DEF Targets
<1>6. DOMAIN flash' = Pages
  BY <1>2, <1>3, <1>5, Touched
<1>7. Untouched'
  <2>1. \A p \in Pages :
          ~ Changes(request) \/ SectorOf(p) \notin {SectorOf(q) : q \in Region(request)} =>
            flash'[p] = flash[p]
    BY <1>2, <1>3, <1>5, Touched
  <2> QED BY <1>1, <1>2, <2>1 DEF Untouched
<1>8. ASSUME request.command = "write"
      PROVE  Writing(c, answers', commands', flash')
  <2>1. Writes(c)
    BY <1>2, <1>8 DEF IInv, Writing
  <2>2. ASSUME Active(c)
        PROVE  /\ Plain(answers') /\ InStep(c, answers', commands')
               /\ Ahead(c, commands') /\ Committed(c, flash') /\ Loads(c, answers', commands', flash')
    <3>1. /\ Plain(answers) /\ InStep(c, answers, commands)
          /\ Ahead(c, commands) /\ Committed(c, flash) /\ Loads(c, answers, commands, flash)
      BY <1>8, <2>2 DEF IInv, Writing
    <3>2. cmd.letter # "l"
      <4>1. Level(c) \in {0, 1, 2}
        BY <1>2, <1>8, <2>1, Levels DEF Changes
      <4>2. All(answers, commands, {">", "r", "k", "s", "w"})
        BY <2>1, <2>2, <3>1, <4>1, Outstanding
      <4> QED BY <1>4, <4>2 DEF All
    <3>3. Replies(cmd, answers', flash', faults')
      BY <1>3, <3>2
    <3>4. Plain(answers') /\ Answered(answers, answers', cmd.letter)
      BY <3>1, <3>3, Replied
    <3>5. InStep(c, answers', Tail(commands))
      BY <1>1, <1>4, <3>1, <3>4, InStepExecuted DEF Plain
    <3>6. Ahead(c, Tail(commands)) /\ Committed(c, flash')
      BY <1>1, <1>2, <1>3, <1>4, <1>5, <1>8, <2>2, <3>1, Spared
    <3>7. Loads(c, answers', Tail(commands), flash')
      BY <1>1, <1>2, <1>3, <1>4, <1>8, <3>1, <3>3, LoadsExecuted
    <3> QED BY <1>1, <3>4, <3>5, <3>6, <3>7
  <2> QED BY <2>1, <2>2 DEF Writing
<1> QED BY <1>1, <1>2, <1>3, <1>5, <1>6, <1>7, <1>8 DEF IInv

-----------------------------------------------------------------------------
(* The invariant, and what it says.                                        *)

LEMMA InitIInv ==
  ASSUME Init, ~ request.pad
  PROVE  IInv
<1>1. request \in Requests /\ flash = request.before /\ commands = <<>> /\ answers = <<>> /\ faults = 0
      /\ board = "ready"
  BY DEF Init
<1>2. /\ c.pc = "hello" /\ c.stage = "send" /\ c.offset = Offset(request) /\ c.data = Data(request)
      /\ c.sector = 0 /\ c.page = 0 /\ c.sector_write_attempt = 0 /\ DOMAIN c = Fields
  BY DEF Init, Fields
<1>3. Offset(request) = request.offset /\ Data(request) = request.file /\ request.offset \in Nat
  BY <1>1, RequestFacts
<1>4. 0 \in 0 .. pages_per_sector - 1 /\ 0 \in 0 .. MaxFaults
  BY GeometryAssumption, FaultAssumption
<1>5. Within(c, request)
  BY <1>2, <1>3, <1>4 DEF Within, Steps
<1>6. DOMAIN flash = Pages /\ Untouched
  BY <1>1, RequestAssumption DEF Untouched
<1>7. IsSeq(<<>>) /\ Len(<<>>) = 0
  BY NothingIsSeq, EmptySeq
<1>8. Targets(request, commands)
  BY <1>1, <1>7 DEF Targets
<1>9. ASSUME request.command = "write"
      PROVE  Writing(c, answers, commands, flash)
  <2>1. Writes(c)
    BY <1>2 DEF Writes
  <2>2. Plain(answers) /\ Ahead(c, commands) /\ All(answers, commands, {})
    BY <1>1, <1>7 DEF Plain, Ahead, All
  <2>3. InStep(c, answers, commands) /\ Loads(c, answers, commands, flash)
    BY <1>2, <2>2 DEF InStep, AtHello, Loads
  <2>4. Front(c) = request.offset
    BY <1>1, <1>2, <1>5, <1>9, FrontFacts DEF Active
  <2>5. Committed(c, flash)
    BY <1>2, <1>3, <2>4 DEF Committed
  <2> QED BY <2>1, <2>2, <2>3, <2>5 DEF Writing
<1> QED BY <1>1, <1>4, <1>5, <1>6, <1>8, <1>9 DEF IInv, Affords

\* Of a board that is misled nothing is claimed.
Honest == Client \/ Execute

LEMMA NextIInv ==
  ASSUME IInv, ~ request.pad, [Honest]_vars
  PROVE  IInv'
<1>1. CASE Client
  BY <1>1, SendStep, WaitStep, WaitFailsStep, ReadStep, ReadNextStep, TooLittleStep, MissingStep DEF Client
<1>2. CASE Execute
  BY <1>2, ExecuteStep
<1>3. CASE UNCHANGED vars
  BY <1>3 DEF vars, boardVars, IInv, Untouched, Affords
<1> QED BY <1>1, <1>2, <1>3 DEF Honest

\* A board that was misled stays so.
LEMMA NextHonest ==
  ASSUME [Next]_vars, ~ misled'
  PROVE  ~ misled /\ [Honest]_vars
<1>1. CASE Client
  <2>1. misled' = misled
    BY <1>1 DEF Client, sendCommand, waitForMessage, waitFails, readExactly, readsNextAnswer,
                readsTooLittle, valueMissing, boardVars
  <2> QED BY <1>1, <2>1 DEF Honest
<1>2. CASE Execute
  <2>1. misled' = misled
    BY <1>2 DEF Execute
  <2> QED BY <1>2, <2>1 DEF Honest
<1>3. CASE Mislead
  BY <1>3 DEF Mislead
<1>4. CASE UNCHANGED vars
  BY <1>4 DEF vars, boardVars
<1> QED BY <1>1, <1>2, <1>3, <1>4 DEF Next

(* The inductive invariant holds until the board is misled, for every      *)
(* request without --pad: with it the client writes elsewhere, see         *)
(* WrittenAtOffset.                                                        *)
THEOREM Invariance ==
  ASSUME \A r \in Requests : ~ r.pad
  PROVE  Spec => [](~ misled => IInv)
<1>1. Init => IInv
  BY InitIInv DEF Init
<1>2. (~ misled => IInv) /\ [Next]_vars => (~ misled => IInv)'
  BY NextIInv, NextHonest DEF IInv
<1> QED BY <1>1, <1>2, PTL DEF Spec

(* A write that ends with Done has written the file at the offset asked    *)
(* for, and no command changes a page outside its sectors: with any number *)
(* of commands and answers lost, late, cut short or wrong, unless the      *)
(* board takes an argument nobody sent.                                    *)
THEOREM WrittenWhenDone ==
  ASSUME \A r \in Requests : ~ r.pad
  PROVE  Spec => []DoneMeansWritten
<1>1. (~ misled => IInv) => DoneMeansWritten
  <2> SUFFICES ASSUME ~ misled, IInv
               PROVE  DoneMeansWritten
    BY DEF DoneMeansWritten
  <2>1. request \in Requests /\ ~ request.pad /\ Within(c, request)
    BY DEF IInv
  <2>2. ASSUME request.command = "write", c.pc = "done", NEW i \in DOMAIN request.file
        PROVE  flash[request.offset + i - 1] = request.file[i]
    <3>1. /\ Len(request.file) \in Nat /\ DOMAIN request.file = 1 .. Len(request.file)
          /\ request.offset \in Nat /\ PageCount(request) = Len(request.file)
      BY <2>1, <2>2, RequestFacts, RequestAssumption
    <3>2. Committed(c, flash) /\ c.offset = request.offset /\ c.data = request.file
      BY <2>1, <2>2 DEF IInv, Writing, Active, Within
    <3>3. Front(c) = request.offset + Len(request.file)
      BY <2>2, <3>2 DEF Front
    <3>4. request.offset + i - 1 \in c.offset .. Front(c) - 1
      BY <3>1, <3>2, <3>3
    <3>5. (request.offset + i - 1) - c.offset + 1 = i
      BY <3>1, <3>2
    <3> QED BY <3>2, <3>4, <3>5 DEF Committed
  <2>3. \A p \in Pages :
          \/ request.command \notin {"write", "erase"}
          \/ SectorOf(p) \notin {SectorOf(q) : q \in Region(request)}
          => flash[p] = request.before[p]
    BY DEF IInv, Untouched, Changes
  <2> QED BY <2>2, <2>3 DEF DoneMeansWritten
<1> QED BY <1>1, Invariance, PTL

-----------------------------------------------------------------------------
(* Reading and verifying.  A checksum on the line is the value behind the  *)
(* letter r, or what the client is about to read as one.                   *)

Heard(stage, ans) ==
  {i \in 1 .. Len(ans) :
     IsValue(ans[i]) /\ IF i = 1 THEN stage = "value" ELSE IsSign(ans[i - 1], {"r"})}
Here(s, fl) == fl[page_index(s)]

\* A read: a checksum is that of the page or noise of one fault, and no noise
\* comes twice.  A letter r is never outstanding behind an l that may turn
\* the page, so that the next page starts with no checksum on the line.
Possible(F, n) == {F} \cup {Garbage(k) : k \in 1 .. n}
Once(list, stage, ans, F, n) ==
  /\ list \subseteq Possible(F, n)
  /\ \A i \in Heard(stage, ans) :
       ans[i].of \in Possible(F, n) /\ (ans[i].of \in list => ans[i].of = F)
  /\ \A i, j \in Heard(stage, ans) : i # j /\ ans[i].of = ans[j].of => ans[i].of = F
Asked(page, com) == \A i \in 1 .. Len(com) : com[i].letter = "r" => com[i].arg = page
ReadsPage(s, ans, com, fl, n) ==
  /\ s.pc = "loadPage" =>
       /\ All(ans, com, {"r", "l"}) /\ No(ans, com, {"r"}, {"l"}) /\ Asked(page_index(s), com)
       /\ s.crc_list # {} \/ s.stage = "value" => All(ans, com, {"r"})
       /\ Once(s.crc_list, s.stage, ans, Here(s, fl), n)
  /\ s.pc = "fetch" /\ s.crc # None =>
       /\ s.crc = Here(s, fl) /\ All(ans, com, {"r", "l"}) /\ No(ans, com, {"l"}, {"r"})
       /\ s.stage = "value" => All(ans, com, {"l"})

\* A verify: each fault puts the client out of step by one letter at most, so
\* that no more letters are outstanding, and no more checksums wrong, than
\* there were faults.
Pending(ans, com) ==
  {k \in 1 .. Len(ans) + Len(com) :
     IF k <= Len(ans) THEN IsSign(ans[k], {"r"}) ELSE com[k - Len(ans)].letter = "r"}
Wrong(stage, ans, com, page, F) ==
  {k \in 1 .. Len(ans) + Len(com) :
     IF k <= Len(ans) THEN k \in Heard(stage, ans) /\ ans[k].of # F
     ELSE com[k - Len(ans)].letter = "r" /\ com[k - Len(ans)].arg # page}
VerifiesPage(s, ans, com, fl, n) ==
  s.pc = "loadPage" =>
    /\ All(ans, com, {"r"}) /\ IsFiniteSet(s.crc_list)
    /\ Cardinality(Pending(ans, com)) <= IF s.stage = "wait" THEN n + 1 ELSE n
    /\ Cardinality(Wrong(s.stage, ans, com, page_index(s), Here(s, fl)))
         + Cardinality(s.crc_list \ {Here(s, fl)}) <= n

\* The pages before this one are read, or verified.
OnPage(s, ans, com) ==
  /\ s.pc \in {"hello", "loadPage", "fetch"} \cup Final
  /\ s.sector = 0 /\ s.page \in Nat
  /\ s.pc = "hello" => s.page = 0 /\ AtHello(s, ans, com)
Read(s, r, ans, com, fl, n) ==
  /\ OnPage(s, ans, com) /\ IsSeq(s.file) /\ (s.pc \notin Final => Len(s.file) = s.page)
  /\ \A i \in 1 .. Len(s.file) : s.file[i] = fl[r.offset + i - 1]
  /\ ReadsPage(s, ans, com, fl, n)
Verified(s, r, ans, com, fl, n) ==
  /\ OnPage(s, ans, com) /\ IsSeq(s.verdicts) /\ (s.pc \notin Final => Len(s.verdicts) = s.page)
  /\ n < 2 => \A i \in 1 .. Len(s.verdicts) : s.verdicts[i] = (fl[r.offset + i - 1] = r.file[i])
  /\ s.pc \in Exchanges => Plain(ans)
  /\ VerifiesPage(s, ans, com, fl, n)

RInv ==
  /\ IsSeq(answers)
  /\ request.command = "read" => Read(c, request, answers, commands, flash, faults)
  /\ request.command = "verify" => Verified(c, request, answers, commands, flash, faults)
  /\ request.command # "read" => c.file = <<>>
  /\ request.command # "verify" => c.verdicts = <<>>

\* One place for each: what a set of the line counts.
LEMMA Fits ==
  ASSUME NEW T, IsFiniteSet(T), NEW S, NEW f, DOMAIN f = S, \A x \in S : f[x] \in T,
         f = [x \in S |-> f[x]], \A x, y \in S : f[x] = f[y] => x = y
  PROVE  /\ IsFiniteSet(S) /\ Cardinality(S) <= Cardinality(T)
         /\ Cardinality(S) \in Nat /\ Cardinality(T) \in Nat
<1>1. f \in [S -> T]
  OBVIOUS
<1>2. f \in Injection(S, T)
  BY <1>1 DEF Injection, IsInjective
<1>3. IsFiniteSet(S) /\ Cardinality(S) <= Cardinality(T)
  BY <1>2, FS_Injection
<1> QED BY <1>3, FS_CardinalityType

LEMMA Counted ==
  ASSUME NEW ans, IsSeq(ans), NEW com, IsSeq(com), NEW stage, NEW page, NEW F
  PROVE  /\ IsFiniteSet(Pending(ans, com)) /\ Cardinality(Pending(ans, com)) \in Nat
         /\ IsFiniteSet(Wrong(stage, ans, com, page, F))
         /\ Cardinality(Wrong(stage, ans, com, page, F)) \in Nat
<1> DEFINE top == Len(ans) + Len(com)
<1>1. top \in Nat
  BY SeqFacts
<1>2. IsFiniteSet(1 .. top)
  BY <1>1, FS_Interval
<1>3. Pending(ans, com) \in SUBSET (1 .. top) /\ Wrong(stage, ans, com, page, F) \in SUBSET (1 .. top)
  BY DEF Pending, Wrong
<1>4. IsFiniteSet(Pending(ans, com)) /\ IsFiniteSet(Wrong(stage, ans, com, page, F))
  BY <1>2, <1>3, FS_Subset
<1> QED BY <1>4, FS_CardinalityType

\* b is a without its first d items; what a wait leaves of a page of data is
\* no letter and no value.
Shifted(a, b, d) ==
  /\ IsSeq(b) /\ d \in {0, 1} /\ Len(b) = Len(a) - d
  /\ \A i \in 1 .. Len(b) : b[i] = a[i + d] \/ (i = 1 /\ b[i].kind = "rest")

LEMMA ShiftNone ==
  ASSUME NEW a, IsSeq(a)
  PROVE  Shifted(a, a, 0)
BY SeqFacts DEF Shifted

LEMMA ShiftTail ==
  ASSUME NEW a, IsSeq(a), a # <<>>
  PROVE  Shifted(a, Tail(a), 1) /\ Head(a) = a[1] /\ 1 \in 1 .. Len(a)
BY TailFacts, SeqFacts DEF Shifted

LEMMA ShiftRest ==
  ASSUME NEW a, IsSeq(a), a # <<>>, NEW n
  PROVE  Shifted(a, <<Rest(n)>> \o Tail(a), 0)
<1> DEFINE b == <<Rest(n)>> \o Tail(a)
<1>1. PICK S : a \in Seq(S)
  BY DEF IsSeq
<1>2. /\ Tail(a) \in Seq(S \cup {Rest(n)}) /\ Len(Tail(a)) = Len(a) - 1 /\ Len(a) \in Nat
      /\ \A i \in 1 .. Len(a) - 1 : Tail(a)[i] = a[i + 1]
  BY <1>1
<1>3. <<Rest(n)>> \in Seq(S \cup {Rest(n)}) /\ Len(<<Rest(n)>>) = 1 /\ <<Rest(n)>>[1] = Rest(n)
  OBVIOUS
<1>4. b \in Seq(S \cup {Rest(n)})
  BY <1>2, <1>3
<1>5. IsSeq(b)
  BY <1>4 DEF IsSeq
<1>6. Len(b) = Len(a) /\ b[1] = Rest(n) /\ \A i \in 2 .. Len(a) : b[i] = Tail(a)[i - 1]
  BY <1>2, <1>3
<1>7. ASSUME NEW i \in 1 .. Len(b)
      PROVE  b[i] = a[i + 0] \/ (i = 1 /\ b[i].kind = "rest")
  <2>1. CASE i = 1
    BY <1>6, <2>1 DEF Rest
  <2>2. CASE i # 1
    <3>1. i \in 2 .. Len(a) /\ i - 1 \in 1 .. Len(a) - 1 /\ (i - 1) + 1 = i /\ i + 0 = i
      BY <1>2, <1>6, <2>2
    <3>2. b[i] = Tail(a)[i - 1] /\ Tail(a)[i - 1] = a[(i - 1) + 1]
      BY <1>2, <1>6, <3>1
    <3> QED BY <3>1, <3>2
  <2> QED BY <2>1, <2>2
<1>8. Len(b) = Len(a) - 0
  BY <1>2, <1>6
<1> QED BY <1>5, <1>7, <1>8 DEF Shifted

\* Letters of b, and checksums, are those of a.
LEMMA ShiftFacts ==
  ASSUME NEW a, IsSeq(a), NEW b, NEW d, Shifted(a, b, d)
  PROVE  /\ Len(a) \in Nat /\ Len(b) \in Nat /\ d \in {0, 1} /\ Len(b) + d = Len(a)
         /\ \A i \in 1 .. Len(b) : i + d \in 1 .. Len(a)
         /\ \A i \in 1 .. Len(b) : b[i].kind = "letter" => b[i] = a[i + d]
         /\ \A i \in 1 .. Len(b) : IsValue(b[i]) => b[i] = a[i + d]
<1>1. /\ IsSeq(b) /\ d \in {0, 1} /\ Len(b) = Len(a) - d
      /\ \A i \in 1 .. Len(b) : b[i] = a[i + d] \/ (i = 1 /\ b[i].kind = "rest")
  BY DEF Shifted
<1>2. Len(a) \in Nat /\ Len(b) \in Nat
  BY <1>1, SeqFacts
<1>3. \A i \in 1 .. Len(b) : i + d \in 1 .. Len(a)
  BY <1>1, <1>2
<1>4. \A i \in 1 .. Len(b) : b[i].kind = "letter" \/ IsValue(b[i]) => b[i].kind # "rest"
  BY DEF IsValue
<1>5. Len(b) + d = Len(a)
  BY <1>1, <1>2
<1> QED BY <1>1, <1>2, <1>3, <1>4, <1>5

LEMMA AllShift ==
  ASSUME NEW a, IsSeq(a), NEW b, NEW d, Shifted(a, b, d), NEW com, NEW S, All(a, com, S)
  PROVE  All(b, com, S)
BY ShiftFacts DEF All

LEMMA NoShift ==
  ASSUME NEW a, IsSeq(a), NEW b, NEW d, Shifted(a, b, d), NEW com, NEW X, NEW Y, No(a, com, X, Y)
  PROVE  No(b, com, X, Y)
<1>1. /\ Len(a) \in Nat /\ Len(b) \in Nat /\ d \in {0, 1}
      /\ \A i \in 1 .. Len(b) : i + d \in 1 .. Len(a)
      /\ \A i \in 1 .. Len(b) : b[i].kind = "letter" => b[i] = a[i + d]
  BY ShiftFacts
<1>2. ASSUME NEW i \in 1 .. Len(b), NEW Z, IsSign(b[i], Z)
      PROVE  i + d \in 1 .. Len(a) /\ IsSign(a[i + d], Z)
  BY <1>1, <1>2 DEF IsSign
<1>3. ASSUME NEW i \in 1 .. Len(b), NEW j \in 1 .. Len(b), i < j, IsSign(b[i], X), IsSign(b[j], Y)
      PROVE  FALSE
  <2>1. i + d < j + d
    BY <1>1, <1>3
  <2> QED BY <1>2, <1>3, <2>1 DEF No
<1>4. ASSUME NEW i \in 1 .. Len(b), NEW j \in 1 .. Len(com), IsSign(b[i], X)
      PROVE  com[j].letter \notin Y
  BY <1>2, <1>4 DEF No
<1> QED BY <1>3, <1>4 DEF No

\* The letter the client waited for brings the first checksum with it.
Opens(stage2, d, a) == stage2 # "value" \/ (d = 1 /\ IsSign(a[1], {"r"}))

LEMMA HeardShift ==
  ASSUME NEW a, IsSeq(a), NEW b, NEW d, Shifted(a, b, d), NEW stage, NEW stage2,
         Opens(stage2, d, a), NEW i \in Heard(stage2, b)
  PROVE  i + d \in Heard(stage, a) /\ b[i] = a[i + d] /\ i \in 1 .. Len(b) /\ i + d # 1
<1>1. /\ Len(a) \in Nat /\ Len(b) \in Nat /\ d \in {0, 1}
      /\ \A k \in 1 .. Len(b) : k + d \in 1 .. Len(a)
      /\ \A k \in 1 .. Len(b) : b[k].kind = "letter" => b[k] = a[k + d]
      /\ \A k \in 1 .. Len(b) : IsValue(b[k]) => b[k] = a[k + d]
  BY ShiftFacts
<1>2. /\ i \in 1 .. Len(b) /\ IsValue(b[i])
      /\ IF i = 1 THEN stage2 = "value" ELSE IsSign(b[i - 1], {"r"})
  BY DEF Heard
<1> DEFINE e == i + d
<1>3. b[i] = a[e] /\ e \in 1 .. Len(a) /\ IsValue(a[e])
  BY <1>1, <1>2
<1>4. e # 1 /\ IsSign(a[e - 1], {"r"})
  <2>1. CASE i = 1
    <3>1. d = 1 /\ IsSign(a[1], {"r"}) /\ e - 1 = 1
      BY <1>2, <2>1 DEF Opens
    <3> QED BY <2>1, <3>1
  <2>2. CASE i # 1
    <3>1. i - 1 \in 1 .. Len(b) /\ (i - 1) + d = e - 1 /\ e # 1
      BY <1>1, <1>2, <2>2
    <3>2. IsSign(b[i - 1], {"r"}) /\ b[i - 1] = a[(i - 1) + d]
      BY <1>1, <1>2, <2>2, <3>1 DEF IsSign
    <3> QED BY <3>1, <3>2
  <2> QED BY <2>1, <2>2
<1> HIDE DEF e
<1>5. e \in Heard(stage, a)
  BY <1>3, <1>4 DEF Heard
<1> QED BY <1>2, <1>3, <1>4, <1>5 DEF e

LEMMA FitsShift ==
  ASSUME NEW T, IsFiniteSet(T), NEW S \in SUBSET Nat, NEW d \in {0, 1}, \A k \in S : k + d \in T
  PROVE  Cardinality(S) <= Cardinality(T)
<1> DEFINE f == [k \in S |-> k + d]
<1>1. \A x, y \in S : f[x] = f[y] => x = y
  OBVIOUS
<1>2. DOMAIN f = S /\ \A x \in S : f[x] \in T
  OBVIOUS
<1>3. f = [x \in S |-> f[x]]
  OBVIOUS
<1> HIDE DEF f
<1> QED BY <1>1, <1>2, <1>3, Fits

LEMMA PendingShift ==
  ASSUME NEW a, IsSeq(a), NEW b, NEW d, Shifted(a, b, d), NEW com, IsSeq(com)
  PROVE  /\ Cardinality(Pending(b, com)) <= Cardinality(Pending(a, com))
         /\ d = 1 /\ IsSign(a[1], {"r"}) => Cardinality(Pending(b, com)) + 1 <= Cardinality(Pending(a, com))
<1> DEFINE S == Pending(b, com)
           T == Pending(a, com)
<1>1. /\ Len(a) \in Nat /\ Len(b) \in Nat /\ d \in {0, 1} /\ Len(b) + d = Len(a) /\ Len(com) \in Nat
      /\ \A i \in 1 .. Len(b) : i + d \in 1 .. Len(a)
      /\ \A i \in 1 .. Len(b) : b[i].kind = "letter" => b[i] = a[i + d]
  BY ShiftFacts, SeqFacts
<1>2. IsFiniteSet(T) /\ Cardinality(T) \in Nat /\ Cardinality(S) \in Nat
  BY Counted DEF Shifted
<1>7. ASSUME NEW k \in Nat, ~ (k <= Len(b))
      PROVE  ~ (k + d <= Len(a)) /\ (k + d) - Len(a) = k - Len(b)
  <2>1. Len(a) \in Nat /\ Len(b) \in Nat /\ d \in {0, 1} /\ Len(b) + d = Len(a)
    BY <1>1
  <2> QED BY <1>7, <2>1
<1>3. S \in SUBSET Nat
  BY <1>1 DEF Pending
<1>4. ASSUME NEW k \in S
      PROVE  k + d \in T
  <2>1. k \in 1 .. Len(b) + Len(com) /\ k + d \in 1 .. Len(a) + Len(com)
    BY <1>1 DEF Pending
  <2>2. CASE k <= Len(b)
    <3>1. k \in 1 .. Len(b) /\ IsSign(b[k], {"r"}) /\ k + d <= Len(a)
      BY <1>1, <2>1, <2>2 DEF Pending
    <3>2. b[k] = a[k + d]
      BY <1>1, <3>1 DEF IsSign
    <3> QED BY <2>1, <3>1, <3>2 DEF Pending
  <2>3. CASE ~ k <= Len(b)
    <3>1. ~ (k + d <= Len(a)) /\ (k + d) - Len(a) = k - Len(b)
      BY <1>7, <2>1, <2>3
    <3>2. com[k - Len(b)].letter = "r"
      BY <2>3 DEF Pending
    <3> QED BY <2>1, <3>1, <3>2 DEF Pending
  <2> QED BY <2>2, <2>3
<1>5. Cardinality(S) <= Cardinality(T)
  <2> HIDE DEF S, T
  <2> QED BY <1>1, <1>2, <1>3, <1>4, FitsShift
<1>6. ASSUME d = 1, IsSign(a[1], {"r"})
      PROVE  Cardinality(S) + 1 <= Cardinality(T)
  <2>1. 1 \in T
    BY <1>1, <1>6 DEF Pending
  <2>2. \A k \in S : k + d \in T \ {1}
    BY <1>1, <1>3, <1>4, <1>6 DEF Pending
  <2> HIDE DEF S, T
  <2>3. IsFiniteSet(T \ {1}) /\ Cardinality(T \ {1}) = Cardinality(T) - 1
    BY <1>2, <2>1, FS_RemoveElement
  <2>4. Cardinality(S) <= Cardinality(T \ {1})
    BY <1>1, <1>3, <2>2, <2>3, FitsShift
  <2> QED BY <1>2, <2>3, <2>4
<1> QED BY <1>5, <1>6

LEMMA WrongShift ==
  ASSUME NEW a, IsSeq(a), NEW b, NEW d, Shifted(a, b, d), NEW com, IsSeq(com), NEW stage, NEW stage2,
         Opens(stage2, d, a), NEW page, NEW F
  PROVE  /\ Cardinality(Wrong(stage2, b, com, page, F)) <= Cardinality(Wrong(stage, a, com, page, F))
         /\ 1 \in Heard(stage, a) /\ a[1].of # F =>
              Cardinality(Wrong(stage2, b, com, page, F)) + 1 <= Cardinality(Wrong(stage, a, com, page, F))
<1> DEFINE S == Wrong(stage2, b, com, page, F)
           T == Wrong(stage, a, com, page, F)
<1>1. /\ Len(a) \in Nat /\ Len(b) \in Nat /\ d \in {0, 1} /\ Len(b) + d = Len(a) /\ Len(com) \in Nat
      /\ \A i \in 1 .. Len(b) : i + d \in 1 .. Len(a)
  BY ShiftFacts, SeqFacts
<1>2. IsFiniteSet(T) /\ Cardinality(T) \in Nat /\ Cardinality(S) \in Nat
  BY Counted DEF Shifted
<1>7. ASSUME NEW k \in Nat, ~ (k <= Len(b))
      PROVE  ~ (k + d <= Len(a)) /\ (k + d) - Len(a) = k - Len(b)
  <2>1. Len(a) \in Nat /\ Len(b) \in Nat /\ d \in {0, 1} /\ Len(b) + d = Len(a)
    BY <1>1
  <2> QED BY <1>7, <2>1
<1>3. S \in SUBSET Nat
  BY <1>1 DEF Wrong
<1>8. \A k \in Heard(stage2, b) :
        k + d \in Heard(stage, a) /\ b[k] = a[k + d] /\ k \in 1 .. Len(b) /\ k + d # 1
  <2> HIDE DEF S, T
  <2> QED BY HeardShift
<1>4. ASSUME NEW k \in S
      PROVE  k + d \in T /\ (1 \in Heard(stage, a) => k + d # 1)
  <2>1. k \in 1 .. Len(b) + Len(com) /\ k + d \in 1 .. Len(a) + Len(com)
    BY <1>1 DEF Wrong
  <2>2. CASE k <= Len(b)
    <3>1. k \in Heard(stage2, b) /\ b[k].of # F
      BY <2>2 DEF Wrong
    <3>2. k + d \in Heard(stage, a) /\ b[k] = a[k + d] /\ k \in 1 .. Len(b) /\ k + d # 1
      BY <1>8, <3>1
    <3>3. k + d <= Len(a)
      BY <1>1, <3>2
    <3> QED BY <2>1, <3>1, <3>2, <3>3 DEF Wrong
  <2>3. CASE ~ k <= Len(b)
    <3>1. ~ (k + d <= Len(a)) /\ (k + d) - Len(a) = k - Len(b)
      BY <1>7, <2>1, <2>3
    <3>2. com[k - Len(b)].letter = "r" /\ com[k - Len(b)].arg # page
      BY <2>3 DEF Wrong
    <3>3. k + d \in T
      BY <2>1, <3>1, <3>2 DEF Wrong
    <3>4. 1 \in Heard(stage, a) => 1 <= Len(a)
      BY <1>1 DEF Heard
    <3> QED BY <3>1, <3>3, <3>4
  <2> QED BY <2>2, <2>3
<1>5. Cardinality(S) <= Cardinality(T)
  <2> HIDE DEF S, T
  <2> QED BY <1>1, <1>2, <1>3, <1>4, FitsShift
<1>6. ASSUME 1 \in Heard(stage, a), a[1].of # F
      PROVE  Cardinality(S) + 1 <= Cardinality(T)
  <2>1. 1 \in T
    <3>1. 1 \in 1 .. Len(a)
      BY <1>6 DEF Heard
    <3>2. 1 \in 1 .. Len(a) + Len(com) /\ 1 <= Len(a)
      BY <1>1, <3>1
    <3> QED BY <1>6, <3>2 DEF Wrong
  <2>2. \A k \in S : k + d \in T \ {1}
    BY <1>4, <1>6
  <2> HIDE DEF S, T
  <2>3. IsFiniteSet(T \ {1}) /\ Cardinality(T \ {1}) = Cardinality(T) - 1
    BY <1>2, <2>1, FS_RemoveElement
  <2>4. Cardinality(S) <= Cardinality(T \ {1})
    BY <1>1, <1>3, <2>2, <2>3, FitsShift
  <2> QED BY <1>2, <2>3, <2>4
<1> QED BY <1>5, <1>6

\* Nothing is outstanding, or a letter more.
LEMMA PendingNone ==
  ASSUME NEW ans, NEW com, NEW S, All(ans, com, S), "r" \notin S, IsSeq(ans), IsSeq(com)
  PROVE  Cardinality(Pending(ans, com)) = 0
<1>1. Len(ans) \in Nat /\ Len(com) \in Nat
  BY SeqFacts
<1>2. ASSUME NEW k \in Pending(ans, com)
      PROVE  FALSE
  <2>1. CASE k <= Len(ans)
    <3>1. k \in 1 .. Len(ans) /\ IsSign(ans[k], {"r"})
      BY <1>1, <2>1 DEF Pending
    <3> QED BY <3>1 DEF All, IsSign
  <2>2. CASE ~ k <= Len(ans)
    <3>1. k - Len(ans) \in 1 .. Len(com) /\ com[k - Len(ans)].letter = "r"
      BY <1>1, <2>2 DEF Pending
    <3> QED BY <3>1 DEF All
  <2> QED BY <2>1, <2>2
<1>3. Pending(ans, com) = {}
  BY <1>2
<1> QED BY <1>3, FS_EmptySet

LEMMA PendingSend ==
  ASSUME NEW ans, IsSeq(ans), NEW com, IsSeq(com), NEW cmd
  PROVE  Cardinality(Pending(ans, Append(com, cmd))) <= Cardinality(Pending(ans, com)) + 1
<1> DEFINE top == Len(ans) + Len(com)
           new == Append(com, cmd)
<1>1. /\ Len(ans) \in Nat /\ Len(com) \in Nat /\ Len(new) = Len(com) + 1 /\ IsSeq(new)
      /\ \A i \in 1 .. Len(com) : new[i] = com[i]
  BY AppendFacts, SeqFacts
<1> HIDE DEF new
<1>2. Pending(ans, new) \subseteq Pending(ans, com) \cup {top + 1}
  <2>1. ASSUME NEW k \in Pending(ans, new), k # top + 1
        PROVE  k \in Pending(ans, com)
    <3>1. k \in 1 .. top
      BY <1>1, <2>1 DEF Pending
    <3>2. ~ k <= Len(ans) => k - Len(ans) \in 1 .. Len(com) /\ new[k - Len(ans)] = com[k - Len(ans)]
      BY <1>1, <3>1
    <3> QED BY <3>1, <3>2 DEF Pending
  <2> QED BY <2>1
<1>3. IsFiniteSet(Pending(ans, com)) /\ Cardinality(Pending(ans, com)) \in Nat
  BY Counted
<1> DEFINE S == Pending(ans, com) \cup {top + 1}
<1>4. IsFiniteSet(S) /\ Cardinality(S) <= Cardinality(Pending(ans, com)) + 1 /\ Cardinality(S) \in Nat
  <2>1. /\ IsFiniteSet(S)
        /\ Cardinality(S) = IF top + 1 \in Pending(ans, com) THEN Cardinality(Pending(ans, com))
                            ELSE Cardinality(Pending(ans, com)) + 1
    BY <1>3, FS_AddElement
  <2> HIDE DEF S, top
  <2> QED BY <1>3, <2>1
<1>5. Cardinality(Pending(ans, new)) <= Cardinality(S) /\ Cardinality(Pending(ans, new)) \in Nat
  <2> HIDE DEF S
  <2> QED BY <1>1, <1>2, <1>4, FS_Subset, Counted DEF S
<1> QED BY <1>3, <1>4, <1>5 DEF new

LEMMA WrongSend ==
  ASSUME NEW ans, IsSeq(ans), NEW com, IsSeq(com), NEW cmd, NEW page, NEW F,
         cmd.letter = "r" => cmd.arg = page
  PROVE  Cardinality(Wrong("wait", ans, Append(com, cmd), page, F))
           <= Cardinality(Wrong("send", ans, com, page, F))
<1> DEFINE top == Len(ans) + Len(com)
           new == Append(com, cmd)
           S == Wrong("wait", ans, new, page, F)
           T == Wrong("send", ans, com, page, F)
<1>1. /\ Len(ans) \in Nat /\ Len(com) \in Nat /\ Len(new) = Len(com) + 1 /\ IsSeq(new)
      /\ \A i \in 1 .. Len(com) : new[i] = com[i]
      /\ new[Len(com) + 1] = cmd
  BY AppendFacts, SeqFacts
<1> HIDE DEF new
<1>2. Heard("wait", ans) = Heard("send", ans)
  BY DEF Heard
<1>3. ASSUME NEW k \in S
      PROVE  k \in T
  <2>1. k \in 1 .. top + 1
    BY <1>1 DEF Wrong
  <2>2. CASE k <= Len(ans)
    <3>1. k \in 1 .. Len(ans) + Len(com)
      BY <1>1, <2>1, <2>2
    <3>2. k \in Heard("wait", ans) /\ ans[k].of # F
      BY <2>2 DEF Wrong
    <3> QED BY <1>2, <2>2, <3>1, <3>2 DEF Wrong
  <2>3. CASE ~ k <= Len(ans)
    <3>1. new[k - Len(ans)].letter = "r" /\ new[k - Len(ans)].arg # page
      BY <2>3 DEF Wrong
    <3>2. k # top + 1
      <4>1. (top + 1) - Len(ans) = Len(com) + 1
        BY <1>1
      <4> QED BY <1>1, <3>1, <4>1
    <3>3. k \in 1 .. top /\ k - Len(ans) \in 1 .. Len(com)
      BY <1>1, <2>1, <2>3, <3>2
    <3> QED BY <1>1, <2>3, <3>1, <3>3 DEF Wrong
  <2> QED BY <2>2, <2>3
<1>4. S \in SUBSET T /\ IsFiniteSet(T)
  BY <1>3, Counted
<1>5. Cardinality(S) <= Cardinality(T)
  <2> HIDE DEF S, T
  <2> QED BY <1>4, FS_Subset
<1> QED BY <1>5 DEF new

\* On the next page all that is outstanding may be wrong.
LEMMA WrongTurned ==
  ASSUME NEW ans, IsSeq(ans), NEW com, IsSeq(com), NEW page, NEW F
  PROVE  Cardinality(Wrong("send", ans, com, page, F)) <= Cardinality(Pending(ans, com))
<1> DEFINE S == Wrong("send", ans, com, page, F)
           T == Pending(ans, com)
           f == [k \in S |-> IF k <= Len(ans) THEN k - 1 ELSE k]
<1>1. Len(ans) \in Nat /\ Len(com) \in Nat
  BY SeqFacts
<1>2. ASSUME NEW k \in S
      PROVE  /\ k \in Nat /\ f[k] \in T
             /\ k <= Len(ans) => f[k] = k - 1 /\ f[k] < Len(ans)
             /\ ~ k <= Len(ans) => f[k] = k
  <2>1. k \in 1 .. Len(ans) + Len(com)
    BY DEF Wrong
  <2>2. CASE k <= Len(ans)
    <3>1. k \in Heard("send", ans)
      BY <2>2 DEF Wrong
    <3>2. k # 1 /\ IsSign(ans[k - 1], {"r"})
      BY <3>1 DEF Heard
    <3>3. k - 1 \in 1 .. Len(ans) + Len(com) /\ k - 1 <= Len(ans) /\ k - 1 < Len(ans)
      BY <1>1, <2>1, <2>2, <3>2
    <3>4. k - 1 \in T
      BY <3>2, <3>3 DEF Pending
    <3> QED BY <2>1, <2>2, <3>3, <3>4
  <2>3. CASE ~ k <= Len(ans)
    BY <2>1, <2>3 DEF Wrong, Pending
  <2> QED BY <2>2, <2>3
<1>3. DOMAIN f = S /\ f = [k \in S |-> f[k]] /\ IsFiniteSet(T)
  BY Counted
<1> HIDE DEF f, S, T
<1>4. \A x, y \in S : f[x] = f[y] => x = y
  BY <1>1, <1>2
<1>5. Cardinality(S) <= Cardinality(T)
  BY <1>2, <1>3, <1>4, Fits
<1> QED BY <1>5 DEF S, T

-----------------------------------------------------------------------------
(* What a read and a verify do between two exchanges.                      *)

Stands(s, t) == t.stage = "send" /\ t.sector = s.sector /\ t.page = s.page /\ t.offset = s.offset
Turns(s, t) ==
  /\ t.stage = "send" /\ t.sector = s.sector /\ t.offset = s.offset
  /\ \/ t.pc = "done" /\ t.page = s.page
     \/ t.pc = "loadPage" /\ t.page = s.page + 1 /\ t.crc_list = {}
Results(s, t) == t.file = s.file /\ t.verdicts = s.verdicts

LEMMA GotoKeeps ==
  ASSUME NEW s, DOMAIN s = Fields, NEW pc
  PROVE  Stands(s, Goto(s, pc)) /\ Results(s, Goto(s, pc)) /\ Goto(s, pc).pc = pc
BY DEF Fields, Goto, Stands, Results

LEMMA StartLoadKeeps ==
  ASSUME NEW s, DOMAIN s = Fields
  PROVE  /\ Stands(s, StartLoad(s)) /\ Results(s, StartLoad(s))
         /\ StartLoad(s).pc = "loadPage" /\ StartLoad(s).crc_list = {}
BY DEF Fields, Goto, StartLoad, Stands, Results

LEMMA StartSectorKeeps ==
  ASSUME NEW s, DOMAIN s = Fields
  PROVE  Results(s, StartSector(s))
BY DEF Fields, Goto, StartSector, Results

LEMMA PageTurns ==
  ASSUME NEW r, r.command \in {"read", "verify"}, NEW s, DOMAIN s = Fields, NEW t, t = NextPage(s, r)
  PROVE  Turns(s, t) /\ Results(s, t)
<1> DEFINE u == [s EXCEPT !.page = @ + 1]
<1>1. /\ DOMAIN u = Fields /\ u.offset = s.offset /\ u.sector = s.sector /\ u.page = s.page + 1
      /\ Results(s, u)
  BY DEF Fields, Results
<1>2. t = Goto(s, "done") \/ t = StartLoad(u)
  BY DEF NextPage
<1> HIDE DEF u
<1>3. CASE t = Goto(s, "done")
  BY <1>3, GotoKeeps DEF Stands, Turns
<1>4. CASE t = StartLoad(u)
  BY <1>1, <1>4, StartLoadKeeps DEF Stands, Turns, Results
<1> QED BY <1>2, <1>3, <1>4

LEMMA LoadGoesOn ==
  ASSUME NEW r, r.command \in {"read", "verify"}, NEW s, DOMAIN s = Fields, NEW crc,
         NEW t, t = loadPageMultiple(s, r, crc)
  PROVE  \/ Stands(s, t) /\ Results(s, t) /\ t.pc = "aborted"
         \/ /\ Stands(s, t) /\ Results(s, t) /\ t.pc = "loadPage" /\ crc \notin s.crc_list
            /\ t.crc_list = s.crc_list \cup ({crc} \ {None})
         \/ /\ r.command = "read" /\ Stands(s, t) /\ Results(s, t) /\ t.pc = "fetch"
            /\ t.crc = None \/ (t.crc = crc /\ crc \in s.crc_list)
         \/ /\ r.command = "verify" /\ crc \in s.crc_list /\ crc # None /\ Turns(s, t)
            /\ t.file = s.file /\ t.verdicts = Append(s.verdicts, crc = r.file[s.page + 1])
<1> DEFINE counts == crc = None \/ s.crc_list # {}
           again == [Goto(s, "loadPage") EXCEPT !.load_try = IF counts THEN @ + 1 ELSE @,
                                                !.crc_list = @ \cup ({crc} \ {None})]
<1>1. \/ crc \in s.crc_list /\ t = Loaded(s, r, crc)
      \/ t = Loaded(s, r, None)
      \/ crc \notin s.crc_list /\ t = again
  BY DEF loadPageMultiple
<1>2. CASE crc \notin s.crc_list /\ t = again
  BY <1>2 DEF Goto, Stands, Results, Fields
<1>3. ASSUME NEW x, t = Loaded(s, r, x), x = None \/ (x = crc /\ crc \in s.crc_list)
      PROVE  \/ Stands(s, t) /\ Results(s, t) /\ t.pc = "aborted"
             \/ /\ r.command = "read" /\ Stands(s, t) /\ Results(s, t) /\ t.pc = "fetch"
                /\ t.crc = None \/ (t.crc = crc /\ crc \in s.crc_list)
             \/ /\ r.command = "verify" /\ crc \in s.crc_list /\ crc # None /\ Turns(s, t)
                /\ t.file = s.file /\ t.verdicts = Append(s.verdicts, crc = r.file[s.page + 1])
  <2>1. CASE r.command = "read"
    <3>1. t = [Goto(s, "fetch") EXCEPT !.crc = x, !.fetch_try = 0]
      BY <1>3, <2>1 DEF Loaded
    <3>2. Stands(s, t) /\ Results(s, t) /\ t.pc = "fetch" /\ t.crc = x
      BY <3>1 DEF Goto, Stands, Results, Fields
    <3> QED BY <1>3, <2>1, <3>2
  <2>2. CASE r.command = "verify" /\ x = None
    <3>1. t = Goto(s, "aborted")
      BY <1>3, <2>2 DEF Loaded
    <3> QED BY <3>1, GotoKeeps
  <2>3. CASE r.command = "verify" /\ x # None
    <3> DEFINE u == [s EXCEPT !.verdicts = Append(@, x = r.file[s.page + 1])]
    <3>1. /\ DOMAIN u = Fields /\ u.offset = s.offset /\ u.sector = s.sector /\ u.page = s.page
          /\ u.file = s.file /\ u.verdicts = Append(s.verdicts, x = r.file[s.page + 1])
      BY DEF Fields
    <3>2. t = NextPage(u, r)
      BY <1>3, <2>3 DEF Loaded
    <3> HIDE DEF u
    <3>3. Turns(u, t) /\ Results(u, t)
      BY <3>1, <3>2, PageTurns
    <3>4. Turns(s, t) /\ t.file = s.file /\ t.verdicts = Append(s.verdicts, x = r.file[s.page + 1])
      BY <3>1, <3>3 DEF Turns, Results
    <3>5. x = crc /\ crc \in s.crc_list
      BY <1>3, <2>3
    <3> QED BY <2>3, <3>4, <3>5
  <2> QED BY <2>1, <2>2, <2>3
<1> QED BY <1>1, <1>2, <1>3

LEMMA FetchGoesOn ==
  ASSUME NEW r, r.command = "read", NEW s, DOMAIN s = Fields, NEW content,
         NEW t, t = readPage(s, r, content)
  PROVE  \/ /\ content # None /\ content = s.crc /\ Turns(s, t)
            /\ t.file = Append(s.file, content) /\ t.verdicts = s.verdicts
         \/ Stands(s, t) /\ Results(s, t) /\ t.pc = "fetch" /\ t.crc = s.crc
         \/ Stands(s, t) /\ Results(s, t) /\ t.pc = "aborted"
<1> DEFINE u == [s EXCEPT !.file = Append(@, content)]
           again == [Goto(s, "fetch") EXCEPT !.fetch_try = @ + 1]
<1>1. /\ DOMAIN u = Fields /\ u.offset = s.offset /\ u.sector = s.sector /\ u.page = s.page
      /\ u.file = Append(s.file, content) /\ u.verdicts = s.verdicts
  BY DEF Fields
<1>2. \/ content # None /\ content = s.crc /\ t = NextPage(u, r)
      \/ t = again \/ t = Goto(s, "aborted")
  BY DEF readPage
<1>3. CASE t = again
  BY <1>3 DEF Goto, Stands, Results, Fields
<1>4. CASE t = Goto(s, "aborted")
  BY <1>4, GotoKeeps
<1>5. CASE content # None /\ content = s.crc /\ t = NextPage(u, r)
  <2> HIDE DEF u
  <2>1. Turns(u, t) /\ Results(u, t)
    BY <1>1, <1>5, PageTurns
  <2> QED BY <1>1, <1>5, <2>1 DEF Turns, Results
<1> QED BY <1>2, <1>3, <1>4, <1>5

LEMMA HelloGoesOn ==
  ASSUME NEW r, r.command \in {"read", "verify"}, NEW s, DOMAIN s = Fields, s.pc = "hello",
         NEW ok \in BOOLEAN, NEW v, NEW t, t = Ended(s, r, ok, v)
  PROVE  /\ Stands(s, t) /\ Results(s, t)
         /\ t.pc \in Final \/ (ok /\ t.pc = "loadPage" /\ t.crc_list = {})
<1>1. \/ t = Goto(s, "usage") \/ t = Goto(s, "crashed") \/ t = Goto(s, "done")
      \/ ok /\ t = StartLoad(s)
  <2>1. CASE ~ ok
    BY <2>1 DEF Ended
  <2>2. CASE ok
    <3>1. t = Started(s, r)
      BY <2>2 DEF Ended
    <3> QED BY <2>2, <3>1 DEF Started
  <2> QED BY <2>1, <2>2
<1> QED BY <1>1, GotoKeeps, StartLoadKeeps DEF Final

\* Only a read has a file, and only a verify its verdicts.
LEMMA ResultsKept ==
  ASSUME NEW r \in Requests, NEW s, Within(s, r), s.pc \in Exchanges,
         NEW ok \in BOOLEAN, NEW v, NEW t, t = Ended(s, r, ok, v)
  PROVE  /\ r.command # "read" => t.file = s.file
         /\ r.command # "verify" => t.verdicts = s.verdicts
<1>1. /\ DOMAIN s = Fields
      /\ s.pc = "fetch" => r.command = "read"
      /\ s.pc \in {"eraseSector", "store", "write"} => Changes(r)
      /\ s.pc = "loadPage" => r.command \in {"write", "read", "verify"}
  BY DEF Within
<1>2. ASSUME NEW pc, t = Goto(s, pc)
      PROVE  Results(s, t)
  BY <1>1, <1>2, GotoKeeps
<1>3. ASSUME t = PageFailed(s)
      PROVE  Results(s, t)
  <2> DEFINE u == [s EXCEPT !.sector_write_attempt = @ + 1]
  <2>1. DOMAIN u = Fields /\ Results(s, u)
    BY <1>1 DEF Fields, Results
  <2>2. t = Goto(s, "aborted") \/ t = StartSector(u)
    BY <1>3 DEF PageFailed
  <2> HIDE DEF u
  <2> QED BY <1>2, <2>1, <2>2, StartSectorKeeps DEF Results
<1>4. ASSUME t = NextSector(s, r)
      PROVE  Results(s, t)
  <2> DEFINE u == [s EXCEPT !.sector = @ + 1]
  <2>1. DOMAIN u = Fields /\ Results(s, u)
    BY <1>1 DEF Fields, Results
  <2>2. t = Goto(s, "done") \/ t = StartSector(u)
    BY <1>4 DEF NextSector
  <2> HIDE DEF u
  <2> QED BY <1>2, <2>1, <2>2, StartSectorKeeps DEF Results
<1>5. ASSUME t = NextPage(s, r), r.command = "write"
      PROVE  Results(s, t)
  <2>1. t = NextSector(s, r) \/ t = [Goto(s, "store") EXCEPT !.page = @ + 1]
    BY <1>5 DEF NextPage
  <2>2. CASE t = [Goto(s, "store") EXCEPT !.page = @ + 1]
    BY <1>1, <2>2 DEF Goto, Results, Fields
  <2> QED BY <1>4, <2>1, <2>2
<1>6. CASE s.pc = "hello"
  <2>1. CASE ~ ok
    BY <1>2, <1>6, <2>1 DEF Ended, Results
  <2>2. CASE ok
    <3>1. t = Started(s, r)
      BY <1>6, <2>2 DEF Ended
    <3>2. \/ t = StartSector(s) \/ t = StartLoad(s)
          \/ t \in {Goto(s, pc) : pc \in {"usage", "crashed", "done", "read_register",
                                          "check_write_protection", "set"}}
      BY <3>1, RequestAssumption DEF Started
    <3> QED BY <1>1, <1>2, <3>2, StartSectorKeeps, StartLoadKeeps DEF Results
  <2> QED BY <2>1, <2>2
<1>7. CASE s.pc = "eraseSector"
  <2>1. t = eraseSector(s, r, ok) /\ r.command \in {"write", "erase"}
    BY <1>1, <1>7 DEF Ended, Changes
  <2>2. \/ t = NextSector(s, r) \/ t = Goto(s, "store") \/ t = Goto(s, "aborted")
        \/ t = [Goto(s, "eraseSector") EXCEPT !.erase_try = @ + 1]
    BY <2>1 DEF eraseSector
  <2>3. CASE t = [Goto(s, "eraseSector") EXCEPT !.erase_try = @ + 1]
    BY <1>1, <2>3 DEF Goto, Results, Fields
  <2> QED BY <1>2, <1>4, <2>2, <2>3 DEF Results
<1>8. CASE s.pc = "store"
  <2>1. t = Goto(s, "write") \/ t = PageFailed(s)
    BY <1>8 DEF Ended, Stored
  <2> QED BY <1>2, <1>3, <2>1 DEF Results
<1>9. CASE s.pc = "write"
  <2>1. t = StartLoad(s) \/ t = PageFailed(s)
    BY <1>9 DEF Ended, Written
  <2> QED BY <1>1, <1>3, <2>1, StartLoadKeeps DEF Results
<1>10. CASE s.pc = "loadPage"
  <2> DEFINE crc == IF ok THEN v ELSE None
  <2>1. t = loadPageMultiple(s, r, crc)
    BY <1>10 DEF Ended
  <2> HIDE DEF crc
  <2>2. CASE r.command \in {"read", "verify"}
    BY <1>1, <2>1, <2>2, LoadGoesOn DEF Results
  <2>3. CASE r.command = "write"
    <3> DEFINE counts == crc = None \/ s.crc_list # {}
               again == [Goto(s, "loadPage") EXCEPT !.load_try = IF counts THEN @ + 1 ELSE @,
                                                    !.crc_list = @ \cup ({crc} \ {None})]
    <3>1. t = Loaded(s, r, crc) \/ t = Loaded(s, r, None) \/ t = again
      BY <2>1 DEF loadPageMultiple
    <3>2. CASE t = again
      BY <1>1, <3>2 DEF Goto, Results, Fields
    <3>3. ASSUME NEW x, t = Loaded(s, r, x)
          PROVE  t = NextPage(s, r) \/ t = PageFailed(s)
      BY <2>3, <3>3 DEF Loaded
    <3> QED BY <1>3, <1>5, <2>3, <3>1, <3>2, <3>3 DEF Results
  <2> QED BY <1>1, <1>10, <2>2, <2>3
<1>11. CASE s.pc = "fetch"
  <2>1. r.command = "read" /\ t = readPage(s, r, IF ok THEN v ELSE None)
    BY <1>1, <1>11 DEF Ended
  <2> QED BY <1>1, <2>1, FetchGoesOn DEF Results
<1>12. CASE s.pc \in {"read_register", "check_write_protection", "set"}
  <2>1. t = Goto(s, "done") \/ t = Goto(s, "invalid")
    BY <1>12 DEF Ended
  <2> QED BY <1>2, <2>1 DEF Results
<1> QED BY <1>6, <1>7, <1>8, <1>9, <1>10, <1>11, <1>12 DEF Exchanges

-----------------------------------------------------------------------------
(* What the board answers to a read or a verify.                           *)

\* b is a with the answer to x behind it, its value or page perhaps missing,
\* or an error, or nothing.
Extended(a, b, x) ==
  /\ IsSeq(b) /\ Answered(a, b, x) /\ Len(b) <= Len(a) + 2
  /\ Len(b) > Len(a) => b[Len(a) + 1] = Sign(x) \/ (b[Len(a) + 1] = Error /\ Len(b) = Len(a) + 1)

LEMMA ExtendedFacts ==
  ASSUME NEW a, IsSeq(a), NEW b, NEW x, Extended(a, b, x)
  PROVE  /\ Len(a) \in Nat /\ Len(b) \in Len(a) .. Len(a) + 2
         /\ \A i \in 1 .. Len(a) : b[i] = a[i]
         /\ Len(b) > Len(a) => b[Len(a) + 1] = Sign(x) \/ b[Len(a) + 1] = Error
         /\ Len(b) = Len(a) + 2 => b[Len(a) + 1] = Sign(x) /\ b[Len(a) + 2].kind # "letter"
<1>1. Len(a) \in Nat /\ Len(b) \in Nat /\ Len(b) >= Len(a) /\ Len(b) <= Len(a) + 2
  BY SeqFacts DEF Extended, Answered
<1>2. Len(b) = Len(a) + 2 => Len(a) + 2 \in Len(a) + 1 .. Len(b) /\ Len(a) + 2 # Len(a) + 1
  BY <1>1
<1>3. Len(b) = Len(a) + 2 => Len(b) > Len(a) /\ Len(b) # Len(a) + 1
  BY <1>1
<1> QED BY <1>1, <1>2, <1>3 DEF Extended, Answered

LEMMA Brought ==
  ASSUME Execute, faults \in Nat, IsSeq(answers)
  PROVE  LET cmd == Head(commands) IN
           /\ commands # <<>> /\ commands' = Tail(commands) /\ UNCHANGED <<request, c>>
           /\ cmd.letter \notin {"k", "w"} => flash' = flash
           /\ faults' \in {faults, faults + 1}
           /\ Extended(answers, answers', cmd.letter)
           /\ cmd.letter = "r" /\ Len(answers') = Len(answers) + 2 =>
                \/ answers'[Len(answers) + 2].of = flash[cmd.arg]
                \/ faults' = faults + 1 /\ answers'[Len(answers) + 2].of = Garbage(faults + 1)
<1> DEFINE cmd == Head(commands)
           x == cmd.letter
<1>1. commands # <<>> /\ commands' = Tail(commands) /\ UNCHANGED <<request, c>>
  BY DEF Execute
<1>2. \/ faults' = faults /\ Effect(cmd) /\ answers' = answers \o Answer(cmd, buffer')
      \/ faults' = faults + 1 /\ BadEffect(cmd) /\ answers' = answers \o Answer(cmd, buffer')
      \/ /\ faults' = faults + 1 /\ x = "l" /\ flash' = flash
         /\ answers' = answers \o Answer(cmd, Garbage(faults'))
      \/ faults' = faults + 1 /\ Effect(cmd) /\ answers' = answers
      \/ /\ faults' = faults + 1 /\ flash' = flash
         /\ answers' = answers \/ answers' = Append(answers, Error)
      \/ faults' = faults + 1 /\ Effect(cmd) /\ answers' = Append(answers, Sign(x))
  BY DEF Execute, Executed, Spoiled, Swallowed, PartStored, Fault, NoFault
<1>3. x \notin {"k", "w"} => flash' = flash
  <2>1. Effect(cmd) /\ x \notin {"k", "w"} => flash' = flash
    BY EffectFacts DEF Touches
  <2>2. BadEffect(cmd) /\ x \notin {"k", "w"} => flash' = flash
    BY BadEffectFacts DEF Touches
  <2> QED BY <1>2, <2>1, <2>2
<1>4. Len(answers) \in Nat
  BY SeqFacts
<1>5. ASSUME NEW v, answers' = answers \o Answer(cmd, v)
      PROVE  /\ Extended(answers, answers', x)
             /\ x = "r" /\ Len(answers') = Len(answers) + 2 => answers'[Len(answers) + 2].of = v
  <2>1. \/ Answer(cmd, v) = <<Sign(x)>>
        \/ \E item : Answer(cmd, v) = <<Sign(x), item>> /\ item.kind # "letter" /\ item.of = v
    <3>1. CASE x = "l"
      <4>1. Answer(cmd, v) = <<Sign(x), Page(v)>>
        BY <3>1 DEF Answer
      <4> QED BY <4>1 DEF Page
    <3>2. CASE x # "l"
      BY <3>2, AnswerFacts DEF Value
    <3> QED BY <3>1, <3>2
  <2>2. CASE Answer(cmd, v) = <<Sign(x)>>
    <3>1. IsSeq(answers') /\ Answered(answers, answers', x)
      BY <1>5, <2>2, OneAnswer
    <3>2. Len(answers') = Len(answers) + 1 /\ answers'[Len(answers) + 1] = Sign(x)
      <4>1. PICK S : answers \in Seq(S)
        BY DEF IsSeq
      <4>2. answers \in Seq(S \cup {Sign(x)}) /\ <<Sign(x)>> \in Seq(S \cup {Sign(x)})
        BY <4>1
      <4> QED BY <1>5, <2>2, <4>2
    <3> QED BY <1>4, <3>1, <3>2 DEF Extended
  <2>3. ASSUME NEW item, Answer(cmd, v) = <<Sign(x), item>>, item.kind # "letter", item.of = v
        PROVE  /\ Extended(answers, answers', x)
               /\ answers'[Len(answers) + 2].of = v
    <3>1. /\ IsSeq(answers') /\ Answered(answers, answers', x) /\ Len(answers') = Len(answers) + 2
          /\ answers'[Len(answers) + 1] = Sign(x) /\ answers'[Len(answers) + 2] = item
      <4>1. answers' = answers \o <<Sign(x), item>>
        BY <1>5, <2>3
      <4> HIDE DEF x
      <4> QED BY <2>3, <4>1, TwoAnswers
    <3> QED BY <1>4, <2>3, <3>1 DEF Extended
  <2> QED BY <2>1, <2>2, <2>3
<1>6. /\ Extended(answers, answers, x) /\ Extended(answers, Append(answers, Sign(x)), x)
      /\ Extended(answers, Append(answers, Error), x)
      /\ Len(answers) # Len(answers) + 2 /\ Len(Append(answers, Sign(x))) # Len(answers) + 2
      /\ Len(Append(answers, Error)) # Len(answers) + 2
  <2>1. Extended(answers, answers, x)
    BY <1>4, NoAnswer DEF Extended
  <2>2. Extended(answers, Append(answers, Sign(x)), x)
    BY <1>4, AppendFacts DEF Extended, Answered
  <2>3. Extended(answers, Append(answers, Error), x)
    BY <1>4, AppendFacts DEF Extended, Answered, Error
  <2> QED BY <1>4, <2>1, <2>2, <2>3, AppendFacts
<1>7. /\ Effect(cmd) /\ x = "r" => buffer' = flash[cmd.arg]
      /\ BadEffect(cmd) /\ x = "r" => buffer' = Garbage(faults')
  BY EffectFacts, BadEffectFacts
<1>8. CASE faults' = faults /\ Effect(cmd) /\ answers' = answers \o Answer(cmd, buffer')
  BY <1>1, <1>3, <1>5, <1>7, <1>8
<1>9. CASE faults' = faults + 1 /\ BadEffect(cmd) /\ answers' = answers \o Answer(cmd, buffer')
  BY <1>1, <1>3, <1>5, <1>7, <1>9
<1>10. CASE faults' = faults + 1 /\ x = "l" /\ answers' = answers \o Answer(cmd, Garbage(faults'))
  BY <1>1, <1>3, <1>5, <1>10
<1>11. CASE faults' = faults + 1 /\ answers' \in {answers, Append(answers, Sign(x)), Append(answers, Error)}
  BY <1>1, <1>3, <1>6, <1>11
<1> QED BY <1>2, <1>8, <1>9, <1>10, <1>11

\* The checksums after it.
LEMMA HeardMore ==
  ASSUME NEW a, IsSeq(a), NEW b, NEW x, Extended(a, b, x), NEW stage, NEW i \in Heard(stage, b)
  PROVE  \/ i \in Heard(stage, a) /\ b[i] = a[i]
         \/ i = Len(a) + 2 /\ Len(b) = Len(a) + 2 /\ x = "r"
<1>1. /\ Len(a) \in Nat /\ Len(b) \in Len(a) .. Len(a) + 2
      /\ \A k \in 1 .. Len(a) : b[k] = a[k]
      /\ Len(b) > Len(a) => b[Len(a) + 1] = Sign(x) \/ b[Len(a) + 1] = Error
      /\ Len(b) = Len(a) + 2 => b[Len(a) + 1] = Sign(x)
  BY ExtendedFacts
<1>2. i \in 1 .. Len(b) /\ IsValue(b[i]) /\ IF i = 1 THEN stage = "value" ELSE IsSign(b[i - 1], {"r"})
  BY DEF Heard
<1>3. CASE i \in 1 .. Len(a)
  <2>1. i # 1 => i - 1 \in 1 .. Len(a)
    BY <1>1, <1>3
  <2>2. b[i] = a[i] /\ (i # 1 => b[i - 1] = a[i - 1])
    BY <1>1, <1>3, <2>1
  <2> QED BY <1>2, <1>3, <2>2 DEF Heard
<1>4. CASE i = Len(a) + 1
  <2>1. b[i] = Sign(x) \/ b[i] = Error
    BY <1>1, <1>2, <1>4
  <2> QED BY <1>2, <2>1 DEF IsValue, Sign, Error
<1>5. CASE i = Len(a) + 2
  <2>1. i # 1 /\ i - 1 = Len(a) + 1 /\ Len(b) = Len(a) + 2
    BY <1>1, <1>2, <1>5
  <2>2. IsSign(Sign(x), {"r"})
    BY <1>1, <1>2, <2>1
  <2> QED BY <1>5, <2>1, <2>2 DEF IsSign, Sign
<1>6. i \in 1 .. Len(a) \/ i = Len(a) + 1 \/ i = Len(a) + 2
  BY <1>1, <1>2
<1> QED BY <1>3, <1>4, <1>5, <1>6

LEMMA OnceMore ==
  ASSUME NEW a, IsSeq(a), NEW b, NEW x, Extended(a, b, x), NEW stage, NEW list, NEW F,
         NEW n \in Nat, NEW m \in {n, n + 1}, Once(list, stage, a, F, n),
         x = "r" /\ Len(b) = Len(a) + 2 =>
           b[Len(a) + 2].of = F \/ (m = n + 1 /\ b[Len(a) + 2].of = Garbage(n + 1))
  PROVE  Once(list, stage, b, F, m)
<1> DEFINE top == Len(a) + 2
<1>1. /\ Possible(F, n) \subseteq Possible(F, m) /\ F \in Possible(F, m)
      /\ m = n + 1 => Garbage(n + 1) \in Possible(F, m)
  BY DEF Possible
<1>2. ASSUME NEW v \in Possible(F, n), v = Garbage(n + 1)
      PROVE  v = F
  <2>1. \A k \in 1 .. n : Garbage(k) # Garbage(n + 1)
    BY DEF Garbage
  <2> QED BY <1>2, <2>1 DEF Possible
<1>3. \A i \in Heard(stage, b) :
        \/ i \in Heard(stage, a) /\ b[i] = a[i]
        \/ i = top /\ (b[i].of = F \/ (m = n + 1 /\ b[i].of = Garbage(n + 1)))
  BY HeardMore
<1> HIDE DEF top
<1>4. /\ list \subseteq Possible(F, n)
      /\ \A i \in Heard(stage, a) :
           a[i].of \in Possible(F, n) /\ (a[i].of \in list => a[i].of = F)
      /\ \A i, j \in Heard(stage, a) : i # j /\ a[i].of = a[j].of => a[i].of = F
  BY DEF Once
<1>5. ASSUME NEW i \in Heard(stage, b)
      PROVE  b[i].of \in Possible(F, m) /\ (b[i].of \in list => b[i].of = F)
  <2>1. CASE i \in Heard(stage, a) /\ b[i] = a[i]
    BY <1>1, <1>4, <2>1
  <2>2. CASE b[i].of = F
    BY <1>1, <2>2
  <2>3. CASE m = n + 1 /\ b[i].of = Garbage(n + 1)
    BY <1>1, <1>2, <1>4, <2>3
  <2> QED BY <1>3, <2>1, <2>2, <2>3
<1>6. ASSUME NEW i \in Heard(stage, b), NEW j \in Heard(stage, b), i # j, b[i].of = b[j].of
      PROVE  b[i].of = F
  <2>1. CASE i \in Heard(stage, a) /\ b[i] = a[i] /\ j \in Heard(stage, a) /\ b[j] = a[j]
    BY <1>4, <1>6, <2>1
  <2>2. CASE i \in Heard(stage, a) /\ b[i] = a[i] /\ (b[j].of = F \/ b[j].of = Garbage(n + 1))
    BY <1>2, <1>4, <1>6, <2>2
  <2>3. CASE j \in Heard(stage, a) /\ b[j] = a[j] /\ (b[i].of = F \/ b[i].of = Garbage(n + 1))
    BY <1>2, <1>4, <1>6, <2>3
  <2> QED BY <1>3, <1>6, <2>1, <2>2, <2>3
<1> QED BY <1>1, <1>4, <1>5, <1>6 DEF Once

\* Where an item of the line was before a command was executed.
Was(la, lb, k) == IF k <= la THEN k ELSE IF k <= lb THEN la + 1 ELSE (k - lb) + la + 1
LEMMA WasOnce ==
  ASSUME NEW la \in Nat, NEW lb \in la .. la + 2, NEW k \in Nat, NEW l \in Nat,
         Was(la, lb, k) = Was(la, lb, l)
  PROVE  k = l \/ (k \in la + 1 .. lb /\ l \in la + 1 .. lb)
BY DEF Was

LEMMA PendingMore ==
  ASSUME NEW a, IsSeq(a), NEW b, NEW com, IsSeq(com), com # <<>>, Extended(a, b, Head(com).letter)
  PROVE  Cardinality(Pending(b, Tail(com))) <= Cardinality(Pending(a, com))
<1> DEFINE S == Pending(b, Tail(com))
           T == Pending(a, com)
           la == Len(a)
           lb == Len(b)
           lc == Len(com)
           f == [k \in S |-> Was(la, lb, k)]
<1>1. /\ la \in Nat /\ lb \in la .. la + 2
      /\ \A i \in 1 .. la : b[i] = a[i]
      /\ lb > la => b[la + 1] = Sign(Head(com).letter) \/ b[la + 1] = Error
      /\ lb = la + 2 => b[la + 2].kind # "letter"
  BY ExtendedFacts
<1>2. /\ lc \in Nat /\ lc >= 1 /\ Len(Tail(com)) = lc - 1 /\ Head(com) = com[1]
      /\ \A i \in 1 .. lc - 1 : Tail(com)[i] = com[i + 1]
  BY TailFacts, SeqFacts
<1>3. ASSUME NEW k \in S
      PROVE  k \in 1 .. lb + (lc - 1) /\ (~ (k <= la) /\ k <= lb => k = la + 1) /\ Was(la, lb, k) \in T
  <2>1. k \in 1 .. lb + (lc - 1)
    BY <1>2 DEF Pending
  <2>2. /\ Was(la, lb, k) \in 1 .. la + lc
        /\ k <= la => Was(la, lb, k) = k
        /\ ~ (k <= la) /\ k <= lb => Was(la, lb, k) = la + 1
        /\ ~ (k <= lb) => /\ ~ (Was(la, lb, k) <= la)
                          /\ Was(la, lb, k) - la = (k - lb) + 1 /\ k - lb \in 1 .. lc - 1
    <3>1. la \in Nat /\ lb \in la .. la + 2 /\ lc \in Nat /\ lc >= 1
      BY <1>1, <1>2
    <3> HIDE DEF S, T, la, lb, lc, f
    <3> QED BY <2>1, <3>1 DEF Was
  <2>3. CASE k <= la
    <3>1. k \in 1 .. la /\ k <= lb
      BY <1>1, <2>1, <2>3
    <3>2. IsSign(b[k], {"r"}) /\ b[k] = a[k]
      BY <1>1, <3>1 DEF Pending
    <3> QED BY <2>1, <2>2, <2>3, <3>2 DEF Pending
  <2>4. CASE ~ (k <= la) /\ k <= lb
    <3>1. IsSign(b[k], {"r"})
      BY <2>4 DEF Pending
    <3>2. k = la + 1 \/ (k = la + 2 /\ lb = la + 2)
      BY <1>1, <2>1, <2>4
    <3>3. k = la + 1 /\ lb > la
      BY <1>1, <2>4, <3>1, <3>2 DEF IsSign
    <3>4. com[1].letter = "r"
      BY <1>1, <1>2, <3>1, <3>3 DEF IsSign, Sign, Error
    <3>5. ~ (la + 1 <= la) /\ (la + 1) - la = 1
      BY <1>1
    <3> QED BY <2>1, <2>2, <2>4, <3>3, <3>4, <3>5 DEF Pending
  <2>5. CASE ~ (k <= lb)
    <3>1. Tail(com)[k - lb].letter = "r" /\ Tail(com)[k - lb] = com[(k - lb) + 1]
      BY <1>2, <2>2, <2>5 DEF Pending
    <3>2. ~ (k <= la)
      BY <1>1, <2>1, <2>5
    <3> QED BY <2>1, <2>2, <2>5, <3>1, <3>2 DEF Pending
  <2> QED BY <2>3, <2>4, <2>5
<1>4. IsFiniteSet(T)
  BY Counted
<1>5. DOMAIN f = S /\ (\A x \in S : f[x] = Was(la, lb, x)) /\ f = [x \in S |-> f[x]]
  OBVIOUS
<1> HIDE DEF S, T, la, lb, lc, f
<1>6. ASSUME NEW x \in S, NEW y \in S, f[x] = f[y]
      PROVE  x = y
  <2>1. x \in Nat /\ y \in Nat /\ Was(la, lb, x) = Was(la, lb, y)
    BY <1>3, <1>5, <1>6
  <2>2. x = y \/ (x \in la + 1 .. lb /\ y \in la + 1 .. lb)
    BY <1>1, <2>1, WasOnce
  <2> QED BY <1>1, <1>3, <2>1, <2>2
<1>7. Cardinality(S) <= Cardinality(T)
  BY <1>3, <1>4, <1>5, <1>6, Fits
<1> QED BY <1>7 DEF S, T

LEMMA WrongMore ==
  ASSUME NEW a, IsSeq(a), NEW b, NEW com, IsSeq(com), com # <<>>, Extended(a, b, Head(com).letter),
         NEW stage, NEW page, NEW fl, NEW n \in Nat, NEW m \in {n, n + 1},
         Head(com).letter = "r" /\ Len(b) = Len(a) + 2 =>
           b[Len(a) + 2].of = fl[Head(com).arg] \/ m = n + 1
  PROVE  Cardinality(Wrong(stage, b, Tail(com), page, fl[page]))
           <= Cardinality(Wrong(stage, a, com, page, fl[page])) + (m - n)
<1> DEFINE S == Wrong(stage, b, Tail(com), page, fl[page])
           T == Wrong(stage, a, com, page, fl[page])
           la == Len(a)
           lb == Len(b)
           lc == Len(com)
           top == la + 2
           D == IF m = n THEN S ELSE S \ {top}
           f == [k \in D |-> Was(la, lb, k)]
<1>1. /\ la \in Nat /\ lb \in la .. la + 2
      /\ \A i \in 1 .. la : b[i] = a[i]
  BY ExtendedFacts
<1>2. /\ lc \in Nat /\ lc >= 1 /\ Len(Tail(com)) = lc - 1 /\ Head(com) = com[1]
      /\ \A i \in 1 .. lc - 1 : Tail(com)[i] = com[i + 1]
  BY TailFacts, SeqFacts
<1>3. \A i \in Heard(stage, b) :
        \/ i \in Heard(stage, a) /\ b[i] = a[i]
        \/ i = la + 2 /\ lb = la + 2 /\ Head(com).letter = "r"
  BY HeardMore
<1>4. ASSUME NEW k \in D
      PROVE  k \in 1 .. lb + (lc - 1) /\ (~ (k <= la) /\ k <= lb => k = la + 2) /\ Was(la, lb, k) \in T
  <2>1. k \in S /\ k \in 1 .. lb + (lc - 1)
    BY <1>2 DEF Wrong
  <2>2. /\ Was(la, lb, k) \in 1 .. la + lc
        /\ k <= la => Was(la, lb, k) = k
        /\ ~ (k <= la) /\ k <= lb => Was(la, lb, k) = la + 1
        /\ ~ (k <= lb) => /\ ~ (Was(la, lb, k) <= la)
                          /\ Was(la, lb, k) - la = (k - lb) + 1 /\ k - lb \in 1 .. lc - 1
    <3>1. la \in Nat /\ lb \in la .. la + 2 /\ lc \in Nat /\ lc >= 1
      BY <1>1, <1>2
    <3> HIDE DEF S, T, la, lb, lc, f, D, top
    <3> QED BY <2>1, <3>1 DEF Was
  <2>3. CASE k <= la
    <3>1. k <= lb /\ k # la + 2
      BY <1>1, <2>1, <2>3
    <3>2. k \in Heard(stage, b) /\ b[k].of # fl[page]
      BY <2>1, <3>1 DEF Wrong
    <3>3. k \in Heard(stage, a) /\ b[k] = a[k]
      BY <1>3, <3>1, <3>2
    <3> QED BY <2>1, <2>2, <2>3, <3>2, <3>3 DEF Wrong
  <2>4. CASE ~ (k <= la) /\ k <= lb
    <3>1. k \in Heard(stage, b) /\ b[k].of # fl[page]
      BY <2>1, <2>4 DEF Wrong
    <3>2. k \notin Heard(stage, a)
      BY <2>4 DEF Heard
    <3>3. k = la + 2 /\ lb = la + 2 /\ Head(com).letter = "r"
      BY <1>3, <3>1, <3>2
    <3>4. m # n + 1
      <4>1. k # top => m = n
        BY <3>3
      <4>2. m # n => k # top
        OBVIOUS
      <4> QED BY <3>3, <4>2
    <3>5. b[la + 2].of = fl[Head(com).arg]
      BY <3>3, <3>4
    <3>6. com[1].letter = "r" /\ com[1].arg # page
      BY <1>2, <3>1, <3>3, <3>5
    <3>7. ~ (la + 1 <= la) /\ (la + 1) - la = 1
      BY <1>1
    <3> QED BY <2>1, <2>2, <2>4, <3>3, <3>6, <3>7 DEF Wrong
  <2>5. CASE ~ (k <= lb)
    <3>1. /\ Tail(com)[k - lb].letter = "r" /\ Tail(com)[k - lb].arg # page
          /\ Tail(com)[k - lb] = com[(k - lb) + 1]
      BY <1>2, <2>1, <2>2, <2>5 DEF Wrong
    <3>2. ~ (k <= la)
      BY <1>1, <2>1, <2>5
    <3> QED BY <2>1, <2>2, <2>5, <3>1, <3>2 DEF Wrong
  <2> QED BY <2>3, <2>4, <2>5
<1>5. IsFiniteSet(T) /\ IsFiniteSet(S) /\ Cardinality(S) \in Nat /\ Cardinality(T) \in Nat
  BY Counted, SeqFacts, TailFacts DEF Extended
<1>6. DOMAIN f = D /\ (\A x \in D : f[x] = Was(la, lb, x)) /\ f = [x \in D |-> f[x]]
  OBVIOUS
<1>7. (m = n /\ D = S) \/ (m = n + 1 /\ D = S \ {top})
  OBVIOUS
<1> HIDE DEF S, T, la, lb, lc, f, D, top
<1>8. ASSUME NEW x \in D, NEW y \in D, f[x] = f[y]
      PROVE  x = y
  <2>1. x \in Nat /\ y \in Nat /\ Was(la, lb, x) = Was(la, lb, y)
    BY <1>4, <1>6, <1>8
  <2>2. x = y \/ (x \in la + 1 .. lb /\ y \in la + 1 .. lb)
    BY <1>1, <2>1, WasOnce
  <2> QED BY <1>1, <1>4, <2>1, <2>2
<1>9. Cardinality(D) <= Cardinality(T)
  BY <1>4, <1>5, <1>6, <1>8, Fits
<1>10. Cardinality(S) <= Cardinality(T) + (m - n)
  <2>1. CASE m = n /\ D = S
    BY <1>5, <1>9, <2>1
  <2>2. CASE m = n + 1 /\ D = S \ {top}
    <3>1. Cardinality(D) = IF top \in S THEN Cardinality(S) - 1 ELSE Cardinality(S)
      BY <1>5, <2>2, FS_RemoveElement
    <3> QED BY <1>5, <1>9, <2>2, <3>1
  <2> QED BY <1>7, <2>1, <2>2
<1> QED BY <1>10 DEF S, T

-----------------------------------------------------------------------------
(* The steps of a read.                                                    *)

\* The first value on the line, if it is a checksum, is noted.
Noted(list, stage, ans, list2) ==
  \A v \in list2 : v \in list \/ (1 \in Heard(stage, ans) /\ v = ans[1].of)

LEMMA NotedNone ==
  ASSUME NEW list, NEW stage, NEW ans
  PROVE  Noted(list, stage, ans, list)
BY DEF Noted

LEMMA OnceShift ==
  ASSUME NEW a, IsSeq(a), NEW b, NEW d, Shifted(a, b, d), NEW stage, NEW stage2,
         Opens(stage2, d, a), NEW F, NEW n \in Nat, NEW m \in {n, n + 1},
         NEW list, Once(list, stage, a, F, n),
         NEW list2, Noted(list, stage, a, list2)
  PROVE  Once(list2, stage2, b, F, m)
<1>1. Possible(F, n) \subseteq Possible(F, m)
  BY DEF Possible
<1>2. \A i \in Heard(stage2, b) : i + d \in Heard(stage, a) /\ b[i] = a[i + d] /\ i \in Nat /\ i + d # 1
  <2>1. ASSUME NEW i \in Heard(stage2, b)
        PROVE  i + d \in Heard(stage, a) /\ b[i] = a[i + d] /\ i \in 1 .. Len(b) /\ i + d # 1
    BY HeardShift
  <2> QED BY <2>1
<1>3. /\ list \subseteq Possible(F, n)
      /\ \A i \in Heard(stage, a) :
           a[i].of \in Possible(F, n) /\ (a[i].of \in list => a[i].of = F)
      /\ \A i, j \in Heard(stage, a) : i # j /\ a[i].of = a[j].of => a[i].of = F
  BY DEF Once
<1>4. d \in {0, 1}
  BY DEF Shifted
<1>5. list2 \subseteq Possible(F, m)
  BY <1>1, <1>3 DEF Noted
<1>6. ASSUME NEW i \in Heard(stage2, b)
      PROVE  b[i].of \in Possible(F, m) /\ (b[i].of \in list2 => b[i].of = F)
  <2> DEFINE e == i + d
  <2>1. e \in Heard(stage, a) /\ b[i] = a[e] /\ e # 1
    BY <1>2
  <2> HIDE DEF e
  <2> QED BY <1>1, <1>3, <2>1 DEF Noted
<1>7. ASSUME NEW i \in Heard(stage2, b), NEW j \in Heard(stage2, b), i # j, b[i].of = b[j].of
      PROVE  b[i].of = F
  <2> DEFINE e == i + d
             g == j + d
  <2>1. e \in Heard(stage, a) /\ b[i] = a[e] /\ g \in Heard(stage, a) /\ b[j] = a[g]
    BY <1>2
  <2>2. e # g
    BY <1>2, <1>4, <1>7
  <2> HIDE DEF e, g
  <2> QED BY <1>3, <1>7, <2>1, <2>2
<1> QED BY <1>5, <1>6, <1>7 DEF Once

LEMMA HeardNone ==
  ASSUME NEW ans, IsSeq(ans), NEW com, NEW S, All(ans, com, S), "r" \notin S, NEW stage, stage # "value"
  PROVE  Heard(stage, ans) = {} /\ \A page : Asked(page, com)
<1>1. ASSUME NEW i \in Heard(stage, ans)
      PROVE  FALSE
  <2>1. i \in 1 .. Len(ans) /\ i # 1 /\ IsSign(ans[i - 1], {"r"}) /\ Len(ans) \in Nat
    BY SeqFacts DEF Heard
  <2>2. i - 1 \in 1 .. Len(ans)
    BY <2>1
  <2> QED BY <2>1, <2>2 DEF All, IsSign
<1>2. \A page : Asked(page, com)
  BY DEF Asked, All
<1> QED BY <1>1, <1>2

LEMMA Unheard ==
  ASSUME NEW ans, NEW stage, Heard(stage, ans) = {}, NEW F, NEW n
  PROVE  Once({}, stage, ans, F, n)
BY DEF Once

\* The page the client is at.
LEMMA PageAt ==
  ASSUME NEW r \in Requests, NEW s, Within(s, r), s.sector = 0, s.page \in Nat
  PROVE  page_index(s) = r.offset + s.page /\ r.offset \in Nat /\ DOMAIN s = Fields
<1>1. s.offset = r.offset /\ r.offset \in Nat /\ DOMAIN s = Fields
  BY RequestAssumption, GeometryAssumption DEF Within, Pages
<1>2. 0 * pages_per_sector = 0
  BY GeometryAssumption
<1> QED BY <1>1, <1>2 DEF page_index

LEMMA SamePlace ==
  ASSUME NEW s, NEW t, t.sector = s.sector, t.page = s.page, t.offset = s.offset, NEW fl
  PROVE  page_index(t) = page_index(s) /\ Here(t, fl) = Here(s, fl)
BY DEF page_index, Here

\* Another stage of the same exchange.
LEMMA StageFacts ==
  ASSUME NEW s, DOMAIN s = Fields, NEW stage, NEW t, t = [s EXCEPT !.stage = stage]
  PROVE  /\ t.pc = s.pc /\ t.stage = stage /\ t.sector = s.sector /\ t.page = s.page
         /\ t.offset = s.offset /\ t.crc_list = s.crc_list /\ t.crc = s.crc /\ Results(s, t)
BY DEF Fields, Results

LEMMA ReadExchanges ==
  ASSUME NEW s, s.pc \in {"hello", "loadPage", "fetch"} \cup Final, s.pc \in Exchanges
  PROVE  /\ s.pc \in {"hello", "loadPage", "fetch"} /\ s.pc \notin Final
         /\ s.pc = "hello" => Letter(s.pc) = ">"
         /\ s.pc = "loadPage" => Letter(s.pc) = "r"
         /\ s.pc = "fetch" => Letter(s.pc) = "l"
         /\ Letter(s.pc) \in Valued
<1>1. s.pc \in {"hello", "loadPage", "fetch"} /\ s.pc \notin Final
  BY DEF Exchanges, Final
<1> QED BY <1>1 DEF Letter, Valued

LEMMA OnPageSends ==
  ASSUME NEW s, NEW ans, NEW com, IsSeq(com), OnPage(s, ans, com), s.stage = "send",
         NEW cmd, s.pc = "hello" => cmd.letter = ">",
         NEW t, t.pc = s.pc, t.stage = "wait", t.sector = s.sector, t.page = s.page
  PROVE  OnPage(t, ans, Append(com, cmd))
<1>1. CASE s.pc = "hello"
  <2>1. All(ans, com, {}) /\ s.page = 0
    BY <1>1 DEF OnPage, AtHello
  <2>2. All(ans, Append(com, cmd), {">"}) /\ No(ans, Append(com, cmd), {">"}, {">"})
    BY <1>1, <2>1, AllSend, NoFirst
  <2> QED BY <2>2 DEF OnPage, AtHello
<1>2. CASE s.pc # "hello"
  BY <1>2 DEF OnPage
<1> QED BY <1>1, <1>2

LEMMA OnPageTakes ==
  ASSUME NEW s, NEW ans, IsSeq(ans), ans # <<>>, NEW com, OnPage(s, ans, com), s.stage = "wait",
         s.pc = "hello" => IsSign(Head(ans), {">"}),
         NEW t, t.pc = s.pc, t.stage = "value", t.sector = s.sector, t.page = s.page
  PROVE  OnPage(t, Tail(ans), com)
<1>1. CASE s.pc = "hello"
  <2>1. All(ans, com, {">"}) /\ No(ans, com, {">"}, {">"}) /\ s.page = 0
    BY <1>1 DEF OnPage, AtHello
  <2>2. All(Tail(ans), com, {">"} \ {">"})
    BY <1>1, <2>1, Drained
  <2>3. {">"} \ {">"} = {}
    OBVIOUS
  <2>4. All(Tail(ans), com, {})
    BY <2>2, <2>3
  <2> QED BY <2>4 DEF OnPage, AtHello
<1>2. CASE s.pc # "hello"
  BY <1>2 DEF OnPage
<1> QED BY <1>1, <1>2

LEMMA OnPageDrops ==
  ASSUME NEW s, NEW ans, IsSeq(ans), NEW com, OnPage(s, ans, com), NEW b, NEW d, Shifted(ans, b, d)
  PROVE  OnPage(s, b, com)
<1>1. \A S : All(ans, com, S) => All(b, com, S)
  BY AllShift
<1>2. \A X, Y : No(ans, com, X, Y) => No(b, com, X, Y)
  BY NoShift
<1>3. AtHello(s, ans, com) => AtHello(s, b, com)
  BY <1>1, <1>2, Zenon DEF AtHello
<1> QED BY <1>3 DEF OnPage

LEMMA OnPageExecuted ==
  ASSUME NEW s, NEW ans, IsSeq(ans), NEW com, IsSeq(com), com # <<>>, OnPage(s, ans, com),
         NEW b, Extended(ans, b, Head(com).letter)
  PROVE  OnPage(s, b, Tail(com))
<1>1. IsSeq(b) /\ Answered(ans, b, Head(com).letter)
  BY DEF Extended
<1>2. \A S : All(ans, com, S) => All(b, Tail(com), S)
  BY <1>1, AllExecuted
<1>3. \A X, Y : No(ans, com, X, Y) => No(b, Tail(com), X, Y)
  BY <1>1, NoExecuted
<1>4. AtHello(s, ans, com) => AtHello(s, b, Tail(com))
  BY <1>2, <1>3, Zenon DEF AtHello
<1> QED BY <1>4 DEF OnPage

LEMMA ReadSends ==
  ASSUME NEW r \in Requests, NEW s, Within(s, r), NEW ans, IsSeq(ans), NEW com, IsSeq(com), NEW fl,
         NEW n \in Nat, Read(s, r, ans, com, fl, n), s.pc \in Exchanges, s.stage = "send",
         NEW cmd, cmd = [letter |-> Letter(s.pc), arg |-> Argument(s)],
         NEW t, t = [s EXCEPT !.stage = "wait"]
  PROVE  Read(t, r, ans, Append(com, cmd), fl, n)
<1> DEFINE new == Append(com, cmd)
<1>1. /\ s.sector = 0 /\ s.page \in Nat /\ OnPage(s, ans, com) /\ ReadsPage(s, ans, com, fl, n)
      /\ s.pc \in {"hello", "loadPage", "fetch"} \cup Final
  BY DEF Read, OnPage
<1>2. /\ DOMAIN s = Fields
      /\ t.pc = s.pc /\ t.stage = "wait" /\ t.sector = s.sector /\ t.page = s.page
      /\ t.offset = s.offset /\ t.crc_list = s.crc_list /\ t.crc = s.crc /\ t.file = s.file
  BY <1>1, PageAt, StageFacts DEF Results
<1>3. page_index(t) = page_index(s) /\ Here(t, fl) = Here(s, fl)
  BY <1>2, SamePlace
<1>4. /\ s.pc \in {"hello", "loadPage", "fetch"} /\ cmd.letter = Letter(s.pc)
      /\ s.pc = "hello" => cmd.letter = ">"
      /\ s.pc = "loadPage" => cmd.letter = "r" /\ cmd.arg = page_index(s)
      /\ s.pc = "fetch" => cmd.letter = "l"
  BY <1>1, ReadExchanges DEF Argument
<1>5. /\ Len(com) \in Nat /\ Len(new) = Len(com) + 1
      /\ \A i \in 1 .. Len(com) : new[i] = com[i]
      /\ new[Len(com) + 1] = cmd
  BY AppendFacts, SeqFacts
<1> HIDE DEF new
<1>6. CASE s.pc = "hello"
  <2>1. All(ans, com, {}) /\ s.page = 0
    BY <1>1, <1>6 DEF OnPage, AtHello
  <2>2. All(ans, new, {">"}) /\ No(ans, new, {">"}, {">"})
    BY <1>4, <1>6, <2>1, AllSend, NoFirst DEF new
  <2>3. OnPage(t, ans, new) /\ ReadsPage(t, ans, new, fl, n)
    BY <1>1, <1>2, <1>6, <2>1, <2>2 DEF OnPage, AtHello, ReadsPage
  <2> QED BY <1>2, <2>3 DEF Read, new
<1>7. CASE s.pc = "loadPage"
  <2>1. /\ All(ans, com, {"r", "l"}) /\ No(ans, com, {"r"}, {"l"}) /\ Asked(page_index(s), com)
        /\ s.crc_list # {} => All(ans, com, {"r"})
        /\ Once(s.crc_list, s.stage, ans, Here(s, fl), n)
    BY <1>1, <1>7 DEF ReadsPage
  <2>2. All(ans, new, {"r", "l"}) /\ No(ans, new, {"r"}, {"l"})
    BY <1>4, <1>7, <2>1, AllSend, NoSend DEF new
  <2>3. s.crc_list # {} => All(ans, new, {"r"})
    BY <1>4, <1>7, <2>1, AllSend DEF new
  <2>4. Asked(page_index(s), new)
    <3>1. \A i \in 1 .. Len(com) + 1 : i \in 1 .. Len(com) \/ i = Len(com) + 1
      BY <1>5
    <3> QED BY <1>4, <1>5, <1>7, <2>1, <3>1 DEF Asked
  <2>5. Once(s.crc_list, "wait", ans, Here(s, fl), n)
    BY <2>1, ShiftNone, NotedNone, OnceShift DEF Opens
  <2>6. ReadsPage(t, ans, new, fl, n)
    BY <1>2, <1>3, <1>7, <2>2, <2>3, <2>4, <2>5 DEF ReadsPage
  <2>7. OnPage(t, ans, new)
    BY <1>1, <1>2, <1>7 DEF OnPage
  <2> QED BY <1>2, <2>6, <2>7 DEF Read, new
<1>8. CASE s.pc = "fetch"
  <2>1. s.crc # None => s.crc = Here(s, fl) /\ All(ans, com, {"r", "l"}) /\ No(ans, com, {"l"}, {"r"})
    BY <1>1, <1>8 DEF ReadsPage
  <2>2. s.crc # None => All(ans, new, {"r", "l"}) /\ No(ans, new, {"l"}, {"r"})
    BY <1>4, <1>8, <2>1, AllSend, NoSend DEF new
  <2>3. ReadsPage(t, ans, new, fl, n)
    BY <1>2, <1>3, <1>8, <2>1, <2>2 DEF ReadsPage
  <2>4. OnPage(t, ans, new)
    BY <1>1, <1>2, <1>8 DEF OnPage
  <2> QED BY <1>2, <2>3, <2>4 DEF Read, new
<1> QED BY <1>4, <1>6, <1>7, <1>8

LEMMA ReadTakes ==
  ASSUME NEW r \in Requests, NEW s, Within(s, r), NEW ans, IsSeq(ans), ans # <<>>, NEW com, NEW fl,
         NEW n \in Nat, Read(s, r, ans, com, fl, n), s.pc \in Exchanges, s.stage = "wait",
         IsSign(Head(ans), {Letter(s.pc)}), NEW t, t = [s EXCEPT !.stage = "value"]
  PROVE  Read(t, r, Tail(ans), com, fl, n)
<1> DEFINE b == Tail(ans)
<1>1. /\ s.sector = 0 /\ s.page \in Nat /\ OnPage(s, ans, com) /\ ReadsPage(s, ans, com, fl, n)
      /\ s.pc \in {"hello", "loadPage", "fetch"} \cup Final
  BY DEF Read, OnPage
<1>2. /\ DOMAIN s = Fields
      /\ t.pc = s.pc /\ t.stage = "value" /\ t.sector = s.sector /\ t.page = s.page
      /\ t.offset = s.offset /\ t.crc_list = s.crc_list /\ t.crc = s.crc /\ t.file = s.file
  BY <1>1, PageAt, StageFacts DEF Results
<1>3. page_index(t) = page_index(s) /\ Here(t, fl) = Here(s, fl)
  BY <1>2, SamePlace
<1>4. /\ s.pc \in {"hello", "loadPage", "fetch"}
      /\ s.pc = "hello" => IsSign(Head(ans), {">"})
      /\ s.pc = "loadPage" => IsSign(Head(ans), {"r"})
      /\ s.pc = "fetch" => IsSign(Head(ans), {"l"})
  BY <1>1, ReadExchanges
<1>5. Shifted(ans, b, 1) /\ Head(ans) = ans[1]
  BY ShiftTail
<1> HIDE DEF b
<1>6. CASE s.pc = "hello"
  <2>1. All(ans, com, {">"}) /\ No(ans, com, {">"}, {">"}) /\ s.page = 0
    BY <1>1, <1>6 DEF OnPage, AtHello
  <2>2. All(b, com, {})
    <3>1. All(b, com, {">"} \ {">"})
      BY <1>4, <1>6, <2>1, Drained DEF b
    <3>2. {">"} \ {">"} = {}
      OBVIOUS
    <3> QED BY <3>1, <3>2
  <2>3. OnPage(t, b, com) /\ ReadsPage(t, b, com, fl, n)
    BY <1>1, <1>2, <1>6, <2>1, <2>2 DEF OnPage, AtHello, ReadsPage
  <2> QED BY <1>2, <2>3 DEF Read, b
<1>7. CASE s.pc = "loadPage"
  <2>1. /\ All(ans, com, {"r", "l"}) /\ No(ans, com, {"r"}, {"l"}) /\ Asked(page_index(s), com)
        /\ Once(s.crc_list, s.stage, ans, Here(s, fl), n)
    BY <1>1, <1>7 DEF ReadsPage
  <2>2. All(b, com, {"r"})
    <3>1. All(b, com, {"r", "l"} \ {"l"})
      BY <1>4, <1>7, <2>1, Drained DEF b
    <3> QED BY <3>1, AllMore
  <2>3. All(b, com, {"r", "l"}) /\ No(b, com, {"r"}, {"l"})
    BY <2>2, AllMore, NoneOf
  <2>4. Once(s.crc_list, "value", b, Here(s, fl), n)
    <3>1. IsSign(ans[1], {"r"})
      BY <1>4, <1>5, <1>7
    <3> QED BY <1>5, <2>1, <3>1, NotedNone, OnceShift DEF Opens
  <2>5. ReadsPage(t, b, com, fl, n)
    BY <1>2, <1>3, <1>7, <2>1, <2>2, <2>3, <2>4 DEF ReadsPage
  <2>6. OnPage(t, b, com)
    BY <1>1, <1>2, <1>7 DEF OnPage
  <2> QED BY <1>2, <2>5, <2>6 DEF Read, b
<1>8. CASE s.pc = "fetch"
  <2>1. s.crc # None => s.crc = Here(s, fl) /\ All(ans, com, {"r", "l"}) /\ No(ans, com, {"l"}, {"r"})
    BY <1>1, <1>8 DEF ReadsPage
  <2>2. ASSUME s.crc # None
        PROVE  All(b, com, {"l"})
    <3>1. All(b, com, {"r", "l"} \ {"r"})
      BY <1>4, <1>8, <2>1, <2>2, Drained DEF b
    <3> QED BY <3>1, AllMore
  <2>3. s.crc # None => All(b, com, {"r", "l"}) /\ No(b, com, {"l"}, {"r"})
    BY <2>2, AllMore, NoneOf
  <2>4. ReadsPage(t, b, com, fl, n)
    BY <1>2, <1>3, <1>8, <2>1, <2>2, <2>3 DEF ReadsPage
  <2>5. OnPage(t, b, com)
    BY <1>1, <1>2, <1>8 DEF OnPage
  <2> QED BY <1>2, <2>4, <2>5 DEF Read, b
<1> QED BY <1>4, <1>6, <1>7, <1>8

LEMMA ReadDrops ==
  ASSUME NEW r \in Requests, NEW s, NEW ans, IsSeq(ans), NEW com, NEW fl,
         NEW n \in Nat, Read(s, r, ans, com, fl, n), s.stage # "value", NEW b, NEW d, Shifted(ans, b, d)
  PROVE  Read(s, r, b, com, fl, n)
<1>1. OnPage(s, ans, com) /\ ReadsPage(s, ans, com, fl, n)
  BY DEF Read
<1>2. OnPage(s, b, com)
  BY <1>1, OnPageDrops
<1>3. ASSUME s.pc = "loadPage"
      PROVE  /\ All(b, com, {"r", "l"}) /\ No(b, com, {"r"}, {"l"}) /\ Asked(page_index(s), com)
             /\ s.crc_list # {} => All(b, com, {"r"})
             /\ Once(s.crc_list, s.stage, b, Here(s, fl), n)
  <2>1. /\ All(ans, com, {"r", "l"}) /\ No(ans, com, {"r"}, {"l"}) /\ Asked(page_index(s), com)
        /\ s.crc_list # {} => All(ans, com, {"r"})
        /\ Once(s.crc_list, s.stage, ans, Here(s, fl), n)
    BY <1>1, <1>3 DEF ReadsPage
  <2>2. Once(s.crc_list, s.stage, b, Here(s, fl), n)
    BY <2>1, NotedNone, OnceShift DEF Opens
  <2> QED BY <2>1, <2>2, AllShift, NoShift
<1>4. ASSUME s.pc = "fetch", s.crc # None
      PROVE  s.crc = Here(s, fl) /\ All(b, com, {"r", "l"}) /\ No(b, com, {"l"}, {"r"})
  <2>1. s.crc = Here(s, fl) /\ All(ans, com, {"r", "l"}) /\ No(ans, com, {"l"}, {"r"})
    BY <1>1, <1>4 DEF ReadsPage
  <2> QED BY <2>1, AllShift, NoShift
<1>5. ReadsPage(s, b, com, fl, n)
  BY <1>3, <1>4 DEF ReadsPage
<1> QED BY <1>2, <1>5 DEF Read


LEMMA ReadOver ==
  ASSUME NEW r, NEW s, NEW ans, NEW com, NEW fl, NEW n, Read(s, r, ans, com, fl, n),
         NEW t, Stands(s, t), t.file = s.file, t.pc \in Final, NEW b, NEW m
  PROVE  Read(t, r, b, com, fl, m)
<1>1. t.pc \notin {"hello", "loadPage", "fetch"}
  BY DEF Final
<1> QED BY <1>1 DEF Read, OnPage, ReadsPage, Stands

LEMMA ReadHelloEnds ==
  ASSUME NEW r \in Requests, r.command = "read", NEW s, Within(s, r), NEW ans, IsSeq(ans), NEW com,
         NEW fl, NEW n \in Nat, Read(s, r, ans, com, fl, n), s.pc = "hello",
         NEW b, NEW d, Shifted(ans, b, d), NEW m, NEW ok \in BOOLEAN, NEW v,
         ok => s.stage = "value", NEW t, t = Ended(s, r, ok, v)
  PROVE  Read(t, r, b, com, fl, m)
<1>1. /\ s.sector = 0 /\ s.page = 0 /\ AtHello(s, ans, com) /\ IsSeq(b)
      /\ IsSeq(s.file) /\ Len(s.file) = s.page
      /\ \A i \in 1 .. Len(s.file) : s.file[i] = fl[r.offset + i - 1]
  BY DEF Read, OnPage, Shifted, Final
<1>2. /\ Stands(s, t) /\ t.file = s.file
      /\ t.pc \in Final \/ (ok /\ t.pc = "loadPage" /\ t.crc_list = {})
  BY HelloGoesOn DEF Within, Results
<1>3. CASE t.pc \in Final
  BY <1>2, <1>3, ReadOver
<1>4. CASE ok /\ t.pc = "loadPage" /\ t.crc_list = {}
  <2>1. All(ans, com, {})
    BY <1>1, <1>4 DEF AtHello
  <2>2. All(b, com, {})
    BY <2>1, AllShift
  <2>3. All(b, com, {"r", "l"}) /\ All(b, com, {"r"}) /\ No(b, com, {"r"}, {"l"})
    BY <2>2, AllMore, NoneOf
  <2>4. t.stage = "send"
    BY <1>2 DEF Stands
  <2>5. Heard("send", b) = {} /\ \A page : Asked(page, com)
    BY <1>1, <2>2, HeardNone
  <2>6. Once({}, "send", b, Here(t, fl), m)
    BY <2>5, Unheard
  <2>7. ReadsPage(t, b, com, fl, m)
    BY <1>4, <2>3, <2>4, <2>5, <2>6 DEF ReadsPage
  <2>8. OnPage(t, b, com)
    <3>1. t.sector = 0 /\ t.page = 0 /\ t.pc = "loadPage"
      BY <1>1, <1>2, <1>4 DEF Stands
    <3> QED BY <3>1 DEF OnPage
  <2> QED BY <1>1, <1>2, <2>7, <2>8 DEF Read, Stands
<1> QED BY <1>2, <1>3, <1>4

LEMMA ReadLoadEnds ==
  ASSUME NEW r \in Requests, r.command = "read", NEW s, Within(s, r), NEW ans, IsSeq(ans), NEW com,
         NEW fl, NEW n \in Nat, Read(s, r, ans, com, fl, n), s.pc = "loadPage",
         NEW b, NEW d, Shifted(ans, b, d), NEW m \in {n, n + 1}, NEW ok \in BOOLEAN, NEW v,
         ok => s.stage = "value" /\ d = 1 /\ ans # <<>> /\ IsValue(ans[1]) /\ v = ans[1].of,
         NEW t, t = Ended(s, r, ok, v)
  PROVE  Read(t, r, b, com, fl, m)
<1> DEFINE crc == IF ok THEN v ELSE None
<1>1. /\ s.sector = 0 /\ s.page \in Nat
      /\ IsSeq(s.file) /\ Len(s.file) = s.page
      /\ \A i \in 1 .. Len(s.file) : s.file[i] = fl[r.offset + i - 1]
  BY DEF Read, OnPage, Final
<1>2. /\ All(ans, com, {"r", "l"}) /\ No(ans, com, {"r"}, {"l"}) /\ Asked(page_index(s), com)
      /\ s.crc_list # {} \/ s.stage = "value" => All(ans, com, {"r"})
      /\ Once(s.crc_list, s.stage, ans, Here(s, fl), n)
  BY DEF Read, ReadsPage
<1>3. t = loadPageMultiple(s, r, crc)
  BY DEF Ended
<1>4. ASSUME crc # None
      PROVE  ok /\ s.stage = "value" /\ 1 \in Heard(s.stage, ans) /\ crc = ans[1].of
  <2>1. ok /\ s.stage = "value" /\ ans # <<>> /\ IsValue(ans[1]) /\ crc = ans[1].of
    BY <1>4
  <2>2. 1 \in 1 .. Len(ans)
    BY <2>1, ShiftTail
  <2> QED BY <2>1, <2>2 DEF Heard
<1> HIDE DEF crc
<1>5. \/ Stands(s, t) /\ Results(s, t) /\ t.pc = "aborted"
      \/ /\ Stands(s, t) /\ Results(s, t) /\ t.pc = "loadPage"
         /\ t.crc_list = s.crc_list \cup ({crc} \ {None})
      \/ /\ Stands(s, t) /\ Results(s, t) /\ t.pc = "fetch"
         /\ t.crc = None \/ (t.crc = crc /\ crc \in s.crc_list)
  BY <1>3, LoadGoesOn DEF Within
<1>6. CASE Stands(s, t) /\ Results(s, t) /\ t.pc = "aborted"
  BY <1>6, ReadOver DEF Results, Final
<1>7. ASSUME Stands(s, t), Results(s, t), t.pc \in {"loadPage", "fetch"}, ReadsPage(t, b, com, fl, m)
      PROVE  Read(t, r, b, com, fl, m)
  <2>1. OnPage(t, b, com)
    BY <1>1, <1>7 DEF OnPage, Stands
  <2> QED BY <1>1, <1>7, <2>1 DEF Read, Stands, Results
<1>8. CASE /\ Stands(s, t) /\ Results(s, t) /\ t.pc = "loadPage"
           /\ t.crc_list = s.crc_list \cup ({crc} \ {None})
  <2>1. page_index(t) = page_index(s) /\ Here(t, fl) = Here(s, fl) /\ t.stage = "send"
    BY <1>8, SamePlace DEF Stands
  <2>2. All(b, com, {"r", "l"}) /\ No(b, com, {"r"}, {"l"})
    BY <1>2, AllShift, NoShift
  <2>3. t.crc_list # {} => All(b, com, {"r"})
    <3>1. t.crc_list # {} => s.crc_list # {} \/ crc # None
      BY <1>8
    <3> QED BY <1>2, <1>4, <3>1, AllShift
  <2>4. Noted(s.crc_list, s.stage, ans, t.crc_list)
    BY <1>4, <1>8 DEF Noted
  <2>5. Once(t.crc_list, "send", b, Here(s, fl), m)
    BY <1>2, <2>4, OnceShift DEF Opens
  <2>6. ReadsPage(t, b, com, fl, m)
    BY <1>2, <1>8, <2>1, <2>2, <2>3, <2>5 DEF ReadsPage
  <2> QED BY <1>7, <1>8, <2>6
<1>9. CASE /\ Stands(s, t) /\ Results(s, t) /\ t.pc = "fetch"
           /\ t.crc = None \/ (t.crc = crc /\ crc \in s.crc_list)
  <2>1. Here(t, fl) = Here(s, fl) /\ t.stage = "send"
    BY <1>9, SamePlace DEF Stands
  <2>2. ASSUME t.crc # None
        PROVE  t.crc = Here(s, fl) /\ All(b, com, {"r"})
    <3>1. t.crc = crc /\ crc \in s.crc_list /\ crc # None
      BY <1>9, <2>2
    <3>2. 1 \in Heard(s.stage, ans) /\ ans[1].of = crc
      BY <1>4, <3>1
    <3>3. crc = Here(s, fl)
      BY <1>2, <3>1, <3>2 DEF Once
    <3> QED BY <1>2, <3>1, <3>3, AllShift
  <2>3. t.crc # None => All(b, com, {"r", "l"}) /\ No(b, com, {"l"}, {"r"})
    BY <2>2, AllMore, NoneOf
  <2>4. ReadsPage(t, b, com, fl, m)
    BY <1>9, <2>1, <2>2, <2>3 DEF ReadsPage
  <2> QED BY <1>7, <1>9, <2>4
<1> QED BY <1>5, <1>6, <1>8, <1>9

LEMMA ReadFetchEnds ==
  ASSUME NEW r \in Requests, r.command = "read", NEW s, Within(s, r), NEW ans, IsSeq(ans), NEW com,
         NEW fl, NEW n \in Nat, Read(s, r, ans, com, fl, n), s.pc = "fetch",
         NEW b, NEW d, Shifted(ans, b, d), NEW m, NEW ok \in BOOLEAN, NEW v,
         ok => s.stage = "value", NEW t, t = Ended(s, r, ok, v)
  PROVE  Read(t, r, b, com, fl, m)
<1> DEFINE content == IF ok THEN v ELSE None
<1>1. /\ s.sector = 0 /\ s.page \in Nat /\ IsSeq(b)
      /\ IsSeq(s.file) /\ Len(s.file) = s.page
      /\ \A i \in 1 .. Len(s.file) : s.file[i] = fl[r.offset + i - 1]
  BY DEF Read, OnPage, Shifted, Final
<1>2. s.crc # None =>
        /\ s.crc = Here(s, fl) /\ All(ans, com, {"r", "l"}) /\ No(ans, com, {"l"}, {"r"})
        /\ s.stage = "value" => All(ans, com, {"l"})
  BY DEF Read, ReadsPage
<1>3. t = readPage(s, r, content) /\ (content # None => s.stage = "value")
  BY DEF Ended
<1> HIDE DEF content
<1>4. \/ /\ content # None /\ content = s.crc /\ Turns(s, t)
         /\ t.file = Append(s.file, content)
      \/ Stands(s, t) /\ t.file = s.file /\ t.pc = "fetch" /\ t.crc = s.crc
      \/ Stands(s, t) /\ t.file = s.file /\ t.pc = "aborted"
  BY <1>3, FetchGoesOn DEF Within, Results
<1>5. CASE Stands(s, t) /\ t.file = s.file /\ t.pc = "aborted"
  BY <1>5, ReadOver DEF Final
<1>6. CASE Stands(s, t) /\ t.file = s.file /\ t.pc = "fetch" /\ t.crc = s.crc
  <2>1. Here(t, fl) = Here(s, fl) /\ t.stage = "send"
    BY <1>6, SamePlace DEF Stands
  <2>2. s.crc # None => All(b, com, {"r", "l"}) /\ No(b, com, {"l"}, {"r"})
    BY <1>2, AllShift, NoShift
  <2>3. ReadsPage(t, b, com, fl, m)
    BY <1>2, <1>6, <2>1, <2>2 DEF ReadsPage
  <2>4. OnPage(t, b, com)
    BY <1>1, <1>6 DEF OnPage, Stands
  <2> QED BY <1>1, <1>6, <2>3, <2>4 DEF Read, Stands
<1>7. CASE content # None /\ content = s.crc /\ Turns(s, t) /\ t.file = Append(s.file, content)
  <2>1. content = Here(s, fl) /\ All(ans, com, {"l"})
    BY <1>2, <1>3, <1>7
  <2>2. All(b, com, {"l"})
    BY <2>1, AllShift
  <2>3. All(b, com, {"r", "l"}) /\ No(b, com, {"r"}, {"l"})
    BY <2>2, AllMore, NoneOf
  <2>4. Heard("send", b) = {} /\ \A page : Asked(page, com)
    BY <1>1, <2>2, HeardNone
  <2>5. Once({}, "send", b, Here(t, fl), m)
    BY <2>4, Unheard
  <2>6. /\ t.stage = "send" /\ t.sector = 0
        /\ (t.pc = "done" /\ t.page = s.page) \/ (t.pc = "loadPage" /\ t.page = s.page + 1 /\ t.crc_list = {})
    BY <1>1, <1>7 DEF Turns
  <2>7. ReadsPage(t, b, com, fl, m)
    BY <2>3, <2>4, <2>5, <2>6 DEF ReadsPage
  <2>8. OnPage(t, b, com)
    BY <1>1, <2>6 DEF OnPage, Final
  <2>9. /\ IsSeq(t.file) /\ Len(t.file) = s.page + 1
        /\ \A i \in 1 .. s.page : t.file[i] = s.file[i]
        /\ t.file[s.page + 1] = content
    BY <1>1, <1>7, AppendFacts
  <2>10. Here(s, fl) = fl[r.offset + s.page] /\ r.offset \in Nat
    BY <1>1, PageAt DEF Here
  <2>11. ASSUME NEW i \in 1 .. Len(t.file)
         PROVE  t.file[i] = fl[r.offset + i - 1]
    <3>1. CASE i \in 1 .. s.page
      BY <1>1, <2>9, <3>1
    <3>2. CASE i = s.page + 1
      <4>1. r.offset + i - 1 = r.offset + s.page
        BY <1>1, <2>10, <3>2
      <4> QED BY <2>1, <2>9, <2>10, <3>2, <4>1
    <3> QED BY <1>1, <2>9, <3>1, <3>2
  <2>12. t.pc \notin Final => Len(t.file) = t.page
    BY <2>6, <2>9 DEF Final
  <2> QED BY <2>7, <2>8, <2>9, <2>11, <2>12 DEF Read
<1> QED BY <1>4, <1>5, <1>6, <1>7

\* An exchange of a read ends, with its value or without.
LEMMA ReadEnds ==
  ASSUME NEW r \in Requests, r.command = "read", NEW s, Within(s, r), NEW ans, IsSeq(ans), NEW com,
         NEW fl, NEW n \in Nat, Read(s, r, ans, com, fl, n), s.pc \in Exchanges,
         NEW b, NEW d, Shifted(ans, b, d), NEW m \in {n, n + 1}, NEW ok \in BOOLEAN, NEW v,
         ok => s.stage = "value" /\ d = 1 /\ ans # <<>> /\ IsValue(ans[1]) /\ v = ans[1].of,
         NEW t, t = Ended(s, r, ok, v)
  PROVE  Read(t, r, b, com, fl, m)
<1>1. s.pc \in {"hello", "loadPage", "fetch"}
  BY ReadExchanges DEF Read, OnPage
<1>2. CASE s.pc = "hello"
  BY <1>2, ReadHelloEnds
<1>3. CASE s.pc = "loadPage"
  BY <1>3, ReadLoadEnds
<1>4. CASE s.pc = "fetch"
  BY <1>4, ReadFetchEnds
<1> QED BY <1>1, <1>2, <1>3, <1>4

LEMMA AskedTail ==
  ASSUME NEW com, IsSeq(com), com # <<>>, NEW page, Asked(page, com)
  PROVE  Asked(page, Tail(com)) /\ (Head(com).letter = "r" => Head(com).arg = page)
<1>1. /\ Len(Tail(com)) = Len(com) - 1 /\ Len(com) \in Nat /\ Len(com) >= 1 /\ Head(com) = com[1]
      /\ \A i \in 1 .. Len(com) - 1 : Tail(com)[i] = com[i + 1]
  BY TailFacts, SeqFacts
<1>2. 1 \in 1 .. Len(com) /\ \A i \in 1 .. Len(com) - 1 : i + 1 \in 1 .. Len(com)
  BY <1>1
<1> QED BY <1>1, <1>2 DEF Asked

\* The board answers, or not.
LEMMA ReadExecuted ==
  ASSUME NEW r, NEW s, NEW ans, IsSeq(ans), NEW com, IsSeq(com), com # <<>>,
         NEW fl, NEW n \in Nat, Read(s, r, ans, com, fl, n), NEW m \in {n, n + 1},
         NEW b, Extended(ans, b, Head(com).letter),
         Head(com).letter = "r" /\ Len(b) = Len(ans) + 2 =>
           \/ b[Len(ans) + 2].of = fl[Head(com).arg]
           \/ m = n + 1 /\ b[Len(ans) + 2].of = Garbage(n + 1)
  PROVE  Read(s, r, b, Tail(com), fl, m)
<1>1. /\ OnPage(s, ans, com) /\ ReadsPage(s, ans, com, fl, n)
      /\ IsSeq(b) /\ Answered(ans, b, Head(com).letter)
  BY DEF Read, Extended
<1>2. \A S : All(ans, com, S) => All(b, Tail(com), S)
  BY <1>1, AllExecuted
<1>3. \A X, Y : No(ans, com, X, Y) => No(b, Tail(com), X, Y)
  BY <1>1, NoExecuted
<1>4. OnPage(s, b, Tail(com))
  BY <1>1, OnPageExecuted
<1>5. ASSUME s.pc = "loadPage"
      PROVE  /\ All(b, Tail(com), {"r", "l"}) /\ No(b, Tail(com), {"r"}, {"l"})
             /\ Asked(page_index(s), Tail(com))
             /\ s.crc_list # {} \/ s.stage = "value" => All(b, Tail(com), {"r"})
             /\ Once(s.crc_list, s.stage, b, Here(s, fl), m)
  <2>1. /\ All(ans, com, {"r", "l"}) /\ No(ans, com, {"r"}, {"l"}) /\ Asked(page_index(s), com)
        /\ s.crc_list # {} \/ s.stage = "value" => All(ans, com, {"r"})
        /\ Once(s.crc_list, s.stage, ans, Here(s, fl), n)
    BY <1>1, <1>5 DEF ReadsPage
  <2>2. Asked(page_index(s), Tail(com)) /\ (Head(com).letter = "r" => Head(com).arg = page_index(s))
    BY <2>1, AskedTail
  <2>3. Once(s.crc_list, s.stage, b, Here(s, fl), m)
    <3> DEFINE F == Here(s, fl)
    <3>1. Head(com).letter = "r" /\ Len(b) = Len(ans) + 2 =>
            b[Len(ans) + 2].of = F \/ (m = n + 1 /\ b[Len(ans) + 2].of = Garbage(n + 1))
      BY <2>2 DEF Here
    <3> HIDE DEF F
    <3>2. Once(s.crc_list, s.stage, ans, F, n)
      BY <2>1 DEF F
    <3>3. Once(s.crc_list, s.stage, b, F, m)
      BY <3>1, <3>2, OnceMore
    <3> QED BY <3>3 DEF F
  <2> QED BY <1>2, <1>3, <2>1, <2>2, <2>3
<1>6. ASSUME s.pc = "fetch", s.crc # None
      PROVE  /\ s.crc = Here(s, fl) /\ All(b, Tail(com), {"r", "l"}) /\ No(b, Tail(com), {"l"}, {"r"})
             /\ s.stage = "value" => All(b, Tail(com), {"l"})
  <2>1. /\ s.crc = Here(s, fl) /\ All(ans, com, {"r", "l"}) /\ No(ans, com, {"l"}, {"r"})
        /\ s.stage = "value" => All(ans, com, {"l"})
    BY <1>1, <1>6 DEF ReadsPage
  <2> QED BY <1>2, <1>3, <2>1
<1>7. ReadsPage(s, b, Tail(com), fl, m)
  BY <1>5, <1>6 DEF ReadsPage
<1> QED BY <1>4, <1>7 DEF Read

-----------------------------------------------------------------------------
(* The steps of a verify.                                                  *)

\* The two counts of a page.
Counts(s, ans, com, fl, waits, n) ==
  /\ All(ans, com, {"r"}) /\ IsFiniteSet(s.crc_list)
  /\ Cardinality(Pending(ans, com)) <= waits
  /\ Cardinality(Wrong(s.stage, ans, com, page_index(s), Here(s, fl)))
       + Cardinality(s.crc_list \ {Here(s, fl)}) <= n

LEMMA CountsPage ==
  ASSUME NEW s, NEW ans, NEW com, NEW fl, NEW n, s.pc = "loadPage"
  PROVE  /\ VerifiesPage(s, ans, com, fl, n) /\ s.stage = "wait" => Counts(s, ans, com, fl, n + 1, n)
         /\ Counts(s, ans, com, fl, n + 1, n) /\ s.stage = "wait" => VerifiesPage(s, ans, com, fl, n)
         /\ VerifiesPage(s, ans, com, fl, n) /\ s.stage # "wait" => Counts(s, ans, com, fl, n, n)
         /\ Counts(s, ans, com, fl, n, n) /\ s.stage # "wait" => VerifiesPage(s, ans, com, fl, n)
BY DEF Counts, VerifiesPage

SameCount(s, t, fl) ==
  t.crc_list = s.crc_list /\ page_index(t) = page_index(s) /\ Here(t, fl) = Here(s, fl)

LEMMA CountsShift ==
  ASSUME NEW s, NEW ans, IsSeq(ans), NEW b, NEW d, Shifted(ans, b, d), NEW com, IsSeq(com), NEW fl,
         NEW waits \in Nat, NEW n \in Nat, Counts(s, ans, com, fl, waits, n),
         NEW t, SameCount(s, t, fl), Opens(t.stage, d, ans)
  PROVE  /\ Counts(t, b, com, fl, waits, n)
         /\ d = 1 /\ IsSign(ans[1], {"r"}) => Cardinality(Pending(b, com)) + 1 <= waits
<1> DEFINE page == page_index(s)
           F == Here(s, fl)
           stage == s.stage
           stage2 == t.stage
           p == Cardinality(Pending(ans, com))
           p2 == Cardinality(Pending(b, com))
           w == Cardinality(Wrong(stage, ans, com, page, F))
           w2 == Cardinality(Wrong(stage2, b, com, page, F))
           l == Cardinality(s.crc_list \ {F})
<1>1. IsSeq(b)
  BY DEF Shifted
<1>2. /\ IsFiniteSet(s.crc_list) /\ All(ans, com, {"r"}) /\ p <= waits /\ w + l <= n
  BY DEF Counts
<1>3. p \in Nat /\ p2 \in Nat /\ w \in Nat /\ w2 \in Nat
  BY <1>1, Counted
<1>4. l \in Nat
  BY <1>2, FS_Difference, FS_CardinalityType
<1>5. p2 <= p /\ (d = 1 /\ IsSign(ans[1], {"r"}) => p2 + 1 <= p)
  BY PendingShift
<1>6. w2 <= w
  <2>1. Opens(stage2, d, ans)
    OBVIOUS
  <2> HIDE DEF page, F, stage, stage2
  <2> QED BY <2>1, WrongShift
<1>7. All(b, com, {"r"})
  BY <1>2, AllShift
<1> HIDE DEF p, p2, w, w2, l
<1>8. p2 <= waits /\ w2 + l <= n /\ (p2 + 1 <= p => p2 + 1 <= waits)
  BY <1>2, <1>3, <1>4, <1>5, <1>6
<1> QED BY <1>2, <1>5, <1>7, <1>8 DEF Counts, SameCount, p2, w2, l

LEMMA VerifyExchanges ==
  ASSUME NEW r, r.command = "verify", NEW s, Within(s, r),
         s.pc \in {"hello", "loadPage", "fetch"} \cup Final, s.pc \in Exchanges
  PROVE  s.pc \in {"hello", "loadPage"}
BY ReadExchanges DEF Within

\* The verdicts, and what the stage of an exchange does not change.
LEMMA VerdictsKept ==
  ASSUME NEW r, NEW s, NEW ans, NEW com, NEW fl, NEW n \in Nat, NEW m \in {n, n + 1},
         Verified(s, r, ans, com, fl, n),
         NEW t, t.verdicts = s.verdicts, t.page = s.page, t.pc \in Final \/ s.pc \notin Final,
         NEW b, NEW com2, OnPage(t, b, com2),
         t.pc \in Exchanges => Plain(b), VerifiesPage(t, b, com2, fl, m)
  PROVE  Verified(t, r, b, com2, fl, m)
<1>1. m < 2 => n < 2
  OBVIOUS
<1>2. /\ IsSeq(s.verdicts) /\ (s.pc \notin Final => Len(s.verdicts) = s.page)
      /\ n < 2 => \A i \in 1 .. Len(s.verdicts) : s.verdicts[i] = (fl[r.offset + i - 1] = r.file[i])
  BY DEF Verified
<1>3. m < 2 => \A i \in 1 .. Len(s.verdicts) : s.verdicts[i] = (fl[r.offset + i - 1] = r.file[i])
  BY <1>1, <1>2
<1> QED BY <1>2, <1>3 DEF Verified

LEMMA VerifySends ==
  ASSUME NEW r \in Requests, r.command = "verify", NEW s, Within(s, r), NEW ans, IsSeq(ans),
         NEW com, IsSeq(com), NEW fl, NEW n \in Nat, Verified(s, r, ans, com, fl, n),
         s.pc \in Exchanges, s.stage = "send",
         NEW cmd, cmd = [letter |-> Letter(s.pc), arg |-> Argument(s)],
         NEW t, t = [s EXCEPT !.stage = "wait"]
  PROVE  Verified(t, r, ans, Append(com, cmd), fl, n)
<1> DEFINE new == Append(com, cmd)
<1>1. OnPage(s, ans, com) /\ VerifiesPage(s, ans, com, fl, n) /\ Plain(ans)
  BY DEF Verified
<1>2. /\ s.pc \in {"hello", "loadPage"} /\ s.pc \notin Final /\ DOMAIN s = Fields
      /\ s.pc = "hello" => cmd.letter = ">"
      /\ s.pc = "loadPage" => cmd.letter = "r" /\ cmd.arg = page_index(s)
  BY <1>1, VerifyExchanges, ReadExchanges DEF OnPage, Argument, Within
<1>3. /\ t.pc = s.pc /\ t.stage = "wait" /\ t.sector = s.sector /\ t.page = s.page
      /\ t.offset = s.offset /\ t.crc_list = s.crc_list /\ t.verdicts = s.verdicts
  BY <1>2, StageFacts DEF Results
<1>4. page_index(t) = page_index(s) /\ Here(t, fl) = Here(s, fl)
  BY <1>3, SamePlace
<1>5. OnPage(t, ans, new)
  BY <1>1, <1>2, <1>3, OnPageSends
<1>6. ASSUME s.pc = "loadPage"
      PROVE  Counts(t, ans, new, fl, n + 1, n)
  <2> DEFINE page == page_index(s)
             F == Here(s, fl)
             p == Cardinality(Pending(ans, com))
             p2 == Cardinality(Pending(ans, new))
             w == Cardinality(Wrong("send", ans, com, page, F))
             w2 == Cardinality(Wrong("wait", ans, new, page, F))
             l == Cardinality(s.crc_list \ {F})
  <2>1. /\ All(ans, com, {"r"}) /\ IsFiniteSet(s.crc_list) /\ p <= n /\ w + l <= n
    <3>1. Counts(s, ans, com, fl, n, n)
      BY <1>1, <1>6, CountsPage
    <3> QED BY <3>1 DEF Counts
  <2>2. IsSeq(new)
    BY AppendFacts
  <2>3. p \in Nat /\ p2 \in Nat /\ w \in Nat /\ w2 \in Nat
    BY <2>2, Counted
  <2>4. l \in Nat
    BY <2>1, FS_Difference, FS_CardinalityType
  <2>5. p2 <= p + 1
    BY PendingSend
  <2>6. w2 <= w
    BY <1>2, <1>6, WrongSend
  <2>7. All(ans, new, {"r"})
    BY <1>2, <1>6, <2>1, AllSend
  <2> HIDE DEF p, p2, w, w2, l
  <2>8. p2 <= n + 1 /\ w2 + l <= n
    BY <2>1, <2>3, <2>4, <2>5, <2>6
  <2> QED BY <1>3, <1>4, <2>1, <2>7, <2>8 DEF Counts, p2, w2, l
<1>7. VerifiesPage(t, ans, new, fl, n)
  <2>1. CASE s.pc = "loadPage"
    <3> HIDE DEF new
    <3> QED BY <1>3, <1>6, <2>1, CountsPage
  <2>2. CASE s.pc # "loadPage"
    BY <1>3, <2>2 DEF VerifiesPage
  <2> QED BY <2>1, <2>2
<1> HIDE DEF new
<1>8. Verified(t, r, ans, new, fl, n)
  BY <1>1, <1>2, <1>3, <1>5, <1>7, VerdictsKept
<1> QED BY <1>8 DEF new

LEMMA VerifyTakes ==
  ASSUME NEW r \in Requests, r.command = "verify", NEW s, Within(s, r), NEW ans, IsSeq(ans), ans # <<>>,
         NEW com, IsSeq(com), NEW fl, NEW n \in Nat, Verified(s, r, ans, com, fl, n),
         s.pc \in Exchanges, s.stage = "wait",
         IsSign(Head(ans), {Letter(s.pc)}), NEW t, t = [s EXCEPT !.stage = "value"]
  PROVE  Verified(t, r, Tail(ans), com, fl, n)
<1> DEFINE b == Tail(ans)
<1>1. OnPage(s, ans, com) /\ VerifiesPage(s, ans, com, fl, n) /\ Plain(ans)
  BY DEF Verified
<1>2. /\ s.pc \in {"hello", "loadPage"} /\ s.pc \notin Final /\ DOMAIN s = Fields
      /\ s.pc = "hello" => IsSign(Head(ans), {">"})
      /\ s.pc = "loadPage" => IsSign(Head(ans), {"r"})
  BY <1>1, VerifyExchanges, ReadExchanges DEF OnPage, Within
<1>3. /\ t.pc = s.pc /\ t.stage = "value" /\ t.sector = s.sector /\ t.page = s.page
      /\ t.offset = s.offset /\ t.crc_list = s.crc_list /\ t.verdicts = s.verdicts
  BY <1>2, StageFacts DEF Results
<1>4. page_index(t) = page_index(s) /\ Here(t, fl) = Here(s, fl)
  BY <1>3, SamePlace
<1>5. OnPage(t, b, com) /\ Plain(b) /\ Shifted(ans, b, 1) /\ Head(ans) = ans[1]
  BY <1>1, <1>2, <1>3, OnPageTakes, PlainTail, ShiftTail
<1> HIDE DEF b
<1>6. ASSUME s.pc = "loadPage"
      PROVE  Counts(t, b, com, fl, n, n)
  <2>1. Counts(s, ans, com, fl, n + 1, n)
    BY <1>1, <1>6, CountsPage
  <2>2. IsSign(ans[1], {"r"}) /\ Opens(t.stage, 1, ans) /\ n + 1 \in Nat
    BY <1>2, <1>5, <1>6 DEF Opens
  <2>3. Counts(t, b, com, fl, n + 1, n) /\ Cardinality(Pending(b, com)) + 1 <= n + 1
    <3> DEFINE d == 1
               waits == n + 1
    <3>1. /\ Shifted(ans, b, d) /\ Opens(t.stage, d, ans) /\ waits \in Nat
          /\ Counts(s, ans, com, fl, waits, n) /\ SameCount(s, t, fl)
      BY <1>3, <1>4, <1>5, <2>1, <2>2 DEF SameCount
    <3> HIDE DEF d, waits
    <3>2. /\ Counts(t, b, com, fl, waits, n)
          /\ d = 1 /\ IsSign(ans[1], {"r"}) => Cardinality(Pending(b, com)) + 1 <= waits
      BY <3>1, CountsShift
    <3> QED BY <2>2, <3>2 DEF d, waits
  <2>4. Cardinality(Pending(b, com)) \in Nat
    BY <1>5, Counted DEF Shifted
  <2>5. Cardinality(Pending(b, com)) <= n
    BY <2>3, <2>4
  <2> QED BY <2>3, <2>5 DEF Counts
<1>7. VerifiesPage(t, b, com, fl, n)
  <2>1. CASE s.pc = "loadPage"
    BY <1>3, <1>6, <2>1, CountsPage
  <2>2. CASE s.pc # "loadPage"
    BY <1>3, <2>2 DEF VerifiesPage
  <2> QED BY <2>1, <2>2
<1>8. Verified(t, r, b, com, fl, n)
  BY <1>2, <1>3, <1>5, <1>7, VerdictsKept
<1> QED BY <1>8 DEF b

LEMMA VerifyDrops ==
  ASSUME NEW r \in Requests, NEW s, NEW ans, IsSeq(ans), NEW com, IsSeq(com), NEW fl,
         NEW n \in Nat, Verified(s, r, ans, com, fl, n), s.stage # "value",
         NEW b, NEW d, Shifted(ans, b, d), s.pc \in Exchanges => Plain(b)
  PROVE  Verified(s, r, b, com, fl, n)
<1>1. OnPage(s, ans, com) /\ VerifiesPage(s, ans, com, fl, n)
  BY DEF Verified
<1>2. OnPage(s, b, com) /\ Opens(s.stage, d, ans) /\ SameCount(s, s, fl)
  BY <1>1, OnPageDrops DEF Opens, SameCount
<1>3. ASSUME NEW waits \in Nat, Counts(s, ans, com, fl, waits, n)
      PROVE  Counts(s, b, com, fl, waits, n)
  BY <1>2, <1>3, CountsShift
<1>4. VerifiesPage(s, b, com, fl, n)
  <2>1. CASE s.pc = "loadPage"
    <3>1. n + 1 \in Nat
      OBVIOUS
    <3> QED BY <1>1, <1>3, <2>1, <3>1, CountsPage
  <2>2. CASE s.pc # "loadPage"
    BY <2>2 DEF VerifiesPage
  <2> QED BY <2>1, <2>2
<1> QED BY <1>2, <1>4 DEF Verified

LEMMA VerifyExecuted ==
  ASSUME NEW r, NEW s, NEW ans, IsSeq(ans), NEW com, IsSeq(com), com # <<>>,
         NEW fl, NEW n \in Nat, Verified(s, r, ans, com, fl, n), NEW m \in {n, n + 1},
         NEW b, Extended(ans, b, Head(com).letter), s.pc \in Exchanges => Plain(b),
         Head(com).letter = "r" /\ Len(b) = Len(ans) + 2 =>
           b[Len(ans) + 2].of = fl[Head(com).arg] \/ m = n + 1
  PROVE  Verified(s, r, b, Tail(com), fl, m)
<1> DEFINE rest == Tail(com)
<1>1. /\ OnPage(s, ans, com) /\ VerifiesPage(s, ans, com, fl, n)
      /\ IsSeq(b) /\ Answered(ans, b, Head(com).letter) /\ IsSeq(rest)
  BY TailFacts DEF Verified, Extended
<1>2. OnPage(s, b, rest)
  BY <1>1, OnPageExecuted
<1>3. ASSUME NEW waits \in Nat, Counts(s, ans, com, fl, waits, n)
      PROVE  Counts(s, b, rest, fl, waits, m)
  <2> DEFINE page == page_index(s)
             F == Here(s, fl)
             p == Cardinality(Pending(ans, com))
             p2 == Cardinality(Pending(b, rest))
             w == Cardinality(Wrong(s.stage, ans, com, page, F))
             w2 == Cardinality(Wrong(s.stage, b, rest, page, F))
             l == Cardinality(s.crc_list \ {F})
  <2>1. /\ All(ans, com, {"r"}) /\ IsFiniteSet(s.crc_list) /\ p <= waits /\ w + l <= n
    BY <1>3 DEF Counts
  <2>2. p \in Nat /\ p2 \in Nat /\ w \in Nat /\ w2 \in Nat
    BY <1>1, Counted
  <2>3. l \in Nat
    BY <2>1, FS_Difference, FS_CardinalityType
  <2>4. p2 <= p
    BY PendingMore
  <2>5. w2 <= w + (m - n)
    <3> DEFINE stage == s.stage
    <3> HIDE DEF page, stage
    <3>1. Cardinality(Wrong(stage, b, Tail(com), page, fl[page]))
            <= Cardinality(Wrong(stage, ans, com, page, fl[page])) + (m - n)
      BY WrongMore
    <3> QED BY <3>1 DEF page, stage, Here
  <2>6. All(b, rest, {"r"})
    BY <1>1, <2>1, AllExecuted
  <2> HIDE DEF p, p2, w, w2, l
  <2>7. p2 <= waits /\ w2 + l <= m
    BY <2>1, <2>2, <2>3, <2>4, <2>5
  <2> QED BY <2>1, <2>6, <2>7 DEF Counts, p2, w2, l
<1> HIDE DEF rest
<1>4. ASSUME NEW waits \in Nat, NEW more \in Nat, waits <= more, Counts(s, b, rest, fl, waits, m)
      PROVE  Counts(s, b, rest, fl, more, m)
  <2>1. Cardinality(Pending(b, rest)) \in Nat
    BY <1>1, Counted
  <2>2. Cardinality(Pending(b, rest)) <= waits
    BY <1>4 DEF Counts
  <2>3. Cardinality(Pending(b, rest)) <= more
    BY <1>4, <2>1, <2>2
  <2> QED BY <1>4, <2>3 DEF Counts
<1>5. m \in Nat /\ m + 1 \in Nat /\ n + 1 \in Nat /\ n <= m /\ n + 1 <= m + 1
  OBVIOUS
<1>6. VerifiesPage(s, b, rest, fl, m)
  <2>1. CASE s.pc = "loadPage" /\ s.stage = "wait"
    <3>1. Counts(s, b, rest, fl, n + 1, m)
      BY <1>1, <1>3, <1>5, <2>1, CountsPage
    <3>2. Counts(s, b, rest, fl, m + 1, m)
      BY <1>4, <1>5, <3>1
    <3> QED BY <2>1, <3>2, CountsPage
  <2>2. CASE s.pc = "loadPage" /\ s.stage # "wait"
    <3>1. Counts(s, b, rest, fl, n, m)
      BY <1>1, <1>3, <1>5, <2>2, CountsPage
    <3>2. Counts(s, b, rest, fl, m, m)
      BY <1>4, <1>5, <3>1
    <3> QED BY <2>2, <3>2, CountsPage
  <2>3. CASE s.pc # "loadPage"
    BY <2>3 DEF VerifiesPage
  <2> QED BY <2>1, <2>2, <2>3
<1>7. Verified(s, r, b, rest, fl, m)
  <2>1. s.pc \in Final \/ s.pc \notin Final
    OBVIOUS
  <2> QED BY <1>2, <1>6, <2>1, VerdictsKept
<1> QED BY <1>7 DEF rest

LEMMA VerifyOver ==
  ASSUME NEW r, NEW s, NEW ans, NEW com, NEW fl, NEW n \in Nat, NEW m \in {n, n + 1},
         Verified(s, r, ans, com, fl, n), NEW t, Stands(s, t), t.verdicts = s.verdicts, t.pc \in Final,
         NEW b
  PROVE  Verified(t, r, b, com, fl, m)
<1>1. t.pc \notin {"hello", "loadPage"} /\ t.pc \notin Exchanges
  BY DEF Final, Exchanges
<1>2. OnPage(t, b, com) /\ VerifiesPage(t, b, com, fl, m)
  BY <1>1 DEF Verified, OnPage, VerifiesPage, Stands
<1>3. t.page = s.page
  BY DEF Stands
<1> QED BY <1>1, <1>2, <1>3, VerdictsKept

\* A page starts: what is outstanding may be wrong, and nothing else is.
LEMMA CountsStart ==
  ASSUME NEW t, t.stage = "send", t.crc_list = {}, NEW b, IsSeq(b), NEW com, IsSeq(com), NEW fl,
         NEW m \in Nat, All(b, com, {"r"}), Cardinality(Pending(b, com)) <= m
  PROVE  Counts(t, b, com, fl, m, m)
<1> DEFINE p == Cardinality(Pending(b, com))
           page == page_index(t)
           F == Here(t, fl)
           w == Cardinality(Wrong("send", b, com, page, F))
<1>1. p \in Nat /\ w \in Nat /\ w <= p
  BY Counted, WrongTurned
<1>2. {} \ {F} = {} /\ IsFiniteSet({}) /\ Cardinality({}) = 0
  BY FS_EmptySet
<1>3. p <= m
  OBVIOUS
<1> HIDE DEF p, w
<1>4. w + 0 <= m
  BY <1>1, <1>3
<1> QED BY <1>2, <1>3, <1>4 DEF Counts, w, p

LEMMA VerifyHelloEnds ==
  ASSUME NEW r \in Requests, r.command = "verify", NEW s, Within(s, r), NEW ans, IsSeq(ans),
         NEW com, IsSeq(com), NEW fl, NEW n \in Nat, Verified(s, r, ans, com, fl, n), s.pc = "hello",
         NEW b, Plain(b), NEW d, Shifted(ans, b, d), NEW m \in {n, n + 1}, NEW ok \in BOOLEAN, NEW v,
         ok => s.stage = "value", NEW t, t = Ended(s, r, ok, v)
  PROVE  Verified(t, r, b, com, fl, m)
<1>1. /\ s.sector = 0 /\ s.page = 0 /\ AtHello(s, ans, com) /\ IsSeq(b)
  BY DEF Verified, OnPage, Shifted
<1>2. /\ Stands(s, t) /\ t.verdicts = s.verdicts
      /\ t.pc \in Final \/ (ok /\ t.pc = "loadPage" /\ t.crc_list = {})
  BY HelloGoesOn DEF Within, Results
<1>3. CASE t.pc \in Final
  BY <1>2, <1>3, VerifyOver
<1>4. CASE ok /\ t.pc = "loadPage" /\ t.crc_list = {}
  <2>1. t.stage = "send" /\ t.sector = 0 /\ t.page = 0 /\ t.page = s.page /\ s.pc \notin Final
    BY <1>1, <1>2 DEF Stands, Final
  <2>2. All(ans, com, {})
    BY <1>1, <1>4 DEF AtHello
  <2>3. All(b, com, {})
    BY <2>2, AllShift
  <2>4. All(b, com, {"r"}) /\ Cardinality(Pending(b, com)) = 0
    BY <1>1, <2>3, AllMore, PendingNone
  <2>5. m \in Nat /\ 0 <= m
    OBVIOUS
  <2>6. Counts(t, b, com, fl, m, m)
    BY <1>1, <1>4, <2>1, <2>4, <2>5, CountsStart
  <2>7. VerifiesPage(t, b, com, fl, m)
    BY <1>4, <2>1, <2>6, CountsPage
  <2>8. OnPage(t, b, com)
    <3>1. t.sector = 0 /\ t.page = 0 /\ t.pc = "loadPage"
      BY <1>4, <2>1
    <3> QED BY <3>1 DEF OnPage
  <2> QED BY <1>2, <2>1, <2>7, <2>8, VerdictsKept
<1> QED BY <1>2, <1>3, <1>4

\* What ends a try to load a page: no letter is outstanding for it any more,
\* or there was a fault.
LEMMA NoneWaits ==
  ASSUME NEW s, NEW ans, IsSeq(ans), NEW com, IsSeq(com), NEW fl, NEW n \in Nat, s.pc = "loadPage",
         VerifiesPage(s, ans, com, fl, n), NEW m \in {n, n + 1}, NEW b, NEW d, Shifted(ans, b, d),
         s.stage = "value" \/ m = n + 1 \/ All(ans, com, {})
  PROVE  Cardinality(Pending(b, com)) <= m
<1> DEFINE p == Cardinality(Pending(ans, com))
           p2 == Cardinality(Pending(b, com))
<1>1. p \in Nat /\ p2 \in Nat /\ p2 <= p
  BY Counted, PendingShift DEF Shifted
<1>2. CASE All(ans, com, {})
  <2>1. All(b, com, {}) /\ IsSeq(b)
    BY <1>2, AllShift DEF Shifted
  <2>2. p2 = 0
    BY <2>1, PendingNone
  <2> HIDE DEF p2
  <2>3. p2 <= m
    BY <2>2
  <2> QED BY <2>3 DEF p2
<1>3. CASE s.stage # "wait"
  <2>1. p <= n
    BY <1>3 DEF VerifiesPage
  <2> HIDE DEF p, p2
  <2>2. p2 <= m
    BY <1>1, <2>1
  <2> QED BY <2>2 DEF p2
<1>4. CASE s.stage = "wait" /\ m = n + 1
  <2>1. p <= n + 1
    BY <1>4 DEF VerifiesPage
  <2> HIDE DEF p, p2
  <2>2. p2 <= m
    BY <1>1, <1>4, <2>1
  <2> QED BY <2>2 DEF p2
<1> QED BY <1>2, <1>3, <1>4

\* The checksum that came, if it is wrong, was counted as wrong on the line.
LEMMA ChecksumNoted ==
  ASSUME NEW s, NEW ans, IsSeq(ans), NEW com, IsSeq(com), NEW fl, NEW waits, NEW n \in Nat,
         Counts(s, ans, com, fl, waits, n), NEW b, NEW d, Shifted(ans, b, d), NEW page, page = page_index(s),
         NEW F, F = Here(s, fl), NEW crc, NEW list2, list2 = s.crc_list \/ list2 = s.crc_list \cup {crc},
         list2 # s.crc_list => 1 \in Heard(s.stage, ans) /\ crc = ans[1].of
  PROVE  /\ IsFiniteSet(list2)
         /\ Cardinality(Wrong("send", b, com, page, F)) + Cardinality(list2 \ {F}) <= n
<1> DEFINE stage == s.stage
           list == s.crc_list
           W == Wrong(stage, ans, com, page, F)
           W2 == Wrong("send", b, com, page, F)
           w == Cardinality(W)
           w2 == Cardinality(W2)
           l == Cardinality(list \ {F})
           l2 == Cardinality(list2 \ {F})
<1>1. IsFiniteSet(list) /\ w + l <= n
  BY DEF Counts
<1>2. IsFiniteSet(list \ {F}) /\ l \in Nat
  BY <1>1, FS_Difference, FS_CardinalityType
<1>3. w \in Nat /\ w2 \in Nat
  BY Counted DEF Shifted
<1>4. w2 <= w /\ (1 \in Heard(stage, ans) /\ ans[1].of # F => w2 + 1 <= w)
  <2> DEFINE stage2 == "send"
  <2>1. Opens(stage2, d, ans)
    BY DEF Opens
  <2> HIDE DEF stage, stage2
  <2>2. /\ Cardinality(Wrong(stage2, b, com, page, F)) <= Cardinality(Wrong(stage, ans, com, page, F))
        /\ 1 \in Heard(stage, ans) /\ ans[1].of # F =>
              Cardinality(Wrong(stage2, b, com, page, F)) + 1 <= Cardinality(Wrong(stage, ans, com, page, F))
    BY <2>1, WrongShift
  <2> QED BY <2>2 DEF stage2
<1>5. CASE list2 = list \/ crc = F
  <2>1. list2 \ {F} = list \ {F}
    BY <1>5
  <2>2. IsFiniteSet(list2)
    BY <1>1, FS_AddElement
  <2>3. l2 = l
    BY <2>1
  <2> HIDE DEF w, w2, l, l2
  <2>4. w2 + l2 <= n
    BY <1>1, <1>2, <1>3, <1>4, <2>3
  <2> QED BY <2>2, <2>4 DEF w2, l2
<1>6. CASE list2 # list /\ crc # F
  <2>1. list2 = list \cup {crc} /\ list2 \ {F} = (list \ {F}) \cup {crc}
    BY <1>6
  <2>2. IsFiniteSet(list2)
    BY <1>1, <2>1, FS_AddElement
  <2>3. l2 \in Nat /\ l2 <= l + 1
    <3> DEFINE L == list \ {F}
    <3>1. IsFiniteSet(L) /\ l = Cardinality(L) /\ l2 = Cardinality(L \cup {crc})
      BY <1>2, <2>1
    <3> HIDE DEF L, l, l2
    <3>2. Cardinality(L \cup {crc}) = IF crc \in L THEN Cardinality(L) ELSE Cardinality(L) + 1
      BY <3>1, FS_AddElement
    <3> QED BY <1>2, <3>1, <3>2
  <2>4. w2 + 1 <= w
    BY <1>4, <1>6
  <2> HIDE DEF w, w2, l, l2
  <2>5. w2 + l2 <= n
    BY <1>1, <1>2, <1>3, <2>3, <2>4
  <2> QED BY <2>2, <2>5 DEF w2, l2
<1> QED BY <1>5, <1>6

\* A wrong checksum that came before and comes again takes two faults.
LEMMA ComesTwice ==
  ASSUME NEW s, NEW ans, IsSeq(ans), NEW com, IsSeq(com), NEW fl, NEW waits, NEW n \in Nat,
         Counts(s, ans, com, fl, waits, n), 1 \in Heard(s.stage, ans), ans[1].of \in s.crc_list, n < 2
  PROVE  ans[1].of = Here(s, fl)
<1> DEFINE F == Here(s, fl)
           page == page_index(s)
           W == Wrong(s.stage, ans, com, page, F)
           L == s.crc_list \ {F}
           w == Cardinality(W)
           l == Cardinality(L)
<1>1. IsFiniteSet(s.crc_list) /\ w + l <= n
  BY DEF Counts
<1>2. IsFiniteSet(W) /\ IsFiniteSet(L) /\ w \in Nat /\ l \in Nat
  BY <1>1, Counted, FS_Difference, FS_CardinalityType
<1>3. ASSUME ans[1].of # F
      PROVE  FALSE
  <2>1. 1 \in 1 .. Len(ans) /\ Len(ans) \in Nat /\ Len(com) \in Nat
    BY SeqFacts DEF Heard
  <2>2. 1 \in 1 .. Len(ans) + Len(com) /\ 1 <= Len(ans)
    BY <2>1
  <2>3. 1 \in W /\ ans[1].of \in L
    BY <1>3, <2>2 DEF Wrong
  <2>4. W # {} /\ L # {}
    BY <2>3
  <2> HIDE DEF W, L
  <2>5. w # 0 /\ l # 0
    BY <1>2, <2>4, FS_EmptySet
  <2> HIDE DEF w, l
  <2> QED BY <1>1, <1>2, <2>5
<1> QED BY <1>3

LEMMA VerifyLoadEnds ==
  ASSUME NEW r \in Requests, r.command = "verify", NEW s, Within(s, r), NEW ans, IsSeq(ans),
         NEW com, IsSeq(com), NEW fl, NEW n \in Nat, Verified(s, r, ans, com, fl, n), s.pc = "loadPage",
         NEW b, Plain(b), NEW d, Shifted(ans, b, d), NEW m \in {n, n + 1}, NEW ok \in BOOLEAN, NEW v,
         ok => s.stage = "value" /\ d = 1 /\ ans # <<>> /\ IsValue(ans[1]) /\ v = ans[1].of,
         s.stage = "value" \/ m = n + 1 \/ All(ans, com, {}),
         NEW t, t = Ended(s, r, ok, v)
  PROVE  Verified(t, r, b, com, fl, m)
<1> DEFINE crc == IF ok THEN v ELSE None
<1>1. /\ s.sector = 0 /\ s.page \in Nat /\ OnPage(s, ans, com) /\ VerifiesPage(s, ans, com, fl, n)
      /\ IsSeq(s.verdicts) /\ Len(s.verdicts) = s.page /\ s.pc \notin Final
      /\ n < 2 => \A i \in 1 .. Len(s.verdicts) : s.verdicts[i] = (fl[r.offset + i - 1] = r.file[i])
  BY DEF Verified, OnPage, Final
<1>2. t = loadPageMultiple(s, r, crc)
  BY DEF Ended
<1>3. ASSUME crc # None
      PROVE  s.stage = "value" /\ 1 \in Heard(s.stage, ans) /\ crc = ans[1].of
  <2>1. ok /\ s.stage = "value" /\ ans # <<>> /\ IsValue(ans[1]) /\ crc = ans[1].of
    BY <1>3
  <2>2. 1 \in 1 .. Len(ans)
    BY <2>1, ShiftTail
  <2> QED BY <2>1, <2>2 DEF Heard
<1> HIDE DEF crc
<1>4. \/ Stands(s, t) /\ t.verdicts = s.verdicts /\ t.pc = "aborted"
      \/ /\ Stands(s, t) /\ t.verdicts = s.verdicts /\ t.pc = "loadPage"
         /\ t.crc_list = s.crc_list \cup ({crc} \ {None})
      \/ /\ crc \in s.crc_list /\ crc # None /\ Turns(s, t)
         /\ t.verdicts = Append(s.verdicts, crc = r.file[s.page + 1])
  BY <1>2, LoadGoesOn DEF Within, Results
<1>5. IsSeq(b) /\ m \in Nat /\ n <= m /\ (m < 2 => n < 2) /\ All(b, com, {"r"})
  <2>1. All(ans, com, {"r"})
    BY <1>1 DEF VerifiesPage
  <2>2. IsSeq(b) /\ All(b, com, {"r"})
    BY <2>1, AllShift DEF Shifted
  <2> QED BY <2>2
<1>6. PICK waits : Counts(s, ans, com, fl, waits, n)
  BY <1>1, CountsPage
<1>7. Cardinality(Pending(b, com)) <= m
  BY <1>1, NoneWaits
<1>8. CASE Stands(s, t) /\ t.verdicts = s.verdicts /\ t.pc = "aborted"
  BY <1>8, VerifyOver DEF Final
<1>9. CASE /\ Stands(s, t) /\ t.verdicts = s.verdicts /\ t.pc = "loadPage"
           /\ t.crc_list = s.crc_list \cup ({crc} \ {None})
  <2>1. page_index(t) = page_index(s) /\ Here(t, fl) = Here(s, fl) /\ t.stage = "send" /\ t.page = s.page
    BY <1>9, SamePlace DEF Stands
  <2> DEFINE page == page_index(s)
             F == Here(s, fl)
             list2 == t.crc_list
             w == Cardinality(Wrong("send", b, com, page, F))
             l == Cardinality(list2 \ {F})
  <2>2. /\ list2 = s.crc_list \/ list2 = s.crc_list \cup {crc}
        /\ list2 # s.crc_list => 1 \in Heard(s.stage, ans) /\ crc = ans[1].of
    <3>1. CASE crc = None
      <4>1. list2 = s.crc_list
        BY <1>9, <3>1
      <4> QED BY <4>1
    <3>2. CASE crc # None
      <4>1. list2 = s.crc_list \cup {crc}
        BY <1>9, <3>2
      <4> QED BY <1>3, <3>2, <4>1
    <3> QED BY <3>1, <3>2
  <2>3. page = page_index(s) /\ F = Here(s, fl)
    OBVIOUS
  <2> HIDE DEF page, F, list2
  <2>4. IsFiniteSet(list2) /\ w + l <= n
    BY <1>6, <2>2, <2>3, ChecksumNoted
  <2>5. w \in Nat /\ l \in Nat
    BY <1>5, <2>4, Counted, FS_Difference, FS_CardinalityType
  <2> HIDE DEF w, l
  <2>6. w + l <= m
    BY <1>5, <2>4, <2>5
  <2>7. Counts(t, b, com, fl, m, m)
    BY <1>5, <1>7, <2>1, <2>3, <2>4, <2>6 DEF Counts, w, l, list2
  <2>8. VerifiesPage(t, b, com, fl, m)
    BY <1>9, <2>1, <2>7, CountsPage
  <2>9. OnPage(t, b, com)
    BY <1>1, <1>9 DEF OnPage, Stands
  <2> QED BY <1>1, <1>9, <2>1, <2>8, <2>9, VerdictsKept
<1>10. CASE /\ crc \in s.crc_list /\ crc # None /\ Turns(s, t)
            /\ t.verdicts = Append(s.verdicts, crc = r.file[s.page + 1])
  <2>1. /\ t.stage = "send" /\ t.sector = 0
        /\ (t.pc = "done" /\ t.page = s.page) \/ (t.pc = "loadPage" /\ t.page = s.page + 1 /\ t.crc_list = {})
    BY <1>1, <1>10 DEF Turns
  <2>2. VerifiesPage(t, b, com, fl, m)
    <3>1. CASE t.pc = "done"
      BY <3>1 DEF VerifiesPage
    <3>2. CASE t.pc = "loadPage" /\ t.crc_list = {}
      <4>1. Counts(t, b, com, fl, m, m)
        BY <1>5, <1>7, <2>1, <3>2, CountsStart
      <4> QED BY <2>1, <3>2, <4>1, CountsPage
    <3> QED BY <2>1, <3>1, <3>2
  <2>3. OnPage(t, b, com)
    BY <1>1, <2>1 DEF OnPage, Final
  <2> DEFINE verdict == (crc = r.file[s.page + 1])
  <2>4. /\ IsSeq(t.verdicts) /\ Len(t.verdicts) = s.page + 1
        /\ \A i \in 1 .. s.page : t.verdicts[i] = s.verdicts[i]
        /\ t.verdicts[s.page + 1] = verdict
    <3>1. t.verdicts = Append(s.verdicts, verdict)
      BY <1>10
    <3> HIDE DEF verdict
    <3> QED BY <1>1, <3>1, AppendFacts
  <2>5. Here(s, fl) = fl[r.offset + s.page] /\ r.offset \in Nat
    BY <1>1, PageAt DEF Here
  <2>6. ASSUME m < 2, NEW i \in 1 .. Len(t.verdicts)
        PROVE  t.verdicts[i] = (fl[r.offset + i - 1] = r.file[i])
    <3>1. CASE i \in 1 .. s.page
      <4>1. t.verdicts[i] = s.verdicts[i]
        BY <2>4, <3>1
      <4>2. s.verdicts[i] = (fl[r.offset + i - 1] = r.file[i])
        BY <1>1, <1>5, <2>6, <3>1
      <4> QED BY <4>1, <4>2
    <3>2. CASE i = s.page + 1
      <4>1. crc = Here(s, fl)
        BY <1>3, <1>5, <1>6, <1>10, <2>6, ComesTwice
      <4>2. r.offset + i - 1 = r.offset + s.page
        BY <1>1, <2>5, <3>2
      <4>3. crc = fl[r.offset + i - 1]
        BY <2>5, <4>1, <4>2
      <4>4. t.verdicts[i] = (crc = r.file[i])
        BY <2>4, <3>2
      <4> QED BY <4>3, <4>4
    <3>3. i \in 1 .. s.page \/ i = s.page + 1
      BY <1>1, <2>4
    <3> QED BY <3>1, <3>2, <3>3
  <2>7. t.pc \notin Final => Len(t.verdicts) = t.page
    BY <2>1, <2>4 DEF Final
  <2> QED BY <2>2, <2>3, <2>4, <2>6, <2>7 DEF Verified
<1> QED BY <1>4, <1>8, <1>9, <1>10

\* An exchange of a verify ends, with its value or without.
LEMMA VerifyEnds ==
  ASSUME NEW r \in Requests, r.command = "verify", NEW s, Within(s, r), NEW ans, IsSeq(ans),
         NEW com, IsSeq(com), NEW fl, NEW n \in Nat, Verified(s, r, ans, com, fl, n), s.pc \in Exchanges,
         NEW b, Plain(b), NEW d, Shifted(ans, b, d), NEW m \in {n, n + 1}, NEW ok \in BOOLEAN, NEW v,
         ok => s.stage = "value" /\ d = 1 /\ ans # <<>> /\ IsValue(ans[1]) /\ v = ans[1].of,
         s.stage = "value" \/ m = n + 1 \/ All(ans, com, {}),
         NEW t, t = Ended(s, r, ok, v)
  PROVE  Verified(t, r, b, com, fl, m)
<1>1. s.pc \in {"hello", "loadPage"}
  BY VerifyExchanges DEF Verified, OnPage
<1>2. CASE s.pc = "hello"
  BY <1>2, VerifyHelloEnds
<1>3. CASE s.pc = "loadPage"
  BY <1>3, VerifyLoadEnds
<1> QED BY <1>1, <1>2, <1>3

-----------------------------------------------------------------------------
(* The steps of the program.                                               *)

Reading == request.command \in {"read", "verify"}

LEMMA RFacts ==
  ASSUME IInv, RInv
  PROVE  /\ request \in Requests /\ Within(c, request) /\ DOMAIN c = Fields
         /\ IsSeq(commands) /\ IsSeq(answers) /\ faults \in Nat
         /\ request.command = "read" => Read(c, request, answers, commands, flash, faults)
         /\ request.command = "verify" =>
              /\ Verified(c, request, answers, commands, flash, faults)
              /\ c.pc \in Exchanges => Plain(answers)
         /\ Reading => OnPage(c, answers, commands)
<1>1. faults \in Nat
  BY FaultAssumption DEF IInv
<1> QED BY <1>1 DEF IInv, RInv, Within, Targets, Read, Verified, Reading

LEMMA RNext ==
  ASSUME RInv, request' = request, IsSeq(answers'),
         request.command = "read" => Read(c', request, answers', commands', flash', faults'),
         request.command = "verify" => Verified(c', request, answers', commands', flash', faults'),
         request.command # "read" => c'.file = c.file,
         request.command # "verify" => c'.verdicts = c.verdicts
  PROVE  RInv'
BY DEF RInv

\* The client starts a page, goes on with it, or is through.
LEMMA EndsSend ==
  ASSUME NEW r, r.command \in {"read", "verify"}, NEW s, Within(s, r), s.pc \in {"hello", "loadPage", "fetch"},
         NEW ok \in BOOLEAN, NEW v, NEW t, t = Ended(s, r, ok, v)
  PROVE  t.stage = "send"
<1>1. DOMAIN s = Fields /\ (s.pc = "fetch" => r.command = "read")
  BY DEF Within
<1>2. CASE s.pc = "hello"
  BY <1>1, <1>2, HelloGoesOn DEF Stands
<1>3. CASE s.pc = "loadPage"
  <2>1. t = loadPageMultiple(s, r, IF ok THEN v ELSE None)
    BY <1>3 DEF Ended
  <2> QED BY <1>1, <2>1, LoadGoesOn DEF Stands, Turns
<1>4. CASE s.pc = "fetch"
  <2>1. t = readPage(s, r, IF ok THEN v ELSE None)
    BY <1>4 DEF Ended
  <2> QED BY <1>1, <1>4, <2>1, FetchGoesOn DEF Stands, Turns
<1> QED BY <1>2, <1>3, <1>4

\* An exchange ends, and perhaps another answer is read with it.
LEMMA REnds ==
  ASSUME IInv, RInv, c.pc \in Exchanges, NEW ok \in BOOLEAN, NEW v, c' = Ended(c, request, ok, v),
         NEW b, NEW d, Shifted(answers, b, d), NEW e, Shifted(b, answers', e),
         faults' \in {faults, faults + 1}, UNCHANGED <<request, commands, flash>>,
         Reading /\ ok => /\ c.stage = "value" /\ d = 1 /\ answers # <<>>
                          /\ IsValue(answers[1]) /\ v = answers[1].of,
         request.command = "verify" =>
           /\ Plain(b) /\ Plain(answers')
           /\ c.stage = "value" \/ faults' = faults + 1 \/ All(answers, commands, {})
  PROVE  RInv'
<1>1. /\ request \in Requests /\ Within(c, request) /\ DOMAIN c = Fields
      /\ IsSeq(commands) /\ IsSeq(answers) /\ faults \in Nat /\ faults' \in Nat
      /\ IsSeq(b) /\ IsSeq(answers')
  BY RFacts DEF Shifted
<1>2. Reading => c'.stage # "value"
  <2>1. Reading => c.pc \in {"hello", "loadPage", "fetch"}
    BY RFacts, ReadExchanges DEF OnPage
  <2>2. Reading => c'.stage = "send"
    BY <1>1, <2>1, EndsSend DEF Reading
  <2> QED BY <2>2
<1>3. ASSUME request.command = "read"
      PROVE  Read(c', request, answers', commands, flash, faults')
  <2>1. Read(c, request, answers, commands, flash, faults)
    BY <1>3, RFacts
  <2>2. ok => /\ c.stage = "value" /\ d = 1 /\ answers # <<>>
              /\ IsValue(answers[1]) /\ v = answers[1].of
    BY <1>3 DEF Reading
  <2>3. Read(c', request, b, commands, flash, faults')
    BY <1>1, <1>3, <2>1, <2>2, ReadEnds
  <2>4. c'.stage # "value"
    BY <1>2, <1>3 DEF Reading
  <2> QED BY <1>1, <2>3, <2>4, ReadDrops
<1>4. ASSUME request.command = "verify"
      PROVE  Verified(c', request, answers', commands, flash, faults')
  <2>1. Verified(c, request, answers, commands, flash, faults)
    BY <1>4, RFacts
  <2>2. ok => /\ c.stage = "value" /\ d = 1 /\ answers # <<>>
              /\ IsValue(answers[1]) /\ v = answers[1].of
    BY <1>4 DEF Reading
  <2>3. Verified(c', request, b, commands, flash, faults')
    BY <1>1, <1>4, <2>1, <2>2, VerifyEnds
  <2>4. c'.stage # "value"
    BY <1>2, <1>4 DEF Reading
  <2> QED BY <1>1, <1>4, <2>3, <2>4, VerifyDrops
<1>5. /\ request.command # "read" => c'.file = c.file
      /\ request.command # "verify" => c'.verdicts = c.verdicts
  BY <1>1, ResultsKept
<1> QED BY <1>1, <1>3, <1>4, <1>5, RNext

\* An exception that nobody catches.
LEMMA RCrash ==
  ASSUME IInv, RInv, c' = Goto(c, "crashed"), IsSeq(answers'), faults' \in {faults, faults + 1},
         UNCHANGED <<request, commands, flash>>
  PROVE  RInv'
<1>1. Stands(c, c') /\ Results(c, c') /\ c'.pc = "crashed" /\ faults \in Nat
  BY RFacts, GotoKeeps
<1>2. c'.pc \in Final
  BY <1>1 DEF Final
<1>3. request.command = "read" => Read(c', request, answers', commands, flash, faults')
  BY <1>1, <1>2, RFacts, ReadOver DEF Results
<1>4. request.command = "verify" => Verified(c', request, answers', commands, flash, faults')
  BY <1>1, <1>2, RFacts, VerifyOver DEF Results
<1> QED BY <1>1, <1>3, <1>4, RNext DEF Results

LEMMA RSend ==
  ASSUME IInv, RInv, sendCommand
  PROVE  RInv'
<1> DEFINE cmd == [letter |-> Letter(c.pc), arg |-> Argument(c)]
<1>1. /\ c.pc \in Exchanges /\ c.stage = "send" /\ commands' = Append(commands, cmd)
      /\ c' = [c EXCEPT !.stage = "wait"] /\ UNCHANGED <<request, answers, flash, faults>>
  BY DEF sendCommand
<1>2. Results(c, c')
  BY <1>1, RFacts, StageFacts
<1>3. cmd = [letter |-> Letter(c.pc), arg |-> Argument(c)]
  OBVIOUS
<1> HIDE DEF cmd
<1>4. request.command = "read" => Read(c', request, answers', commands', flash', faults')
  BY <1>1, <1>3, RFacts, ReadSends
<1>5. request.command = "verify" => Verified(c', request, answers', commands', flash', faults')
  BY <1>1, <1>3, RFacts, VerifySends
<1> QED BY <1>1, <1>2, <1>4, <1>5, RFacts, RNext DEF Results

\* For a letter: the client looks at what comes, takes it, or drops it.
LEMMA RWait ==
  ASSUME IInv, RInv, waitForMessage
  PROVE  RInv'
<1> DEFINE next == Head(answers)
<1>1. /\ c.pc \in Exchanges /\ c.stage = "wait" /\ answers # <<>>
      /\ UNCHANGED <<request, commands, flash, faults>>
  BY DEF waitForMessage
<1>2. \/ /\ next.kind \in {"page", "rest"} /\ c' = Ended(c, request, FALSE, None)
         /\ \E n : answers' = <<Rest(n)>> \o Tail(answers)
      \/ /\ next.kind = "letter" /\ next.of = Letter(c.pc) /\ answers' = Tail(answers)
         /\ Letter(c.pc) \in Valued /\ c' = [c EXCEPT !.stage = "value"]
      \/ /\ next.kind = "letter" /\ next.of = Letter(c.pc) /\ answers' = Tail(answers)
         /\ Letter(c.pc) \notin Valued /\ c' = Ended(c, request, TRUE, None)
      \/ answers' = Tail(answers) /\ c' = c
  BY DEF waitForMessage
<1>3. /\ Shifted(answers, Tail(answers), 1) /\ IsSeq(Tail(answers)) /\ next = answers[1]
      /\ request.command = "verify" => Plain(Tail(answers)) /\ next.kind \in {"letter", "value", "error"}
  BY <1>1, RFacts, ShiftTail, PlainTail DEF Shifted
<1>4. Reading => c.pc \in {"hello", "loadPage", "fetch"} /\ Letter(c.pc) \in Valued
  BY <1>1, RFacts, ReadExchanges DEF OnPage
<1> HIDE DEF next
<1>5. CASE /\ next.kind \in {"page", "rest"} /\ c' = Ended(c, request, FALSE, None)
           /\ \E n : answers' = <<Rest(n)>> \o Tail(answers)
  <2>1. Shifted(answers, answers', 0)
    BY <1>1, <1>5, RFacts, ShiftRest
  <2>2. Shifted(answers', answers', 0)
    BY <2>1, ShiftNone DEF Shifted
  <2>3. request.command # "verify"
    BY <1>3, <1>5
  <2> QED BY <1>1, <1>5, <2>1, <2>2, <2>3, REnds
<1>6. CASE /\ next.kind = "letter" /\ next.of = Letter(c.pc) /\ answers' = Tail(answers)
           /\ Letter(c.pc) \in Valued /\ c' = [c EXCEPT !.stage = "value"]
  <2>1. IsSign(Head(answers), {Letter(c.pc)})
    BY <1>6 DEF IsSign, next
  <2>2. Results(c, c')
    BY <1>6, RFacts, StageFacts
  <2>3. request.command = "read" => Read(c', request, answers', commands', flash', faults')
    BY <1>1, <1>6, <2>1, RFacts, ReadTakes
  <2>4. request.command = "verify" => Verified(c', request, answers', commands', flash', faults')
    BY <1>1, <1>6, <2>1, RFacts, VerifyTakes
  <2> QED BY <1>1, <1>3, <1>6, <2>2, <2>3, <2>4, RNext DEF Results
<1>7. CASE /\ next.kind = "letter" /\ next.of = Letter(c.pc) /\ answers' = Tail(answers)
           /\ Letter(c.pc) \notin Valued /\ c' = Ended(c, request, TRUE, None)
  <2>1. ~ Reading
    BY <1>4, <1>7
  <2> DEFINE ok == TRUE
             v == None
  <2>2. /\ ok \in BOOLEAN /\ c' = Ended(c, request, ok, v)
        /\ request \in Requests /\ Within(c, request) /\ c.pc \in Exchanges
    BY <1>1, <1>7, RFacts
  <2> HIDE DEF ok, v
  <2>3. /\ request.command # "read" => c'.file = c.file
        /\ request.command # "verify" => c'.verdicts = c.verdicts
    BY <2>2, ResultsKept
  <2> QED BY <1>1, <1>3, <1>7, <2>1, <2>3, RNext DEF Reading
<1>8. CASE answers' = Tail(answers) /\ c' = c
  <2>1. c.stage # "value"
    BY <1>1
  <2>2. request.command = "read" => Read(c', request, answers', commands', flash', faults')
    BY <1>1, <1>3, <1>8, <2>1, RFacts, ReadDrops
  <2>3. request.command = "verify" => Verified(c', request, answers', commands', flash', faults')
    BY <1>1, <1>3, <1>8, <2>1, RFacts, VerifyDrops
  <2> QED BY <1>1, <1>3, <1>8, <2>2, <2>3, RNext
<1> QED BY <1>2, <1>5, <1>6, <1>7, <1>8

\* Nothing is outstanding, or something is lost or late.
LEMMA Nothing ==
  ASSUME NothingComes
  PROVE  /\ answers = <<>> /\ faults' \in {faults, faults + 1}
         /\ faults' = faults + 1 \/ All(answers, commands, {})
<1>1. answers = <<>> /\ IF commands = <<>> THEN faults' = faults ELSE faults' = faults + 1
  BY DEF NothingComes, Fault, NoFault
<1>2. Len(<<>>) = 0
  BY EmptySeq
<1>3. commands = <<>> => All(answers, commands, {})
  BY <1>1, <1>2 DEF All
<1> QED BY <1>1, <1>3

LEMMA RFails ==
  ASSUME IInv, RInv, c.pc \in Exchanges, NothingComes, c' = Ended(c, request, FALSE, None),
         UNCHANGED <<request, commands, answers, flash>>
  PROVE  RInv'
<1>1. Shifted(answers, answers, 0) /\ Shifted(answers, answers', 0)
  BY RFacts, ShiftNone
<1>2. /\ faults' \in {faults, faults + 1}
      /\ faults' = faults + 1 \/ All(answers, commands, {})
  BY Nothing
<1>3. request.command = "verify" => Plain(answers)
  BY RFacts
<1> QED BY <1>1, <1>2, <1>3, REnds

LEMMA RWaitFails ==
  ASSUME IInv, RInv, waitFails
  PROVE  RInv'
BY RFails DEF waitFails

LEMMA RReads ==
  ASSUME IInv, RInv, readExactly
  PROVE  RInv'
<1>1. /\ c.pc \in Exchanges /\ c.stage = "value" /\ answers # <<>> /\ IsValue(Head(answers))
      /\ answers' = Tail(answers) /\ c' = Ended(c, request, TRUE, Head(answers).of)
      /\ UNCHANGED <<request, commands, flash, faults>>
  BY DEF readExactly
<1>2. Shifted(answers, answers', 1) /\ Head(answers) = answers[1]
  BY <1>1, RFacts, ShiftTail
<1>3. Shifted(answers', answers', 0)
  BY <1>2, ShiftNone DEF Shifted
<1>4. request.command = "verify" => Plain(answers')
  BY <1>1, RFacts, PlainTail
<1> QED BY <1>1, <1>2, <1>3, <1>4, REnds

LEMMA RReadsNext ==
  ASSUME IInv, RInv, readsNextAnswer
  PROVE  RInv'
<1>1. /\ c.pc \in Exchanges /\ c.stage = "value" /\ answers # <<>>
      /\ UNCHANGED <<request, commands, flash, faults>>
  BY DEF readsNextAnswer
<1>2. IsSeq(answers) /\ Shifted(answers, Tail(answers), 1) /\ IsSeq(Tail(answers))
  BY <1>1, RFacts, ShiftTail DEF Shifted
<1>3. request.command = "verify" => Plain(Tail(answers))
  BY <1>1, RFacts, PlainTail
<1>4. CASE answers' = Tail(answers) /\ c' = Goto(c, "crashed")
  BY <1>1, <1>2, <1>4, RCrash
<1>5. CASE /\ c' = Ended(c, request, FALSE, None)
           /\ answers' = Tail(answers) \/ (Tail(answers) # <<>> /\ answers' = Tail(Tail(answers)))
  <2>1. PICK e : Shifted(Tail(answers), answers', e)
    <3>1. CASE answers' = Tail(answers)
      BY <1>2, <3>1, ShiftNone
    <3>2. CASE Tail(answers) # <<>> /\ answers' = Tail(Tail(answers))
      BY <1>2, <3>2, ShiftTail
    <3> QED BY <1>5, <3>1, <3>2
  <2>2. request.command = "verify" => Plain(answers')
    BY <1>3, <1>5, PlainTail
  <2> QED BY <1>1, <1>2, <1>3, <1>5, <2>1, <2>2, REnds
<1>6. \/ answers' = Tail(answers) /\ c' = Goto(c, "crashed")
      \/ /\ c' = Ended(c, request, FALSE, None)
         /\ answers' = Tail(answers) \/ (Tail(answers) # <<>> /\ answers' = Tail(Tail(answers)))
  <2>1. \/ answers' = Tail(answers) /\ c' = Goto(c, "crashed")
        \/ /\ c' = Ended(c, request, FALSE, None)
           /\ answers' = Tail(answers) \/ (Len(answers) > 1 /\ answers' = SubSeq(answers, 3, Len(answers)))
    BY DEF readsNextAnswer
  <2> QED BY <1>2, <2>1, TwoTails
<1> QED BY <1>4, <1>5, <1>6

LEMMA RTooLittle ==
  ASSUME IInv, RInv, readsTooLittle
  PROVE  RInv'
<1>1. /\ c.pc \in Exchanges /\ c.stage = "value" /\ Len(answers) = 1 /\ answers' = <<>>
      /\ c' = Ended(c, request, FALSE, None) \/ c' = Goto(c, "crashed")
      /\ UNCHANGED <<request, commands, flash, faults>>
  BY DecodesNoneFacts DEF readsTooLittle
<1>2. answers # <<>> /\ Tail(answers) = <<>>
  <2>1. Len(<<>>) = 0
    OBVIOUS
  <2>2. answers # <<>>
    BY <1>1, <2>1
  <2>3. IsSeq(Tail(answers)) /\ Len(Tail(answers)) = 0
    BY <1>1, <2>2, RFacts, TailFacts
  <2>4. PICK S : Tail(answers) \in Seq(S)
    BY <2>3 DEF IsSeq
  <2> QED BY <2>2, <2>3, <2>4, EmptySeq
<1>3. Shifted(answers, answers', 1) /\ IsSeq(answers')
  BY <1>1, <1>2, RFacts, ShiftTail DEF Shifted
<1>4. Shifted(answers', answers', 0)
  BY <1>3, ShiftNone
<1>5. request.command = "verify" => Plain(answers')
  BY <1>1, <1>2, RFacts, PlainTail
<1>6. CASE c' = Ended(c, request, FALSE, None)
  BY <1>1, <1>3, <1>4, <1>5, <1>6, REnds
<1>7. CASE c' = Goto(c, "crashed")
  BY <1>1, <1>3, <1>7, RCrash
<1> QED BY <1>1, <1>6, <1>7

LEMMA RMissing ==
  ASSUME IInv, RInv, valueMissing
  PROVE  RInv'
<1>1. /\ c.pc \in Exchanges /\ NothingComes
      /\ c' = Ended(c, request, FALSE, None) \/ c' = Goto(c, "crashed")
      /\ UNCHANGED <<request, commands, answers, flash>>
  BY DecodesNoneFacts DEF valueMissing
<1>2. CASE c' = Ended(c, request, FALSE, None)
  BY <1>1, <1>2, RFails
<1>3. CASE c' = Goto(c, "crashed")
  BY <1>1, <1>3, Nothing, RFacts, RCrash
<1> QED BY <1>1, <1>2, <1>3

LEMMA RExecute ==
  ASSUME IInv, RInv, Execute
  PROVE  RInv'
<1> DEFINE cmd == Head(commands)
           top == Len(answers) + 2
<1>1. /\ IsSeq(commands) /\ IsSeq(answers) /\ faults \in Nat /\ Within(c, request)
  BY RFacts
<1>2. /\ commands # <<>> /\ commands' = Tail(commands) /\ UNCHANGED <<request, c>>
      /\ cmd.letter \notin {"k", "w"} => flash' = flash
      /\ faults' \in {faults, faults + 1} /\ Extended(answers, answers', cmd.letter)
      /\ cmd.letter = "r" /\ Len(answers') = top =>
           \/ answers'[top].of = flash[cmd.arg]
           \/ faults' = faults + 1 /\ answers'[top].of = Garbage(faults + 1)
  BY <1>1, Brought
<1>3. IsSeq(answers') /\ faults \in 0 .. MaxFaults
  BY <1>2 DEF Extended, IInv
<1>4. Reading => flash' = flash
  <2>1. /\ Len(commands) \in Nat /\ Len(commands) >= 1 /\ cmd = commands[1]
    BY <1>1, <1>2, TailFacts, SeqFacts
  <2>2. 1 \in 1 .. Len(commands)
    BY <2>1
  <2>3. Target(request, cmd)
    BY <2>1, <2>2 DEF IInv, Targets
  <2> QED BY <1>2, <2>3 DEF Target, Changes, Reading
<1>5. ASSUME request.command = "verify", c.pc \in Exchanges
      PROVE  Plain(answers')
  <2>1. /\ Verified(c, request, answers, commands, flash, faults) /\ Plain(answers)
        /\ OnPage(c, answers, commands)
    BY <1>5, RFacts DEF Reading
  <2>2. c.pc \in {"hello", "loadPage"}
    BY <1>1, <1>5, <2>1, VerifyExchanges DEF OnPage
  <2>3. All(answers, commands, {">", "r"})
    <3>1. CASE c.pc = "hello"
      <4>1. All(answers, commands, {}) \/ All(answers, commands, {">"})
        BY <2>1, <3>1 DEF OnPage, AtHello
      <4> QED BY <4>1, AllMore
    <3>2. CASE c.pc = "loadPage"
      BY <2>1, <3>2, AllMore DEF Verified, VerifiesPage
    <3> QED BY <2>2, <3>1, <3>2
  <2>4. cmd.letter # "l"
    <3>1. /\ Len(commands) \in Nat /\ Len(commands) >= 1 /\ cmd = commands[1]
      BY <1>1, <1>2, TailFacts, SeqFacts
    <3>2. 1 \in 1 .. Len(commands)
      BY <3>1
    <3> QED BY <2>3, <3>1, <3>2 DEF All
  <2>5. Replies(cmd, answers', flash', faults')
    BY <1>3, <2>4, Outcome
  <2> QED BY <2>1, <2>4, <2>5, Replied
<1> HIDE DEF top
<1>6. ASSUME request.command = "read"
      PROVE  Read(c, request, answers', commands', flash', faults')
  <2>1. Read(c, request, answers, commands, flash, faults) /\ flash' = flash
    BY <1>4, <1>6, RFacts DEF Reading
  <2>2. Read(c, request, answers', Tail(commands), flash, faults')
    BY <1>1, <1>2, <2>1, ReadExecuted DEF top
  <2> QED BY <1>2, <2>1, <2>2
<1>7. ASSUME request.command = "verify"
      PROVE  Verified(c, request, answers', commands', flash', faults')
  <2>1. Verified(c, request, answers, commands, flash, faults) /\ flash' = flash
    BY <1>4, <1>7, RFacts DEF Reading
  <2>2. c.pc \in Exchanges => Plain(answers')
    BY <1>5, <1>7
  <2>3. Verified(c, request, answers', Tail(commands), flash, faults')
    BY <1>1, <1>2, <2>1, <2>2, VerifyExecuted DEF top
  <2> QED BY <1>2, <2>1, <2>3
<1> QED BY <1>2, <1>3, <1>6, <1>7, RNext

LEMMA InitRInv ==
  ASSUME Init
  PROVE  RInv
<1>1. /\ commands = <<>> /\ answers = <<>> /\ faults = 0
      /\ c.pc = "hello" /\ c.stage = "send" /\ c.sector = 0 /\ c.page = 0
      /\ c.file = <<>> /\ c.verdicts = <<>>
  BY DEF Init
<1>2. IsSeq(<<>>) /\ Len(<<>>) = 0
  BY NothingIsSeq, EmptySeq
<1>3. All(answers, commands, {}) /\ Plain(answers)
  BY <1>1, <1>2 DEF All, Plain
<1>4. OnPage(c, answers, commands)
  BY <1>1, <1>3 DEF OnPage, AtHello
<1>5. Read(c, request, answers, commands, flash, faults)
  BY <1>1, <1>2, <1>4 DEF Read, ReadsPage
<1>6. Verified(c, request, answers, commands, flash, faults)
  BY <1>1, <1>2, <1>3, <1>4 DEF Verified, VerifiesPage
<1> QED BY <1>1, <1>2, <1>5, <1>6 DEF RInv

LEMMA NextRInv ==
  ASSUME IInv, RInv, [Honest]_vars
  PROVE  RInv'
<1>1. CASE Client
  BY <1>1, RSend, RWait, RWaitFails, RReads, RReadsNext, RTooLittle, RMissing DEF Client
<1>2. CASE Execute
  BY <1>2, RExecute
<1>3. CASE UNCHANGED vars
  BY <1>3 DEF vars, RInv
<1> QED BY <1>1, <1>2, <1>3 DEF Honest

(* Every page a read writes to the file is what the flash holds, with any  *)
(* number of faults; and with fewer than two, verify calls a page good     *)
(* exactly if it is: unless the board takes an argument nobody sent.       *)
THEOREM ReadsAreTrue ==
  ASSUME \A r \in Requests : ~ r.pad
  PROVE  Spec => []ReadsTrue
<1>1. Init => (~ misled => RInv)
  BY InitRInv
<1>2. (~ misled => IInv) /\ (~ misled => RInv) /\ [Next]_vars => (~ misled => RInv)'
  BY NextRInv, NextHonest
<1>3. (~ misled => IInv) /\ (~ misled => RInv) => ReadsTrue
  <2> SUFFICES ASSUME ~ misled, IInv, RInv
               PROVE  ReadsTrue
    BY DEF ReadsTrue
  <2>1. ASSUME NEW i \in DOMAIN c.file
        PROVE  c.file[i] = flash[request.offset + i - 1]
    <3>1. request.command = "read"
      BY <2>1 DEF RInv
    <3>2. IsSeq(c.file) /\ \A k \in 1 .. Len(c.file) : c.file[k] = flash[request.offset + k - 1]
      BY <3>1 DEF RInv, Read
    <3>3. i \in 1 .. Len(c.file)
      BY <2>1, <3>2, SeqFacts
    <3> QED BY <3>2, <3>3
  <2>2. ASSUME faults < 2, NEW i \in DOMAIN c.verdicts
        PROVE  c.verdicts[i] = (flash[request.offset + i - 1] = request.file[i])
    <3>1. request.command = "verify"
      BY <2>2 DEF RInv
    <3>2. /\ IsSeq(c.verdicts)
          /\ \A k \in 1 .. Len(c.verdicts) :
               c.verdicts[k] = (flash[request.offset + k - 1] = request.file[k])
      BY <2>2, <3>1 DEF RInv, Verified
    <3>3. i \in 1 .. Len(c.verdicts)
      BY <2>2, <3>2, SeqFacts
    <3> QED BY <3>2, <3>3
  <2> QED BY <2>1, <2>2 DEF ReadsTrue
<1> QED BY <1>1, <1>2, <1>3, Invariance, PTL DEF Spec

-----------------------------------------------------------------------------
(* Two faults.  Every page that failed is paid with a fault of its own: if *)
(* as many failed as there were faults, the present attempt goes by the    *)
(* book, and then nothing fails without another fault.                     *)

\* No letter k is outstanding, which only an erase can take for its own.
NoK(ans, com) == All(ans, com, {"r", "s", "w"})
HasK(ans, com) ==
  \/ \E i \in 1 .. Len(ans) : IsSign(ans[i], {"k"})
  \/ \E i \in 1 .. Len(com) : com[i].letter = "k"

\* By the book: one command or its answer is outstanding, the sector from
\* this page on is erased, and the buffer holds the page.
Command(s) == [letter |-> Letter(s.pc), arg |-> Argument(s)]
Quiet(ans, com) == ans = <<>> /\ com = <<>>
Sent(s, ans, com) == ans = <<>> /\ com = <<Command(s)>>
Back(ans, com, items) == com = <<>> /\ ans = items
Blank(sector, fl, from) == \A p \in Pages : SectorOf(p) = sector /\ p >= from => fl[p] = Erased
Fresh(s, fl) == Blank(sector_index(s), fl, page_index(s))
Done(s, fl) == Right(s, fl) /\ Blank(sector_index(s), fl, page_index(s) + 1)
\* The letter k of this erase, and no other, is the last that is outstanding.
LastK(ans, com, sector, fl, from) ==
  \/ /\ Len(com) > 0 /\ com[Len(com)] = [letter |-> "k", arg |-> sector]
     /\ \A i \in 1 .. Len(com) - 1 : com[i].letter # "k"
     /\ \A i \in 1 .. Len(ans) : ~ IsSign(ans[i], {"k"})
  \/ /\ com = <<>> /\ Len(ans) > 0 /\ ans[Len(ans)] = Sign("k")
     /\ \A i \in 1 .. Len(ans) - 1 : ~ IsSign(ans[i], {"k"})
     /\ Blank(sector, fl, from)
BookErase(s, ans, com, fl) ==
  /\ s.stage \in {"send", "wait"}
  /\ s.stage = "send" => NoK(ans, com)
  /\ s.stage = "wait" => LastK(ans, com, sector_index(s), fl, page_index(s))
BookStore(s, ans, com, buf, fl) ==
  LET d == PageData(s) IN
  /\ Fresh(s, fl)
  /\ \/ s.stage = "send" /\ Quiet(ans, com)
     \/ s.stage = "wait" /\ Sent(s, ans, com)
     \/ s.stage = "wait" /\ Back(ans, com, <<Sign("s"), Value(d)>>) /\ buf = d
     \/ s.stage = "value" /\ Back(ans, com, <<Value(d)>>) /\ buf = d
BookWrite(s, ans, com, buf, fl) ==
  \/ s.stage = "send" /\ Quiet(ans, com) /\ buf = PageData(s) /\ Fresh(s, fl)
  \/ s.stage = "wait" /\ Sent(s, ans, com) /\ buf = PageData(s) /\ Fresh(s, fl)
  \/ s.stage = "wait" /\ Back(ans, com, <<Sign("w")>>) /\ Done(s, fl)
BookLoad(s, ans, com, fl) ==
  LET d == PageData(s) IN
  /\ Done(s, fl) /\ s.crc_list \subseteq {d} /\ s.load_try = 0
  /\ \/ s.stage = "send" /\ Quiet(ans, com)
     \/ s.stage = "wait" /\ Sent(s, ans, com)
     \/ s.stage = "wait" /\ Back(ans, com, <<Sign("r"), Value(d)>>)
     \/ s.stage = "value" /\ Back(ans, com, <<Value(d)>>)
Book(s, ans, com, buf, fl) ==
  /\ s.pc = "eraseSector" => BookErase(s, ans, com, fl)
  /\ s.pc = "store" => BookStore(s, ans, com, buf, fl)
  /\ s.pc = "write" => BookWrite(s, ans, com, buf, fl)
  /\ s.pc = "loadPage" => BookLoad(s, ans, com, fl)

\* A late k may answer the erase of the next attempt, and leave the store to
\* be answered by a late s: then that one is right.
RightAnswer(d, ans, i) == i + 1 <= Len(ans) /\ ans[i + 1] = Value(d)
RightS(d, ans, com) ==
  /\ \A i \in 1 .. Len(ans) : IsSign(ans[i], {"s"}) => RightAnswer(d, ans, i)
  /\ \A i \in 1 .. Len(com) : com[i].letter = "s" => com[i].arg = d
RightBehindK(d, ans, com) ==
  /\ \A i, j \in 1 .. Len(ans) :
       i < j /\ IsSign(ans[i], {"k"}) /\ IsSign(ans[j], {"s"}) => RightAnswer(d, ans, j)
  /\ \A i \in 1 .. Len(ans), j \in 1 .. Len(com) :
       IsSign(ans[i], {"k"}) /\ com[j].letter = "s" => com[j].arg = d
  /\ \A i, j \in 1 .. Len(com) :
       i < j /\ com[i].letter = "k" /\ com[j].letter = "s" => com[j].arg = d
\* After one fault, and no page failed.
LateErase(s, ans, com) ==
  s.pc = "store" => NoK(ans, com) \/ (s.page = 0 /\ RightS(PageData(s), ans, com))
\* After two faults, and one page failed.
LateBoth(s, ans, com) ==
  /\ s.pc = "eraseSector" => RightBehindK(PageData(s), ans, com)
  /\ s.pc = "store" =>
       \/ NoK(ans, com)
       \/ s.stage # "value" /\ RightS(PageData(s), ans, com)
       \/ s.stage = "value" /\ ans # <<>> /\ Head(ans) = Value(PageData(s))

Paid(s, ans, com, buf, fl, n) ==
  LET failed == s.sector_write_attempt IN
  /\ failed <= n
  /\ failed = n => Book(s, ans, com, buf, fl)
  /\ failed = 0 /\ n = 1 => LateErase(s, ans, com)
  /\ failed = 1 /\ n = 2 => LateBoth(s, ans, com)
Erases(s, ans, com) ==
  /\ s.pc \in {"hello", "eraseSector"} \cup Final
  /\ s.pc = "eraseSector" => s.stage \in {"send", "wait"}
  /\ Plain(ans) /\ All(ans, com, {">", "k"})
\* A try of an erase is paid with a fault, too.
Tried(s, ans, com, n) ==
  s.pc = "eraseSector" =>
    /\ s.erase_try \in 0 .. 2 /\ s.erase_try <= n
    /\ s.stage = "wait" /\ ~ HasK(ans, com) => s.erase_try < n
Goes(s, r, ans, com, buf, fl, n) ==
  /\ s.pc = "aborted" => n > 2
  /\ Tried(s, ans, com, n)
  /\ r.command = "erase" => Erases(s, ans, com)
  /\ r.command = "write" /\ s.pc \in {"hello"} \cup Steps => Paid(s, ans, com, buf, fl, n)

TInv == Changes(request) => Goes(c, request, answers, commands, buffer, flash, faults)

-----------------------------------------------------------------------------
(* What becomes of the letters s and k on the line.                        *)

LEMMA NoKRight ==
  ASSUME NEW d, NEW ans, NEW com, NoK(ans, com)
  PROVE  RightBehindK(d, ans, com) /\ ~ HasK(ans, com)
BY DEF NoK, RightBehindK, HasK, All, IsSign

LEMMA RightAll ==
  ASSUME NEW d, NEW ans, NEW com, RightS(d, ans, com)
  PROVE  RightBehindK(d, ans, com)
BY DEF RightS, RightBehindK

LEMMA NoSRight ==
  ASSUME NEW d, NEW ans, NEW com, NEW S, All(ans, com, S), "s" \notin S
  PROVE  RightS(d, ans, com)
BY DEF RightS, All, IsSign

LEMMA NoKTail ==
  ASSUME NEW ans, IsSeq(ans), ans # <<>>, NEW com, NoK(ans, com)
  PROVE  NoK(Tail(ans), com)
BY AllTail DEF NoK

LEMMA RightSTail ==
  ASSUME NEW d, NEW ans, IsSeq(ans), ans # <<>>, NEW com, RightS(d, ans, com)
  PROVE  /\ RightS(d, Tail(ans), com)
         /\ IsSign(Head(ans), {"s"}) => Tail(ans) # <<>> /\ Head(Tail(ans)) = Value(d)
<1> DEFINE b == Tail(ans)
<1>1. /\ IsSeq(b) /\ Len(b) = Len(ans) - 1 /\ Len(ans) \in Nat /\ Len(b) \in Nat /\ Len(ans) >= 1
      /\ \A i \in 1 .. Len(b) : i + 1 \in 1 .. Len(ans) /\ b[i] = ans[i + 1]
      /\ Head(ans) = ans[1]
  BY TailFacts, SeqFacts
<1> HIDE DEF b
<1>2. ASSUME NEW i \in 1 .. Len(b), IsSign(b[i], {"s"})
      PROVE  RightAnswer(d, b, i)
  <2>1. RightAnswer(d, ans, i + 1)
    BY <1>1, <1>2 DEF RightS
  <2>2. i + 1 \in 1 .. Len(b) /\ ans[i + 1 + 1] = Value(d)
    BY <1>1, <2>1 DEF RightAnswer
  <2> QED BY <1>1, <2>2 DEF RightAnswer
<1>3. RightS(d, b, com)
  BY <1>2 DEF RightS
<1>4. ASSUME IsSign(Head(ans), {"s"})
      PROVE  b # <<>> /\ Head(b) = Value(d)
  <2>1. RightAnswer(d, ans, 1)
    BY <1>1, <1>4 DEF RightS
  <2>2. 1 \in 1 .. Len(b) /\ b[1] = Value(d)
    BY <1>1, <2>1 DEF RightAnswer
  <2>3. b # <<>>
    BY <2>2, EmptySeq
  <2> QED BY <1>1, <2>2, <2>3, TailFacts
<1> QED BY <1>3, <1>4 DEF b

LEMMA RightKTail ==
  ASSUME NEW d, NEW ans, IsSeq(ans), ans # <<>>, NEW com, RightBehindK(d, ans, com)
  PROVE  /\ RightBehindK(d, Tail(ans), com)
         /\ IsSign(Head(ans), {"k"}) => RightS(d, Tail(ans), com)
<1> DEFINE b == Tail(ans)
<1>1. /\ Len(b) = Len(ans) - 1 /\ Len(ans) \in Nat /\ Len(b) \in Nat /\ Len(ans) >= 1
      /\ \A i \in 1 .. Len(b) : i + 1 \in 1 .. Len(ans) /\ b[i] = ans[i + 1] /\ 1 < i + 1
      /\ Head(ans) = ans[1] /\ 1 \in 1 .. Len(ans)
  BY TailFacts, SeqFacts
<1> HIDE DEF b
<1>2. ASSUME NEW i \in 1 .. Len(b), RightAnswer(d, ans, i + 1)
      PROVE  RightAnswer(d, b, i)
  <2>1. i + 1 \in 1 .. Len(b) /\ ans[i + 1 + 1] = Value(d)
    BY <1>1, <1>2 DEF RightAnswer
  <2> QED BY <1>1, <2>1 DEF RightAnswer
<1>3. RightBehindK(d, b, com)
  <2>1. ASSUME NEW i \in 1 .. Len(b), NEW j \in 1 .. Len(b), i < j,
               IsSign(b[i], {"k"}), IsSign(b[j], {"s"})
        PROVE  RightAnswer(d, b, j)
    <3>1. i + 1 \in 1 .. Len(ans) /\ j + 1 \in 1 .. Len(ans) /\ i + 1 < j + 1
      BY <1>1, <2>1
    <3>2. IsSign(ans[i + 1], {"k"}) /\ IsSign(ans[j + 1], {"s"})
      BY <1>1, <2>1
    <3>3. RightAnswer(d, ans, j + 1)
      BY <3>1, <3>2 DEF RightBehindK
    <3> QED BY <1>2, <3>3
  <2>2. ASSUME NEW i \in 1 .. Len(b), NEW j \in 1 .. Len(com), IsSign(b[i], {"k"}), com[j].letter = "s"
        PROVE  com[j].arg = d
    BY <1>1, <2>2 DEF RightBehindK
  <2> QED BY <2>1, <2>2 DEF RightBehindK
<1>4. ASSUME IsSign(Head(ans), {"k"})
      PROVE  RightS(d, b, com)
  <2>1. ASSUME NEW j \in 1 .. Len(b), IsSign(b[j], {"s"})
        PROVE  RightAnswer(d, b, j)
    <3>1. RightAnswer(d, ans, j + 1)
      BY <1>1, <1>4, <2>1 DEF RightBehindK
    <3> QED BY <1>2, <3>1
  <2>2. \A j \in 1 .. Len(com) : com[j].letter = "s" => com[j].arg = d
    BY <1>1, <1>4 DEF RightBehindK
  <2> QED BY <2>1, <2>2 DEF RightS
<1> QED BY <1>3, <1>4 DEF b

\* A command is sent.
LEMMA HasKSend ==
  ASSUME NEW ans, NEW com, IsSeq(com), NEW cmd, cmd.letter = "k"
  PROVE  HasK(ans, Append(com, cmd))
<1>1. Len(com) + 1 \in 1 .. Len(Append(com, cmd)) /\ Append(com, cmd)[Len(com) + 1] = cmd
  BY AppendFacts, SeqFacts
<1> QED BY <1>1 DEF HasK

LEMMA RightSSend ==
  ASSUME NEW d, NEW ans, NEW com, IsSeq(com), NEW cmd, RightS(d, ans, com),
         cmd.letter = "s" => cmd.arg = d
  PROVE  RightS(d, ans, Append(com, cmd))
<1>1. /\ Len(com) \in Nat /\ Len(Append(com, cmd)) = Len(com) + 1
      /\ \A i \in 1 .. Len(com) : Append(com, cmd)[i] = com[i]
      /\ Append(com, cmd)[Len(com) + 1] = cmd
  BY AppendFacts, SeqFacts
<1>2. \A i \in 1 .. Len(com) + 1 : i \in 1 .. Len(com) \/ i = Len(com) + 1
  BY <1>1
<1> QED BY <1>1, <1>2 DEF RightS

LEMMA RightKSend ==
  ASSUME NEW d, NEW ans, NEW com, IsSeq(com), NEW cmd, RightBehindK(d, ans, com), cmd.letter # "s"
  PROVE  RightBehindK(d, ans, Append(com, cmd))
<1>1. /\ Len(com) \in Nat /\ Len(Append(com, cmd)) = Len(com) + 1
      /\ \A i \in 1 .. Len(com) : Append(com, cmd)[i] = com[i]
      /\ Append(com, cmd)[Len(com) + 1] = cmd
  BY AppendFacts, SeqFacts
<1> DEFINE new == Append(com, cmd)
<1> HIDE DEF new
<1>2. /\ \A i \in 1 .. Len(new) : i \in 1 .. Len(com) \/ i = Len(com) + 1
      /\ Len(new) = Len(com) + 1 /\ Len(com) \in Nat
      /\ \A i \in 1 .. Len(com) : new[i] = com[i]
      /\ new[Len(com) + 1] = cmd
  BY <1>1 DEF new
<1>3. ASSUME NEW i \in 1 .. Len(new), NEW j \in 1 .. Len(new), i < j,
             new[i].letter = "k", new[j].letter = "s"
      PROVE  new[j].arg = d
  <2>1. j \in 1 .. Len(com)
    BY <1>2, <1>3
  <2>2. i \in 1 .. Len(com)
    BY <1>2, <1>3, <2>1
  <2> QED BY <1>2, <1>3, <2>1, <2>2 DEF RightBehindK
<1>4. ASSUME NEW i \in 1 .. Len(ans), NEW j \in 1 .. Len(new), IsSign(ans[i], {"k"}), new[j].letter = "s"
      PROVE  new[j].arg = d
  <2>1. j \in 1 .. Len(com)
    BY <1>2, <1>4
  <2> QED BY <1>2, <1>4, <2>1 DEF RightBehindK
<1>5. RightBehindK(d, ans, new)
  BY <1>3, <1>4 DEF RightBehindK
<1> QED BY <1>5 DEF new

LEMMA LastKSend ==
  ASSUME NEW ans, NEW com, IsSeq(com), NEW cmd, NEW sector, NEW fl, NEW from, NoK(ans, com),
         cmd = [letter |-> "k", arg |-> sector]
  PROVE  LastK(ans, Append(com, cmd), sector, fl, from)
<1>1. /\ Len(com) \in Nat /\ Len(Append(com, cmd)) = Len(com) + 1
      /\ \A i \in 1 .. Len(com) : Append(com, cmd)[i] = com[i]
      /\ Append(com, cmd)[Len(com) + 1] = cmd
  BY AppendFacts, SeqFacts
<1>2. /\ \A i \in 1 .. Len(com) : com[i].letter # "k"
      /\ \A i \in 1 .. Len(ans) : ~ IsSign(ans[i], {"k"})
  BY DEF NoK, All, IsSign
<1>3. /\ Len(Append(com, cmd)) > 0 /\ Len(Append(com, cmd)) - 1 = Len(com)
      /\ Append(com, cmd)[Len(Append(com, cmd))] = cmd
  BY <1>1
<1> QED BY <1>1, <1>2, <1>3 DEF LastK

LEMMA LastKTail ==
  ASSUME NEW ans, IsSeq(ans), ans # <<>>, NEW com, NEW sector, NEW fl, NEW from,
         LastK(ans, com, sector, fl, from)
  PROVE  /\ ~ IsSign(Head(ans), {"k"}) => LastK(Tail(ans), com, sector, fl, from)
         /\ IsSign(Head(ans), {"k"}) => Quiet(Tail(ans), com) /\ Blank(sector, fl, from)
<1> DEFINE b == Tail(ans)
<1>1. /\ IsSeq(b) /\ Len(b) = Len(ans) - 1 /\ Len(ans) \in Nat /\ Len(b) \in Nat /\ Len(ans) >= 1
      /\ \A i \in 1 .. Len(b) : i + 1 \in 1 .. Len(ans) /\ b[i] = ans[i + 1]
      /\ Head(ans) = ans[1] /\ 1 \in 1 .. Len(ans)
  BY TailFacts, SeqFacts
<1> HIDE DEF b
<1>2. CASE /\ Len(com) > 0 /\ com[Len(com)] = [letter |-> "k", arg |-> sector]
           /\ \A i \in 1 .. Len(com) - 1 : com[i].letter # "k"
           /\ \A i \in 1 .. Len(ans) : ~ IsSign(ans[i], {"k"})
  <2>1. /\ \A i \in 1 .. Len(b) : ~ IsSign(b[i], {"k"})
        /\ ~ IsSign(Head(ans), {"k"})
    BY <1>1, <1>2
  <2> QED BY <1>2, <2>1 DEF LastK, b
<1>3. CASE /\ com = <<>> /\ Len(ans) > 0 /\ ans[Len(ans)] = Sign("k")
           /\ \A i \in 1 .. Len(ans) - 1 : ~ IsSign(ans[i], {"k"})
           /\ Blank(sector, fl, from)
  <2>1. CASE Len(ans) = 1
    <3>1. IsSign(Head(ans), {"k"})
      BY <1>1, <1>3, <2>1 DEF IsSign, Sign
    <3>2. b = <<>>
      <4>1. PICK S : b \in Seq(S)
        BY <1>1 DEF IsSeq
      <4> QED BY <1>1, <2>1, <4>1, EmptySeq
    <3> QED BY <1>3, <3>1, <3>2 DEF Quiet, b
  <2>2. CASE Len(ans) # 1
    <3>1. 1 \in 1 .. Len(ans) - 1 /\ Len(b) > 0 /\ Len(b) \in 1 .. Len(b) /\ Len(b) + 1 = Len(ans)
      BY <1>1, <2>2
    <3>2. ~ IsSign(Head(ans), {"k"}) /\ b[Len(b)] = Sign("k")
      BY <1>1, <1>3, <3>1
    <3>3. ASSUME NEW i \in 1 .. Len(b) - 1
          PROVE  ~ IsSign(b[i], {"k"})
      <4>1. i \in 1 .. Len(b) /\ i + 1 \in 1 .. Len(ans) - 1
        BY <1>1, <3>1
      <4> QED BY <1>1, <1>3, <4>1
    <3> QED BY <1>3, <3>1, <3>2, <3>3 DEF LastK, b
  <2> QED BY <2>1, <2>2
<1> QED BY <1>2, <1>3 DEF LastK

LEMMA LastKFacts ==
  ASSUME NEW ans, IsSeq(ans), NEW com, IsSeq(com), NEW sector, NEW fl, NEW from,
         LastK(ans, com, sector, fl, from)
  PROVE  No(ans, com, {"k"}, {"s"}) /\ ~ Quiet(ans, com)
<1>1. /\ Len(ans) \in Nat /\ Len(com) \in Nat /\ Len(<<>>) = 0
  BY SeqFacts, EmptySeq
<1>2. ~ Quiet(ans, com)
  BY <1>1 DEF Quiet, LastK
<1>3. CASE /\ Len(com) > 0 /\ com[Len(com)] = [letter |-> "k", arg |-> sector]
           /\ \A i \in 1 .. Len(com) - 1 : com[i].letter # "k"
           /\ \A i \in 1 .. Len(ans) : ~ IsSign(ans[i], {"k"})
  <2>1. ASSUME NEW i \in 1 .. Len(com), NEW j \in 1 .. Len(com), i < j
        PROVE  com[i].letter # "k"
    BY <1>1, <1>3, <2>1
  <2> QED BY <1>2, <1>3, <2>1 DEF No
<1>4. CASE /\ com = <<>> /\ Len(ans) > 0 /\ ans[Len(ans)] = Sign("k")
           /\ \A i \in 1 .. Len(ans) - 1 : ~ IsSign(ans[i], {"k"})
           /\ Blank(sector, fl, from)
  <2>1. ASSUME NEW i \in 1 .. Len(ans), NEW j \in 1 .. Len(ans), i < j
        PROVE  ~ IsSign(ans[i], {"k"})
    BY <1>1, <1>4, <2>1
  <2> QED BY <1>1, <1>2, <1>4, <2>1 DEF No
<1> QED BY <1>3, <1>4 DEF LastK

LEMMA BehindNone ==
  ASSUME NEW d, NEW ans, NEW com, No(ans, com, {"k"}, {"s"})
  PROVE  RightBehindK(d, ans, com)
BY DEF No, RightBehindK

\* The board has executed the first command, and answered it with v.
Answers(ans, b, x, v) ==
  /\ IsSeq(b) /\ \A i \in 1 .. Len(ans) : b[i] = ans[i]
  /\ b[Len(ans) + 1] = Sign(x)
  /\ IF x \in Valued THEN Len(b) = Len(ans) + 2 /\ b[Len(ans) + 2] = Value(v)
     ELSE Len(b) = Len(ans) + 1

LEMMA AnswerIs ==
  ASSUME NEW ans, IsSeq(ans), NEW cmd, cmd.letter # "l", NEW v
  PROVE  Answers(ans, ans \o Answer(cmd, v), cmd.letter, v)
<1> DEFINE x == cmd.letter
<1>1. CASE x \in Valued
  <2>1. Answer(cmd, v) = <<Sign(x), Value(v)>>
    BY <1>1 DEF Answer
  <2>2. Value(v).kind # "letter"
    BY DEF Value
  <2> DEFINE b == ans \o <<Sign(x), Value(v)>>
  <2>3. /\ IsSeq(b) /\ Answered(ans, b, x) /\ Len(b) = Len(ans) + 2
        /\ b[Len(ans) + 1] = Sign(x) /\ b[Len(ans) + 2] = Value(v)
    BY <2>2, TwoAnswers
  <2> HIDE DEF b
  <2>4. Answers(ans, b, x, v)
    BY <1>1, <2>3 DEF Answered, Answers
  <2> QED BY <2>1, <2>4 DEF b
<1>2. CASE x \notin Valued
  <2>1. Answer(cmd, v) = <<Sign(x)>>
    BY <1>2 DEF Answer, Valued
  <2>2. PICK S : ans \in Seq(S)
    BY DEF IsSeq
  <2>3. ans \in Seq(S \cup {Sign(x)}) /\ <<Sign(x)>> \in Seq(S \cup {Sign(x)})
    BY <2>2
  <2>4. Len(ans \o <<Sign(x)>>) = Len(ans) + 1 /\ (ans \o <<Sign(x)>>)[Len(ans) + 1] = Sign(x)
    BY <2>3
  <2>5. /\ IsSeq(ans \o <<Sign(x)>>) /\ \A i \in 1 .. Len(ans) : (ans \o <<Sign(x)>>)[i] = ans[i]
    BY OneAnswer DEF Answered
  <2> QED BY <1>2, <2>1, <2>4, <2>5 DEF Answers
<1> QED BY <1>1, <1>2

\* The places on the line after it.
Places(ans, b, com, rest) ==
  /\ Len(ans) \in Nat /\ Len(b) \in Nat /\ Len(com) \in Nat /\ 1 \in 1 .. Len(com)
  /\ Head(com) = com[1] /\ IsSeq(rest) /\ Len(rest) = Len(com) - 1
  /\ \A i \in 1 .. Len(rest) : i + 1 \in 1 .. Len(com) /\ 1 < i + 1 /\ rest[i] = com[i + 1]
  /\ Len(b) >= Len(ans) + 1 /\ \A i \in 1 .. Len(ans) : b[i] = ans[i]
  /\ b[Len(ans) + 1] = Sign(com[1].letter)
  /\ \A i \in 1 .. Len(b) : \A S : IsSign(b[i], S) =>
       \/ i \in 1 .. Len(ans) /\ IsSign(ans[i], S)
       \/ i = Len(ans) + 1 /\ com[1].letter \in S

LEMMA AnswersFacts ==
  ASSUME NEW ans, IsSeq(ans), NEW com, IsSeq(com), com # <<>>, NEW b, NEW v,
         Answers(ans, b, Head(com).letter, v)
  PROVE  Places(ans, b, com, Tail(com))
<1>1. /\ Len(ans) \in Nat /\ Len(b) \in Nat /\ Len(com) \in Nat /\ 1 \in 1 .. Len(com)
      /\ Head(com) = com[1] /\ IsSeq(Tail(com)) /\ Len(Tail(com)) = Len(com) - 1
      /\ \A i \in 1 .. Len(Tail(com)) : i + 1 \in 1 .. Len(com) /\ Tail(com)[i] = com[i + 1]
  BY TailFacts, SeqFacts DEF Answers
<1>2. /\ Len(b) >= Len(ans) + 1 /\ b[Len(ans) + 1] = Sign(com[1].letter)
      /\ Len(b) \in {Len(ans) + 1, Len(ans) + 2}
      /\ Len(b) = Len(ans) + 2 => b[Len(ans) + 2] = Value(v)
  BY <1>1 DEF Answers
<1>3. ASSUME NEW i \in 1 .. Len(b), NEW S, IsSign(b[i], S)
      PROVE  \/ i \in 1 .. Len(ans) /\ IsSign(ans[i], S)
             \/ i = Len(ans) + 1 /\ com[1].letter \in S
  <2>1. i \in 1 .. Len(ans) \/ i = Len(ans) + 1 \/ (i = Len(ans) + 2 /\ Len(b) = Len(ans) + 2)
    BY <1>1, <1>2
  <2>2. CASE i \in 1 .. Len(ans)
    BY <1>3, <2>2 DEF Answers
  <2>3. CASE i = Len(ans) + 1
    BY <1>2, <1>3, <2>3 DEF IsSign, Sign
  <2>4. CASE i = Len(ans) + 2 /\ Len(b) = Len(ans) + 2
    BY <1>2, <1>3, <2>4 DEF IsSign, Value
  <2> QED BY <2>1, <2>2, <2>3, <2>4
<1>4. \A i \in 1 .. Len(Tail(com)) : 1 < i + 1
  OBVIOUS
<1> QED BY <1>1, <1>2, <1>3, <1>4 DEF Answers, Places

LEMMA HasKAnswered ==
  ASSUME NEW ans, IsSeq(ans), NEW com, IsSeq(com), com # <<>>, NEW b, NEW v,
         Answers(ans, b, Head(com).letter, v), HasK(ans, com)
  PROVE  HasK(b, Tail(com))
<1> DEFINE rest == Tail(com)
<1>0. Places(ans, b, com, rest)
  BY AnswersFacts
<1> HIDE DEF rest
<1>1. /\ Len(ans) \in Nat /\ Len(b) \in Nat /\ Len(com) \in Nat /\ Len(rest) = Len(com) - 1
      /\ \A i \in 1 .. Len(rest) : rest[i] = com[i + 1]
      /\ Len(b) >= Len(ans) + 1 /\ \A i \in 1 .. Len(ans) : b[i] = ans[i]
      /\ b[Len(ans) + 1] = Sign(com[1].letter)
  BY <1>0 DEF Places
<1>2. CASE \E i \in 1 .. Len(ans) : IsSign(ans[i], {"k"})
  <2>1. PICK i \in 1 .. Len(ans) : IsSign(ans[i], {"k"})
    BY <1>2
  <2>2. i \in 1 .. Len(b) /\ IsSign(b[i], {"k"})
    BY <1>1, <2>1
  <2> QED BY <2>2 DEF HasK, rest
<1>3. CASE \E i \in 1 .. Len(com) : com[i].letter = "k"
  <2>1. PICK i \in 1 .. Len(com) : com[i].letter = "k"
    BY <1>3
  <2>2. CASE i = 1
    <3>1. Len(ans) + 1 \in 1 .. Len(b) /\ IsSign(b[Len(ans) + 1], {"k"})
      BY <1>1, <2>1, <2>2 DEF IsSign, Sign
    <3> QED BY <3>1 DEF HasK
  <2>3. CASE i # 1
    <3>1. i - 1 \in 1 .. Len(rest) /\ (i - 1) + 1 = i
      BY <1>1, <2>1, <2>3
    <3>2. rest[i - 1].letter = "k"
      BY <1>1, <2>1, <3>1
    <3> QED BY <3>1, <3>2 DEF HasK, rest
  <2> QED BY <2>2, <2>3
<1> QED BY <1>2, <1>3 DEF HasK

\* An answer with a value that is right.
LEMMA RightGrows ==
  ASSUME NEW ans, IsSeq(ans), NEW com, IsSeq(com), com # <<>>, NEW b, NEW v,
         Answers(ans, b, Head(com).letter, v), Head(com).letter = "s" => v = Head(com).arg,
         NEW d, NEW i \in 1 .. Len(b), IsSign(b[i], {"s"}),
         i \in 1 .. Len(ans) /\ IsSign(ans[i], {"s"}) => RightAnswer(d, ans, i),
         i = Len(ans) + 1 /\ com[1].letter = "s" => com[1].arg = d
  PROVE  RightAnswer(d, b, i)
<1>0. Places(ans, b, com, Tail(com))
  BY AnswersFacts
<1>1. /\ Len(ans) \in Nat /\ Len(b) \in Nat /\ Head(com) = com[1]
      /\ Len(b) >= Len(ans) + 1 /\ \A j \in 1 .. Len(ans) : b[j] = ans[j]
      /\ \A S : IsSign(b[i], S) =>
           \/ i \in 1 .. Len(ans) /\ IsSign(ans[i], S)
           \/ i = Len(ans) + 1 /\ com[1].letter \in S
  BY <1>0 DEF Places
<1>2. CASE i \in 1 .. Len(ans) /\ IsSign(ans[i], {"s"})
  <2>1. i + 1 \in 1 .. Len(ans) /\ ans[i + 1] = Value(d)
    BY <1>1, <1>2 DEF RightAnswer
  <2> QED BY <1>1, <2>1 DEF RightAnswer
<1>3. CASE i = Len(ans) + 1 /\ com[1].letter = "s"
  <2>1. v = d /\ com[1].letter \in Valued
    BY <1>1, <1>3 DEF Valued
  <2>2. Len(b) = Len(ans) + 2 /\ b[Len(ans) + 2] = Value(d)
    BY <1>1, <2>1 DEF Answers
  <2> QED BY <1>1, <1>3, <2>2 DEF RightAnswer
<1> QED BY <1>1, <1>2, <1>3

LEMMA RightSAnswered ==
  ASSUME NEW ans, IsSeq(ans), NEW com, IsSeq(com), com # <<>>, NEW b, NEW v,
         Answers(ans, b, Head(com).letter, v), Head(com).letter = "s" => v = Head(com).arg,
         NEW d, RightS(d, ans, com)
  PROVE  RightS(d, b, Tail(com))
<1> DEFINE rest == Tail(com)
<1>0. Places(ans, b, com, rest)
  BY AnswersFacts
<1> HIDE DEF rest
<1>1. /\ Len(com) \in Nat /\ 1 \in 1 .. Len(com) /\ Len(rest) = Len(com) - 1
      /\ \A i \in 1 .. Len(rest) : i + 1 \in 1 .. Len(com) /\ rest[i] = com[i + 1]
  BY <1>0 DEF Places
<1>2. ASSUME NEW i \in 1 .. Len(b), IsSign(b[i], {"s"})
      PROVE  RightAnswer(d, b, i)
  <2>1. /\ i \in 1 .. Len(ans) /\ IsSign(ans[i], {"s"}) => RightAnswer(d, ans, i)
        /\ com[1].letter = "s" => com[1].arg = d
    BY <1>1 DEF RightS
  <2> QED BY <1>2, <2>1, RightGrows
<1>3. \A i \in 1 .. Len(rest) : rest[i].letter = "s" => rest[i].arg = d
  BY <1>1 DEF RightS
<1> QED BY <1>2, <1>3 DEF RightS, rest

LEMMA RightKAnswered ==
  ASSUME NEW ans, IsSeq(ans), NEW com, IsSeq(com), com # <<>>, NEW b, NEW v,
         Answers(ans, b, Head(com).letter, v), Head(com).letter = "s" => v = Head(com).arg,
         NEW d, RightBehindK(d, ans, com)
  PROVE  RightBehindK(d, b, Tail(com))
<1> DEFINE rest == Tail(com)
<1>0. Places(ans, b, com, rest)
  BY AnswersFacts
<1> HIDE DEF rest
<1>1. /\ Len(ans) \in Nat /\ Len(com) \in Nat /\ 1 \in 1 .. Len(com) /\ Len(rest) = Len(com) - 1
      /\ \A i \in 1 .. Len(rest) : i + 1 \in 1 .. Len(com) /\ 1 < i + 1 /\ rest[i] = com[i + 1]
      /\ \A i \in 1 .. Len(b) : \A S : IsSign(b[i], S) =>
              \/ i \in 1 .. Len(ans) /\ IsSign(ans[i], S)
              \/ i = Len(ans) + 1 /\ com[1].letter \in S
      /\ Len(b) \in Nat
  BY <1>0 DEF Places
<1>2. ASSUME NEW i \in 1 .. Len(b), NEW j \in 1 .. Len(b), i < j,
             IsSign(b[i], {"k"}), IsSign(b[j], {"s"})
      PROVE  RightAnswer(d, b, j)
  <2>1. i \in 1 .. Len(ans) /\ IsSign(ans[i], {"k"})
    <3>1. CASE i = Len(ans) + 1 /\ com[1].letter \in {"k"}
      <4>1. j = Len(ans) + 1 \/ j \in 1 .. Len(ans)
        BY <1>1, <1>2
      <4> QED BY <1>1, <1>2, <3>1, <4>1
    <3> QED BY <1>1, <1>2, <3>1
  <2>2. j \in 1 .. Len(ans) /\ IsSign(ans[j], {"s"}) => RightAnswer(d, ans, j)
    BY <1>2, <2>1 DEF RightBehindK
  <2>3. j = Len(ans) + 1 /\ com[1].letter = "s" => com[1].arg = d
    BY <1>1, <2>1 DEF RightBehindK
  <2> QED BY <1>2, <2>2, <2>3, RightGrows
<1>3. ASSUME NEW i \in 1 .. Len(b), NEW j \in 1 .. Len(rest), IsSign(b[i], {"k"}), rest[j].letter = "s"
      PROVE  rest[j].arg = d
  <2>1. CASE i \in 1 .. Len(ans) /\ IsSign(ans[i], {"k"})
    BY <1>1, <1>3, <2>1 DEF RightBehindK
  <2>2. CASE com[1].letter \in {"k"}
    BY <1>1, <1>3, <2>2 DEF RightBehindK
  <2> QED BY <1>1, <1>3, <2>1, <2>2
<1>4. ASSUME NEW i \in 1 .. Len(rest), NEW j \in 1 .. Len(rest), i < j,
             rest[i].letter = "k", rest[j].letter = "s"
      PROVE  rest[j].arg = d
  <2>1. i + 1 \in 1 .. Len(com) /\ j + 1 \in 1 .. Len(com) /\ i + 1 < j + 1
    BY <1>1, <1>4
  <2>2. com[i + 1].letter = "k" /\ com[j + 1].letter = "s" /\ rest[j] = com[j + 1]
    BY <1>1, <1>4
  <2> QED BY <2>1, <2>2 DEF RightBehindK
<1>5. RightBehindK(d, b, rest)
  BY <1>2, <1>3, <1>4 DEF RightBehindK
<1> QED BY <1>5 DEF rest

LEMMA LastKAnswered ==
  ASSUME NEW ans, IsSeq(ans), NEW com, IsSeq(com), com # <<>>, NEW b, NEW v,
         Answers(ans, b, Head(com).letter, v),
         NEW sector, NEW fl, NEW new, NEW from, LastK(ans, com, sector, fl, from),
         Head(com) = [letter |-> "k", arg |-> sector] => Blank(sector, new, from)
  PROVE  LastK(b, Tail(com), sector, new, from)
<1> DEFINE rest == Tail(com)
<1>0. Places(ans, b, com, rest)
  BY AnswersFacts
<1> HIDE DEF rest
<1>1. /\ Len(ans) \in Nat /\ Len(b) \in Nat /\ Len(com) \in Nat /\ 1 \in 1 .. Len(com)
      /\ IsSeq(rest) /\ Len(rest) = Len(com) - 1 /\ Head(com) = com[1]
      /\ \A i \in 1 .. Len(rest) : i + 1 \in 1 .. Len(com) /\ rest[i] = com[i + 1]
      /\ Len(b) >= Len(ans) + 1 /\ b[Len(ans) + 1] = Sign(com[1].letter)
      /\ \A i \in 1 .. Len(b) : \A S : IsSign(b[i], S) =>
              \/ i \in 1 .. Len(ans) /\ IsSign(ans[i], S)
              \/ i = Len(ans) + 1 /\ com[1].letter \in S
  BY <1>0 DEF Places
<1>2. /\ com[Len(com)] = [letter |-> "k", arg |-> sector]
      /\ \A i \in 1 .. Len(com) - 1 : com[i].letter # "k"
      /\ \A i \in 1 .. Len(ans) : ~ IsSign(ans[i], {"k"})
  BY DEF LastK
<1>3. CASE Len(com) = 1
  <2>1. rest = <<>>
    <3>1. PICK S : rest \in Seq(S)
      BY <1>1 DEF IsSeq
    <3> QED BY <1>1, <1>3, <3>1, EmptySeq
  <2>2. com[1].letter = "k" /\ Blank(sector, new, from)
    BY <1>1, <1>2, <1>3
  <2>3. Len(b) = Len(ans) + 1
    BY <1>1, <2>2 DEF Answers, Valued
  <2>4. Len(b) > 0 /\ b[Len(b)] = Sign("k")
    BY <1>1, <2>2, <2>3
  <2>5. ASSUME NEW i \in 1 .. Len(b) - 1
        PROVE  ~ IsSign(b[i], {"k"})
    <3>1. i \in 1 .. Len(ans) /\ i \in 1 .. Len(b) /\ i # Len(ans) + 1
      BY <1>1, <2>3
    <3> QED BY <1>1, <1>2, <3>1
  <2> QED BY <2>1, <2>2, <2>4, <2>5 DEF LastK, rest
<1>4. CASE Len(com) # 1
  <2>1. 1 \in 1 .. Len(com) - 1 /\ Len(rest) > 0 /\ Len(rest) \in 1 .. Len(rest) /\ Len(rest) + 1 = Len(com)
    BY <1>1, <1>4
  <2>2. com[1].letter # "k"
    BY <1>2, <2>1
  <2>3. rest[Len(rest)] = [letter |-> "k", arg |-> sector]
    BY <1>1, <1>2, <2>1
  <2>4. ASSUME NEW i \in 1 .. Len(rest) - 1
        PROVE  rest[i].letter # "k"
    <3>1. i \in 1 .. Len(rest) /\ i + 1 \in 1 .. Len(com) - 1
      BY <1>1, <2>1
    <3> QED BY <1>1, <1>2, <3>1
  <2>5. \A i \in 1 .. Len(b) : ~ IsSign(b[i], {"k"})
    BY <1>1, <1>2, <2>2
  <2> QED BY <2>1, <2>3, <2>4, <2>5 DEF LastK, rest
<1> QED BY <1>3, <1>4

-----------------------------------------------------------------------------
(* What Ended does with the tries.                                         *)

\* A sector starts with no try of its erase, and is the last to be given up.
Starts(s, t) ==
  /\ t.pc = "eraseSector" => t.erase_try = 0
  /\ t.pc = "aborted" => s.sector_write_attempt + 1 >= tries

LEMMA GotoStarts ==
  ASSUME NEW s, DOMAIN s = Fields, NEW pc, pc \notin {"eraseSector", "aborted"}
  PROVE  Starts(s, Goto(s, pc))
BY GotoFacts DEF Starts

LEMMA SectorStarts ==
  ASSUME NEW s, NEW u, DOMAIN u = Fields
  PROVE  Starts(s, StartSector(u))
BY DEF Fields, Goto, Starts, StartSector

LEMMA NextSectorStarts ==
  ASSUME NEW s, DOMAIN s = Fields, NEW r
  PROVE  Starts(s, NextSector(s, r))
<1> DEFINE u == [s EXCEPT !.sector = @ + 1]
<1>1. DOMAIN u = Fields
  OBVIOUS
<1>2. NextSector(s, r) = Goto(s, "done") \/ NextSector(s, r) = StartSector(u)
  BY DEF NextSector
<1> HIDE DEF u
<1> QED BY <1>1, <1>2, GotoStarts, SectorStarts

LEMMA NextPageStarts ==
  ASSUME NEW s, DOMAIN s = Fields, NEW r, r.command = "write"
  PROVE  Starts(s, NextPage(s, r))
<1>1. CASE s.page + 1 = pages_per_sector
  BY <1>1, NextSectorStarts DEF NextPage
<1>2. CASE s.page + 1 # pages_per_sector
  <2>1. NextPage(s, r) = [Goto(s, "store") EXCEPT !.page = @ + 1]
    BY <1>2 DEF NextPage
  <2> QED BY <2>1 DEF Starts, Goto, Fields
<1> QED BY <1>1, <1>2

LEMMA PageFailedStarts ==
  ASSUME NEW s, DOMAIN s = Fields, s.sector_write_attempt \in Nat
  PROVE  Starts(s, PageFailed(s))
<1> DEFINE u == [s EXCEPT !.sector_write_attempt = @ + 1]
<1>1. DOMAIN u = Fields
  OBVIOUS
<1>2. CASE s.sector_write_attempt + 1 < tries
  <2>1. PageFailed(s) = StartSector(u)
    BY <1>2 DEF PageFailed
  <2> HIDE DEF u
  <2> QED BY <1>1, <2>1, SectorStarts
<1>3. CASE ~ (s.sector_write_attempt + 1 < tries)
  <2>1. PageFailed(s) = Goto(s, "aborted")
    BY <1>3 DEF PageFailed
  <2> QED BY <1>3, <2>1, GotoFacts DEF Starts, tries
<1> QED BY <1>2, <1>3

LEMMA LoadedStarts ==
  ASSUME NEW s, DOMAIN s = Fields, s.sector_write_attempt \in Nat, NEW r, r.command = "write", NEW crc
  PROVE  Starts(s, Loaded(s, r, crc))
<1>1. CASE crc = PageData(s)
  BY <1>1, NextPageStarts DEF Loaded
<1>2. CASE crc # PageData(s)
  BY <1>2, PageFailedStarts DEF Loaded
<1> QED BY <1>1, <1>2

LEMMA StartedStarts ==
  ASSUME NEW s, DOMAIN s = Fields, NEW r, Changes(r)
  PROVE  Starts(s, Started(s, r))
<1>1. \/ Started(s, r) = Goto(s, "usage") \/ Started(s, r) = Goto(s, "crashed")
      \/ Started(s, r) = Goto(s, "done") \/ Started(s, r) = StartSector(s)
  BY DEF Started, Changes
<1> QED BY <1>1, GotoStarts, SectorStarts

LEMMA EndedStarts ==
  ASSUME NEW s, DOMAIN s = Fields, s.sector_write_attempt \in Nat, NEW r, r.command = "write",
         s.pc \in {"hello", "store", "write", "loadPage"}, NEW ok \in BOOLEAN, NEW v,
         NEW t, t = Ended(s, r, ok, v)
  PROVE  Starts(s, t)
<1>1. CASE s.pc = "hello"
  <2>1. t = Started(s, r) \/ t = Goto(s, "usage")
    BY <1>1 DEF Ended
  <2> QED BY <2>1, StartedStarts, GotoStarts DEF Changes
<1>2. CASE s.pc = "store"
  <2>1. t = Goto(s, "write") \/ t = PageFailed(s)
    BY <1>2 DEF Ended, Stored
  <2> QED BY <2>1, PageFailedStarts, GotoStarts
<1>3. CASE s.pc = "write"
  <2>1. t = StartLoad(s) \/ t = PageFailed(s)
    BY <1>3 DEF Ended, Written
  <2>2. Starts(s, StartLoad(s))
    BY StartLoadFacts DEF Starts
  <2> QED BY <2>1, <2>2, PageFailedStarts
<1>4. CASE s.pc = "loadPage"
  <2> DEFINE crc == IF ok THEN v ELSE None
             counts == crc = None \/ s.crc_list # {}
             again == [Goto(s, "loadPage") EXCEPT !.load_try = IF counts THEN @ + 1 ELSE @,
                                                  !.crc_list = @ \cup ({crc} \ {None})]
  <2>1. t = Loaded(s, r, crc) \/ t = Loaded(s, r, None) \/ t = again
    BY <1>4 DEF Ended, loadPageMultiple
  <2>2. Starts(s, again)
    BY DEF Starts, Goto, Fields
  <2> QED BY <2>1, <2>2, LoadedStarts
<1> QED BY <1>1, <1>2, <1>3, <1>4

\* An erase that is not answered.
TriesErase(s, t) ==
  /\ Moved(s, t) /\ Stays(s, t)
  /\ \/ t.pc = "eraseSector" /\ s.erase_try < 2 /\ t.erase_try = s.erase_try + 1
     \/ t.pc = "aborted" /\ s.erase_try = 2
LEMMA EraseFails ==
  ASSUME NEW s, DOMAIN s = Fields, NEW r, s.pc = "eraseSector", s.erase_try \in 0 .. 2,
         NEW v, NEW t, t = Ended(s, r, FALSE, v)
  PROVE  TriesErase(s, t)
<1>1. t = eraseSector(s, r, FALSE)
  BY DEF Ended
<1>2. CASE s.erase_try + 1 < tries
  <2>1. t = [Goto(s, "eraseSector") EXCEPT !.erase_try = @ + 1]
    BY <1>1, <1>2 DEF eraseSector
  <2>2. Moved(s, t) /\ Stays(s, t) /\ t.pc = "eraseSector" /\ t.erase_try = s.erase_try + 1
    BY <2>1 DEF Moved, Stays, Goto, Fields
  <2>3. s.erase_try < 2
    BY <1>2 DEF tries
  <2> QED BY <2>2, <2>3 DEF TriesErase
<1>3. CASE ~ (s.erase_try + 1 < tries)
  <2>1. t = Goto(s, "aborted")
    BY <1>1, <1>3 DEF eraseSector
  <2>2. s.erase_try = 2
    BY <1>3 DEF tries
  <2> QED BY <2>1, <2>2, GotoFacts DEF TriesErase
<1> QED BY <1>2, <1>3

\* The checksum that is right comes when no other has.
LEMMA LoadRight ==
  ASSUME NEW s, DOMAIN s = Fields, NEW r, r.command = "write", s.pc = "loadPage",
         s.load_try = 0, s.crc_list \subseteq {PageData(s)}, PageData(s) # None,
         NEW t, t = Ended(s, r, TRUE, PageData(s))
  PROVE  \/ Advances(s, t, r)
         \/ /\ Moved(s, t) /\ Stays(s, t) /\ t.pc = "loadPage"
            /\ t.load_try = 0 /\ t.crc_list \subseteq {PageData(s)}
<1> DEFINE crc == PageData(s)
           again == [Goto(s, "loadPage") EXCEPT !.load_try = @, !.crc_list = @ \cup ({crc} \ {None})]
<1>1. t = loadPageMultiple(s, r, crc)
  BY DEF Ended
<1>2. CASE crc \in s.crc_list
  <2>1. t = Loaded(s, r, crc)
    BY <1>1, <1>2 DEF loadPageMultiple
  <2>2. t = NextPage(s, r)
    BY <2>1 DEF Loaded
  <2> QED BY <2>2, NextPageFacts
<1>3. CASE crc \notin s.crc_list
  <2>1. s.crc_list = {}
    BY <1>3
  <2> DEFINE go == Goto(s, "loadPage")
             counts == crc = None \/ s.crc_list # {}
             more == [go EXCEPT !.load_try = IF counts THEN @ + 1 ELSE @,
                                !.crc_list = @ \cup ({crc} \ {None})]
  <2>2. more = again
    BY <2>1
  <2>3. go.load_try = 0 /\ go.crc_list = {} /\ DOMAIN go = Fields
    BY <2>1 DEF Goto, Fields
  <2>4. again.load_try = 0 /\ again.crc_list \subseteq {PageData(s)}
    BY <2>3 DEF Fields
  <2>5. t = again
    <3>1. t = IF more.load_try = tries THEN Loaded(s, r, None) ELSE more
      BY <1>1, <1>3 DEF loadPageMultiple
    <3>2. more.load_try # tries
      BY <2>2, <2>4 DEF tries
    <3> HIDE DEF more, again
    <3> QED BY <2>2, <3>1, <3>2
  <2>6. Moved(s, again) /\ Stays(s, again) /\ again.pc = "loadPage"
    BY DEF Moved, Stays, Goto, Fields
  <2> QED BY <2>4, <2>5, <2>6
<1> QED BY <1>2, <1>3

-----------------------------------------------------------------------------
(* Where the client may go.                                                *)

LEMMA GoesFinal ==
  ASSUME NEW t, NEW r, NEW ans, NEW com, NEW buf, NEW fl, NEW n, t.pc \in Final,
         t.pc = "aborted" => n > 2,
         r.command = "erase" => Plain(ans) /\ All(ans, com, {">", "k"})
  PROVE  Goes(t, r, ans, com, buf, fl, n)
BY DEF Goes, Tried, Erases, Steps, Final

LEMMA GoesAborted ==
  ASSUME NEW t, NEW r, r.command = "write", NEW ans, NEW com, NEW buf, NEW fl, NEW n, t.pc = "aborted", n > 2
  PROVE  Goes(t, r, ans, com, buf, fl, n)
BY GoesFinal DEF Final

LEMMA GoesErase ==
  ASSUME NEW t, NEW r, r.command = "write", NEW ans, NEW com, NEW buf, NEW fl, NEW n \in Nat,
         t.pc = "eraseSector", t.stage = "send", t.erase_try = 0,
         t.sector_write_attempt \in 0 .. 2, t.sector_write_attempt <= n,
         t.sector_write_attempt = n => NoK(ans, com),
         t.sector_write_attempt = 1 /\ n = 2 => RightBehindK(PageData(t), ans, com)
  PROVE  Goes(t, r, ans, com, buf, fl, n)
<1>1. Tried(t, ans, com, n)
  BY DEF Tried
<1>2. Paid(t, ans, com, buf, fl, n)
  BY DEF Paid, Book, BookErase, LateErase, LateBoth
<1> QED BY <1>1, <1>2 DEF Goes

LEMMA GoesRestart ==
  ASSUME NEW s, NEW t, NEW r, r.command = "write", NEW ans, NEW com, NEW buf, NEW fl, NEW n \in Nat,
         Restarts(s, t), Starts(s, t), s.sector_write_attempt \in 0 .. 2, s.sector_write_attempt + 1 <= n,
         s.sector_write_attempt + 1 = n /\ s.sector_write_attempt < 2 => NoK(ans, com),
         s.sector_write_attempt = 0 /\ n = 2 =>
           NoK(ans, com) \/ (s.page = 0 /\ RightS(PageData(s), ans, com))
  PROVE  Goes(t, r, ans, com, buf, fl, n)
<1>1. CASE t.pc = "aborted"
  <2>1. n > 2
    BY <1>1 DEF Starts, tries
  <2> QED BY <1>1, <2>1, GoesFinal DEF Final
<1>2. CASE t.pc # "aborted"
  <2>1. /\ t.pc = "eraseSector" /\ t.page = 0 /\ t.sector = s.sector /\ t.data = s.data
        /\ t.stage = "send" /\ t.erase_try = 0
        /\ t.sector_write_attempt = s.sector_write_attempt + 1 /\ t.sector_write_attempt < tries
    BY <1>2 DEF Restarts, Moved, Starts
  <2>2. /\ t.sector_write_attempt \in 0 .. 2 /\ t.sector_write_attempt <= n
        /\ t.sector_write_attempt = n => NoK(ans, com)
    BY <2>1 DEF tries
  <2>3. ASSUME t.sector_write_attempt = 1, n = 2
        PROVE  RightBehindK(PageData(t), ans, com)
    <3>1. s.sector_write_attempt = 0
      BY <2>1, <2>3
    <3>2. CASE NoK(ans, com)
      BY <3>2, NoKRight
    <3>3. CASE s.page = 0 /\ RightS(PageData(s), ans, com)
      <4>1. PageData(t) = PageData(s)
        BY <2>1, <3>3 DEF PageData
      <4> QED BY <3>3, <4>1, RightAll
    <3> QED BY <2>3, <3>1, <3>2, <3>3
  <2> QED BY <2>1, <2>2, <2>3, GoesErase
<1> QED BY <1>1, <1>2

LEMMA PlaceKept ==
  ASSUME NEW s, NEW t, t.offset = s.offset, t.data = s.data, t.sector = s.sector, t.page = s.page
  PROVE  /\ page_index(t) = page_index(s) /\ sector_index(t) = sector_index(s)
         /\ PageData(t) = PageData(s)
         /\ \A fl : (Fresh(t, fl) <=> Fresh(s, fl)) /\ (Done(t, fl) <=> Done(s, fl))
<1>1. page_index(t) = page_index(s) /\ sector_index(t) = sector_index(s) /\ PageData(t) = PageData(s)
  BY DEF page_index, sector_index, PageData
<1>2. ASSUME NEW fl
      PROVE  (Fresh(t, fl) <=> Fresh(s, fl)) /\ (Done(t, fl) <=> Done(s, fl))
  <2>1. Fresh(t, fl) <=> Fresh(s, fl)
    BY <1>1 DEF Fresh
  <2>2. Done(t, fl) <=> Done(s, fl)
    BY <1>1 DEF Done, Right
  <2> QED BY <2>1, <2>2
<1> QED BY <1>1, <1>2

LEMMA GoesAdvance ==
  ASSUME NEW s, NEW t, NEW r, r.command = "write", NEW ans, NEW com, NEW buf, NEW fl, NEW n \in Nat,
         Advances(s, t, r), Starts(s, t), s.sector_write_attempt \in 0 .. 2,
         s.sector_write_attempt <= n, NoK(ans, com),
         s.page \in Nat, s.offset + s.sector * pages_per_sector \in Nat,
         s.sector_write_attempt = n => Quiet(ans, com) /\ Done(s, fl)
  PROVE  Goes(t, r, ans, com, buf, fl, n)
<1>1. CASE t.pc = "store"
  <2>1. /\ t.sector = s.sector /\ t.page = s.page + 1 /\ t.offset = s.offset /\ t.stage = "send"
        /\ t.sector_write_attempt = s.sector_write_attempt
    BY <1>1 DEF Advances, EntersSector, Moved
  <2>2. page_index(t) = page_index(s) + 1 /\ sector_index(t) = sector_index(s)
    <3>1. sector_index(t) = sector_index(s)
      BY <2>1 DEF sector_index
    <3> DEFINE x == s.offset + s.sector * pages_per_sector
    <3>2. page_index(s) = x + s.page /\ page_index(t) = x + (s.page + 1)
      BY <2>1 DEF page_index
    <3>3. x \in Nat
      OBVIOUS
    <3> HIDE DEF x
    <3> QED BY <3>1, <3>2, <3>3
  <2>3. s.sector_write_attempt = n => BookStore(t, ans, com, buf, fl)
    BY <2>1, <2>2 DEF BookStore, Fresh, Done
  <2>4. Paid(t, ans, com, buf, fl, n)
    BY <1>1, <2>1, <2>3 DEF Paid, Book, LateErase, LateBoth
  <2>5. Tried(t, ans, com, n)
    BY <1>1 DEF Tried
  <2> QED BY <1>1, <2>4, <2>5 DEF Goes
<1>2. CASE t.pc = "eraseSector"
  <2>1. t.stage = "send" /\ t.erase_try = 0 /\ t.sector_write_attempt = s.sector_write_attempt
    BY <1>2 DEF Advances, EntersSector, Moved, Starts
  <2> QED BY <1>2, <2>1, NoKRight, GoesErase
<1>3. CASE t.pc = "done"
  BY <1>3, GoesFinal DEF Final
<1> QED BY <1>1, <1>2, <1>3 DEF Advances, EntersSector

\* Going by the book, an exchange waits for an answer that is on its way.
LEMMA BookFacts ==
  ASSUME NEW s, NEW ans, IsSeq(ans), NEW com, IsSeq(com), NEW buf, NEW fl,
         Book(s, ans, com, buf, fl), s.pc \in Steps
  PROVE  /\ s.stage = "wait" => ~ Quiet(ans, com)
         /\ s.pc \in {"store", "write", "loadPage"} => NoK(ans, com)
         /\ s.pc \in {"store", "loadPage"} /\ s.stage = "value" =>
              com = <<>> /\ ans = <<Value(PageData(s))>>
<1>1. CASE s.pc = "eraseSector"
  BY <1>1, LastKFacts DEF Book, BookErase
<1>2. CASE s.pc \in {"store", "write", "loadPage"}
  <2> DEFINE d == PageData(s)
             x == Letter(s.pc)
  <2>1. \/ Quiet(ans, com) /\ s.stage = "send"
        \/ Sent(s, ans, com) /\ s.stage = "wait"
        \/ com = <<>> /\ ans = <<Sign(x), Value(d)>> /\ s.stage = "wait"
        \/ com = <<>> /\ ans = <<Sign(x)>> /\ s.stage = "wait"
        \/ com = <<>> /\ ans = <<Value(d)>> /\ s.stage = "value"
    BY <1>2 DEF Book, BookStore, BookWrite, BookLoad, Back, Letter
  <2>2. x \in {"r", "s", "w"}
    BY <1>2 DEF Letter
  <2> HIDE DEF d, x
  <2>3. NoK(ans, com)
    <3>1. CASE Quiet(ans, com)
      BY <3>1 DEF Quiet, NoK, All
    <3>2. CASE Sent(s, ans, com)
      BY <2>2, <3>2 DEF Sent, Command, NoK, All, x
    <3>3. CASE com = <<>> /\ ans = <<Sign(x), Value(d)>>
      <4>1. Len(ans) = 2 /\ ans[1] = Sign(x) /\ ans[2] = Value(d) /\ Len(com) = 0
        BY <3>3
      <4> QED BY <2>2, <4>1 DEF NoK, All, Sign, Value
    <3>4. CASE com = <<>> /\ ans = <<Sign(x)>>
      <4>1. Len(ans) = 1 /\ ans[1] = Sign(x) /\ Len(com) = 0
        BY <3>4
      <4> QED BY <2>2, <4>1 DEF NoK, All, Sign
    <3>5. CASE com = <<>> /\ ans = <<Value(d)>>
      <4>1. Len(ans) = 1 /\ ans[1] = Value(d) /\ Len(com) = 0
        BY <3>5
      <4> QED BY <4>1 DEF NoK, All, Value
    <3> QED BY <2>1, <3>1, <3>2, <3>3, <3>4, <3>5
  <2>4. s.stage = "wait" => ~ Quiet(ans, com)
    BY <2>1 DEF Quiet, Sent
  <2>5. s.stage = "value" => com = <<>> /\ ans = <<Value(d)>>
    BY <2>1
  <2> QED BY <1>2, <2>3, <2>4, <2>5 DEF d
<1> QED BY <1>1, <1>2 DEF Steps

-----------------------------------------------------------------------------
(* The exchanges of a write, and what they pay.                            *)

\* What the invariant says of one.
InWrite(s, r, ans, com, n) ==
  /\ r.command = "write" /\ DOMAIN s = Fields /\ s.pc \in {"hello"} \cup Steps
  /\ Plain(ans) /\ IsSeq(ans) /\ IsSeq(com) /\ InStep(s, ans, com) /\ n \in Nat
  /\ s.sector_write_attempt \in 0 .. 2 /\ s.page \in Nat /\ Level(s) \in {0, 1, 2}
  /\ s.pc \in {"hello", "eraseSector"} => s.page = 0
  /\ s.pc \in Steps => PageData(s) # None /\ s.offset + s.sector * pages_per_sector \in Nat

LEMMA AllNoK ==
  ASSUME NEW ans, NEW com, NEW S, All(ans, com, S), "k" \notin S, S \subseteq {"r", "s", "w"}
  PROVE  NoK(ans, com)
BY AllMore DEF NoK

LEMMA QuietNoK ==
  ASSUME NEW ans, NEW com, Quiet(ans, com)
  PROVE  NoK(ans, com) /\ ~ HasK(ans, com)
BY DEF Quiet, NoK, All, HasK

\* A page in the first attempt has no letter k outstanding behind its store.
LEMMA FirstNoK ==
  ASSUME NEW s, NEW ans, NEW com, InStep(s, ans, com), s.sector_write_attempt = 0,
         \/ s.pc = "store" /\ s.stage = "value"
         \/ s.pc = "write" /\ s.stage \in {"send", "wait"}
         \/ s.pc = "loadPage"
  PROVE  NoK(ans, com)
<1>1. Level(s) = 0
  BY DEF Level
<1>2. CASE s.pc = "store" /\ s.stage = "value"
  <2>1. All(ans, com, {})
    BY <1>1, <1>2 DEF InStep, AtStore
  <2> QED BY <2>1, AllNoK
<1>3. CASE s.pc = "write" /\ s.stage \in {"send", "wait"}
  <2>1. All(ans, com, {}) \/ All(ans, com, {"w"})
    BY <1>1, <1>3 DEF InStep, AtWrite
  <2> QED BY <2>1, AllNoK
<1>4. CASE s.pc = "loadPage"
  <2>1. All(ans, com, {"r"})
    BY <1>1, <1>4 DEF InStep, AtLoad
  <2> QED BY <2>1, AllNoK
<1> QED BY <1>2, <1>3, <1>4

LEMMA LoadNoK ==
  ASSUME NEW s, NEW ans, NEW com, InStep(s, ans, com), s.pc = "loadPage", s.stage = "value"
  PROVE  NoK(ans, com)
<1>1. All(ans, com, {"r"})
  BY DEF InStep, AtLoad
<1> QED BY <1>1, AllNoK

\* An exchange of a page fails that has paid for it.
LEMMA FailsGo ==
  ASSUME NEW s, NEW t, NEW r, r.command = "write", NEW ans, NEW com, NEW buf, NEW fl, NEW n \in Nat,
         \/ Restarts(s, t)
         \/ Moved(s, t) /\ Stays(s, t) /\ t.pc = "loadPage",
         Starts(s, t), s.sector_write_attempt \in 0 .. 2, s.sector_write_attempt + 1 <= n,
         s.sector_write_attempt + 1 = n /\ s.sector_write_attempt < 2 => NoK(ans, com),
         s.sector_write_attempt = 0 /\ n = 2 =>
           NoK(ans, com) \/ (s.page = 0 /\ RightS(PageData(s), ans, com))
  PROVE  Goes(t, r, ans, com, buf, fl, n)
<1>1. CASE Restarts(s, t)
  BY <1>1, GoesRestart
<1>2. CASE Stays(s, t) /\ t.pc = "loadPage"
  <2>1. t.sector_write_attempt = s.sector_write_attempt
    BY <1>2 DEF Stays
  <2>2. t.sector_write_attempt <= n /\ t.sector_write_attempt # n
    BY <2>1
  <2>3. Paid(t, ans, com, buf, fl, n)
    BY <1>2, <2>2 DEF Paid, LateErase, LateBoth
  <2>4. Tried(t, ans, com, n)
    BY <1>2 DEF Tried
  <2> QED BY <1>2, <2>3, <2>4 DEF Goes
<1> QED BY <1>1, <1>2

\* The exchange of hello.
LEMMA HelloGoes ==
  ASSUME NEW r, ~ r.pad, NEW s, NEW ans, NEW com, NEW n, InWrite(s, r, ans, com, n), NEW buf, NEW fl,
         Paid(s, ans, com, buf, fl, n), s.pc = "hello", NEW b,
         NEW m \in Nat, n <= m, NEW ok \in BOOLEAN, NEW v, ok => All(b, com, {}),
         NEW t, t = Ended(s, r, ok, v)
  PROVE  Goes(t, r, b, com, buf, fl, m)
<1>1. r.command = "write" /\ Changes(r) /\ DOMAIN s = Fields /\ s.sector_write_attempt \in 0 .. 2 /\ n \in Nat
  BY DEF InWrite, Changes
<1>2. Starts(s, t)
  BY <1>1, EndedStarts
<1>3. CASE t.pc \in {"usage", "crashed", "done"}
  BY <1>1, <1>3, GoesFinal DEF Final
<1>4. CASE t.pc = "eraseSector" /\ Moved(s, t) /\ t.sector_write_attempt = s.sector_write_attempt
  <2>1. NoK(b, com)
    <3>1. ok
      BY <1>1, <1>4, HelloEnds
    <3> QED BY <3>1, AllNoK
  <2>2. t.stage = "send" /\ t.erase_try = 0 /\ t.sector_write_attempt <= n
    BY <1>2, <1>4 DEF Moved, Starts, Paid
  <2> QED BY <1>1, <1>4, <2>1, <2>2, NoKRight, GoesErase
<1> QED BY <1>1, <1>3, <1>4, HelloEnds

\* A try of an erase that failed is paid.
LEMMA TryPaid ==
  ASSUME NEW s, DOMAIN s = Fields, NEW r, s.pc = "eraseSector", s.stage = "wait",
         NEW ans, NEW com, NEW n \in Nat, Tried(s, ans, com, n),
         NEW m \in {n, n + 1}, m = n => ~ HasK(ans, com), NEW v, NEW t, t = Ended(s, r, FALSE, v)
  PROVE  TriesErase(s, t) /\ Tried(t, ans, com, m) /\ (t.pc = "aborted" => m > 2)
<1>1. s.erase_try \in 0 .. 2 /\ s.erase_try + 1 <= m /\ m \in Nat
  <2>1. s.erase_try \in 0 .. 2 /\ s.erase_try <= n /\ (~ HasK(ans, com) => s.erase_try < n)
    BY DEF Tried
  <2>2. CASE m = n
    BY <2>1, <2>2
  <2>3. CASE m = n + 1
    BY <2>1, <2>3
  <2> QED BY <2>2, <2>3
<1>2. TriesErase(s, t)
  BY <1>1, EraseFails
<1>3. t.pc = "aborted" => m > 2
  <2>1. t.pc = "aborted" => s.erase_try = 2
    BY <1>2 DEF TriesErase
  <2> DEFINE e == s.erase_try
  <2>2. e + 1 <= m /\ m \in Nat
    BY <1>1
  <2> HIDE DEF e
  <2>3. e = 2 => m > 2
    BY <2>2
  <2> QED BY <2>1, <2>3 DEF e
<1>4. Tried(t, ans, com, m)
  <2>1. ASSUME t.pc = "eraseSector"
        PROVE  t.erase_try \in 0 .. 2 /\ t.erase_try <= m /\ t.stage = "send"
    <3>1. s.erase_try < 2 /\ t.erase_try = s.erase_try + 1
      BY <1>2, <2>1 DEF TriesErase
    <3>2. t.stage = "send"
      BY <1>2 DEF TriesErase, Moved
    <3> DEFINE e == s.erase_try
    <3>3. e \in 0 .. 2 /\ e + 1 <= m /\ e < 2 /\ t.erase_try = e + 1
      BY <1>1, <3>1
    <3> HIDE DEF e
    <3>4. e + 1 \in 0 .. 2
      BY <3>3
    <3> QED BY <3>2, <3>3, <3>4
  <2> QED BY <2>1 DEF Tried
<1> QED BY <1>2, <1>3, <1>4

\* Nothing comes for a letter: it is lost, or late.
LEMMA SilenceGoes ==
  ASSUME NEW r, NEW s, NEW ans, NEW com, NEW n, InWrite(s, r, ans, com, n),
         NEW buf, NEW fl, Paid(s, ans, com, buf, fl, n), Tried(s, ans, com, n),
         s.pc \in Steps, s.stage = "wait", ans = <<>>, NEW m \in {n, n + 1}, m = n => com = <<>>,
         NEW v, NEW t, t = Ended(s, r, FALSE, v)
  PROVE  Goes(t, r, ans, com, buf, fl, m)
<1> DEFINE failed == s.sector_write_attempt
<1>0. r.command = "write"
  BY DEF InWrite
<1>1. /\ r.command = "write" /\ Changes(r) /\ DOMAIN s = Fields /\ failed \in 0 .. 2 /\ n \in Nat /\ m \in Nat
      /\ IsSeq(ans) /\ IsSeq(com) /\ InStep(s, ans, com) /\ PageData(s) # None
  BY DEF InWrite, Changes
<1>2. failed <= n /\ (failed = n => Book(s, ans, com, buf, fl))
  BY DEF Paid
<1>3. m = n => Quiet(ans, com)
  BY DEF Quiet
<1>4. failed = n => m = n + 1
  <2>1. failed = n => ~ Quiet(ans, com)
    BY <1>1, <1>2, BookFacts
  <2> QED BY <1>3, <2>1
<1>5. failed + 1 <= m
  BY <1>1, <1>2, <1>4
<1>6. m = n => NoK(ans, com) /\ ~ HasK(ans, com)
  BY <1>3, QuietNoK
<1>7. CASE s.pc = "eraseSector"
  <2>2. TriesErase(s, t) /\ Tried(t, ans, com, m) /\ (t.pc = "aborted" => m > 2)
    <3> HIDE DEF failed
    <3> QED BY <1>1, <1>6, <1>7, TryPaid
  <2>3. CASE t.pc = "aborted"
    BY <1>0, <2>2, <2>3, GoesAborted
  <2>4. CASE t.pc = "eraseSector"
    <3>1. /\ t.stage = "send" /\ t.sector_write_attempt = failed /\ PageData(t) = PageData(s)
      BY <2>2 DEF TriesErase, Moved, Stays, PageData
    <3>3. failed = 1 /\ m = 2 => RightBehindK(PageData(t), ans, com)
      <4>1. CASE m = n
        BY <1>6, <4>1, NoKRight
      <4>2. CASE failed = n
        <5>1. LastK(ans, com, sector_index(s), fl, page_index(s))
          BY <1>2, <1>7, <4>2 DEF Book, BookErase
        <5> QED BY <1>1, <5>1, LastKFacts, BehindNone
      <4>3. failed = 1 /\ m = 2 => m = n \/ failed = n
        BY <1>1
      <4> QED BY <4>1, <4>2, <4>3
    <3>4. failed <= m /\ failed # m
      BY <1>1, <1>5
    <3>5. Paid(t, ans, com, buf, fl, m)
      BY <2>4, <3>1, <3>3, <3>4 DEF Paid, LateErase, LateBoth
    <3> QED BY <1>1, <2>2, <2>4, <3>5 DEF Goes
  <2> QED BY <2>2, <2>3, <2>4 DEF TriesErase
<1>8. CASE s.pc \in {"store", "write", "loadPage"}
  <2>1. \/ Restarts(s, t)
        \/ Moved(s, t) /\ Stays(s, t) /\ t.pc = "loadPage"
    BY <1>1, <1>8, StoreEnds, WriteEnds, LoadEnds
  <2>2. Starts(s, t)
    <3>1. failed \in Nat
      BY <1>1
    <3> QED BY <1>1, <1>8, <3>1, EndedStarts
  <2>3. failed + 1 = m => NoK(ans, com)
    <3>1. CASE m = n
      BY <1>6, <3>1
    <3>2. CASE m = n + 1
      <4>1. failed + 1 = m => failed = n
        BY <1>1, <3>2
      <4>2. failed = n => NoK(ans, com)
        BY <1>1, <1>2, <1>8, BookFacts DEF Steps
      <4> QED BY <4>1, <4>2
    <3> QED BY <3>1, <3>2
  <2>4. failed = 0 /\ m = 2 => NoK(ans, com) \/ (s.page = 0 /\ RightS(PageData(s), ans, com))
    <3>1. CASE m = n
      BY <1>6, <3>1
    <3>2. CASE s.pc = "store" /\ m = n + 1
      <4>1. m = 2 => n = 1
        BY <1>1, <3>2
      <4> QED BY <3>2, <4>1 DEF Paid, LateErase
    <3>3. CASE s.pc \in {"write", "loadPage"}
      BY <1>1, <3>3, FirstNoK
    <3> QED BY <1>8, <3>1, <3>2, <3>3
  <2> HIDE DEF failed
  <2> QED BY <1>1, <1>5, <2>1, <2>2, <2>3, <2>4, FailsGo DEF failed
<1> QED BY <1>7, <1>8 DEF Steps

\* What comes for a value is none.
LEMMA MissedGoes ==
  ASSUME NEW r, NEW s, NEW ans, NEW com, NEW n, InWrite(s, r, ans, com, n),
         NEW buf, NEW fl, Paid(s, ans, com, buf, fl, n), s.pc \in {"store", "loadPage"}, s.stage = "value",
         ans # <<>>, Head(ans).kind # "value", NEW b, NoK(ans, com) => NoK(b, com),
         NEW v, NEW t, t = Ended(s, r, FALSE, v)
  PROVE  Goes(t, r, b, com, buf, fl, n)
<1> DEFINE failed == s.sector_write_attempt
           d == PageData(s)
<1>1. /\ r.command = "write" /\ DOMAIN s = Fields /\ failed \in 0 .. 2 /\ n \in Nat
      /\ IsSeq(ans) /\ IsSeq(com) /\ InStep(s, ans, com) /\ d # None
  BY DEF InWrite
<1>2. failed <= n /\ (failed = n => Book(s, ans, com, buf, fl))
  BY DEF Paid
<1>3. Head(ans) # Value(d)
  BY DEF Value
<1>4. failed # n
  <2>1. CASE Book(s, ans, com, buf, fl)
    <3>1. ans = <<Value(d)>>
      BY <1>1, <2>1, BookFacts DEF Steps
    <3> QED BY <1>3, <3>1
  <2> QED BY <1>2, <2>1
<1>5. failed + 1 <= n
  BY <1>1, <1>2, <1>4
<1>6. failed = 0 => NoK(ans, com)
  BY <1>1, FirstNoK
<1>7. failed = 1 /\ n = 2 => NoK(ans, com)
  <2>1. CASE s.pc = "store"
    BY <1>3, <2>1 DEF Paid, LateBoth
  <2>2. CASE s.pc = "loadPage"
    BY <1>1, <2>2, LoadNoK
  <2> QED BY <2>1, <2>2
<1>8. failed + 1 = n /\ failed < 2 => NoK(b, com)
  BY <1>1, <1>6, <1>7
<1>9. failed = 0 /\ n = 2 => NoK(b, com)
  BY <1>6
<1>10. \/ Restarts(s, t)
       \/ Moved(s, t) /\ Stays(s, t) /\ t.pc = "loadPage"
  BY <1>1, StoreEnds, LoadEnds
<1>11. Starts(s, t)
  <2>1. failed \in Nat
    BY <1>1
  <2> QED BY <1>1, <2>1, EndedStarts
<1> HIDE DEF failed
<1> QED BY <1>1, <1>5, <1>8, <1>9, <1>10, <1>11, FailsGo DEF failed

\* The checksum of a store comes.
LEMMA StoredGoes ==
  ASSUME NEW r, NEW s, NEW ans, NEW com, NEW n, InWrite(s, r, ans, com, n),
         NEW buf, NEW fl, Paid(s, ans, com, buf, fl, n), s.pc = "store", s.stage = "value",
         ans # <<>>, NEW t, t = Ended(s, r, TRUE, Head(ans).of)
  PROVE  Goes(t, r, Tail(ans), com, buf, fl, n)
<1> DEFINE failed == s.sector_write_attempt
           d == PageData(s)
           v == Head(ans).of
<1>1. /\ r.command = "write" /\ DOMAIN s = Fields /\ failed \in 0 .. 2 /\ n \in Nat
      /\ IsSeq(ans) /\ IsSeq(com) /\ InStep(s, ans, com) /\ d # None
  BY DEF InWrite
<1>2. failed <= n /\ (failed = n => BookStore(s, ans, com, buf, fl))
  BY DEF Paid, Book
<1>3. CASE v = d
  <2>1. t = Goto(s, "write")
    BY <1>3 DEF Ended, Stored
  <2>2. Moved(s, t) /\ Stays(s, t) /\ t.pc = "write"
    BY <1>1, <2>1, GotoFacts
  <2>3. ASSUME failed = n PROVE Book(t, Tail(ans), com, buf, fl)
    <3>1. Fresh(s, fl) /\ com = <<>> /\ ans = <<Value(d)>> /\ buf = d
      BY <1>2, <2>3 DEF BookStore, Back
    <3>2. Quiet(Tail(ans), com)
      BY <3>1 DEF Quiet
    <3>3. Fresh(t, fl) /\ PageData(t) = d
      BY <2>2, <3>1, PlaceKept DEF Moved, Stays
    <3> QED BY <2>2, <3>1, <3>2, <3>3 DEF Book, BookWrite, Moved
  <2>4. t.sector_write_attempt = failed
    BY <2>2 DEF Stays
  <2>5. Paid(t, Tail(ans), com, buf, fl, n)
    BY <1>2, <2>2, <2>3, <2>4 DEF Paid, LateErase, LateBoth
  <2>6. Tried(t, Tail(ans), com, n)
    BY <2>2 DEF Tried
  <2> QED BY <1>1, <2>2, <2>5, <2>6 DEF Goes
<1>4. CASE v # d
  <2>1. Head(ans) # Value(d)
    BY <1>4 DEF Value
  <2>2. failed # n
    <3>1. BookStore(s, ans, com, buf, fl) => ans = <<Value(d)>>
      BY DEF BookStore, Back
    <3> QED BY <1>2, <2>1, <3>1
  <2>3. failed + 1 <= n
    BY <1>1, <1>2, <2>2
  <2>4. failed = 0 => NoK(Tail(ans), com)
    BY <1>1, FirstNoK, NoKTail
  <2>5. failed = 1 /\ n = 2 => NoK(Tail(ans), com)
    <3>1. failed = 1 /\ n = 2 => NoK(ans, com)
      BY <2>1 DEF Paid, LateBoth
    <3> QED BY <1>1, <3>1, NoKTail
  <2>6. failed + 1 = n /\ failed < 2 => NoK(Tail(ans), com)
    BY <1>1, <2>4, <2>5
  <2>7. Restarts(s, t)
    <3>1. t = PageFailed(s)
      BY <1>4 DEF Ended, Stored
    <3> QED BY <1>1, <3>1, PageFailedFacts
  <2>8. Starts(s, t)
    <3>1. failed \in Nat
      BY <1>1
    <3> QED BY <1>1, <3>1, EndedStarts
  <2> HIDE DEF failed
  <2> QED BY <1>1, <2>3, <2>4, <2>6, <2>7, <2>8, FailsGo DEF failed
<1> QED BY <1>3, <1>4

\* The checksum of a load comes.
LEMMA LoadedGoes ==
  ASSUME NEW r, NEW s, NEW ans, NEW com, NEW n, InWrite(s, r, ans, com, n),
         NEW buf, NEW fl, Paid(s, ans, com, buf, fl, n), s.pc = "loadPage", s.stage = "value",
         ans # <<>>, NEW t, t = Ended(s, r, TRUE, Head(ans).of)
  PROVE  Goes(t, r, Tail(ans), com, buf, fl, n)
<1> DEFINE failed == s.sector_write_attempt
           d == PageData(s)
           v == Head(ans).of
<1>1. /\ r.command = "write" /\ DOMAIN s = Fields /\ failed \in 0 .. 2 /\ n \in Nat
      /\ IsSeq(ans) /\ IsSeq(com) /\ InStep(s, ans, com) /\ d # None
      /\ s.page \in Nat /\ s.offset + s.sector * pages_per_sector \in Nat
  BY DEF InWrite, Steps
<1>2. failed <= n /\ (failed = n => BookLoad(s, ans, com, fl))
  BY DEF Paid, Book
<1>3. NoK(Tail(ans), com)
  BY <1>1, LoadNoK, NoKTail
<1>4. Starts(s, t)
  <2>1. failed \in Nat
    BY <1>1
  <2> QED BY <1>1, <2>1, EndedStarts
<1>5. CASE failed = n
  <2>1. /\ Done(s, fl) /\ s.crc_list \subseteq {d} /\ s.load_try = 0
        /\ com = <<>> /\ ans = <<Value(d)>>
    BY <1>2, <1>5 DEF BookLoad, Back
  <2>2. v = d /\ Quiet(Tail(ans), com)
    BY <2>1 DEF Quiet, Value
  <2>3. t = Ended(s, r, TRUE, d)
    BY <2>2
  <2>4. \/ Advances(s, t, r)
        \/ /\ Moved(s, t) /\ Stays(s, t) /\ t.pc = "loadPage"
           /\ t.load_try = 0 /\ t.crc_list \subseteq {d}
    BY <1>1, <2>1, <2>3, LoadRight
  <2>5. CASE Advances(s, t, r)
    <3> HIDE DEF failed, d, v
    <3> QED BY <1>1, <1>2, <1>3, <1>4, <2>1, <2>2, <2>5, GoesAdvance DEF failed
  <2>6. CASE Moved(s, t) /\ Stays(s, t) /\ t.pc = "loadPage" /\ t.load_try = 0 /\ t.crc_list \subseteq {d}
    <3>1. Done(t, fl) /\ PageData(t) = d
      BY <2>1, <2>6, PlaceKept DEF Moved, Stays
    <3>2. Book(t, Tail(ans), com, buf, fl)
      BY <2>2, <2>6, <3>1 DEF Book, BookLoad, Moved
    <3>3. t.sector_write_attempt = failed
      BY <2>6 DEF Stays
    <3>4. Paid(t, Tail(ans), com, buf, fl, n)
      BY <1>2, <2>6, <3>2, <3>3 DEF Paid, LateErase, LateBoth
    <3>5. Tried(t, Tail(ans), com, n)
      BY <2>6 DEF Tried
    <3> QED BY <1>1, <2>6, <3>4, <3>5 DEF Goes
  <2> QED BY <2>4, <2>5, <2>6
<1>6. CASE failed # n
  <2>1. failed + 1 <= n
    BY <1>1, <1>2, <1>6
  <2>2. \/ Restarts(s, t)
        \/ Moved(s, t) /\ Stays(s, t) /\ t.pc = "loadPage"
        \/ Advances(s, t, r)
    BY <1>1, LoadEnds
  <2>3. CASE Advances(s, t, r)
    <3> HIDE DEF failed, d, v
    <3> QED BY <1>1, <1>2, <1>3, <1>4, <1>6, <2>3, GoesAdvance DEF failed
  <2>4. CASE Restarts(s, t) \/ (Moved(s, t) /\ Stays(s, t) /\ t.pc = "loadPage")
    <3> HIDE DEF failed, d, v
    <3> QED BY <1>1, <1>3, <1>4, <2>1, <2>4, FailsGo DEF failed
  <2> QED BY <2>2, <2>3, <2>4
<1> QED BY <1>5, <1>6

\* The letter of a value comes.
LEMMA SignGoes ==
  ASSUME NEW r, NEW s, NEW ans, NEW com, NEW n, InWrite(s, r, ans, com, n),
         NEW buf, NEW fl, Paid(s, ans, com, buf, fl, n), s.stage = "wait",
         s.pc \in {"hello", "store", "loadPage"}, ans # <<>>, IsSign(Head(ans), {Letter(s.pc)}),
         NEW t, t = [s EXCEPT !.stage = "value"]
  PROVE  Goes(t, r, Tail(ans), com, buf, fl, n)
<1> DEFINE failed == s.sector_write_attempt
           d == PageData(s)
<1>1. /\ r.command = "write" /\ DOMAIN s = Fields /\ failed \in 0 .. 2 /\ n \in Nat
      /\ IsSeq(ans) /\ IsSeq(com) /\ InStep(s, ans, com) /\ Level(s) \in {0, 1, 2}
  BY DEF InWrite
<1>2. failed <= n /\ (failed = n => Book(s, ans, com, buf, fl))
  BY DEF Paid
<1>3. /\ t.pc = s.pc /\ t.stage = "value" /\ t.sector_write_attempt = failed
      /\ t.crc_list = s.crc_list /\ t.load_try = s.load_try /\ t.offset = s.offset
      /\ t.data = s.data /\ t.sector = s.sector /\ t.page = s.page
  BY <1>1 DEF Fields
<1>4. PageData(t) = d /\ (Fresh(s, fl) => Fresh(t, fl)) /\ (Done(s, fl) => Done(t, fl))
  BY <1>3, PlaceKept
<1>5. failed = n => Book(t, Tail(ans), com, buf, fl)
  <2>1. CASE s.pc = "hello"
    BY <1>3, <2>1 DEF Book
  <2>2. CASE s.pc = "store"
    <3>1. BookStore(s, ans, com, buf, fl) => BookStore(t, Tail(ans), com, buf, fl)
      <4>1. ASSUME BookStore(s, ans, com, buf, fl)
            PROVE  Fresh(s, fl) /\ com = <<>> /\ ans = <<Sign("s"), Value(d)>> /\ buf = d
        BY <4>1 DEF BookStore, Quiet, Sent, Back
      <4>2. ans = <<Sign("s"), Value(d)>> => Tail(ans) = <<Value(d)>>
        OBVIOUS
      <4> QED BY <1>3, <1>4, <4>1, <4>2 DEF BookStore, Back
    <3> QED BY <1>2, <1>3, <2>2, <3>1 DEF Book
  <2>3. CASE s.pc = "loadPage"
    <3>1. BookLoad(s, ans, com, fl) => BookLoad(t, Tail(ans), com, fl)
      <4>1. ASSUME BookLoad(s, ans, com, fl)
            PROVE  /\ Done(s, fl) /\ s.crc_list \subseteq {d} /\ s.load_try = 0
                   /\ com = <<>> /\ ans = <<Sign("r"), Value(d)>>
        BY <4>1 DEF BookLoad, Quiet, Sent, Back
      <4>2. ans = <<Sign("r"), Value(d)>> => Tail(ans) = <<Value(d)>>
        OBVIOUS
      <4> QED BY <1>3, <1>4, <4>1, <4>2 DEF BookLoad, Back
    <3> QED BY <1>2, <1>3, <2>3, <3>1 DEF Book
  <2> QED BY <2>1, <2>2, <2>3
<1>6. InStep(t, Tail(ans), com)
  BY <1>1, ValueToCome
<1>7. failed = 0 => LateErase(t, Tail(ans), com)
  <2>1. t.pc = "store" /\ failed = 0 => NoK(Tail(ans), com)
    BY <1>3, <1>6, FirstNoK
  <2> QED BY <2>1 DEF LateErase
<1>8. LateBoth(s, ans, com) => LateBoth(t, Tail(ans), com)
  <2>1. CASE s.pc = "store"
    <3>1. NoK(ans, com) => NoK(Tail(ans), com)
      BY <1>1, NoKTail
    <3>2. RightS(d, ans, com) => Tail(ans) # <<>> /\ Head(Tail(ans)) = Value(d)
      <4>1. IsSign(Head(ans), {"s"})
        BY <2>1 DEF Letter
      <4> QED BY <1>1, <4>1, RightSTail
    <3> QED BY <1>3, <1>4, <2>1, <3>1, <3>2 DEF LateBoth
  <2>2. CASE s.pc # "store"
    BY <1>3, <2>2 DEF LateBoth
  <2> QED BY <2>1, <2>2
<1>9. Paid(t, Tail(ans), com, buf, fl, n)
  BY <1>2, <1>3, <1>5, <1>7, <1>8 DEF Paid
<1>10. Tried(t, Tail(ans), com, n)
  BY <1>3 DEF Tried
<1> QED BY <1>1, <1>3, <1>9, <1>10 DEF Goes

\* The letter of an erase comes.
LEMMA ErasedGoes ==
  ASSUME NEW r, NEW s, NEW ans, NEW com, NEW n, InWrite(s, r, ans, com, n),
         NEW buf, NEW fl, Paid(s, ans, com, buf, fl, n), s.stage = "wait",
         s.pc = "eraseSector", ans # <<>>, IsSign(Head(ans), {"k"}),
         NEW v, NEW t, t = Ended(s, r, TRUE, v)
  PROVE  Goes(t, r, Tail(ans), com, buf, fl, n)
<1> DEFINE failed == s.sector_write_attempt
           d == PageData(s)
<1>1. /\ r.command = "write" /\ DOMAIN s = Fields /\ failed \in 0 .. 2 /\ n \in Nat
      /\ IsSeq(ans) /\ IsSeq(com) /\ InStep(s, ans, com) /\ s.page = 0
  BY DEF InWrite
<1>2. /\ failed <= n /\ (failed = n => Book(s, ans, com, buf, fl))
      /\ failed = 1 /\ n = 2 => LateBoth(s, ans, com)
  BY DEF Paid
<1>3. t = Goto(s, "store")
  BY <1>1 DEF Ended, eraseSector
<1>4. Moved(s, t) /\ Stays(s, t) /\ t.pc = "store"
  BY <1>1, <1>3, GotoFacts
<1>5. t.stage = "send" /\ t.page = 0 /\ t.sector_write_attempt = failed
  BY <1>1, <1>4 DEF Moved, Stays
<1>6. PageData(t) = d /\ (Fresh(s, fl) => Fresh(t, fl))
  BY <1>4, PlaceKept DEF Moved, Stays
<1>7. failed = n => Book(t, Tail(ans), com, buf, fl)
  <2>1. Book(s, ans, com, buf, fl) => LastK(ans, com, sector_index(s), fl, page_index(s))
    BY DEF Book, BookErase
  <2>2. ASSUME LastK(ans, com, sector_index(s), fl, page_index(s))
        PROVE  Quiet(Tail(ans), com) /\ Fresh(s, fl)
    BY <1>1, <2>2, LastKTail DEF Fresh
  <2>3. Quiet(Tail(ans), com) /\ Fresh(s, fl) => Book(t, Tail(ans), com, buf, fl)
    BY <1>4, <1>5, <1>6 DEF Book, BookStore
  <2> QED BY <1>2, <2>1, <2>2, <2>3
<1>8. failed = 0 => LateErase(t, Tail(ans), com)
  <2>1. failed = 0 => All(ans, com, {"r", "k"})
    BY <1>1 DEF InStep, AtErase, Level
  <2>2. failed = 0 => RightS(d, Tail(ans), com)
    BY <1>1, <2>1, NoSRight, RightSTail
  <2> QED BY <1>5, <1>6, <2>2 DEF LateErase
<1>9. LateBoth(s, ans, com) => LateBoth(t, Tail(ans), com)
  <2>1. RightBehindK(d, ans, com) => RightS(d, Tail(ans), com)
    BY <1>1, RightKTail
  <2> QED BY <1>4, <1>5, <1>6, <2>1 DEF LateBoth
<1>10. Paid(t, Tail(ans), com, buf, fl, n)
  BY <1>2, <1>5, <1>7, <1>8, <1>9 DEF Paid
<1>11. Tried(t, Tail(ans), com, n)
  BY <1>4 DEF Tried
<1> QED BY <1>1, <1>4, <1>10, <1>11 DEF Goes

\* The letter of a write comes.
LEMMA WrittenGoes ==
  ASSUME NEW r, NEW s, NEW ans, NEW com, NEW n, InWrite(s, r, ans, com, n),
         NEW buf, NEW fl, Paid(s, ans, com, buf, fl, n), s.stage = "wait",
         s.pc = "write", ans # <<>>, NEW v, NEW t, t = Ended(s, r, TRUE, v)
  PROVE  Goes(t, r, Tail(ans), com, buf, fl, n)
<1> DEFINE failed == s.sector_write_attempt
           d == PageData(s)
<1>1. /\ r.command = "write" /\ DOMAIN s = Fields /\ failed \in 0 .. 2 /\ n \in Nat
  BY DEF InWrite
<1>2. /\ failed <= n /\ (failed = n => Book(s, ans, com, buf, fl))
  BY DEF Paid
<1>3. t = StartLoad(s)
  BY DEF Ended, Written
<1>4. Moved(s, t) /\ Stays(s, t) /\ t.pc = "loadPage"
  BY <1>1, <1>3, StartLoadFacts
<1>5. t.crc_list = {} /\ t.load_try = 0 /\ t.stage = "send" /\ t.sector_write_attempt = failed
  BY <1>1, <1>3 DEF StartLoad, Goto, Fields
<1>6. Done(s, fl) => Done(t, fl)
  BY <1>4, PlaceKept DEF Moved, Stays
<1>7. Book(s, ans, com, buf, fl) => Book(t, Tail(ans), com, buf, fl)
  <2>1. ASSUME BookWrite(s, ans, com, buf, fl)
        PROVE  Done(s, fl) /\ com = <<>> /\ ans = <<Sign("w")>>
    BY <2>1 DEF BookWrite, Quiet, Sent, Back
  <2>2. ans = <<Sign("w")>> => Tail(ans) = <<>>
    OBVIOUS
  <2>3. Done(s, fl) /\ com = <<>> /\ Tail(ans) = <<>> => BookLoad(t, Tail(ans), com, fl)
    BY <1>5, <1>6 DEF BookLoad, Quiet
  <2> QED BY <1>4, <2>1, <2>2, <2>3 DEF Book
<1>8. Paid(t, Tail(ans), com, buf, fl, n)
  BY <1>2, <1>4, <1>5, <1>7 DEF Paid, LateErase, LateBoth
<1>9. Tried(t, Tail(ans), com, n)
  BY <1>4 DEF Tried
<1> QED BY <1>1, <1>4, <1>8, <1>9 DEF Goes

LEMMA HasKTail ==
  ASSUME NEW ans, IsSeq(ans), ans # <<>>, NEW com, HasK(ans, com), ~ IsSign(Head(ans), {"k"})
  PROVE  HasK(Tail(ans), com)
<1>1. /\ Len(Tail(ans)) = Len(ans) - 1 /\ Head(ans) = ans[1] /\ Len(ans) \in Nat
      /\ \A i \in 1 .. Len(ans) - 1 : Tail(ans)[i] = ans[i + 1]
  BY TailFacts, SeqFacts
<1>2. CASE \E i \in 1 .. Len(com) : com[i].letter = "k"
  BY <1>2 DEF HasK
<1>3. CASE \E i \in 1 .. Len(ans) : IsSign(ans[i], {"k"})
  <2>1. PICK i \in 1 .. Len(ans) : IsSign(ans[i], {"k"})
    BY <1>3
  <2>2. i # 1
    BY <1>1, <2>1
  <2>3. i - 1 \in 1 .. Len(Tail(ans)) /\ Tail(ans)[i - 1] = ans[i]
    BY <1>1, <2>2
  <2> QED BY <2>1, <2>3 DEF HasK
<1> QED BY <1>2, <1>3 DEF HasK

\* Something else comes, and is dropped.
LEMMA DropGoes ==
  ASSUME NEW r, NEW s, NEW ans, NEW com, NEW n, InWrite(s, r, ans, com, n),
         NEW buf, NEW fl, Goes(s, r, ans, com, buf, fl, n), s.stage = "wait",
         ans # <<>>, ~ IsSign(Head(ans), {Letter(s.pc)})
  PROVE  Goes(s, r, Tail(ans), com, buf, fl, n)
<1> DEFINE failed == s.sector_write_attempt
           d == PageData(s)
<1>1. /\ r.command = "write" /\ DOMAIN s = Fields /\ s.pc \in {"hello"} \cup Steps
      /\ IsSeq(ans) /\ IsSeq(com)
  BY DEF InWrite
<1>2. Paid(s, ans, com, buf, fl, n) /\ Tried(s, ans, com, n)
  BY <1>1 DEF Goes
<1>3. s.pc = "eraseSector" => ~ IsSign(Head(ans), {"k"})
  BY DEF Letter
<1>4. Book(s, ans, com, buf, fl) => Book(s, Tail(ans), com, buf, fl)
  <2>1. CASE s.pc = "hello"
    BY <2>1 DEF Book
  <2>2. CASE s.pc = "eraseSector"
    <3>1. LastK(ans, com, sector_index(s), fl, page_index(s)) =>
            LastK(Tail(ans), com, sector_index(s), fl, page_index(s))
      BY <1>1, <1>3, <2>2, LastKTail
    <3> QED BY <2>2, <3>1 DEF Book, BookErase
  <2>3. CASE s.pc = "store"
    <3>1. Head(ans) # Sign("s")
      BY <2>3 DEF Letter, IsSign, Sign
    <3> QED BY <2>3, <3>1 DEF Book, BookStore, Quiet, Sent, Back
  <2>4. CASE s.pc = "write"
    <3>1. Head(ans) # Sign("w")
      BY <2>4 DEF Letter, IsSign, Sign
    <3> QED BY <2>4, <3>1 DEF Book, BookWrite, Quiet, Sent, Back
  <2>5. CASE s.pc = "loadPage"
    <3>1. Head(ans) # Sign("r")
      BY <2>5 DEF Letter, IsSign, Sign
    <3> QED BY <2>5, <3>1 DEF Book, BookLoad, Quiet, Sent, Back
  <2> QED BY <1>1, <2>1, <2>2, <2>3, <2>4, <2>5 DEF Steps
<1>5. NoK(ans, com) => NoK(Tail(ans), com)
  BY <1>1, NoKTail
<1>6. RightS(d, ans, com) => RightS(d, Tail(ans), com)
  BY <1>1, RightSTail
<1>7. RightBehindK(d, ans, com) => RightBehindK(d, Tail(ans), com)
  BY <1>1, RightKTail
<1>8. LateErase(s, ans, com) => LateErase(s, Tail(ans), com)
  BY <1>5, <1>6 DEF LateErase
<1>9. LateBoth(s, ans, com) => LateBoth(s, Tail(ans), com)
  BY <1>5, <1>6, <1>7 DEF LateBoth
<1>10. Paid(s, Tail(ans), com, buf, fl, n)
  BY <1>2, <1>4, <1>8, <1>9 DEF Paid
<1>11. Tried(s, Tail(ans), com, n)
  <2>1. s.pc = "eraseSector" /\ HasK(ans, com) => HasK(Tail(ans), com)
    BY <1>1, <1>3, HasKTail
  <2> QED BY <1>2, <2>1 DEF Tried
<1> QED BY <1>1, <1>10, <1>11 DEF Goes, Steps

\* A command is sent.
LEMMA SendGoes ==
  ASSUME NEW r, NEW s, NEW ans, NEW com, NEW n, InWrite(s, r, ans, com, n),
         NEW buf, NEW fl, Goes(s, r, ans, com, buf, fl, n), s.stage = "send",
         NEW t, t = [s EXCEPT !.stage = "wait"]
  PROVE  Goes(t, r, ans, Append(com, Command(s)), buf, fl, n)
<1> DEFINE failed == s.sector_write_attempt
           d == PageData(s)
           more == Append(com, Command(s))
<1>1. /\ r.command = "write" /\ DOMAIN s = Fields /\ s.pc \in {"hello"} \cup Steps
      /\ IsSeq(ans) /\ IsSeq(com)
  BY DEF InWrite
<1>2. Paid(s, ans, com, buf, fl, n) /\ Tried(s, ans, com, n)
  BY <1>1 DEF Goes
<1>3. /\ t.pc = s.pc /\ t.stage = "wait" /\ t.sector_write_attempt = failed
      /\ t.crc_list = s.crc_list /\ t.load_try = s.load_try /\ t.offset = s.offset
      /\ t.data = s.data /\ t.sector = s.sector /\ t.page = s.page /\ t.erase_try = s.erase_try
  BY <1>1 DEF Fields
<1>4. /\ page_index(t) = page_index(s) /\ sector_index(t) = sector_index(s) /\ PageData(t) = d
      /\ (Fresh(s, fl) => Fresh(t, fl)) /\ (Done(s, fl) => Done(t, fl))
  BY <1>3, PlaceKept
<1>5. Command(t) = Command(s)
  BY <1>3, <1>4 DEF Command, Argument
<1>6. /\ s.pc = "eraseSector" => Command(s) = [letter |-> "k", arg |-> sector_index(s)]
      /\ s.pc = "store" => Command(s).letter = "s" /\ Command(s).arg = d
  BY DEF Command, Letter, Argument
<1>7. Quiet(ans, com) => Sent(t, ans, more)
  <2>1. ASSUME com = <<>>
        PROVE  Append(com, Command(s)) = <<Command(s)>>
    BY <2>1
  <2> QED BY <1>5, <2>1 DEF Quiet, Sent
<1> DEFINE book == Book(s, ans, com, buf, fl)
<1>8. book => Book(t, ans, more, buf, fl)
  <2>1. CASE s.pc = "hello"
    BY <1>3, <2>1 DEF Book
  <2>2. CASE s.pc = "eraseSector"
    <3>1. book => NoK(ans, com)
      BY <2>2 DEF Book, BookErase
    <3>2. NoK(ans, com) => LastK(ans, more, sector_index(s), fl, page_index(s))
      BY <1>1, <1>6, <2>2, LastKSend
    <3> HIDE DEF more
    <3> QED BY <1>3, <1>4, <2>2, <3>1, <3>2 DEF Book, BookErase
  <2>3. CASE s.pc = "store"
    <3>1. book => Fresh(s, fl) /\ Quiet(ans, com)
      BY <2>3 DEF Book, BookStore
    <3> HIDE DEF more, book
    <3> QED BY <1>3, <1>4, <1>7, <2>3, <3>1 DEF Book, BookStore
  <2>4. CASE s.pc = "write"
    <3>1. book => Fresh(s, fl) /\ Quiet(ans, com) /\ buf = d
      BY <2>4 DEF Book, BookWrite
    <3> HIDE DEF more, book
    <3> QED BY <1>3, <1>4, <1>7, <2>4, <3>1 DEF Book, BookWrite
  <2>5. CASE s.pc = "loadPage"
    <3>1. book => Done(s, fl) /\ Quiet(ans, com) /\ s.crc_list \subseteq {d} /\ s.load_try = 0
      BY <2>5 DEF Book, BookLoad
    <3> HIDE DEF more, book
    <3> QED BY <1>3, <1>4, <1>7, <2>5, <3>1 DEF Book, BookLoad
  <2> QED BY <1>1, <2>1, <2>2, <2>3, <2>4, <2>5 DEF Steps
<1>9. s.pc = "store" =>
        /\ NoK(ans, com) => NoK(ans, more)
        /\ RightS(d, ans, com) => RightS(d, ans, more)
  <2>1. ASSUME s.pc = "store", NoK(ans, com)
        PROVE  NoK(ans, more)
    BY <1>1, <1>6, <2>1, AllSend DEF NoK
  <2>2. ASSUME s.pc = "store", RightS(d, ans, com)
        PROVE  RightS(d, ans, more)
    BY <1>1, <1>6, <2>2, RightSSend
  <2> QED BY <2>1, <2>2
<1>10. s.pc = "eraseSector" =>
         /\ RightBehindK(d, ans, com) => RightBehindK(d, ans, more)
         /\ HasK(ans, more)
  <2>1. s.pc = "eraseSector" => Command(s).letter = "k"
    BY <1>6
  <2>2. ASSUME s.pc = "eraseSector", RightBehindK(d, ans, com)
        PROVE  RightBehindK(d, ans, more)
    <3>1. Command(s).letter # "s"
      BY <2>1, <2>2
    <3> QED BY <1>1, <2>2, <3>1, RightKSend
  <2>3. s.pc = "eraseSector" => HasK(ans, more)
    BY <1>1, <2>1, HasKSend
  <2> QED BY <2>2, <2>3
<1> HIDE DEF more
<1>11. LateErase(s, ans, com) => LateErase(t, ans, more)
  BY <1>3, <1>4, <1>9 DEF LateErase
<1>12. LateBoth(s, ans, com) => LateBoth(t, ans, more)
  <2>1. s.pc = "store" /\ LateBoth(s, ans, com) => NoK(ans, com) \/ RightS(d, ans, com)
    BY DEF LateBoth
  <2> QED BY <1>3, <1>4, <1>9, <1>10, <2>1 DEF LateBoth
<1>13. Paid(t, ans, more, buf, fl, n)
  BY <1>2, <1>3, <1>8, <1>11, <1>12 DEF Paid
<1>14. Tried(t, ans, more, n)
  BY <1>2, <1>3, <1>10 DEF Tried
<1> QED BY <1>1, <1>3, <1>13, <1>14 DEF Goes, more, Steps

-----------------------------------------------------------------------------
(* The board, in a write.                                                  *)

LEMMA AnswersLetter ==
  ASSUME NEW ans, IsSeq(ans), NEW b, NEW x, NEW v, Answers(ans, b, x, v)
  PROVE  IsSeq(b) /\ Answered(ans, b, x)
<1>1. Len(ans) \in Nat
  BY SeqFacts
<1>2. \/ Len(b) = Len(ans) + 1
      \/ Len(b) = Len(ans) + 2 /\ b[Len(ans) + 2] = Value(v)
  BY DEF Answers
<1>3. Len(b) >= Len(ans) /\ \A i \in 1 .. Len(ans) : b[i] = ans[i]
  BY <1>1, <1>2 DEF Answers
<1>4. ASSUME NEW i \in Len(ans) + 1 .. Len(b)
      PROVE  \/ i = Len(ans) + 1 /\ b[i] = Sign(x)
             \/ i > Len(ans) + 1 /\ b[i].kind # "letter"
  <2>1. i = Len(ans) + 1 \/ (i = Len(ans) + 2 /\ b[Len(ans) + 2] = Value(v))
    BY <1>1, <1>2
  <2>2. CASE i = Len(ans) + 1
    BY <2>2 DEF Answers
  <2>3. CASE i = Len(ans) + 2 /\ b[Len(ans) + 2] = Value(v)
    <3>1. b[i].kind # "letter"
      BY <2>3 DEF Value
    <3>2. i > Len(ans) + 1
      BY <1>1, <2>3
    <3> QED BY <3>1, <3>2
  <2> QED BY <2>1, <2>2, <2>3
<1> QED BY <1>3, <1>4 DEF Answered, Answers

\* The page of the client is in its sector.
LEMMA SectorOfPage ==
  ASSUME NEW r \in Requests, ~ r.pad, Changes(r), NEW s, Within(s, r), s.pc \in Steps
  PROVE  page_index(s) \in Pages /\ SectorOf(page_index(s)) = sector_index(s)
<1> DEFINE a == sector_index(s)
           p == page_index(s)
<1>1. a \in Nat /\ p \in Nat /\ p >= a * pages_per_sector /\ p < a * pages_per_sector + pages_per_sector
  <2>1. /\ Start(s) \in Nat /\ s.page \in Nat /\ s.page < pages_per_sector
        /\ p = r.offset + Start(s) + s.page /\ a \in Nat /\ a * pages_per_sector = r.offset + Start(s)
    BY Place
  <2>2. r.offset \in Nat
    BY RequestFacts
  <2> DEFINE x == a * pages_per_sector
             w == Start(s)
             o == r.offset
             e == s.page
  <2>3. w \in Nat /\ e \in Nat /\ e < pages_per_sector /\ p = o + w + e /\ x = o + w /\ o \in Nat /\ a \in Nat
    BY <2>1, <2>2
  <2> HIDE DEF x, w, o, e, a, p
  <2>4. p \in Nat /\ p >= x /\ p < x + pages_per_sector
    BY <2>3, GeometryAssumption
  <2> QED BY <2>3, <2>4 DEF x
<1>2. p \in Pages
  BY Place, RequestFacts
<1> HIDE DEF a, p
<1>3. p \div pages_per_sector >= a
  BY <1>1, Quotient
<1>4. ~ (p \div pages_per_sector >= a + 1)
  <2>1. (a + 1) * pages_per_sector = a * pages_per_sector + pages_per_sector /\ a * pages_per_sector \in Nat
    BY <1>1, Distribute
  <2>2. p >= (a + 1) * pages_per_sector <=> p \div pages_per_sector >= a + 1
    BY <1>1, Quotient
  <2> DEFINE x == a * pages_per_sector
             y == (a + 1) * pages_per_sector
  <2>3. y = x + pages_per_sector /\ x \in Nat /\ p < x + pages_per_sector
    BY <1>1, <2>1
  <2> HIDE DEF x, y
  <2>4. ~ (p >= y)
    BY <1>1, <2>3, GeometryAssumption
  <2> QED BY <2>2, <2>4 DEF y
<1>5. p \div pages_per_sector \in Nat
  BY <1>1, Division
<1>6. p \div pages_per_sector = a
  BY <1>1, <1>3, <1>4, <1>5
<1> QED BY <1>2, <1>6 DEF SectorOf, a, p

\* By the book, and the board does what it is told.
LEMMA BookExecuted ==
  ASSUME NEW s, DOMAIN flash = Pages, IsSeq(answers), IsSeq(commands), commands # <<>>,
         s.pc \in Steps, page_index(s) \in Pages, SectorOf(page_index(s)) = sector_index(s),
         Book(s, answers, commands, buffer, flash),
         NEW cmd, cmd = Head(commands), Effect(cmd), cmd.letter # "l",
         answers' = answers \o Answer(cmd, buffer')
  PROVE  Book(s, answers', Tail(commands), buffer', flash')
<1> DEFINE d == PageData(s)
<1>1. Answers(answers, answers', cmd.letter, buffer')
  BY AnswerIs
<1>2. IsSeq(answers') /\ Answered(answers, answers', cmd.letter)
  BY <1>1, AnswersLetter
<1>3. ASSUME Sent(s, answers, commands)
      PROVE  /\ cmd = Command(s) /\ Tail(commands) = <<>>
             /\ answers' = Answer(cmd, buffer')
  <2>1. answers = <<>> /\ commands = <<Command(s)>>
    BY <1>3 DEF Sent
  <2>2. Answer(cmd, buffer') \in Seq({Sign(cmd.letter), Value(buffer')})
    <3>1. \/ Answer(cmd, buffer') = <<Sign(cmd.letter)>>
          \/ Answer(cmd, buffer') = <<Sign(cmd.letter), Value(buffer')>>
      BY AnswerFacts
    <3> QED BY <3>1
  <2> HIDE DEF d
  <2>3. <<>> \o Answer(cmd, buffer') = Answer(cmd, buffer')
    BY <2>2
  <2> QED BY <2>1, <2>3
<1>4. CASE s.pc = "eraseSector"
  <2>1. s.stage = "send" => NoK(answers', Tail(commands))
    <3>1. s.stage = "send" => NoK(answers, commands)
      BY <1>4 DEF Book, BookErase
    <3> QED BY <1>2, <3>1, AllExecuted DEF NoK
  <2>2. ASSUME s.stage = "wait"
        PROVE  LastK(answers', Tail(commands), sector_index(s), flash', page_index(s))
    <3>1. LastK(answers, commands, sector_index(s), flash, page_index(s))
      BY <1>4, <2>2 DEF Book, BookErase
    <3>2. cmd = [letter |-> "k", arg |-> sector_index(s)] => Blank(sector_index(s), flash', page_index(s))
      BY DEF Effect, Blank
    <3> QED BY <1>1, <3>1, <3>2, LastKAnswered
  <2> QED BY <1>4, <2>1, <2>2 DEF Book, BookErase
<1>5. CASE s.pc = "store"
  <2>1. Fresh(s, flash) /\ Sent(s, answers, commands) /\ s.stage = "wait"
    BY <1>5 DEF Book, BookStore, Quiet, Back
  <2>2. cmd.letter = "s" /\ cmd.arg = d
    BY <1>3, <1>5, <2>1 DEF Command, Letter, Argument
  <2>3. buffer' = d /\ flash' = flash
    BY <2>2 DEF Effect
  <2>4. Answer(cmd, buffer') = <<Sign("s"), Value(d)>>
    BY <2>2, <2>3 DEF Answer, Valued
  <2>5. Back(answers', Tail(commands), <<Sign("s"), Value(d)>>)
    BY <1>3, <2>1, <2>4 DEF Back
  <2> QED BY <1>5, <2>1, <2>3, <2>5 DEF Book, BookStore
<1>6. CASE s.pc = "write"
  <2>1. Fresh(s, flash) /\ Sent(s, answers, commands) /\ s.stage = "wait" /\ buffer = d
    BY <1>6 DEF Book, BookWrite, Quiet, Back
  <2>2. cmd.letter = "w" /\ cmd.arg = page_index(s)
    BY <1>3, <1>6, <2>1 DEF Command, Letter, Argument
  <2>3. flash' = [flash EXCEPT ![page_index(s)] = Burnt(@, d)]
    BY <2>1, <2>2 DEF Effect
  <2>4. Answer(cmd, buffer') = <<Sign("w")>>
    BY <2>2 DEF Answer, Valued
  <2>5. Back(answers', Tail(commands), <<Sign("w")>>)
    BY <1>3, <2>1, <2>4 DEF Back
  <2>6. Done(s, flash')
    <3> DEFINE p == page_index(s)
               x == sector_index(s)
    <3>1. p \in Nat
      BY GeometryAssumption DEF Pages
    <3>2. flash[p] = Erased
      BY <2>1, <3>1 DEF Fresh, Blank
    <3>3. flash'[p] = d
      BY <2>3, <3>2 DEF Burnt
    <3>4. ASSUME NEW q \in Pages, SectorOf(q) = x, q >= p + 1
          PROVE  flash'[q] = Erased
      <4>1. q # p /\ q >= p
        BY <3>1, <3>4 DEF Pages
      <4>2. flash[q] = Erased
        BY <2>1, <3>4, <4>1 DEF Fresh, Blank
      <4> QED BY <2>3, <4>1, <4>2
    <3> QED BY <3>3, <3>4 DEF Done, Right, Blank
  <2> QED BY <1>6, <2>1, <2>5, <2>6 DEF Book, BookWrite
<1>7. CASE s.pc = "loadPage"
  <2>1. /\ Done(s, flash) /\ Sent(s, answers, commands) /\ s.stage = "wait"
        /\ s.crc_list \subseteq {d} /\ s.load_try = 0
    BY <1>7 DEF Book, BookLoad, Quiet, Back
  <2>2. cmd.letter = "r" /\ cmd.arg = page_index(s)
    BY <1>3, <1>7, <2>1 DEF Command, Letter, Argument
  <2>3. buffer' = d /\ flash' = flash
    BY <2>1, <2>2 DEF Effect, Done, Right
  <2>4. Answer(cmd, buffer') = <<Sign("r"), Value(d)>>
    BY <2>2, <2>3 DEF Answer, Valued
  <2>5. Back(answers', Tail(commands), <<Sign("r"), Value(d)>>)
    BY <1>3, <2>1, <2>4 DEF Back
  <2> QED BY <1>7, <2>1, <2>3, <2>5 DEF Book, BookLoad
<1> QED BY <1>4, <1>5, <1>6, <1>7 DEF Steps

\* An answer is on the line that a fault put there, or none.
LEMMA FaultGoes ==
  ASSUME NEW r, NEW s, NEW ans, NEW com, com # <<>>, NEW n, InWrite(s, r, ans, com, n),
         NEW buf, NEW fl, Goes(s, r, ans, com, buf, fl, n),
         NEW b, IsSeq(b), Answered(ans, b, Head(com).letter), NEW buf2, NEW fl2
  PROVE  Goes(s, r, b, Tail(com), buf2, fl2, n + 1)
<1> DEFINE failed == s.sector_write_attempt
           d == PageData(s)
           rest == Tail(com)
<1>1. /\ r.command = "write" /\ DOMAIN s = Fields /\ s.pc \in {"hello"} \cup Steps
      /\ IsSeq(ans) /\ IsSeq(com) /\ failed \in 0 .. 2 /\ n \in Nat
  BY DEF InWrite
<1>2. Paid(s, ans, com, buf, fl, n) /\ Tried(s, ans, com, n)
  BY <1>1 DEF Goes
<1>3. failed <= n /\ (failed = n => Book(s, ans, com, buf, fl))
  BY <1>2 DEF Paid
<1>4. NoK(ans, com) => NoK(b, rest)
  BY <1>1, AllExecuted DEF NoK
<1>5. No(ans, com, {"k"}, {"s"}) => RightBehindK(d, b, rest)
  <2>1. No(ans, com, {"k"}, {"s"}) => No(b, rest, {"k"}, {"s"})
    BY <1>1, NoExecuted
  <2> QED BY <2>1, BehindNone
<1>6. failed = n /\ s.pc = "store" => NoK(b, rest)
  BY <1>1, <1>3, <1>4, BookFacts DEF Steps
<1>7. failed = n /\ s.pc = "eraseSector" => RightBehindK(d, b, rest)
  <2>1. ASSUME failed = n, s.pc = "eraseSector"
        PROVE  NoK(ans, com) \/ LastK(ans, com, sector_index(s), fl, page_index(s))
    BY <1>3, <2>1 DEF Book, BookErase
  <2>2. ASSUME LastK(ans, com, sector_index(s), fl, page_index(s))
        PROVE  No(ans, com, {"k"}, {"s"})
    BY <1>1, <2>2, LastKFacts
  <2>3. ASSUME NoK(ans, com)
        PROVE  RightBehindK(d, b, rest)
    BY <1>4, <2>3, NoKRight
  <2> QED BY <1>5, <2>1, <2>2, <2>3
<1>8. failed = 0 /\ n + 1 = 1 => LateErase(s, b, rest)
  <2>1. failed = 0 /\ n + 1 = 1 => failed = n
    BY <1>1
  <2> QED BY <1>6, <2>1 DEF LateErase
<1>9. failed = 1 /\ n + 1 = 2 => LateBoth(s, b, rest)
  <2>1. failed = 1 /\ n + 1 = 2 => failed = n
    BY <1>1
  <2> QED BY <1>6, <1>7, <2>1 DEF LateBoth
<1>10. failed <= n + 1 /\ failed # n + 1
  BY <1>1, <1>3
<1> HIDE DEF rest
<1>11. Paid(s, b, rest, buf2, fl2, n + 1)
  BY <1>8, <1>9, <1>10 DEF Paid
<1>12. Tried(s, b, rest, n + 1)
  <2>1. ASSUME s.pc = "eraseSector"
        PROVE  s.erase_try \in 0 .. 2 /\ s.erase_try <= n + 1 /\ s.erase_try < n + 1
    <3>1. s.erase_try \in 0 .. 2 /\ s.erase_try <= n
      BY <1>2, <2>1 DEF Tried
    <3> QED BY <1>1, <3>1
  <2> QED BY <2>1 DEF Tried
<1> QED BY <1>1, <1>11, <1>12 DEF Goes, rest, Steps

\* The board does what it is told, and the answer is on the line.
LEMMA ExecutedGoes ==
  ASSUME NEW r, NEW s, NEW n, InWrite(s, r, answers, commands, n), commands # <<>>, DOMAIN flash = Pages,
         s.pc \in Steps => page_index(s) \in Pages /\ SectorOf(page_index(s)) = sector_index(s),
         Goes(s, r, answers, commands, buffer, flash, n),
         NEW cmd, cmd = Head(commands), Effect(cmd), cmd.letter # "l",
         answers' = answers \o Answer(cmd, buffer')
  PROVE  Goes(s, r, answers', Tail(commands), buffer', flash', n)
<1> DEFINE failed == s.sector_write_attempt
           d == PageData(s)
           rest == Tail(commands)
<1>1. /\ r.command = "write" /\ s.pc \in {"hello"} \cup Steps
      /\ IsSeq(answers) /\ IsSeq(commands)
  BY DEF InWrite
<1>2. Paid(s, answers, commands, buffer, flash, n) /\ Tried(s, answers, commands, n)
  BY <1>1 DEF Goes
<1>3. Answers(answers, answers', cmd.letter, buffer')
  BY <1>1, AnswerIs
<1>4. IsSeq(answers') /\ Answered(answers, answers', cmd.letter)
  BY <1>1, <1>3, AnswersLetter
<1>5. cmd.letter = "s" => buffer' = cmd.arg
  BY DEF Effect
<1>6. Book(s, answers, commands, buffer, flash) => Book(s, answers', rest, buffer', flash')
  <2>1. CASE s.pc \in Steps
    BY <1>1, <2>1, BookExecuted
  <2>2. CASE s.pc = "hello"
    BY <2>2 DEF Book
  <2> QED BY <1>1, <2>1, <2>2
<1>7. NoK(answers, commands) => NoK(answers', rest)
  BY <1>1, <1>4, AllExecuted DEF NoK
<1>8. RightS(d, answers, commands) => RightS(d, answers', rest)
  BY <1>1, <1>3, <1>5, RightSAnswered
<1>9. RightBehindK(d, answers, commands) => RightBehindK(d, answers', rest)
  BY <1>1, <1>3, <1>5, RightKAnswered
<1>10. answers # <<>> => answers' # <<>> /\ Head(answers') = Head(answers)
  <2>1. ASSUME answers # <<>>
        PROVE  answers' # <<>> /\ Head(answers') = Head(answers)
    <3>1. Len(answers) >= 1 /\ Head(answers) = answers[1] /\ Len(answers) \in Nat
      BY <1>1, <2>1, TailFacts, SeqFacts
    <3>2. answers'[1] = answers[1] /\ Len(answers') >= 1
      BY <1>4, <3>1, SeqFacts DEF Answered
    <3>3. answers' # <<>>
      BY <3>2
    <3>4. Head(answers') = answers'[1]
      BY <1>4, <3>3, TailFacts
    <3> QED BY <3>1, <3>2, <3>3, <3>4
  <2> QED BY <2>1
<1> HIDE DEF rest
<1>11. LateErase(s, answers, commands) => LateErase(s, answers', rest)
  BY <1>7, <1>8 DEF LateErase
<1>12. LateBoth(s, answers, commands) => LateBoth(s, answers', rest)
  BY <1>7, <1>8, <1>9, <1>10 DEF LateBoth
<1>13. Paid(s, answers', rest, buffer', flash', n)
  BY <1>2, <1>6, <1>11, <1>12 DEF Paid
<1>14. Tried(s, answers', rest, n)
  <2>1. HasK(answers, commands) => HasK(answers', rest)
    BY <1>1, <1>3, HasKAnswered DEF rest
  <2> QED BY <1>2, <2>1 DEF Tried
<1> QED BY <1>1, <1>13, <1>14 DEF Goes, rest, Steps

-----------------------------------------------------------------------------
(* The steps of a write.                                                   *)

WGoes == Goes(c', request, answers', commands', buffer', flash', faults')

LEMMA WriteFacts ==
  ASSUME IInv, TInv, ~ request.pad, request.command = "write", c.pc \in Exchanges
  PROVE  /\ InWrite(c, request, answers, commands, faults)
         /\ Goes(c, request, answers, commands, buffer, flash, faults)
         /\ Paid(c, answers, commands, buffer, flash, faults) /\ Tried(c, answers, commands, faults)
         /\ Plain(Tail(answers)) \/ answers = <<>>
         /\ c.stage = "value" => c.pc \in {"hello", "store", "loadPage"}
         /\ c.pc \in Steps => page_index(c) \in Pages /\ SectorOf(page_index(c)) = sector_index(c)
<1>1. /\ Changes(request) /\ Within(c, request) /\ DOMAIN c = Fields /\ Writes(c)
      /\ c.pc \in {"hello"} \cup Steps
      /\ Plain(answers) /\ IsSeq(answers) /\ InStep(c, answers, commands) /\ IsSeq(commands)
      /\ Level(c) \in {0, 1, 2} /\ c.page \in Nat
      /\ c.pc \in Steps => PageData(c) # None
      /\ c.pc \in {"hello", "eraseSector"} => c.page = 0
  BY InExchange
<1>2. Goes(c, request, answers, commands, buffer, flash, faults)
  BY <1>1 DEF TInv
<1>3. Paid(c, answers, commands, buffer, flash, faults) /\ Tried(c, answers, commands, faults)
  BY <1>1, <1>2 DEF Goes
<1>4. faults \in Nat /\ request \in Requests
  BY FaultAssumption DEF IInv
<1>5. c.pc \in Steps => c.offset + c.sector * pages_per_sector \in Nat
  <2>1. c.pc \in Steps => Start(c) \in Nat
    BY <1>1, <1>4, Place
  <2>2. request.offset \in Nat /\ c.offset = request.offset
    BY <1>1, <1>4, RequestFacts DEF Within
  <2> DEFINE x == c.sector * pages_per_sector
  <2>3. Start(c) = x
    BY DEF Start
  <2> HIDE DEF x
  <2>4. c.pc \in Steps => c.offset + x \in Nat
    BY <2>1, <2>2, <2>3
  <2> QED BY <2>4 DEF x
<1>6. c.pc \in Steps => page_index(c) \in Pages /\ SectorOf(page_index(c)) = sector_index(c)
  BY <1>1, <1>4, SectorOfPage
<1>7. Plain(Tail(answers)) \/ answers = <<>>
  BY <1>1, PlainTail
<1>8. c.stage = "value" => c.pc \in {"hello", "store", "loadPage"}
  BY <1>1 DEF Writes, Steps
<1>9. InWrite(c, request, answers, commands, faults)
  BY <1>1, <1>4, <1>5 DEF InWrite, Writes
<1> QED BY <1>2, <1>3, <1>6, <1>7, <1>8, <1>9

LEMMA WSend ==
  ASSUME IInv, TInv, ~ request.pad, request.command = "write", sendCommand
  PROVE  WGoes
<1>1. /\ c.pc \in Exchanges /\ c.stage = "send" /\ commands' = Append(commands, Command(c))
      /\ c' = [c EXCEPT !.stage = "wait"]
      /\ UNCHANGED <<request, answers, buffer, flash, faults>>
  BY DEF sendCommand, Command
<1>2. InWrite(c, request, answers, commands, faults) /\ Goes(c, request, answers, commands, buffer, flash, faults)
  BY <1>1, WriteFacts
<1>3. Goes(c', request, answers, Append(commands, Command(c)), buffer, flash, faults)
  BY <1>1, <1>2, SendGoes
<1> QED BY <1>1, <1>3 DEF WGoes

LEMMA WWait ==
  ASSUME IInv, TInv, ~ request.pad, request.command = "write", waitForMessage
  PROVE  WGoes
<1> DEFINE next == Head(answers)
<1>1. /\ c.pc \in Exchanges /\ c.stage = "wait" /\ answers # <<>>
      /\ UNCHANGED <<request, commands, buffer, flash, faults>>
  BY DEF waitForMessage
<1>2. /\ InWrite(c, request, answers, commands, faults)
      /\ Goes(c, request, answers, commands, buffer, flash, faults)
      /\ Paid(c, answers, commands, buffer, flash, faults)
      /\ next.kind \in {"letter", "value", "error"}
  BY <1>1, WriteFacts, Taken
<1>3. answers' = Tail(answers)
  BY <1>2 DEF waitForMessage
<1>4. CASE IsSign(next, {Letter(c.pc)}) /\ Letter(c.pc) \in Valued
  <2>1. c.pc \in {"hello", "store", "loadPage"}
    BY <1>1, <1>2, <1>4, LetterFacts DEF InWrite
  <2>2. c' = [c EXCEPT !.stage = "value"]
    BY <1>4 DEF waitForMessage, IsSign
  <2>3. Goes(c', request, Tail(answers), commands, buffer, flash, faults)
    BY <1>1, <1>2, <1>4, <2>1, <2>2, SignGoes
  <2> QED BY <1>1, <1>3, <2>3 DEF WGoes
<1>5. CASE IsSign(next, {Letter(c.pc)}) /\ Letter(c.pc) \notin Valued
  <2>1. c.pc \in {"eraseSector", "write"}
    BY <1>1, <1>2, <1>5, LetterFacts DEF InWrite, Steps
  <2>2. c' = Ended(c, request, TRUE, None)
    BY <1>5 DEF waitForMessage, IsSign
  <2>3. c.pc = "eraseSector" => IsSign(next, {"k"})
    BY <1>5 DEF Letter
  <2>4. Goes(c', request, Tail(answers), commands, buffer, flash, faults)
    BY <1>1, <1>2, <2>1, <2>2, <2>3, ErasedGoes, WrittenGoes
  <2> QED BY <1>1, <1>3, <2>4 DEF WGoes
<1>6. CASE ~ IsSign(next, {Letter(c.pc)})
  <2>1. c' = c
    BY <1>2, <1>6 DEF waitForMessage, IsSign
  <2>2. Goes(c, request, Tail(answers), commands, buffer, flash, faults)
    BY <1>1, <1>2, <1>6, DropGoes
  <2> QED BY <1>1, <1>3, <2>1, <2>2 DEF WGoes
<1> QED BY <1>4, <1>5, <1>6

\* The count of faults in a wait for nothing.
LEMMA Waited ==
  ASSUME NothingComes, faults \in Nat
  PROVE  answers = <<>> /\ faults' \in {faults, faults + 1} /\ (faults' = faults => commands = <<>>)
BY DEF NothingComes, Fault, NoFault

LEMMA WWaitFails ==
  ASSUME IInv, TInv, ~ request.pad, request.command = "write", waitFails
  PROVE  WGoes
<1>1. /\ c.pc \in Exchanges /\ c.stage = "wait" /\ NothingComes /\ c' = Ended(c, request, FALSE, None)
      /\ UNCHANGED <<request, commands, answers, buffer, flash>>
  BY DEF waitFails
<1>2. /\ InWrite(c, request, answers, commands, faults)
      /\ Paid(c, answers, commands, buffer, flash, faults) /\ Tried(c, answers, commands, faults)
  BY <1>1, WriteFacts
<1>3. faults \in Nat /\ c.pc \in {"hello"} \cup Steps
  BY <1>2 DEF InWrite
<1>4. answers = <<>> /\ faults' \in {faults, faults + 1} /\ (faults' = faults => commands = <<>>)
  BY <1>1, <1>3, Waited
<1>5. faults' \in Nat /\ faults <= faults'
  BY <1>3, <1>4
<1> DEFINE m == faults'
<1>6. Goes(c', request, answers, commands, buffer, flash, m)
  <2> HIDE DEF m
  <2>1. CASE c.pc = "hello"
    BY <1>1, <1>2, <1>5, <2>1, HelloGoes DEF m
  <2>2. CASE c.pc \in Steps
    BY <1>1, <1>2, <1>4, <2>2, SilenceGoes DEF m
  <2> QED BY <1>3, <2>1, <2>2
<1> QED BY <1>1, <1>6 DEF WGoes

LEMMA WReads ==
  ASSUME IInv, TInv, ~ request.pad, request.command = "write", readExactly
  PROVE  WGoes
<1>1. /\ c.pc \in Exchanges /\ c.stage = "value" /\ answers # <<>> /\ answers' = Tail(answers)
      /\ c' = Ended(c, request, TRUE, Head(answers).of)
      /\ UNCHANGED <<request, commands, buffer, flash, faults>>
  BY DEF readExactly
<1>2. /\ InWrite(c, request, answers, commands, faults)
      /\ Paid(c, answers, commands, buffer, flash, faults)
      /\ c.pc \in {"hello", "store", "loadPage"}
  BY <1>1, WriteFacts
<1>3. Goes(c', request, Tail(answers), commands, buffer, flash, faults)
  <2>1. CASE c.pc = "hello"
    <3>1. All(Tail(answers), commands, {}) /\ faults \in Nat /\ faults <= faults
      BY <1>1, <1>2, <2>1, AllTail DEF InWrite, InStep, AtHello
    <3> QED BY <1>1, <1>2, <2>1, <3>1, HelloGoes
  <2>2. CASE c.pc = "store"
    BY <1>1, <1>2, <2>2, StoredGoes
  <2>3. CASE c.pc = "loadPage"
    BY <1>1, <1>2, <2>3, LoadedGoes
  <2> QED BY <1>2, <2>1, <2>2, <2>3
<1> QED BY <1>1, <1>3 DEF WGoes

LEMMA WReadsNext ==
  ASSUME IInv, TInv, ~ request.pad, request.command = "write", readsNextAnswer
  PROVE  WGoes
<1>1. /\ c.pc \in Exchanges /\ c.stage = "value" /\ answers # <<>> /\ ~ IsValue(Head(answers))
      /\ UNCHANGED <<request, commands, buffer, flash, faults>>
  BY DEF readsNextAnswer
<1>2. /\ InWrite(c, request, answers, commands, faults)
      /\ Paid(c, answers, commands, buffer, flash, faults)
      /\ c.pc \in {"hello", "store", "loadPage"}
  BY <1>1, WriteFacts
<1>3. /\ c' = Ended(c, request, FALSE, None)
      /\ answers' = IF Len(answers) > 1 /\ IsValue(answers[2]) THEN SubSeq(answers, 3, Len(answers))
                    ELSE Tail(answers)
  BY <1>2 DEF readsNextAnswer
<1>4. Goes(c', request, answers', commands, buffer, flash, faults)
  <2>1. CASE c.pc = "hello"
    <3>1. faults \in Nat /\ faults <= faults
      BY <1>2 DEF InWrite
    <3> QED BY <1>2, <1>3, <2>1, <3>1, HelloGoes
  <2>2. CASE c.pc \in {"store", "loadPage"}
    <3>1. NoK(answers, commands) => NoK(answers', commands)
      <4>1. IsSeq(answers) /\ IsSeq(Tail(answers))
        BY <1>1, <1>2, TailFacts DEF InWrite
      <4>2. answers' = Tail(answers) \/ (Tail(answers) # <<>> /\ answers' = Tail(Tail(answers)))
        BY <1>3, <4>1, TwoTails
      <4>3. NoK(answers, commands) => NoK(Tail(answers), commands)
        BY <1>1, <4>1, NoKTail
      <4>4. Tail(answers) # <<>> /\ NoK(Tail(answers), commands) => NoK(Tail(Tail(answers)), commands)
        BY <4>1, NoKTail
      <4> QED BY <4>2, <4>3, <4>4
    <3>2. Head(answers).kind # "value"
      BY <1>1 DEF IsValue
    <3> QED BY <1>1, <1>2, <1>3, <2>2, <3>1, <3>2, MissedGoes
  <2> QED BY <1>2, <2>1, <2>2
<1> QED BY <1>1, <1>4 DEF WGoes

LEMMA WTooLittle ==
  ASSUME IInv, TInv, ~ request.pad, request.command = "write", readsTooLittle
  PROVE  WGoes
<1>1. /\ c.pc \in Exchanges /\ c.stage = "value" /\ c' = DecodesNone(c)
      /\ UNCHANGED <<request, commands, buffer, flash, faults>>
  BY DEF readsTooLittle
<1>2. /\ InWrite(c, request, answers, commands, faults)
      /\ Paid(c, answers, commands, buffer, flash, faults)
      /\ c.pc \in {"hello", "store", "loadPage"}
  BY <1>1, WriteFacts
<1>3. faults \in Nat /\ faults <= faults /\ DOMAIN c = Fields
  BY <1>2 DEF InWrite
<1>4. Goes(c', request, answers', commands, buffer, flash, faults)
  <2>1. CASE c.pc = "hello"
    <3>1. c' = Ended(c, request, FALSE, None)
      BY <1>1, <2>1, DecodesNoneFacts
    <3> QED BY <1>2, <1>3, <2>1, <3>1, HelloGoes
  <2>2. CASE c.pc \in {"store", "loadPage"}
    <3>1. c' = Goto(c, "crashed")
      BY <1>1, <2>2, DecodesNoneFacts
    <3>2. c'.pc = "crashed" /\ request.command = "write"
      BY <1>3, <3>1, GotoFacts
    <3> QED BY <3>2, GoesFinal DEF Final
  <2> QED BY <1>2, <2>1, <2>2
<1> QED BY <1>1, <1>4 DEF WGoes

LEMMA WMissing ==
  ASSUME IInv, TInv, ~ request.pad, request.command = "write", valueMissing
  PROVE  WGoes
<1>1. /\ c.pc \in Exchanges /\ c.stage = "value" /\ NothingComes
      /\ UNCHANGED <<request, commands, answers, buffer, flash>>
  BY DEF valueMissing
<1>2. /\ InWrite(c, request, answers, commands, faults)
      /\ Paid(c, answers, commands, buffer, flash, faults)
      /\ c.pc \in {"hello", "store", "loadPage"}
  BY <1>1, WriteFacts
<1>3. faults \in Nat /\ DOMAIN c = Fields
  BY <1>2 DEF InWrite
<1> DEFINE m == faults'
<1>4. m \in Nat /\ faults <= m
  BY <1>1, <1>3, Waited
<1>5. Goes(c', request, answers, commands, buffer, flash, m)
  <2> HIDE DEF m
  <2>1. CASE c.pc = "hello"
    <3>1. c' = Ended(c, request, FALSE, None)
      BY <2>1, DecodesNoneFacts DEF valueMissing
    <3> QED BY <1>2, <1>4, <2>1, <3>1, HelloGoes
  <2>2. CASE c.pc \in {"store", "loadPage"}
    <3>1. c' = Goto(c, "crashed")
      BY <2>2, DecodesNoneFacts DEF valueMissing
    <3>2. c'.pc = "crashed"
      BY <1>3, <3>1, GotoFacts
    <3> QED BY <3>2, GoesFinal DEF Final
  <2> QED BY <1>2, <2>1, <2>2
<1> QED BY <1>1, <1>5 DEF WGoes

\* What the board does, in a write or an erase: what it is told, and answers,
\* or there is a fault.
LEMMA BoardDoes ==
  ASSUME Execute, Plain(answers), Head(commands).letter # "l"
  PROVE  /\ Plain(answers') /\ Answered(answers, answers', Head(commands).letter)
         /\ \/ faults' = faults + 1
            \/ /\ faults' = faults /\ Effect(Head(commands))
               /\ answers' = answers \o Answer(Head(commands), buffer')
<1>1. Replies(Head(commands), answers', flash', faults')
  BY Outcome
<1>2. Plain(answers') /\ Answered(answers, answers', Head(commands).letter)
  BY <1>1, Replied
<1>3. \/ faults' = faults + 1
      \/ /\ faults' = faults /\ Effect(Head(commands))
         /\ answers' = answers \o Answer(Head(commands), buffer')
  BY DEF Execute, Executed, Spoiled, Swallowed, Fault, NoFault
<1> QED BY <1>2, <1>3

LEMMA WExecute ==
  ASSUME IInv, TInv, ~ request.pad, request.command = "write", Execute
  PROVE  WGoes
<1> DEFINE cmd == Head(commands)
<1>1. commands # <<>> /\ commands' = Tail(commands) /\ UNCHANGED <<request, c>>
  BY DEF Execute
<1>2. DOMAIN flash = Pages /\ faults \in 0 .. MaxFaults /\ faults \in Nat /\ Changes(request) /\ Writes(c)
  BY FaultAssumption DEF IInv, Writing, Changes
<1>3. CASE c.pc \in Exchanges
  <2>1. /\ InWrite(c, request, answers, commands, faults)
        /\ Goes(c, request, answers, commands, buffer, flash, faults)
        /\ c.pc \in Steps => page_index(c) \in Pages /\ SectorOf(page_index(c)) = sector_index(c)
    BY <1>3, WriteFacts
  <2>2. Plain(answers) /\ IsSeq(answers) /\ IsSeq(commands) /\ Active(c)
    BY <2>1 DEF InWrite, Active
  <2>3. cmd.letter # "l"
    <3>1. Level(c) \in {0, 1, 2} /\ InStep(c, answers, commands)
      BY <2>1 DEF InWrite
    <3>2. All(answers, commands, {">", "r", "k", "s", "w"})
      BY <1>2, <2>2, <3>1, Outstanding
    <3>3. cmd = commands[1] /\ 1 \in 1 .. Len(commands)
      BY <1>1, <2>2, TailFacts, SeqFacts
    <3> QED BY <3>2, <3>3 DEF All
  <2>4. /\ IsSeq(answers') /\ Answered(answers, answers', cmd.letter)
        /\ \/ faults' = faults + 1
           \/ faults' = faults /\ Effect(cmd) /\ answers' = answers \o Answer(cmd, buffer')
    BY <1>2, <2>2, <2>3, BoardDoes DEF Plain
  <2>5. CASE faults' = faults + 1
    <3>1. Goes(c, request, answers', Tail(commands), buffer', flash', faults + 1)
      BY <1>1, <2>1, <2>4, FaultGoes
    <3> QED BY <1>1, <2>5, <3>1 DEF WGoes
  <2>6. CASE faults' = faults /\ Effect(cmd) /\ answers' = answers \o Answer(cmd, buffer')
    <3>1. Goes(c, request, answers', Tail(commands), buffer', flash', faults)
      BY <1>1, <1>2, <2>1, <2>3, <2>6, ExecutedGoes
    <3> QED BY <1>1, <2>6, <3>1 DEF WGoes
  <2> QED BY <2>4, <2>5, <2>6
<1>4. CASE c.pc \in Final
  <2>1. faults' \in {faults, faults + 1}
    BY <1>2, BoardCounts DEF IInv
  <2>2. c.pc = "aborted" => faults > 2
    BY <1>2 DEF TInv, Goes
  <2>3. c'.pc = "aborted" => faults' > 2
    BY <1>1, <1>2, <2>1, <2>2
  <2> DEFINE m == faults'
  <2>4. Goes(c', request, answers', commands', buffer', flash', m)
    <3>1. c'.pc \in Final /\ request.command # "erase"
      BY <1>1, <1>4
    <3>2. c'.pc = "aborted" => m > 2
      BY <2>3
    <3> HIDE DEF m
    <3> QED BY <3>1, <3>2, GoesFinal
  <2> QED BY <1>1, <2>4 DEF WGoes
<1>5. c.pc \in Exchanges \cup Final
  BY <1>2 DEF Writes, Steps, Exchanges
<1> QED BY <1>3, <1>4, <1>5

-----------------------------------------------------------------------------
(* The steps of an erase.                                                  *)

EGoes ==
  /\ c'.pc = "aborted" => faults' > 2
  /\ Tried(c', answers', commands', faults') /\ Erases(c', answers', commands')

LEMMA EraseFacts ==
  ASSUME IInv, TInv, request.command = "erase"
  PROVE  /\ Changes(request) /\ request.command # "write" /\ request \in Requests
         /\ DOMAIN c = Fields /\ Within(c, request)
         /\ faults \in Nat /\ faults \in 0 .. MaxFaults
         /\ Plain(answers) /\ IsSeq(answers) /\ IsSeq(commands)
         /\ All(answers, commands, {">", "k"})
         /\ c.pc \in {"hello", "eraseSector"} \cup Final
         /\ c.pc = "eraseSector" => c.stage \in {"send", "wait"}
         /\ c.pc = "aborted" => faults > 2
         /\ Tried(c, answers, commands, faults)
<1>1. /\ Changes(request) /\ request.command # "write" /\ DOMAIN c = Fields /\ faults \in Nat
      /\ faults \in 0 .. MaxFaults /\ IsSeq(commands) /\ Within(c, request) /\ request \in Requests
  BY FaultAssumption DEF IInv, Within, Targets, Changes
<1>2. Goes(c, request, answers, commands, buffer, flash, faults)
  BY <1>1 DEF TInv
<1> QED BY <1>1, <1>2 DEF Goes, Erases, Plain

\* The exchange has another stage, or ended.
LEMMA EraseEndsIn ==
  ASSUME NEW s, DOMAIN s = Fields, NEW r, r.command = "erase", ~ r.pad, s.pc \in {"hello", "eraseSector"},
         NEW v, NEW ok \in BOOLEAN, NEW t, t = Ended(s, r, ok, v)
  PROVE  /\ t.pc \in {"hello", "eraseSector"} \cup Final /\ t.stage = "send"
         /\ ok \/ s.pc = "hello" => t.pc # "aborted" /\ (t.pc = "eraseSector" => t.erase_try = 0)
<1>1. CASE s.pc = "hello"
  <2>1. Moved(s, t) /\ t.pc \in {"usage", "crashed", "done", "eraseSector"}
    BY <1>1, HelloEnds DEF Changes
  <2>2. t.pc = "eraseSector" => t.erase_try = 0
    <3>1. t = Started(s, r) \/ t = Goto(s, "usage")
      BY <1>1 DEF Ended
    <3>2. Starts(s, t)
      BY <3>1, StartedStarts, GotoStarts DEF Changes
    <3> QED BY <3>2 DEF Starts
  <2> QED BY <1>1, <2>1, <2>2 DEF Moved, Final
<1>2. CASE s.pc = "eraseSector" /\ ok
  <2>1. t = NextSector(s, r)
    BY <1>2 DEF Ended, eraseSector
  <2>2. EntersSector(s, t, r)
    BY <2>1, NextSectorFacts
  <2>3. t.pc \in {"done", "eraseSector"} /\ t.stage = "send"
    BY <2>2 DEF EntersSector, Moved
  <2>4. t.pc = "eraseSector" => t.erase_try = 0
    BY <2>1, NextSectorStarts DEF Starts
  <2> QED BY <1>2, <2>3, <2>4 DEF Final
<1>3. CASE s.pc = "eraseSector" /\ ~ ok
  <2>1. \/ Moved(s, t) /\ t.pc \in {"eraseSector", "aborted"}
        \/ EntersSector(s, t, r)
    BY <1>3, EraseEnds DEF Changes
  <2>2. t.pc \in {"eraseSector", "aborted", "done"} /\ t.stage = "send"
    BY <2>1 DEF EntersSector, Moved
  <2> QED BY <1>3, <2>2 DEF Final
<1> QED BY <1>1, <1>2, <1>3

\* The exchange of hello ends, or an erase is answered.
LEMMA EraseOver ==
  ASSUME NEW s, DOMAIN s = Fields, NEW r, r.command = "erase", ~ r.pad, s.pc \in {"hello", "eraseSector"},
         NEW v, NEW ok \in BOOLEAN, ok \/ s.pc = "hello", NEW t, t = Ended(s, r, ok, v),
         NEW ans, Plain(ans), NEW com, All(ans, com, {">", "k"}), NEW n \in Nat
  PROVE  t.pc # "aborted" /\ Tried(t, ans, com, n) /\ Erases(t, ans, com)
<1>1. /\ t.pc \in {"hello", "eraseSector"} \cup Final /\ t.stage = "send"
      /\ t.pc # "aborted" /\ (t.pc = "eraseSector" => t.erase_try = 0)
  BY EraseEndsIn
<1>2. Tried(t, ans, com, n)
  <2>1. ASSUME t.pc = "eraseSector"
        PROVE  t.erase_try \in 0 .. 2 /\ t.erase_try <= n
    <3>1. t.erase_try = 0
      BY <1>1, <2>1
    <3> QED BY <3>1
  <2> QED BY <1>1, <2>1 DEF Tried
<1> QED BY <1>1, <1>2 DEF Erases

LEMMA ESend ==
  ASSUME IInv, TInv, request.command = "erase", sendCommand
  PROVE  EGoes
<1> DEFINE more == Append(commands, Command(c))
<1>1. /\ c.pc \in Exchanges /\ c.stage = "send" /\ commands' = more /\ c' = [c EXCEPT !.stage = "wait"]
      /\ UNCHANGED <<answers, faults>>
  BY DEF sendCommand, Command
<1>2. /\ DOMAIN c = Fields /\ Plain(answers) /\ IsSeq(commands) /\ All(answers, commands, {">", "k"})
      /\ c.pc \in {"hello", "eraseSector"} /\ Tried(c, answers, commands, faults)
  BY <1>1, EraseFacts DEF Exchanges, Final
<1>3. c'.pc = c.pc /\ c'.stage = "wait" /\ c'.erase_try = c.erase_try
  BY <1>1, <1>2 DEF Fields
<1>4. Command(c).letter \in {">", "k"} /\ (c.pc = "eraseSector" => Command(c).letter = "k")
  BY <1>2 DEF Command, Letter
<1>5. All(answers, more, {">", "k"})
  BY <1>2, <1>4, AllSend
<1>6. c.pc = "eraseSector" => HasK(answers, more)
  BY <1>2, <1>4, HasKSend
<1> HIDE DEF more
<1>7. Tried(c', answers, more, faults)
  BY <1>2, <1>3, <1>6 DEF Tried
<1>8. Erases(c', answers, more)
  BY <1>2, <1>3, <1>5 DEF Erases
<1> QED BY <1>1, <1>2, <1>3, <1>7, <1>8 DEF EGoes

LEMMA EWait ==
  ASSUME IInv, TInv, ~ request.pad, request.command = "erase", waitForMessage
  PROVE  EGoes
<1> DEFINE next == Head(answers)
<1>1. c.pc \in Exchanges /\ c.stage = "wait" /\ answers # <<>> /\ UNCHANGED <<commands, faults>>
  BY DEF waitForMessage
<1>2. /\ DOMAIN c = Fields /\ Plain(answers) /\ IsSeq(answers) /\ All(answers, commands, {">", "k"})
      /\ c.pc \in {"hello", "eraseSector"} /\ Tried(c, answers, commands, faults) /\ faults \in Nat
  BY <1>1, EraseFacts DEF Exchanges, Final
<1>3. Plain(Tail(answers)) /\ All(Tail(answers), commands, {">", "k"}) /\ next.kind \in {"letter", "value", "error"}
  BY <1>1, <1>2, PlainTail, AllTail
<1>4. answers' = Tail(answers)
  BY <1>3 DEF waitForMessage
<1>5. CASE IsSign(next, {Letter(c.pc)}) /\ c.pc = "hello"
  <2>1. c' = [c EXCEPT !.stage = "value"]
    BY <1>5 DEF waitForMessage, IsSign, Letter, Valued
  <2>2. c'.pc = "hello"
    BY <1>2, <1>5, <2>1 DEF Fields
  <2> QED BY <1>1, <1>3, <1>4, <2>2 DEF EGoes, Tried, Erases
<1>6. CASE IsSign(next, {Letter(c.pc)}) /\ c.pc = "eraseSector"
  <2>1. c' = Ended(c, request, TRUE, None)
    BY <1>6 DEF waitForMessage, IsSign, Letter, Valued
  <2>2. c'.pc # "aborted" /\ Tried(c', Tail(answers), commands, faults) /\ Erases(c', Tail(answers), commands)
    BY <1>2, <1>3, <2>1, EraseOver
  <2> QED BY <1>1, <1>4, <2>2 DEF EGoes
<1>7. CASE ~ IsSign(next, {Letter(c.pc)})
  <2>1. c' = c
    BY <1>3, <1>7 DEF waitForMessage, IsSign
  <2>2. c.pc = "eraseSector" => (HasK(answers, commands) => HasK(Tail(answers), commands))
    <3>1. c.pc = "eraseSector" => ~ IsSign(next, {"k"})
      BY <1>7 DEF Letter
    <3> QED BY <1>1, <1>2, <3>1, HasKTail
  <2>3. Tried(c, Tail(answers), commands, faults)
    BY <1>2, <2>2 DEF Tried
  <2>4. Erases(c, Tail(answers), commands)
    BY <1>1, <1>2, <1>3 DEF Erases
  <2> QED BY <1>1, <1>2, <1>4, <2>1, <2>3, <2>4 DEF EGoes
<1> QED BY <1>2, <1>5, <1>6, <1>7

LEMMA EWaitFails ==
  ASSUME IInv, TInv, ~ request.pad, request.command = "erase", waitFails
  PROVE  EGoes
<1> DEFINE m == faults'
<1>1. /\ c.pc \in Exchanges /\ c.stage = "wait" /\ NothingComes /\ c' = Ended(c, request, FALSE, None)
      /\ UNCHANGED <<commands, answers>>
  BY DEF waitFails
<1>2. /\ DOMAIN c = Fields /\ Plain(answers) /\ All(answers, commands, {">", "k"})
      /\ c.pc \in {"hello", "eraseSector"} /\ Tried(c, answers, commands, faults) /\ faults \in Nat
  BY <1>1, EraseFacts DEF Exchanges, Final
<1>3. answers = <<>> /\ m \in {faults, faults + 1} /\ (m = faults => commands = <<>>)
  BY <1>1, <1>2, Waited
<1>4. m \in Nat
  BY <1>2, <1>3
<1>5. (c'.pc = "aborted" => m > 2) /\ Tried(c', answers, commands, m) /\ Erases(c', answers, commands)
  <2> HIDE DEF m
  <2>1. CASE c.pc = "hello"
    <3>1. c'.pc # "aborted" /\ Tried(c', answers, commands, m) /\ Erases(c', answers, commands)
      BY <1>1, <1>2, <1>4, <2>1, EraseOver
    <3> QED BY <3>1
  <2>2. CASE c.pc = "eraseSector"
    <3>1. m = faults => ~ HasK(answers, commands)
      BY <1>3, QuietNoK DEF Quiet
    <3>2. (c'.pc = "aborted" => m > 2) /\ Tried(c', answers, commands, m)
      BY <1>1, <1>2, <1>3, <2>2, <3>1, TryPaid
    <3>3. Erases(c', answers, commands)
      <4>1. c'.pc \in {"hello", "eraseSector"} \cup Final /\ c'.stage = "send"
        BY <1>1, <1>2, EraseEndsIn
      <4> QED BY <1>2, <4>1 DEF Erases
    <3> QED BY <3>2, <3>3
  <2> QED BY <1>2, <2>1, <2>2
<1> QED BY <1>1, <1>5 DEF EGoes

\* A value comes, or does not: only hello waits for one.
LEMMA EValue ==
  ASSUME IInv, TInv, ~ request.pad, request.command = "erase",
         readExactly \/ readsNextAnswer \/ readsTooLittle \/ valueMissing
  PROVE  EGoes
<1> DEFINE m == faults'
<1>1. /\ c.pc \in Exchanges /\ c.stage = "value" /\ UNCHANGED commands
      /\ m = faults \/ NothingComes
  BY DEF readExactly, readsNextAnswer, readsTooLittle, valueMissing
<1>2. /\ DOMAIN c = Fields /\ Plain(answers) /\ IsSeq(answers) /\ All(answers, commands, {">", "k"})
      /\ c.pc = "hello" /\ faults \in Nat
  BY <1>1, EraseFacts DEF Exchanges, Final
<1>3. m \in Nat
  BY <1>1, <1>2, Waited
<1>4. \/ answers' = answers
      \/ answers # <<>> /\ answers' = Tail(answers)
      \/ answers # <<>> /\ Tail(answers) # <<>> /\ answers' = Tail(Tail(answers))
  <2>1. CASE readExactly
    BY <2>1 DEF readExactly
  <2>2. CASE readsNextAnswer
    BY <1>2, <2>2, TwoTails DEF readsNextAnswer
  <2>3. CASE readsTooLittle
    <3>1. answers # <<>> /\ Len(answers) = 1 /\ answers' = <<>>
      <4>1. Len(<<>>) = 0
        OBVIOUS
      <4> QED BY <2>3, <4>1 DEF readsTooLittle
    <3>2. PICK S : answers \in Seq(S)
      BY <1>2 DEF IsSeq
    <3>3. Tail(answers) \in Seq(S) /\ Len(Tail(answers)) = 0
      BY <3>1, <3>2
    <3> QED BY <3>1, <3>3, EmptySeq
  <2>4. CASE valueMissing
    BY <2>4 DEF valueMissing
  <2> QED BY <2>1, <2>2, <2>3, <2>4
<1>5. Plain(answers') /\ All(answers', commands, {">", "k"})
  <2>1. answers # <<>> => Plain(Tail(answers)) /\ All(Tail(answers), commands, {">", "k"}) /\ IsSeq(Tail(answers))
    BY <1>2, PlainTail, AllTail DEF Plain
  <2>2. answers # <<>> /\ Tail(answers) # <<>> =>
          Plain(Tail(Tail(answers))) /\ All(Tail(Tail(answers)), commands, {">", "k"})
    BY <2>1, PlainTail, AllTail
  <2> QED BY <1>2, <1>4, <2>1, <2>2
<1>6. \/ c' = Ended(c, request, FALSE, None)
      \/ c' = Ended(c, request, TRUE, Head(answers).of)
  BY <1>2, DecodesNoneFacts DEF readExactly, readsNextAnswer, readsTooLittle, valueMissing
<1>7. c'.pc # "aborted" /\ Tried(c', answers', commands, m) /\ Erases(c', answers', commands)
  <2> HIDE DEF m
  <2>1. CASE c' = Ended(c, request, FALSE, None)
    BY <1>2, <1>3, <1>5, <2>1, EraseOver
  <2>2. CASE c' = Ended(c, request, TRUE, Head(answers).of)
    BY <1>2, <1>3, <1>5, <2>2, EraseOver
  <2> QED BY <1>6, <2>1, <2>2
<1> QED BY <1>1, <1>7 DEF EGoes

LEMMA EExecute ==
  ASSUME IInv, TInv, request.command = "erase", Execute
  PROVE  EGoes
<1> DEFINE cmd == Head(commands)
           m == faults'
<1>1. commands # <<>> /\ commands' = Tail(commands) /\ UNCHANGED c
  BY DEF Execute
<1>2. /\ Plain(answers) /\ IsSeq(answers) /\ IsSeq(commands) /\ All(answers, commands, {">", "k"})
      /\ faults \in 0 .. MaxFaults /\ faults \in Nat /\ Tried(c, answers, commands, faults)
      /\ c.pc \in {"hello", "eraseSector"} \cup Final
      /\ c.pc = "eraseSector" => c.stage \in {"send", "wait"}
      /\ c.pc = "aborted" => faults > 2
  BY EraseFacts
<1>3. cmd.letter # "l"
  <2>1. cmd = commands[1] /\ 1 \in 1 .. Len(commands)
    BY <1>1, <1>2, TailFacts, SeqFacts
  <2> QED BY <1>2, <2>1 DEF All
<1>4. /\ Plain(answers') /\ Answered(answers, answers', cmd.letter)
      /\ \/ m = faults + 1
         \/ m = faults /\ Effect(cmd) /\ answers' = answers \o Answer(cmd, buffer')
  BY <1>2, <1>3, BoardDoes
<1>5. All(answers', Tail(commands), {">", "k"})
  BY <1>1, <1>2, <1>4, AllExecuted DEF Plain
<1>6. Erases(c, answers', Tail(commands))
  BY <1>2, <1>4, <1>5 DEF Erases
<1>7. Tried(c, answers', Tail(commands), m)
  <2>1. CASE m = faults + 1
    <3>1. ASSUME c.pc = "eraseSector"
          PROVE  c.erase_try \in 0 .. 2 /\ c.erase_try <= m /\ c.erase_try < m
      <4>1. c.erase_try \in 0 .. 2 /\ c.erase_try <= faults
        BY <1>2, <3>1 DEF Tried
      <4> QED BY <1>2, <2>1, <4>1
    <3> HIDE DEF m
    <3> QED BY <3>1 DEF Tried
  <2>2. CASE m = faults /\ answers' = answers \o Answer(cmd, buffer')
    <3>1. Answers(answers, answers', cmd.letter, buffer')
      BY <1>2, <1>3, <2>2, AnswerIs
    <3>2. HasK(answers, commands) => HasK(answers', Tail(commands))
      BY <1>1, <1>2, <3>1, HasKAnswered
    <3> HIDE DEF m
    <3> QED BY <1>2, <2>2, <3>2 DEF Tried
  <2> QED BY <1>4, <2>1, <2>2
<1>8. c.pc = "aborted" => m > 2
  <2>1. m \in {faults, faults + 1}
    BY <1>4
  <2>2. faults > 2 => m > 2
    BY <1>2, <2>1
  <2> QED BY <1>2, <2>2
<1> QED BY <1>1, <1>6, <1>7, <1>8 DEF EGoes

-----------------------------------------------------------------------------
(* No page, and no erase, fails for nothing.                               *)

LEMMA InitTInv ==
  ASSUME Init
  PROVE  TInv
<1>1. /\ commands = <<>> /\ answers = <<>> /\ faults = 0
      /\ c.pc = "hello" /\ c.sector_write_attempt = 0
  BY DEF Init
<1>2. IsSeq(<<>>) /\ Len(<<>>) = 0
  BY NothingIsSeq, EmptySeq
<1>3. Plain(answers) /\ All(answers, commands, {">", "k"})
  BY <1>1, <1>2 DEF Plain, All
<1>4. Tried(c, answers, commands, faults) /\ Erases(c, answers, commands)
  BY <1>1, <1>3 DEF Tried, Erases
<1>5. Paid(c, answers, commands, buffer, flash, faults)
  BY <1>1 DEF Paid, Book
<1> QED BY <1>1, <1>4, <1>5 DEF TInv, Goes

LEMMA NextTInv ==
  ASSUME IInv, TInv, ~ request.pad, [Honest]_vars
  PROVE  TInv'
<1>1. CASE UNCHANGED vars
  BY <1>1 DEF vars, TInv
<1>2. ASSUME Honest
      PROVE  TInv'
  <2>1. UNCHANGED request
    BY <1>2 DEF Honest, Client, sendCommand, waitForMessage, waitFails, readExactly, readsNextAnswer,
                readsTooLittle, valueMissing, Execute
  <2>2. ASSUME request.command = "write"
        PROVE  Goes(c', request, answers', commands', buffer', flash', faults')
    BY <1>2, <2>2, WSend, WWait, WWaitFails, WReads, WReadsNext, WTooLittle, WMissing, WExecute
       DEF Honest, Client, WGoes
  <2>3. ASSUME request.command = "erase"
        PROVE  Goes(c', request, answers', commands', buffer', flash', faults')
    <3>1. EGoes
      BY <1>2, <2>3, ESend, EWait, EWaitFails, EValue, EExecute DEF Honest, Client
    <3> QED BY <2>3, <3>1 DEF EGoes, Goes
  <2> QED BY <2>1, <2>2, <2>3 DEF TInv, Changes
<1> QED BY <1>1, <1>2

(* A write or an erase gives up after three faults at least, however they  *)
(* fall: no page is failed, and no try of an erase used up, but by a fault *)
(* of its own: unless the board takes an argument nobody sent.  A command   *)
(* that takes the next one with it is two faults.                          *)
THEOREM TwoFaultsSurvive ==
  ASSUME \A r \in Requests : ~ r.pad
  PROVE  Spec => []TwoFaultsSurvived
<1>1. Init => (~ misled => TInv)
  BY InitTInv
<1>2. (~ misled => IInv) /\ (~ misled => TInv) /\ [Next]_vars => (~ misled => TInv)'
  BY NextTInv, NextHonest DEF IInv
<1>3. (~ misled => TInv) => TwoFaultsSurvived
  BY DEF TInv, Goes, Changes, TwoFaultsSurvived
<1> QED BY <1>1, <1>2, <1>3, Invariance, PTL DEF Spec

=============================================================================
