------------------------------ MODULE MCCompiler ------------------------------
(***************************************************************************)
(* Programs for Compiler: those of Ccompiler/tests, and a family that puts *)
(* the operands of every operator in every kind of spot.                   *)
(***************************************************************************)
EXTENDS Compiler

\* Trees.
num(n) == [op |-> "num", n |-> n]
id(x) == [op |-> "id", name |-> x]
bin(l, op, r) == [op |-> op, l |-> l, r |-> r]
un(op, e) == [op |-> op, e |-> e]
cast(t, e) == [op |-> "cast", t |-> t, e |-> e]
call(f, as) == [op |-> "call", f |-> id(f), args |-> as]
str(cs) == [op |-> "str", chars |-> cs]
set(x, e) == bin(id(x), "=", e)
let(t, x, e) == [op |-> "decl", name |-> x, t |-> t, init |-> e, static |-> FALSE]
int(x, n) == let(integer, x, num(n))
ret(e) == [op |-> "return", e |-> e]
block(items) == [op |-> "block", items |-> items]
while(e, items) == [op |-> "while", e |-> e, body |-> block(items)]
for(first, e, third, items) ==
  [op |-> "for", first |-> first, e |-> e, third |-> third, body |-> block(items)]
if(e, items) == [op |-> "if", e |-> e, then |-> block(items), else |-> NoExpr]
function(t, f, ts, xs, body) ==
  [op |-> "function", name |-> f, t |-> Func(t, ts), params |-> xs, body |-> body]
main(body) == function(integer, "main", <<>>, <<>>, body)
nothing(f) == function(void, f, <<>>, <<>>, <<>>)
ints(n) == [i \in 1 .. n |-> integer]

P(tree, n) == [tree |-> Append(tree, nothing("int1")), means |-> {n},
               interrupts |-> 0, waits |-> FALSE]
x == id("x")
y == id("y")
a == id("a")
b == id("b")
c == id("c")

TestA == P(<<
  function(void, "g", <<>>, <<>>, << int("q", 5) >>),
  function(void, "f", <<>>, <<>>,
    << int("z", 5), int("x", 4), call("g", <<>>), let(integer, "y", bin(id("z"), "+", x)) >>),
  main(<< int("a", 3), int("b", 4), call("f", <<>>), let(integer, "c", bin(a, "+", b)), ret(c) >>) >>, 7)
TestB == P(<< main(<< int("a", 3), while(bin(a, ">", num(0)), << set("a", bin(a, "-", num(1))) >>), ret(a) >>) >>, 0)
TestC == P(<<
  function(integer, "n", <<>>, <<>>, << ret(num(9)) >>),
  main(<< int("a", 3), let(integer, "b", call("n", <<>>)), let(integer, "c", bin(a, "+", b)), ret(c) >>) >>, 12)
TestD == P(<<
  function(integer, "n", ints(1), <<"x">>, << ret(bin(x, "+", num(2))) >>),
  main(<< int("a", 3), let(integer, "b", call("n", <<a>>)), let(integer, "c", bin(a, "+", b)), ret(c) >>) >>, 8)
TestE == P(<<
  function(integer, "n", ints(2), <<"x", "y">>, << ret(bin(x, "+", y)) >>),
  main(<< int("a", 3), int("b", 4), let(integer, "c", call("n", <<a, b>>)),
          set("c", bin(c, "+", num(1))), ret(c) >>) >>, 8)
TestF == P(<< main(<< int("a", 5), for(int("i", 10), bin(id("i"), ">", num(0)), un("x--", id("i")),
                       << set("a", bin(a, "+", num(1))) >>), ret(a) >>) >>, 15)
TestG == P(<< main(<< int("a", 2), if(bin(a, "<", num(2)), << set("a", num(5)) >>), ret(a) >>) >>, 2)
TestI == P(<<
  function(integer, "sum", ints(2), <<"x", "y">>, << ret(bin(x, "+", y)) >>),
  function(integer, "g", <<>>, <<>>, << ret(call("sum", <<num(1), num(2)>>)) >>),
  main(<< int("a", 5),
          for(int("i", 0), bin(id("i"), "<", num(3)), un("x++", id("i")), << set("a", call("sum", <<a, id("i")>>)) >>),
          if(bin(a, "==", num(8)), << set("a", bin(a, "+", call("g", <<>>))) >>),
          int("b", 0),
          while(bin(a, ">=", num(9)), << set("a", bin(a, "-", num(1))), set("b", bin(b, "+", num(1))) >>),
          ret(bin(a, "+", b)) >>) >>, 11)
TestJ == P(<< main(<< int("a", 3), let(Ptr(integer), "p", NoExpr), set("p", un("addr", a)),
                      set("p", cast(Ptr(integer), num(99))), bin(un("deref", id("p")), "=", num(20)),
                      ret(cast(integer, id("p"))) >>) >>, 99)
TestK == P(<< main(<< let(Ptr(char), "ptr", str(<<103, 104, 105, 106, 107, 108, 0>>)),
                      set("ptr", bin(id("ptr"), "+", num(4))), bin(un("deref", id("ptr")), "=", num(97)),
                      ret(un("deref", id("ptr"))) >>) >>, 97)
at(buf, n) == bin(id(buf), "sub", num(n))
TestL == P(<< main(<< let(Arr(integer, 10), "buf", NoExpr), let(Arr(char, 10), "cbuf", NoExpr),
    bin(at("buf", 0), "=", num(50)), bin(at("buf", 1), "=", num(51)), bin(at("buf", 4), "=", num(54)),
    let(integer, "b", bin(at("buf", 0), "+", at("buf", 1))),
    bin(at("cbuf", 0), "=", num(30)), bin(at("cbuf", 1), "=", num(31)), bin(at("cbuf", 4), "=", num(34)),
    let(char, "c", bin(at("cbuf", 0), "+", at("cbuf", 1))), ret(cast(integer, c)) >>) >>, 61)
home_address == Struct(<<"local_street", "town", "my_city", "my_country">>,
                       <<integer, Ptr(char), Ptr(char), Ptr(char)>>)
member(e, name) == [op |-> "member", e |-> e, name |-> name]
TestM == P(<< main(<< let(home_address, "addr", NoExpr), bin(member(id("addr"), "local_street"), "=", num(7)),
    bin(member(id("addr"), "town"), "=", str(<<65, 103, 114, 97, 0>>)), ret(member(id("addr"), "local_street")) >>) >>, 7)
TestN == P(<< main(<< int("a", 60), int("b", 13),
    let(integer, "c", bin(a, "&&", b)), let(integer, "d", bin(a, "||", b)),
    let(integer, "e", bin(a, "&", b)), let(integer, "f", bin(a, "|", b)), let(integer, "g", bin(a, "^", b)),
    set("g", un("~", un("~", id("g")))), set("g", bin(id("g"), "<<", b)), set("g", bin(id("g"), ">>", b)),
    ret(bin(bin(bin(bin(c, "+", id("d")), "+", id("e")), "+", id("f")), "+", id("g"))) >>) >>, 124)
TestO == P(<< function(integer, "f", ints(2), <<"a", "b">>, << ret(bin(bin(num(3), "+", a), "*", b)) >>),
              main(<< int("a", 7), int("b", 3), ret(call("f", <<a, b>>)) >>) >>, 30)
TestR == P(<< main(<< int("a", 7),
    [op |-> "asm", code |-> Load(LiteralSpot(4), R(2)) \o Instr3("ADD", R(1), R(2), R(3))
                            \o Instr3("SUB", R(3), LiteralSpot(1), R(1))], ret(a) >>) >>, 10)
Reading == << set("chr", un("deref", id("str"))) >>
TestS == P(<<
  function(integer, "g", <<char>>, <<"c">>, << int("i", 3), bin(id("i"), "+=", cast(integer, c)), ret(num(1)) >>),
  function(integer, "f", <<Ptr(char)>>, <<"str">>, << int("i", 0), let(char, "chr", un("deref", id("str"))),
    while(bin(id("chr"), "!=", num(0)),
      << bin(id("i"), "+=", call("g", <<id("chr")>>)), un("x++", id("str")) >> \o Reading),
    ret(id("i")) >>),
  main(<< let(integer, "i", call("f", <<str(<<83, 116, 114, 0>>)>>)), ret(id("i")) >>) >>, 3)
TestT == P(<< int("glob", 15), let(Arr(integer, 3), "buff", num(0)),
  function(integer, "f", <<>>, <<>>, << ret(id("glob")) >>),
  main(<< bin(id("glob"), "+=", num(3)), ret(call("f", <<>>)) >>) >>, 18)
TestU == P(<< let(Arr(integer, 10), "buff", num(0)),
  main(<< int("i", 9), let(Ptr(integer), "p", id("buff")),
    bin(un("deref", bin(id("p"), "+", id("i"))), "=", num(7)), ret(at("buff", 9)) >>) >>, 7)
TestV == P(<<
  function(integer, "g", <<Ptr(char), integer>>, <<"buf", "s">>, << let(integer, "i", id("s")), ret(id("i")) >>),
  function(void, "f", ints(1), <<"s">>, << int("i", 0) >>),
  main(<< int("s", 3), let(Arr(char, 4), "buf", NoExpr), call("f", <<id("s")>>),
    call("g", <<un("addr", at("buf", 0)), id("s")>>), bin(bin(id("buf"), "sub", id("s")), "=", num(19)),
    ret(num(42)) >>) >>, 42)
\* Loops that are left, and go on, from inside.
continue == [op |-> "continue"]
break == [op |-> "break"]
Loops == P(<< main(<< int("a", 0),
    for(int("i", 0), bin(id("i"), "<", num(6)), un("x++", id("i")),
      << if(bin(id("i"), "==", num(1)), <<continue>>), if(bin(id("i"), "==", num(3)), <<break>>),
         set("a", bin(a, "+", num(10))) >>),
    while(num(1), << bin(a, "+=", num(1)), if(bin(a, "<", num(22)), <<continue>>), break >>),
    ret(a) >>) >>, 22)
\* A variable that lives only around a loop.
Carried == P(<< main(<< int("i", 0), int("a", 0),
    while(bin(id("i"), "<", num(3)),
      << set("i", bin(id("i"), "+", num(1))), let(integer, "b", bin(a, "+", num(2))), set("a", bin(b, "+", a)) >>),
    ret(a) >>) >>, 14)
\* Numbers below zero, as long as they are only in the compiler; null pointers
\* and pointers to void compared with others.
Negative == P(<< main(<<
    let(integer, "q", bin(bin(un("-x", num(7)), "/", num(2)), "+", num(10))),
    let(integer, "r", bin(bin(num(3), "-", num(5)), "*", un("~", num(4)))),
    ret(bin(id("q"), "+", id("r"))) >>) >>, 17)
Nulls == P(<< main(<< int("a", 1), let(Ptr(integer), "p", num(0)), let(Ptr(void), "v", NoExpr),
    set("v", id("p")),
    if(bin(id("p"), "==", num(0)), << bin(a, "+=", num(2)) >>),
    if(bin(num(0), "!=", id("p")), << bin(a, "+=", num(4)) >>),
    set("p", un("addr", a)),
    if(bin(id("v"), "!=", id("p")), << bin(a, "+=", num(8)) >>),
    if(bin(id("p"), "==", id("v")), << bin(a, "+=", num(16)) >>), ret(a) >>) >>, 11)
Tests == << TestA, TestB, TestC, TestD, TestE, TestF, TestG, TestI, TestJ, TestK, TestL,
            TestM, TestN, TestO, TestR, TestS, TestT, TestU, TestV >>

\* Test p, with its limit of 120 frames and its four interrupts made smaller.
TestP == [tree |-> <<
  main(<< let(Ptr(integer), "p", cast(Ptr(integer), num(65000))), bin(un("deref", id("p")), "=", num(0)),
          while(bin(un("deref", id("p")), "<", num(1)), <<>>), ret(un("deref", id("p"))) >>),
  function(void, "int1", <<>>, <<>>, << let(Ptr(integer), "p", cast(Ptr(integer), num(65000))),
    bin(un("deref", id("p")), "+=", num(1)) >>) >>, means |-> {1, 2}, interrupts |-> 2, waits |-> TRUE]

\* The same with an interrupt at any point.
Interrupted(p) == [p EXCEPT !.interrupts = 1]

\* More variables live at once than there are registers, with a sum of them
\* that is wrong if any two share a place.
Names == <<"a", "b", "c", "d", "e", "f", "g", "h", "i", "j", "k">>
RECURSIVE SumOf(_)
SumOf(n) == IF n = 1 THEN id("a") ELSE bin(SumOf(n - 1), "+", bin(id(Names[n]), "*", num(n)))
Crowded(n) == P(<< main([i \in 1 .. n |-> int(Names[i], 2 * i)] \o << ret(SumOf(n)) >>) >>,
                FoldFunction(+, 0, [i \in 1 .. n |-> 2 * i * i]))

\* The two operands of an operator, 14 and 3, in a place each: a literal, a
\* register, memory (a variable that lives through a call), a static variable.
Places == <<"literal", "register", "memory", "static">>
In(place, n) ==
  CASE place = "literal" -> num(n)
    [] place = "register" -> id(IF n = 14 THEN "r14" ELSE "r3")
    [] place = "memory" -> id(IF n = 14 THEN "m14" ELSE "m3")
    [] place = "static" -> id(IF n = 14 THEN "s14" ELSE "s3")
Operate(m, op, left, n, right, result) ==
  P(<< int("s14", 14), int("s3", 3), nothing("g"),
       function(integer, "f", ints(2), <<"m14", "m3">>,
         << call("g", <<>>), int("r14", 14), int("r3", 3), ret(bin(In(left, m), op, In(right, n))) >>),
       main(<< ret(call("f", <<num(14), num(3)>>)) >>) >>, result)
Results == << <<14, "+", 3, 17>>, <<14, "-", 3, 11>>, <<14, "*", 3, 42>>, <<14, "<<", 3, 112>>,
  <<14, ">>", 3, 1>>, <<14, "&", 3, 2>>, <<14, "|", 3, 15>>, <<14, "^", 3, 13>>,
  <<14, "==", 3, 0>>, <<14, "!=", 3, 1>>, <<14, "<", 3, 0>>, <<14, "<=", 3, 0>>, <<14, ">", 3, 1>>,
  <<14, ">=", 3, 1>>, <<3, "<", 14, 1>>, <<3, "<=", 14, 1>>, <<3, ">", 14, 0>>, <<3, ">=", 14, 0>> >>

\* What the compiler does not do: a shift by, or a bitwise operation with, a
\* value in memory is an instruction the assembler rejects, and an ordered
\* comparison with a literal on the left is compiled for the right.
Left(op) == IF op \in {"<", "<=", ">", ">="} THEN Tail(Places) ELSE Places
Right(op) == IF op \in {"<<", ">>", "&", "|", "^"} THEN SubSeq(Places, 1, 2) ELSE Places
All(n, Each(_)) == FlattenSeq([i \in 1 .. n |-> Each(i)])
Operations ==
  All(Len(Results), LAMBDA i : LET r == Results[i] IN
    All(Len(Left(r[2])), LAMBDA m :
      [n \in 1 .. Len(Right(r[2])) |->
         Operate(r[1], r[2], Left(r[2])[m], r[3], Right(r[2])[n], r[4])]))
MCValue == FirstValue .. 55
MCPrograms == Tests \o << TestP, Loops, Carried, Negative, Nulls, Crowded(11), Interrupted(TestD), Interrupted(TestT) >> \o Operations
=============================================================================
