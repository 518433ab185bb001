----------------------------- MODULE MCAssembler -----------------------------
(* Programs for the assembler: every mnemonic with operands at the edges   *)
(* of their fields, every short body from a pool of lines that define and  *)
(* use labels and definitions, and libraries that include each other.      *)
EXTENDS Assembler

I(m, operands) == <<Name(m)>> \o operands
Use(x) == <<Name("include"), Name(x)>>
Def(x, t) == <<Name("define"), Name(x), Name("="), t>>
At(x) == <<Label(x)>>
R1 == Name("r1")
R15 == Name("rsp")

\* The four handlers; Main stands where the program puts it.
Handlers == <<At("Int1"), At("Int2"), At("Int3"), At("Int4"), I("reti", <<>>)>>

\* One instruction after the entry points.
Alone(line) == (MainFile :> (Handlers \o <<At("Main"), line>>))
Numbers(S) == {Num(v) : v \in S}
Triples == {<<a, b, c>> : a \in Numbers({-65536, -65535, -1, 0, 5, 65535, 65536}) \cup {R1},
                          b \in {R1, R15}, c \in {Name("r10"), Num(3)}}
EdgeLines ==
  {I(m, o) : m \in {"read", "write", "copy"}, o \in Triples}
    \cup {I(m, <<R1, b, R15>>) : m \in {"or", "and", "xor", "add", "sub", "shiftl", "shiftr", "mult"},
                                 b \in {Name("r7"), Name("X")} \cup Numbers({-1, 0, 2047, 2048})}
    \cup {I(m, <<R1, R15, b>>) : m \in {"beq", "bne", "bgt", "bge"},
                                 b \in {R1, Name("Main")} \cup Numbers({-1, 6, 65535, 65536})}
    \cup {I(m, <<a>>) : m \in {"push", "pop", "savpc", "readintid", "nop", "halt", "reti"},
                        a \in {R1, R15, Num(1)}}
    \cup {I(m, <<>>) : m \in {"nop", "halt", "reti", "push", "jump", ".dw", "frob"}}
    \cup {I(m, <<a>>) : m \in {"jump", "jumpo"},
                        a \in Numbers({-1, 0, 134217727, 134217728}) \cup {Name("Main"), Name("X")}}
    \cup {I(m, <<a, b>>) : m \in {"load", "loadhi", "load32", "jumpr", "jumpro"},
                           a \in Numbers({-1, 0, 65535, 65536, 2000000001}), b \in {R15, Num(2)}}
    \cup {I("not", <<R1, R15>>), I("not", <<Num(3), R1>>)}
    \cup {I(m, [j \in 1 .. n |-> Num(v)]) : m \in {".dw", ".dd", ".db"}, n \in 1 .. 5,
                                            v \in {-1, 9, 255, 256, 65535, 65536}}
    \cup {I(".ds", <<Text([j \in 1 .. n |-> 64 + j])>>) : n \in 0 .. 5}

\* Every body of at most three lines from this pool, with Main before it,
\* in it, or missing.
Pool ==
  {At("Main"), At("Loop"), At("r1"), I("jump", <<Name("Loop")>>), I("addr2reg", <<Name("Loop"), R1>>),
   I("load32", <<Num(65536), Name("C")>>), I(".db", <<Num(1), Num(2), Num(3), Num(4), Num(5)>>),
   Def("C", R1), Def("Loop", Name("Main")), I("jump", <<Name("jump")>>), I("add", <<R1, Name("C"), R1>>)}
Bodies == UNION {[1 .. n -> Pool] : n \in 1 .. 3}
Program(body) == (MainFile :> (<<At("Main")>> \o body \o <<I("nop", <<>>)>> \o Handlers))
Bare(body) == (MainFile :> (Handlers \o body))

\* Two libraries, the second of which may be missing, and what each of the
\* files includes.
Includes == {<<>>, <<Use("a.asm")>>, <<Use("b.asm")>>,
             <<Use("a.asm"), Use("b.asm")>>, <<Use("b.asm"), Use("a.asm")>>}
Lib(x, uses) == uses \o <<At(x), I("jump", <<Name("Main")>>)>>
ThreeFiles ==
  {("a.asm" :> Lib("A", ua)) @@ ("b.asm" :> Lib("B", ub))
     @@ (MainFile :> (um \o <<At("Main"), I("jump", <<Name("B")>>)>> \o Handlers)) :
     um, ua, ub \in Includes}
TwoFiles ==
  {("a.asm" :> Lib("A", ua)) @@ (MainFile :> (um \o <<At("Main"), I("nop", <<>>)>> \o Handlers)) :
     um, ua \in Includes}

AllProjects ==
  {Alone(line) : line \in EdgeLines} \cup {Program(b) : b \in Bodies} \cup {Bare(b) : b \in Bodies}
    \cup ThreeFiles \cup TwoFiles
=============================================================================
