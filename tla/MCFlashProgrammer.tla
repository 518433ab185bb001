-------------------------- MODULE MCFlashProgrammer --------------------------
(* Two sectors of two pages.  Files with equal and with different pages,   *)
(* over a flash that holds something else, or the file already.            *)
EXTENDS FlashProgrammer

CONSTANTS Padded   \* requests with --pad, too?

A == <<"a">>
B == <<"b">>
X == <<"x">>
Y == <<"y">>
Flash(a, b) == [p \in Pages |-> IF p < 2 THEN a ELSE b]
R(command, offset, file, length, before) ==
  [command |-> command, offset |-> offset, file |-> file, length |-> length,
   pad |-> FALSE, before |-> before]

Old == Flash(X, Y)
AllRequests ==
  {R("write", 0, <<A, B, A, A>>, 0, Old),
   R("write", 2, <<A, B>>, 0, Flash(A, A)),
   R("write", 0, <<A>>, 0, Old), R("write", 1, <<A, B>>, 0, Old), R("write", 0, <<>>, 0, Old),
   R("erase", 0, <<>>, 4, Old), R("erase", 2, <<>>, 2, Old), R("erase", 1, <<>>, 2, Old),
   R("read", 1, <<>>, 3, Old), R("verify", 0, <<X, X, Y>>, 3, [Old EXCEPT ![1] = Y]),
   R("register", 0, <<>>, 0, Old), R("protection", 0, <<>>, 0, Old), R("set", 0, <<>>, 0, Old)}
    \cup IF Padded THEN {[R("write", 2, <<A>>, 0, Old) EXCEPT !.pad = TRUE]} ELSE {}
=============================================================================
