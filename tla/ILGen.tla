-------------------------------- MODULE ILGen --------------------------------
(***************************************************************************)
(* The middle of the C compiler: from the tree of a program to commands of *)
(* the intermediate language (make_il of the nodes in shivyc/tree, with    *)
(* il_gen.py).  Programs are well formed: the checks that reject others,   *)
(* const, unsigned, _Bool, unions, typedefs, extern, sizeof and prototypes *)
(* without parameters are left out.                                        *)
(*                                                                         *)
(* Every operator takes and returns the state s of the translation; where  *)
(* it also returns a value of the IL it returns [s |-> .., v |-> ..].  The *)
(* values are numbered in order of creation.                               *)
(***************************************************************************)
EXTENDS Integers, SequencesExt

WordSize == 2 ^ 24   \* 2^32 on the machine; enough for its addresses

-----------------------------------------------------------------------------
(* Types.  A word is the smallest thing there is, so every scalar has size *)
(* 1; char and long are nevertheless different types from int.             *)

integer == [k |-> "int"]
char == [k |-> "char"]
longint == [k |-> "long"]
void == [k |-> "void"]
Ptr(t) == [k |-> "ptr", to |-> t]
Arr(t, n) == [k |-> "arr", of |-> t, n |-> n]
Func(ret, args) == [k |-> "func", ret |-> ret, args |-> args]
Struct(names, types) == [k |-> "struct", names |-> names, types |-> types]

IsArith(t) == t.k \in {"int", "char", "long"}

RECURSIVE Size(_), SizeOfFirst(_, _)
SizeOfFirst(types, n) == IF n = 0 THEN 0 ELSE SizeOfFirst(types, n - 1) + Size(types[n])
Size(t) ==
  CASE t.k = "arr" -> t.n * Size(t.of)
    [] t.k = "struct" -> SizeOfFirst(t.types, Len(t.types))
    [] OTHER -> 1

Member(t, name) == CHOOSE i \in DOMAIN t.names : t.names[i] = name
MemberType(t, name) == t.types[Member(t, name)]
get_offset(t, name) == SizeOfFirst(t.types, Member(t, name) - 1)

-----------------------------------------------------------------------------
(* The state: ILCode and SymbolTable. *)

FirstValue == 16   \* the numbers below are the registers
None == 0

Start ==
  [cmds     |-> <<>>,       \* of the function being translated
   commands |-> <<>>,       \* the finished functions
   ctype    |-> <<>>,       \* the types of the values
   literals |-> <<>>, strings |-> <<>>,
   static   |-> <<>>,       \* values with static storage: name and initial value
   named    |-> <<>>,       \* values without storage, the functions
   scopes   |-> << <<>> >>, \* the symbol table, innermost scope last
   labels   |-> 0,
   return   |-> void,
   raised   |-> FALSE]

\* F of x, whose value is found first.
Then(x, F(_)) == CHOOSE r \in {F(v) : v \in {x}} : TRUE

CType(s, v) == s.ctype[v - FirstValue + 1]
IsLiteral(s, v) == v \in DOMAIN s.literals

ILValue(s, t) ==
  [s |-> [s EXCEPT !.ctype = Append(@, t)], v |-> FirstValue + Len(s.ctype)]

register_literal_var(s, t, n) ==
  LET new == ILValue(s, t)
  IN [new EXCEPT !.s.literals = (new.v :> n) @@ @]

Cmd(op, out, in) == [op |-> op, out |-> out, in |-> in]
LabelCmd(op, in, l) == [op |-> op, out |-> <<>>, in |-> in, label |-> l]
RelCmd(op, out, in, l, n) ==
  [op |-> op, out |-> out, in |-> in,
   base |-> l.base, chunk |-> l.chunk, count |-> l.count, val |-> n]

add(s, c) == [s EXCEPT !.cmds = Append(@, c)]

\* A new value, computed by a command.
Computed(s, t, op, in) ==
  LET new == ILValue(s, t) IN [new EXCEPT !.s = add(@, Cmd(op, <<new.v>>, in))]

get_label(s) == [s |-> [s EXCEPT !.labels = @ + 1], v |-> <<"__shivyc_label", s.labels + 1>>]

new_scope(s) == [s EXCEPT !.scopes = Append(@, <<>>)]
end_scope(s) == [s EXCEPT !.scopes = Front(@)]

lookup_variable(s, name) ==
  LET i == CHOOSE i \in DOMAIN s.scopes :
             /\ name \in DOMAIN s.scopes[i]
             /\ \A j \in DOMAIN s.scopes : name \in DOMAIN s.scopes[j] => j <= i
  IN s.scopes[i][name]

\* A second declaration in the same scope is of the same variable.
add_variable(s, name, t) ==
  IF name \in DOMAIN Last(s.scopes) THEN [s |-> s, v |-> Last(s.scopes)[name]]
  ELSE LET new == ILValue(s, t)
       IN [new EXCEPT !.s.scopes = Append(Front(@), (name :> new.v) @@ Last(@))]

-----------------------------------------------------------------------------
(* Conversions and lvalues: tree/utils.py. *)

\* A number as a signed word: a negative one stays negative.
shift_into_range(n) ==
  LET half == WordSize \div 2 IN ((n + half) % WordSize) - half

set_type(s, v, t) ==
  IF CType(s, v) = t THEN [s |-> s, v |-> v]
  ELSE IF IsLiteral(s, v)
  THEN register_literal_var(s, t, IF IsArith(t) THEN shift_into_range(s.literals[v])
                                  ELSE s.literals[v])
  ELSE Computed(s, t, "Set", <<v>>)

\* set_type with an output.
set_to_value(s, v, out) ==
  IF out = v THEN [s |-> s, v |-> v]
  ELSE [s |-> add(s, Cmd("Set", <<out>>, <<v>>)), v |-> out]

\* Every arithmetic type is smaller than four, so both are promoted to int.
arith_convert(s, left, right) ==
  LET l == set_type(s, left, integer)
      r == set_type(l.s, right, integer)
  IN [s |-> r.s, l |-> l.v, r |-> r.v]

\* The size of a number of objects of a type.
get_size(s, t, num) ==
  LET n == set_type(s, num, longint)
      total == ILValue(n.s, longint)
      size == register_literal_var(total.s, longint, Size(t))
  IN [s |-> add(size.s, Cmd("Mult", <<total.v>>, <<n.v, size.v>>)), v |-> total.v]

Direct(v) == [lv |-> "direct", v |-> v]
Indirect(v) == [lv |-> "indirect", v |-> v]

\* A relative lvalue and what _fix_chunk_count makes of it at its first use,
\* which always comes next.
Relative(s, t, base, chunk, count) ==
  LET Rel(c, n) == [lv |-> "relative", t |-> t, base |-> base, chunk |-> c, count |-> n]
      new == CHOOSE c \in {4, 2, 1} :
               chunk % c = 0 /\ \A d \in {4, 2, 1} : chunk % d = 0 => d <= c
      n == set_type(s, count, longint)
      scale == register_literal_var(n.s, longint, chunk \div new)
      fixed == Computed(scale.s, longint, "Mult", <<n.v, scale.v>>)
  IN CASE count = None -> [s |-> s, l |-> Rel(chunk, None)]
       [] count # None /\ chunk \in {4, 2, 1} -> [s |-> n.s, l |-> Rel(chunk, n.v)]
       [] OTHER -> [s |-> fixed.s, l |-> Rel(new, fixed.v)]

LType(s, l) ==
  CASE l.lv = "direct" -> CType(s, l.v)
    [] l.lv = "indirect" -> CType(s, l.v).to
    [] l.lv = "relative" -> l.t

Count(l) == IF l.count = None THEN <<>> ELSE <<l.count>>
\* A value at, or the address of, a place relative to a base.
FromBase(s, l, t, op) ==
  LET new == ILValue(s, t)
  IN [new EXCEPT !.s = add(@, RelCmd(op, <<new.v>>, <<l.base>> \o Count(l), l, new.v))]

addr(s, l) ==
  CASE l.lv = "direct" -> Computed(s, Ptr(LType(s, l)), "AddrOf", <<l.v>>)
    [] l.lv = "indirect" -> [s |-> s, v |-> l.v]
    [] l.lv = "relative" -> FromBase(s, l, Ptr(l.t), "AddrRel")

val(s, l) ==
  CASE l.lv = "direct" -> [s |-> s, v |-> l.v]
    [] l.lv = "indirect" -> Computed(s, LType(s, l), "ReadAt", <<l.v>>)
    [] l.lv = "relative" -> FromBase(s, l, l.t, "ReadRel")

set_to(s, l, v) ==
  Then(set_type(s, v, LType(s, l)), LAMBDA cast :
    CASE l.lv = "direct" -> set_to_value(s, v, l.v)
      [] l.lv = "indirect" ->
           [cast EXCEPT !.s = add(@, Cmd("SetAt", <<>>, <<l.v, cast.v>>))]
      [] l.lv = "relative" ->
           LET in == IF l.count # None THEN <<cast.v, l.base, l.count>> ELSE <<l.base, cast.v>>
           IN [cast EXCEPT !.s = add(@, RelCmd("SetRel", <<>>, in, l, cast.v))])

\* The value of an lvalue in an expression: arrays and functions decay.
decayed(s, l) ==
  Then(LType(s, l), LAMBDA t :
    CASE t.k = "arr" -> Then(addr(s, l), LAMBDA a : set_type(a.s, a.v, Ptr(t.of)))
      [] t.k = "func" -> addr(s, l)
      [] OTHER -> val(s, l))

-----------------------------------------------------------------------------
(* Expressions: tree/expr_nodes.py. *)

Arithmetic == ("+" :> "Add") @@ ("-" :> "Subtr") @@ ("*" :> "Mult") @@
              ("/" :> "Div") @@ ("%" :> "Mod") @@
              ("<<" :> "LBitShift") @@ (">>" :> "RBitShift") @@
              ("&" :> "And") @@ ("|" :> "Or") @@ ("^" :> "Xor")
Comparison == ("==" :> "EqualCmp") @@ ("!=" :> "NotEqualCmp") @@
              ("<" :> "LessCmp") @@ (">" :> "GreaterCmp") @@
              ("<=" :> "LessOrEqCmp") @@ (">=" :> "GreaterOrEqCmp")
Binary == Arithmetic @@ Comparison
Compound == ("+=" :> "Add") @@ ("-=" :> "Subtr") @@ ("*=" :> "Mult") @@
            ("/=" :> "Div") @@ ("%=" :> "Mod")
StepCmd == ("++x" :> "Add") @@ ("x++" :> "Add") @@ ("--x" :> "Subtr") @@ ("x--" :> "Subtr")

Foldable == {"+", "-", "*", "/"}
\* The quotient of m and n, cut off towards zero.
Quotient(m, n) ==
  LET abs(k) == IF k < 0 THEN -k ELSE k
      q == abs(m) \div abs(n)
  IN IF (m < 0) = (n < 0) THEN q ELSE -q
_arith_const(op, m, n) ==
  shift_into_range(CASE op = "+" -> m + n
                     [] op = "-" -> m - n
                     [] op = "*" -> m * n
                     [] op = "/" -> Quotient(m, n))

\* == and != of pointers: a null pointer constant gets the type of the other,
\* and so does a pointer that is compared with a pointer to void.
_Equality(s, op, left, right) ==
  LET lt == CType(s, left)
      rt == CType(s, right)
      Null(v) == IsLiteral(s, v) /\ s.literals[v] = 0
      nullRight == lt.k = "ptr" /\ Null(right)
      nullLeft == rt.k = "ptr" /\ Null(left) /\ ~ nullRight
      castRight == nullRight \/ (~ nullLeft /\ lt.to = void)
      castLeft == nullLeft \/ (~ castRight /\ rt.to = void)
      l == IF castLeft THEN set_type(s, left, rt) ELSE [s |-> s, v |-> left]
      r == IF castRight THEN set_type(l.s, right, lt) ELSE [s |-> l.s, v |-> right]
  IN Computed(r.s, integer, Comparison[op], <<l.v, r.v>>)

\* Arithmetic on numbers, and on a pointer and a number of objects.
Operation(s, op, left, right) ==
  LET lt == CType(s, left)
      rt == CType(s, right)
      c == arith_convert(s, left, right)
      result == IF op \in DOMAIN Comparison THEN integer ELSE CType(c.s, c.l)
      pointer == IF lt.k = "ptr" THEN left ELSE right
      number == IF lt.k = "ptr" THEN right ELSE left
      shift(from) == get_size(from, CType(s, pointer).to, number)
      raw == Computed(s, longint, "Subtr", <<left, right>>)
      out == ILValue(raw.s, longint)
      size == register_literal_var(out.s, longint, Size(lt.to))
  IN CASE IsArith(lt) /\ IsArith(rt) /\ op \in Foldable
            /\ IsLiteral(c.s, c.l) /\ IsLiteral(c.s, c.r) ->
            register_literal_var(c.s, integer,
              _arith_const(op, shift_into_range(c.s.literals[c.l]), shift_into_range(c.s.literals[c.r])))
       [] IsArith(lt) /\ IsArith(rt)
            /\ ~ (op \in Foldable /\ IsLiteral(c.s, c.l) /\ IsLiteral(c.s, c.r)) ->
            Computed(c.s, result, Binary[op], <<c.l, c.r>>)
       [] ~ (IsArith(lt) /\ IsArith(rt)) /\ op \in {"==", "!="} -> _Equality(s, op, left, right)
       [] ~ (IsArith(lt) /\ IsArith(rt)) /\ op \in DOMAIN Comparison \ {"==", "!="} ->
            Computed(s, integer, Binary[op], <<left, right>>)
       [] lt.k = "ptr" /\ rt.k = "ptr" /\ op = "-" ->
            [s |-> add(size.s, Cmd("Div", <<out.v>>, <<raw.v, size.v>>)), v |-> out.v]
       [] OTHER ->
            LET p == ILValue(s, CType(s, pointer))
                n == shift(p.s)
            IN [s |-> add(n.s, Cmd(Binary[op], <<p.v>>, <<pointer, n.v>>)), v |-> p.v]

HasLValue(e) == e.op \in {"id", "str", "asm", "deref", "sub", "member", "arrow"}

RECURSIVE make_il(_, _), lvalue(_, _), Arguments(_, _, _, _)

\* The value of an expression whose lvalue has been generated (and cached).
make_il_of(s, e, l) == IF HasLValue(e) THEN decayed(s, l) ELSE make_il(s, e)
lvalue_if_any(s, e) == IF HasLValue(e) THEN lvalue(s, e) ELSE [s |-> s, l |-> Direct(None)]

IsArray(s, l) == l.lv = "direct" /\ l.v # None /\ LType(s, l).k = "arr"

pointer_subsc(s, point, arith) ==
  LET shift == get_size(s, CType(s, point).to, arith)
      out == Computed(shift.s, CType(s, point), "Add", <<point, shift.v>>)
  IN [s |-> out.s, l |-> Indirect(out.v)]

ArraySubsc(s, e) ==
  Then(lvalue_if_any(s, e.l), LAMBDA head :
    Then(lvalue_if_any(head.s, e.r), LAMBDA arg :
      IF IsArray(arg.s, head.l)
      THEN Then(make_il_of(arg.s, e.r, arg.l), LAMBDA index :
             LET el == LType(arg.s, head.l).of
             IN Relative(index.s, el, head.l.v, Size(el), index.v))
      ELSE Then(make_il_of(arg.s, e.l, head.l), LAMBDA array :
             Then(make_il_of(array.s, e.r, arg.l), LAMBDA index :
               pointer_subsc(index.s, array.v, index.v)))))

\* A member of the struct at an address.
MemberAt(s, struct_addr, name) ==
  LET t == CType(s, struct_addr).to
      shift == register_literal_var(s, longint, get_offset(t, name))
      out == Computed(shift.s, Ptr(MemberType(t, name)), "Add", <<struct_addr, shift.v>>)
  IN [s |-> out.s, l |-> Indirect(out.v)]

ObjMember(s, e) ==
  Then(lvalue(s, e.e), LAMBDA head :
    IF head.l.lv = "direct"
    THEN LET t == LType(head.s, head.l)
         IN Relative(head.s, MemberType(t, e.name), head.l.v, get_offset(t, e.name), None)
    ELSE Then(addr(head.s, head.l), LAMBDA a : MemberAt(a.s, a.v, e.name)))

\* The lvalue of an expression that has one.
lvalue(s, e) ==
  CASE e.op = "id" -> [s |-> s, l |-> Direct(lookup_variable(s, e.name))]
    [] e.op = "str" ->
         LET new == ILValue(s, Arr(char, Len(e.chars)))
         IN [s |-> [new.s EXCEPT !.strings = (new.v :> e.chars) @@ @], l |-> Direct(new.v)]
    [] e.op = "asm" ->
         LET new == ILValue(s, integer)
         IN [s |-> add(new.s, [op |-> "ASMcode", out |-> <<>>, in |-> <<>>, code |-> e.code]),
             l |-> Direct(new.v)]
    [] e.op = "deref" -> Then(make_il(s, e.e), LAMBDA a : [s |-> a.s, l |-> Indirect(a.v)])
    [] e.op = "sub" -> ArraySubsc(s, e)
    [] e.op = "member" -> ObjMember(s, e)
    [] e.op = "arrow" -> Then(make_il(s, e.e), LAMBDA a : MemberAt(a.s, a.v, e.name))

\* && and ||: the result is set before the second operand is looked at.
_BoolAndOr(s, e) ==
  LET initial == IF e.op = "&&" THEN 1 ELSE 0
      jump == IF e.op = "&&" THEN "JumpZero" ELSE "JumpNotZero"
      out == ILValue(s, integer)
      init == register_literal_var(out.s, integer, initial)
      other == register_literal_var(init.s, integer, 1 - initial)
      set_out == get_label(other.s)
      end == get_label(set_out.s)
  IN Then(make_il(end.s, e.l), LAMBDA left :
       LET first == add(add(left.s, Cmd("Set", <<out.v>>, <<init.v>>)),
                        LabelCmd(jump, <<left.v>>, set_out.v))
       IN Then(make_il(first, e.r), LAMBDA right :
            [s |-> [right.s EXCEPT !.cmds = @ \o
                      << LabelCmd(jump, <<right.v>>, set_out.v), LabelCmd("Jump", <<>>, end.v),
                         LabelCmd("Label", <<>>, set_out.v), Cmd("Set", <<out.v>>, <<other.v>>),
                         LabelCmd("Label", <<>>, end.v) >>],
             v |-> out.v]))

BoolNot(s, e) ==
  Then(make_il(s, e.e), LAMBDA x :
    LET out == ILValue(x.s, integer)
        zero == register_literal_var(out.s, integer, 0)
        one == register_literal_var(zero.s, integer, 1)
        end == get_label(one.s)
    IN [s |-> [end.s EXCEPT !.cmds = @ \o
                 << Cmd("Set", <<out.v>>, <<one.v>>), LabelCmd("JumpZero", <<x.v>>, end.v),
                    Cmd("Set", <<out.v>>, <<zero.v>>), LabelCmd("Label", <<>>, end.v) >>],
        v |-> out.v])

Equals(s, e) ==
  Then(make_il(s, e.r), LAMBDA right :
    Then(lvalue(right.s, e.l), LAMBDA left : set_to(left.s, left.l, right.v)))

\* The lvalue of e and its value.
Located(s, e) ==
  Then(lvalue(s, e), LAMBDA l :
    Then(decayed(l.s, l.l), LAMBDA old : [s |-> old.s, l |-> l.l, v |-> old.v]))

_CompoundPlusMinus(s, e) ==
  Then(make_il(s, e.r), LAMBDA right :
    Then(Located(right.s, e.l), LAMBDA left :
      LET t == CType(left.s, left.v)
          out == ILValue(left.s, t)
          c == arith_convert(out.s, left.v, right.v)
          shift == get_size(out.s, t.to, right.v)
          done == IF t.k = "ptr"
                  THEN add(shift.s, Cmd(Compound[e.op], <<out.v>>, <<left.v, shift.v>>))
                  ELSE add(c.s, Cmd(Compound[e.op], <<out.v>>, <<c.l, c.r>>))
      IN [s |-> set_to(done, left.l, out.v).s, v |-> out.v]))

_IncrDecr(s, e) ==
  Then(Located(s, e.e), LAMBDA old :
    LET t == CType(old.s, old.v)
        one == register_literal_var(old.s, t, IF t.k = "ptr" THEN Size(t.to) ELSE 1)
        new == ILValue(one.s, t)
        kept == Computed(new.s, t, "Set", <<old.v>>)
        out == IF e.op \in {"++x", "--x"} THEN new ELSE kept
        step == Cmd(StepCmd[e.op], <<new.v>>, <<old.v, one.v>>)
    IN [s |-> set_to(add(out.s, step), old.l, new.v).s, v |-> out.v])

\* - and ~; a char is promoted to int first.
_ArithUnOp(s, e) ==
  Then(make_il(s, e.e), LAMBDA x :
    Then(set_type(x.s, x.v, integer), LAMBDA p :
      IF IsLiteral(p.s, p.v)
      THEN LET n == shift_into_range(p.s.literals[p.v])
           IN register_literal_var(p.s, integer,
                shift_into_range(IF e.op = "-x" THEN -n ELSE -n - 1))
      ELSE Computed(p.s, integer, IF e.op = "-x" THEN "Neg" ELSE "Not", <<p.v>>)))

\* The arguments from the ith on, converted to the types of the parameters.
Arguments(s, e, types, i) ==
  IF i > Len(e.args) THEN [s |-> s, vs |-> <<>>]
  ELSE Then(make_il(s, e.args[i]), LAMBDA a :
         Then(set_type(a.s, a.v, types[i]), LAMBDA first :
           Then(Arguments(first.s, e, types, i + 1), LAMBDA rest :
             [s |-> rest.s, vs |-> <<first.v>> \o rest.vs])))

FuncCall(s, e) ==
  Then(make_il(s, e.f), LAMBDA f :
    LET t == CType(f.s, f.v).to
    IN Then(Arguments(f.s, e, t.args, 1), LAMBDA args :
         LET ret == ILValue(args.s, t.ret)
             out == IF t.ret = void THEN <<>> ELSE <<ret.v>>
         IN [s |-> [add(ret.s, Cmd("Call", out, <<f.v>> \o args.vs))
                      EXCEPT !.raised = @ \/ Len(args.vs) > 6],
             v |-> ret.v]))

make_il(s, e) ==
  CASE e.op = "num" -> register_literal_var(s, integer, e.n)
    [] HasLValue(e) -> Then(lvalue(s, e), LAMBDA l : decayed(l.s, l.l))
    [] e.op \in DOMAIN Binary ->
         Then(make_il(s, e.l), LAMBDA left :
           Then(make_il(left.s, e.r), LAMBDA right :
             Operation(right.s, e.op, left.v, right.v)))
    [] e.op \in {"&&", "||"} -> _BoolAndOr(s, e)
    [] e.op = "!" -> BoolNot(s, e)
    [] e.op = "=" -> Equals(s, e)
    [] e.op \in DOMAIN Compound -> _CompoundPlusMinus(s, e)
    [] e.op \in DOMAIN StepCmd -> _IncrDecr(s, e)
    [] e.op \in {"-x", "~"} -> _ArithUnOp(s, e)
    [] e.op = "cast" -> Then(make_il(s, e.e), LAMBDA v : set_type(v.s, v.v, e.t))
    [] e.op = "addr" -> Then(lvalue(s, e.e), LAMBDA l : addr(l.s, l.l))
    [] e.op = "call" -> FuncCall(s, e)
    [] e.op = "," -> make_il(make_il(s, e.l).s, e.r)

-----------------------------------------------------------------------------
(* Statements and declarations: tree/nodes.py.  c holds the labels that    *)
(* break and continue jump to.                                             *)

NoExpr == [op |-> "none"]

JumpTo(s, l) == add(s, LabelCmd("Jump", <<>>, l))
PutLabel(s, l) == add(s, LabelCmd("Label", <<>>, l))

\* The condition, and a jump past what depends on it.
Unless(s, e, l) ==
  Then(make_il(s, e), LAMBDA cond : add(cond.s, LabelCmd("JumpZero", <<cond.v>>, l)))

Return(s, e) ==
  IF e = NoExpr THEN add(s, Cmd("Return", <<>>, <<>>))
  ELSE Then(make_il(s, e), LAMBDA v :
         Then(set_type(v.s, v.v, s.return), LAMBDA ret :
           add(ret.s, Cmd("Return", <<>>, <<ret.v>>))))

\* A declared variable; a static one keeps its initial value in the program.
Declare(s, d, global) ==
  Then(add_variable(s, d.name, d.t), LAMBDA var :
    LET Static(init) == [name |-> d.name, shared |-> global, init |-> init,
                         tentative |-> global /\ d.init = NoExpr]
        isStatic == global \/ d.static
        Placed(state, init) == [state EXCEPT !.static = (var.v :> Static(init)) @@ @]
    IN IF d.init = NoExpr THEN (IF isStatic THEN Placed(var.s, 0) ELSE var.s)
       ELSE Then(make_il(var.s, d.init), LAMBDA init :
              IF isStatic THEN Placed(init.s, init.s.literals[init.v])
              ELSE set_to(init.s, Direct(var.v), init.v).s))

RECURSIVE Statement(_, _, _), CompoundBody(_, _, _)

CompoundBody(s, items, c) ==
  IF items = <<>> THEN s
  ELSE Then(Statement(s, Head(items), c), LAMBDA next : CompoundBody(next, Tail(items), c))
Block(s, items, c) == end_scope(CompoundBody(new_scope(s), items, c))

IfStatement(s, i, c) ==
  LET endif == get_label(s)
  IN Then(Statement(Unless(endif.s, i.e, endif.v), i.then, c), LAMBDA then :
       LET end == get_label(then)
           other == PutLabel(JumpTo(end.s, end.v), endif.v)
       IN IF i.else = NoExpr THEN PutLabel(then, endif.v)
          ELSE PutLabel(Statement(other, i.else, c), end.v))

WhileStatement(s, i, c) ==
  LET start == get_label(s)
      end == get_label(start.s)
  IN Then(Unless(PutLabel(end.s, start.v), i.e, end.v), LAMBDA tested :
       Then(Statement(tested, i.body, [break |-> end.v, continue |-> start.v]), LAMBDA body :
         PutLabel(JumpTo(body, start.v), end.v)))

ForStatement_Restart(s, i, c) ==
  Then(Statement(new_scope(s), i.first, c), LAMBDA first :
    LET start == get_label(first)
        cont == get_label(start.s)
        end == get_label(cont.s)
        begun == PutLabel(end.s, start.v)
    IN Then(IF i.e = NoExpr THEN begun ELSE Unless(begun, i.e, end.v), LAMBDA tested :
         Then(Statement(tested, i.body, [break |-> end.v, continue |-> start.v]), LAMBDA body :
           Then(Statement(PutLabel(body, cont.v), i.third, c), LAMBDA third :
             end_scope(PutLabel(JumpTo(third, start.v), end.v))))))

ForStatement(s, i, c) ==
  Then(Statement(new_scope(s), i.first, c), LAMBDA first :
    LET start == get_label(first)
        cont == get_label(start.s)
        end == get_label(cont.s)
        begun == PutLabel(end.s, start.v)
    IN Then(IF i.e = NoExpr THEN begun ELSE Unless(begun, i.e, end.v), LAMBDA tested :
         Then(Statement(tested, i.body, [break |-> end.v, continue |-> cont.v]), LAMBDA body :
           Then(Statement(PutLabel(body, cont.v), i.third, c), LAMBDA third :
             end_scope(PutLabel(JumpTo(third, start.v), end.v))))))

\* A statement; an expression is a statement too, and nothing is.
Statement(s, i, c) ==
  CASE i.op = "none" -> s
    [] i.op = "block" -> Block(s, i.items, c)
    [] i.op = "decl" -> Declare(s, i, FALSE)
    [] i.op = "return" -> Return(s, i.e)
    [] i.op = "if" -> IfStatement(s, i, c)
    [] i.op = "while" -> WhileStatement(s, i, c)
    [] i.op = "for" -> ForStatement(s, i, c)
    [] i.op = "break" -> JumpTo(s, c.break)
    [] i.op = "continue" -> JumpTo(s, c.continue)
    [] OTHER -> make_il(s, i).s

always_returns(s) == s.cmds # <<>> /\ Last(s.cmds).op = "Return"

\* The body of a function: parameters, statements, and a return if the
\* last command is none; main returns 0.
Function(s, d) ==
  LET var == add_variable(s, d.name, d.t)
      named == [var.s EXCEPT !.named = (var.v :> d.name) @@ @,
                             !.cmds = <<>>, !.return = d.t.ret]
      Param(acc, i) ==
        LET arg == add_variable(acc, d.params[i], d.t.args[i])
        IN add(arg.s, [op |-> "LoadArg", out |-> <<arg.v>>, in |-> <<>>, num |-> i])
      loaded == FoldLeft(Param, new_scope(named), [i \in 1 .. Len(d.params) |-> i])
      Ended(body) ==
        LET zero == register_literal_var(body, integer, 0)
        IN IF always_returns(body) THEN body
           ELSE IF d.name = "main" THEN add(zero.s, Cmd("Return", <<>>, <<zero.v>>))
           ELSE add(body, Cmd("Return", <<>>, <<>>))
  IN Then(Ended(CompoundBody(loaded, d.body, [break |-> None, continue |-> None])), LAMBDA done :
       end_scope([done EXCEPT !.commands = Append(@, [name |-> d.name, cmds |-> done.cmds])]))

Prototype(s, d) ==
  LET var == add_variable(s, d.name, d.t)
  IN [var.s EXCEPT !.named = (var.v :> d.name) @@ @]

Root(tree) ==
  FoldLeft(LAMBDA s, d : CASE d.op = "function" -> Function(s, d)
                           [] d.op = "prototype" -> Prototype(s, d)
                           [] d.op = "decl" -> Declare(s, d, TRUE),
           Start, tree)
=============================================================================
