-------------------------------- MODULE CAst --------------------------------
(***************************************************************************)
(* The C types and syntax trees the front end works on (src/sema/sema.h,   *)
(* src/parse/ast.h), cut to the part of the language the programs of this  *)
(* project use: integer, pointer, array and struct types (with bit-field   *)
(* members), every expression operator, every statement form.              *)
(*                                                                         *)
(* Every node is a record with the same fields: its kind k, operator or    *)
(* name op, number n, children c, and what the semantic analysis fills in: *)
(* the type t, whether it is an lvalue, the bit-field it names (<<>> or    *)
(* <<width, signed>>) and whether a conversion was implicit.               *)
(***************************************************************************)
EXTENDS Ir

\* A type: kind, qualifiers, element count, and b: the pointee or element type of a
\* pointer or array (a sequence of one), the members of a struct.
Ty(k) == [k |-> k, q |-> {}, n |-> 0, b |-> <<>>]
IntT == Ty("int")
VoidT == Ty("void")
PtrTo(t) == [Ty("ptr") EXCEPT !.b = <<t>>]
ArrayOf(t, n) == [Ty("array") EXCEPT !.b = <<t>>, !.n = n]
Qual(t, q) == [t EXCEPT !.q = @ \cup {q}]
BaseOf(t) == t.b[1]

\* A member: name, type, cell offset, and its bit-field position (width 0: none).
Field(name, t, off, shift, width) ==
  [name |-> name, t |-> t, off |-> off, shift |-> shift, width |-> width]
StructOf(fields, n) == [Ty("struct") EXCEPT !.b = fields, !.n = n]

Node(k, op, n, c) ==
  [k |-> k, op |-> op, n |-> n, c |-> c, t |-> Ty("none"), lv |-> FALSE, bf |-> <<>>,
   imp |-> FALSE]

\* Expressions.
Lit(n) == Node("int", "int", n, <<>>)
LitOf(n, k) == Node("int", k, n, <<>>)
Id(x) == Node("id", x, 0, <<>>)
Un(op, e) == Node("unary", op, 0, <<e>>)
Post(op, e) == Node("postfix", op, 0, <<e>>)
Bin(op, l, r) == Node("binary", op, 0, <<l, r>>)
Asg(l, r) == Node("assign", "=", 0, <<l, r>>)
AsgOp(op, l, r) == Node("assignop", op, 0, <<l, r>>)
Cond(c, l, r) == Node("cond", "", 0, <<c, l, r>>)
Elvis(c, r) == Node("elvis", "", 0, <<c, r>>)
CallE(fn, args) == Node("call", fn, 0, args)
Index(a, i) == Node("index", "", 0, <<a, i>>)
Dot(e, m) == Node("member", m, 0, <<e>>)
CastE(t, e) == [Node("cast", "", 0, <<e>>) EXCEPT !.t = t]
StmtE(s) == Node("stmtexpr", "", 0, <<s>>)

\* Statements.  A declaration holds its type in t, its initializer (or nothing) in c
\* and the name of its cleanup function in bf.
Nothing == Node("none", "", 0, <<>>)
Labels(ss) == Node("neutral", "", 0, ss)      \* adjacent labels and their statement
Block(ss) == Node("compound", "", 0, ss)
Decl(x, t, init) == [Node("decl", x, 0, init) EXCEPT !.t = t]
DeclClean(x, t, init, fn) == [Node("decl", x, 0, init) EXCEPT !.t = t, !.bf = <<fn>>]
ExprS(e) == Node("expr", "", 0, <<e>>)
If(c, s) == Node("if", "", 0, <<c, s>>)
IfElse(c, s1, s2) == Node("if", "", 0, <<c, s1, s2>>)
While(c, s) == Node("while", "", 0, <<c, s>>)
Do(s, c) == Node("do", "", 0, <<s, c>>)
For(i, c, st, s) == Node("for", "", 0, <<i, c, st, s>>)
Switch(e, s) == Node("switch", "", 0, <<e, s>>)
Case(lo, hi, s) == Node("case", "", <<lo, hi>>, <<s>>)
Default(s) == Node("default", "", 0, <<s>>)
Label(l, s) == Node("label", l, 0, <<s>>)
Goto(l) == Node("goto", l, 0, <<>>)
Break == Node("break", "", 0, <<>>)
Continue == Node("continue", "", 0, <<>>)
Return(e) == Node("return", "", 0, e)

\* A program: the function main with parameters <<name, type>>, globals <<name, type>>
\* and the prototypes of the functions it calls, name -> [ret, params]; and the other
\* functions it defines, before main.
Program(ret, params, globals, protos, body) ==
  [name |-> "main", attrs |-> {}, ret |-> ret, params |-> params, globals |-> globals,
   protos |-> protos, body |-> body, others |-> <<>>]
Helper(p, name, attrs, ret, params, body) ==
  [p EXCEPT !.others = Append(@, [p EXCEPT !.name = name, !.attrs = attrs, !.ret = ret, !.params = params,
                                           !.body = body, !.others = <<>>])]

(***************************************************************************)
(* The conversions of C11 6.3 (src/sema/conv.c): each takes a typed        *)
(* expression and wraps it in the implicit casts the language prescribes.  *)
(***************************************************************************)
SignedOf == [char |-> TRUE, uchar |-> FALSE, bool |-> FALSE, int |-> TRUE, uint |-> FALSE,
             long |-> TRUE, ulong |-> FALSE, llong |-> TRUE, ullong |-> FALSE]
IntKinds == DOMAIN SignedOf

type_is_integer(t) == t.k \in IntKinds
is_ptr(t) == t.k = "ptr"

conv_strip_quals(t) == [t EXCEPT !.q = {}]

conv_rank(t) ==
  CASE t.k = "bool" -> 100
    [] t.k \in {"char", "uchar"} -> 801
    [] t.k \in {"int", "uint"} -> 3201
    [] t.k \in {"long", "ulong"} -> 6401
    [] t.k \in {"llong", "ullong"} -> 6402

conv_is_signed(t) == SignedOf[t.k]

conv_int_bits(t) ==
  CASE t.k = "bool" -> 1
    [] t.k \in {"char", "uchar"} -> NarrowBits
    [] t.k \in {"int", "uint"} -> IntBits
    [] OTHER -> WideBits

unsigned_counterpart(t) ==
  CASE t.k = "char" -> Ty("uchar")
    [] t.k = "int" -> Ty("uint")
    [] t.k = "long" -> Ty("ulong")
    [] t.k = "llong" -> Ty("ullong")
    [] OTHER -> t

\* A cast to the expression's own type is left out.  Types are compatible when equal,
\* qualifiers included (enumerations and functions are not modelled).
conv_cast(e, to) ==
  IF e.t = to THEN e
  ELSE [Node("cast", "", 0, <<e>>) EXCEPT !.t = to, !.imp = TRUE]

\* Lvalue conversion drops the top-level qualifiers and keeps the bit-field identity.
conv_lvalue(e) ==
  IF ~e.lv THEN e
  ELSE IF e.t.q # {} THEN [conv_cast(e, conv_strip_quals(e.t)) EXCEPT !.bf = e.bf]
  ELSE [e EXCEPT !.lv = FALSE]

conv_decay(e) ==
  IF e.t.k = "array" THEN conv_cast(e, PtrTo(BaseOf(e.t))) ELSE conv_lvalue(e)

conv_promote_type(t) ==
  IF ~type_is_integer(t) \/ conv_rank(t) >= conv_rank(IntT) THEN conv_strip_quals(t)
  ELSE IF conv_int_bits(t) < IntBits \/ (conv_int_bits(t) = IntBits /\ conv_is_signed(t))
  THEN IntT ELSE Ty("uint")

\* Bit-fields promote by their width.  Fields wider than int keep an anonymous
\* precision, which is not modelled: every field here fits an int.
conv_promote_bitfield_type(t, width, sgn) ==
  IF width < IntBits \/ sgn THEN IntT ELSE Ty("uint")

conv_promote_expr_type(e) ==
  IF e.bf # <<>> THEN conv_promote_bitfield_type(e.t, e.bf[1], e.bf[2])
  ELSE conv_promote_type(e.t)

\* The promotion is chosen before decay can hide the bit-field.
conv_promote(e) == conv_cast(conv_decay(e), conv_promote_expr_type(e))

\* The usual arithmetic conversions, for integers: rules (a) to (e) in order.
conv_uac_type(x, y) ==
  With(conv_promote_type(x), LAMBDA a :
  With(conv_promote_type(y), LAMBDA b :
  LET uns == IF conv_is_signed(a) THEN b ELSE a
      sig == IF conv_is_signed(a) THEN a ELSE b
  IN CASE a = b -> a
       [] conv_is_signed(a) = conv_is_signed(b) -> IF conv_rank(a) >= conv_rank(b) THEN a ELSE b
       [] conv_rank(uns) >= conv_rank(sig) -> uns
       [] conv_int_bits(sig) > conv_int_bits(uns) -> sig
       [] OTHER -> unsigned_counterpart(sig)))

\* conv_uac: the common type and both operands converted to it.
conv_uac(l, r) ==
  With(conv_uac_type(conv_promote_expr_type(l), conv_promote_expr_type(r)), LAMBDA t :
    [t |-> t, l |-> conv_cast(conv_decay(l), t), r |-> conv_cast(conv_decay(r), t)])

conv_to_bool(e) == conv_cast(conv_decay(e), Ty("bool"))

\* Integer constants 0 written as such; folding longer constant expressions is
\* modelled in ConstExpr.
RECURSIVE conv_is_npc(_)
conv_is_npc(e) ==
  CASE e.k = "cast" /\ e.imp -> conv_is_npc(e.c[1])
    [] e.k = "cast" /\ e.t = PtrTo(VoidT) -> conv_is_npc(e.c[1])
    [] OTHER -> e.k = "int" /\ e.n = 0

\* conv_assignable: the converted right-hand side, what it warns about, and whether
\* the assignment is an error.
pointee_quals_ok(l, r) == r.q \subseteq l.q
is_void_ptr(t) == is_ptr(t) /\ BaseOf(t).k = "void"
conv_assignable(lhs, rhs) ==
  With(conv_decay(rhs), LAMBDA r :
  LET rt == r.t
      ok(e, w) == [e |-> e, warn |-> w, err |-> FALSE]
      pw == IF is_void_ptr(lhs) \/ is_void_ptr(rt)
               \/ conv_strip_quals(BaseOf(lhs)) = conv_strip_quals(BaseOf(rt))
            THEN IF pointee_quals_ok(BaseOf(lhs), BaseOf(rt)) THEN {} ELSE {"discarded-qualifiers"}
            ELSE {"incompatible-pointer-types"}
  IN CASE lhs.k = "bool" /\ (type_is_integer(rt) \/ is_ptr(rt)) -> ok(conv_to_bool(r), {})
       [] type_is_integer(lhs) /\ type_is_integer(rt) -> ok(conv_cast(r, conv_strip_quals(lhs)), {})
       [] is_ptr(lhs) /\ is_ptr(rt) -> ok(conv_cast(r, lhs), pw)
       [] is_ptr(lhs) /\ type_is_integer(rt) ->
            ok(conv_cast(r, lhs), IF conv_is_npc(r) THEN {} ELSE {"int-conversion"})
       [] type_is_integer(lhs) /\ is_ptr(rt) -> ok(conv_cast(r, lhs), {"int-conversion"})
       [] OTHER -> [e |-> r, warn |-> {}, err |-> conv_strip_quals(lhs) # conv_strip_quals(rt)])
=============================================================================
