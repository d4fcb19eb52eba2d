-------------------------------- MODULE Sema --------------------------------
(***************************************************************************)
(* Typing of expressions and statements (src/sema/expr.c and the statement *)
(* walk of src/sema/decl.c): every node gets its type, its lvalue bit and  *)
(* its bit-field identity, and the implicit conversions become explicit.   *)
(* env is [vars: name -> type, protos, ret, sw: the labels of the          *)
(* enclosing switch].  An invalid node is poisoned: it gets type "error".  *)
(***************************************************************************)
EXTENDS CAst

poison(e) == [e EXCEPT !.t = Ty("error")]
quiet(e) == e.t.k = "error"

\* Scalars, and what becomes a pointer, are conditions (sema_require_scalar).
sema_require_scalar(e) == quiet(e) \/ type_is_integer(e.t) \/ e.t.k \in {"ptr", "array"}

Typed(e, c, t) == [e EXCEPT !.c = c, !.t = t]

CmpOps == {"<", ">", "<=", ">=", "==", "!="}

find_member(t, name) == SelectSeq(t.b, LAMBDA f : f.name = name)

\* Expressions and statements, in one recursion.
RECURSIVE Typing(_, _, _)
sema_expr(env, e) == Typing("expr", env, e)
sema_stmt(env, s) == Typing("stmt", env, s)

IncDec(e, o) ==
  IF ~o.lv \/ "const" \in o.t.q \/ ~(type_is_integer(o.t) \/ is_ptr(o.t)) THEN poison(e)
  ELSE Typed(e, <<o>>, conv_strip_quals(o.t))

expr_unary(env, e) ==
  LET o == sema_expr(env, e.c[1])
  IN With(conv_decay(o), LAMBDA d :
  With(conv_promote(o), LAMBDA p :
    CASE quiet(o) -> poison(e)
      [] e.op = "&" -> IF o.lv THEN Typed(e, <<o>>, PtrTo(o.t)) ELSE poison(e)
      [] e.op = "*" -> IF ~is_ptr(d.t) THEN poison(e)
                       ELSE [Typed(e, <<d>>, BaseOf(d.t)) EXCEPT !.lv = BaseOf(d.t).k # "void"]
      [] e.op = "!" -> IF sema_require_scalar(d) THEN Typed(e, <<d>>, IntT) ELSE poison(e)
      [] e.op \in {"+", "-", "~"} ->
           IF type_is_integer(p.t) THEN Typed(e, <<p>>, p.t) ELSE poison(e)
      [] OTHER -> IncDec(e, o)))

\* The left side of an assignment names the object and is not converted; the value
\* of the assignment has its unqualified type.
expr_assign(env, e) ==
  LET l == sema_expr(env, e.c[1])
      r == sema_expr(env, e.c[2])
  IN With(conv_decay(r), LAMBDA d :
  With(conv_assignable(l.t, r), LAMBDA plain :
  With(\/ type_is_integer(l.t) /\ type_is_integer(d.t)
       \/ e.op \in {"+", "-"} /\ is_ptr(l.t) /\ type_is_integer(d.t), LAMBDA valid :
    CASE quiet(l) \/ quiet(r) -> poison(e)
      [] ~l.lv \/ l.t.k = "array" \/ "const" \in l.t.q -> poison(e)
      [] e.k = "assign" -> IF plain.err THEN poison(e)
                       ELSE Typed(e, <<l, plain.e>>, conv_strip_quals(l.t))
      [] OTHER -> IF valid THEN Typed(e, <<l, d>>, conv_strip_quals(l.t)) ELSE poison(e))))

\* Pointer arithmetic and comparison come before the usual arithmetic conversions; a
\* shift promotes each operand by itself.
PointerBinary(e, l, r) ==
  LET both == is_ptr(l.t) /\ is_ptr(r.t)
      int == IF is_ptr(l.t) THEN r ELSE l
  IN CASE e.op \in CmpOps ->
            IF both \/ type_is_integer(int.t) THEN Typed(e, <<l, r>>, IntT) ELSE poison(e)
       [] e.op = "-" /\ both -> Typed(e, <<l, r>>, Ty("long"))
       [] e.op \in {"+", "-"} /\ ~both /\ type_is_integer(int.t) ->
            Typed(e, <<l, r>>, IF is_ptr(l.t) THEN l.t ELSE r.t)
       [] OTHER -> poison(e)

expr_binary(env, e) ==
  LET l == sema_expr(env, e.c[1])
      r == sema_expr(env, e.c[2])
  IN With(conv_decay(l), LAMBDA dl :
  With(conv_decay(r), LAMBDA dr :
  With(conv_promote(l), LAMBDA pl :
  With(conv_promote(r), LAMBDA pr :
  With(conv_uac(l, r), LAMBDA u :
    CASE quiet(l) \/ quiet(r) -> poison(e)
      [] e.op = "," -> [Typed(e, <<l, dr>>, dr.t) EXCEPT !.bf = dr.bf]
      [] e.op \in {"&&", "||"} ->
           IF sema_require_scalar(dl) /\ sema_require_scalar(dr) THEN Typed(e, <<dl, dr>>, IntT)
           ELSE poison(e)
      [] e.op \in {"<<", ">>"} ->
           IF type_is_integer(pl.t) /\ type_is_integer(pr.t) THEN Typed(e, <<pl, pr>>, pl.t)
           ELSE poison(e)
      [] is_ptr(dl.t) \/ is_ptr(dr.t) -> PointerBinary(e, dl, dr)
      [] ~type_is_integer(dl.t) \/ ~type_is_integer(dr.t) -> poison(e)
      [] OTHER -> Typed(e, <<u.l, u.r>>, IF e.op \in CmpOps THEN IntT ELSE u.t))))))

\* ?: with all three operands, or with the middle one omitted: then the condition is
\* converted in the middle's place.
expr_cond(env, e) ==
  With(conv_decay(sema_expr(env, e.c[1])), LAMBDA c :
  With(IF e.k = "elvis" THEN c ELSE conv_decay(sema_expr(env, e.c[2])), LAMBDA mid :
  With(conv_decay(sema_expr(env, e.c[Len(e.c)])), LAMBDA rhs :
  LET kids(m, r) == IF e.k = "elvis" THEN <<m, r>> ELSE <<c, m, r>>
  IN With(conv_uac(mid, rhs), LAMBDA u :
  LET quals == BaseOf(mid.t).q \cup BaseOf(rhs.t).q
      bare(x) == conv_strip_quals(BaseOf(x.t))
  IN With(IF bare(mid) = bare(rhs) THEN [bare(mid) EXCEPT !.q = quals]
          ELSE IF is_void_ptr(mid.t) \/ is_void_ptr(rhs.t) THEN [VoidT EXCEPT !.q = quals]
          ELSE VoidT, LAMBDA pt :
    CASE ~sema_require_scalar(c) \/ quiet(c) \/ quiet(mid) \/ quiet(rhs) -> poison(e)
      [] type_is_integer(mid.t) /\ type_is_integer(rhs.t) -> Typed(e, kids(u.l, u.r), u.t)
      [] "void" \in {mid.t.k, rhs.t.k} -> Typed(e, kids(mid, rhs), VoidT)
      [] mid.t.k = "struct" /\ conv_strip_quals(mid.t) = conv_strip_quals(rhs.t) ->
           Typed(e, kids(mid, rhs), mid.t)
      [] is_ptr(mid.t) /\ is_ptr(rhs.t) -> Typed(e, kids(mid, rhs), PtrTo(pt))
      [] is_ptr(mid.t) -> Typed(e, kids(mid, conv_cast(rhs, mid.t)), mid.t)
      [] is_ptr(rhs.t) -> Typed(e, kids(conv_cast(mid, rhs.t), rhs), rhs.t)
      [] OTHER -> poison(e))))))

\* A member inherits the object's qualifiers and its lvalue bit.
expr_member(env, e) ==
  LET o == sema_expr(env, e.c[1])
      ms == find_member(o.t, e.op)
      m == ms[1]
  IN IF quiet(o) \/ o.t.k # "struct" THEN poison(e)
     ELSE IF ms = <<>> THEN poison(e)
     ELSE [Typed(e, <<o>>, [m.t EXCEPT !.q = @ \cup o.t.q]) EXCEPT
             !.lv = o.lv, !.bf = IF m.width = 0 THEN <<>> ELSE <<m.width, conv_is_signed(m.t)>>]

\* Either operand of [] may be the pointer.
expr_index(env, e) ==
  With(conv_decay(sema_expr(env, e.c[1])), LAMBDA b :
  With(conv_decay(sema_expr(env, e.c[2])), LAMBDA i :
  LET elem == IF is_ptr(b.t) THEN BaseOf(b.t) ELSE BaseOf(i.t)
  IN IF quiet(b) \/ quiet(i) THEN poison(e)
     ELSE IF {is_ptr(b.t), is_ptr(i.t)} # BOOLEAN \/ ~(type_is_integer(b.t) \/ type_is_integer(i.t))
     THEN poison(e) ELSE [Typed(e, <<b, i>>, elem) EXCEPT !.lv = TRUE]))

\* Prototyped arguments convert as if by assignment, the others by promotion.
expr_call(env, e) ==
  LET p == env.protos[e.op]
  IN With([i \in DOMAIN e.c |-> conv_decay(sema_expr(env, e.c[i]))], LAMBDA args :
  LET fixed(i) == p.proto /\ i <= Len(p.params)
      arg(i) == IF fixed(i) THEN conv_assignable(p.params[i], args[i]).e ELSE conv_promote(args[i])
  IN With(\/ \E i \in DOMAIN args : quiet(args[i]) \/ args[i].t.k = "void"
          \/ \E i \in DOMAIN args : fixed(i) /\ conv_assignable(p.params[i], args[i]).err
          \/ p.proto /\ Len(args) < Len(p.params)
          \/ p.proto /\ Len(args) > Len(p.params) /\ ~p.variadic, LAMBDA bad :
    IF bad THEN poison(e) ELSE Typed(e, [i \in DOMAIN args |-> arg(i)], p.ret)))

expr_cast(env, e) ==
  With(conv_decay(sema_expr(env, e.c[1])), LAMBDA o :
  LET scalar(t) == type_is_integer(t) \/ is_ptr(t)
  IN IF quiet(o) \/ (e.t.k # "void" /\ ~(scalar(e.t) /\ scalar(o.t))) THEN poison(e)
     ELSE [e EXCEPT !.c = <<o>>])

\* The value of ({ ... }) is its last item, when that is an expression statement.
expr_stmt(env, e) ==
  LET body == sema_stmt(env, e.c[1]).s
      last == body.c[Len(body.c)]
  IN Typed(e, <<body>>, IF body.c # <<>> /\ last.k = "expr" THEN last.c[1].t ELSE VoidT)

ExprOf(env, e) ==
  CASE e.t.k # "none" /\ e.k # "cast" -> e
    [] e.k = "int" -> Typed(e, <<>>, Ty(e.op))
    [] e.k = "id" -> IF e.op \in DOMAIN env.vars
                     THEN [e EXCEPT !.t = env.vars[e.op], !.lv = TRUE] ELSE poison(e)
    [] e.k = "postfix" -> IF quiet(sema_expr(env, e.c[1])) THEN poison(e)
                          ELSE IncDec(e, sema_expr(env, e.c[1]))
    [] e.k = "unary" -> expr_unary(env, e)
    [] e.k \in {"assign", "assignop"} -> expr_assign(env, e)
    [] e.k = "binary" -> expr_binary(env, e)
    [] e.k \in {"cond", "elvis"} -> expr_cond(env, e)
    [] e.k = "member" -> expr_member(env, e)
    [] e.k = "index" -> expr_index(env, e)
    [] e.k = "call" -> expr_call(env, e)
    [] e.k = "sizeof" -> Typed(e, <<sema_expr(env, e.c[1])>>, Ty("ulong"))
    [] e.k = "cast" -> IF e.imp THEN e ELSE expr_cast(env, e)
    [] e.k = "stmtexpr" -> expr_stmt(env, e)

(***************************************************************************)
(* Statements.  sema_stmt returns the typed statement and the environment  *)
(* after it: names are distinct in the programs modelled, so leaving a     *)
(* scope need not restore the environment (scopes: see Scope).             *)
(***************************************************************************)
\* A case label compares in the promoted type of the controlling expression.
sw_convert(t, x) ==
  LET m == 2 ^ conv_int_bits(t)
  IN IF conv_is_signed(t) /\ x % m >= m \div 2 THEN (x % m) - m ELSE x % m

\* Labels seen so far are <<lo, hi>>; an empty range is dropped, an overlap an error.
sema_switch_add_case(sw, lo, hi) ==
  With(sw_convert(sw.t, lo), LAMBDA l :
  With(sw_convert(sw.t, hi), LAMBDA h :
    IF l > h THEN sw
    ELSE IF \E x \in sw.labels : x[1] <= h /\ l <= x[2] THEN [sw EXCEPT !.err = TRUE]
    ELSE [sw EXCEPT !.labels = @ \cup {<<l, h>>}]))

NoSwitch == [t |-> IntT, labels |-> {}, dflt |-> FALSE, err |-> FALSE]

SemaList(env, ss) ==
  Fold(LAMBDA acc, st : LET r == sema_stmt(acc.env, st)
                            IN [env |-> r.env, ss |-> Append(acc.ss, r.s)],
           [env |-> env, ss |-> <<>>], ss)

Out(env, s, c) == [env |-> env, s |-> [s EXCEPT !.c = c]]

sema_switch(env, s) ==
  With(conv_promote(sema_expr(env, s.c[1])), LAMBDA cond :
  LET inner == [env EXCEPT !.sw = [NoSwitch EXCEPT !.t = cond.t]]
      body == sema_stmt(inner, s.c[2])
  IN IF ~type_is_integer(cond.t) THEN [env |-> env, s |-> poison(s)]
     ELSE LET out == Out([body.env EXCEPT !.sw = env.sw], s, <<cond, body.s>>)
          IN IF body.env.sw.err THEN [out EXCEPT !.s = poison(@)] ELSE out)

sema_return(env, s) ==
  IF s.c = <<>> THEN Out(env, s, <<>>)
  ELSE LET e == sema_expr(env, s.c[1])
       IN Out(env, s, <<IF env.ret.k = "void" THEN e ELSE conv_assignable(env.ret, e).e>>)

\* A scalar initializer converts as if by assignment; the name is visible in it.
sema_decl(env, s) ==
  LET in == [env EXCEPT !.vars = Put(@, s.op, s.t)]
  IN Out(in, s, [i \in DOMAIN s.c |-> conv_assignable(s.t, sema_expr(in, s.c[i])).e])

StmtOf(env, s) ==
  CASE s.k \in {"compound", "neutral"} -> With(SemaList(env, s.c), LAMBDA r :
                                            Out(r.env, s, r.ss))
    [] s.k = "decl" -> sema_decl(env, s)
    [] s.k = "expr" -> Out(env, s, <<sema_expr(env, s.c[1])>>)
    [] s.k = "return" -> sema_return(env, s)
    [] s.k = "switch" -> sema_switch(env, s)
    [] s.k \in {"if", "while"} ->
         With(SemaList(env, Tail(s.c)), LAMBDA r :
           Out(r.env, s, <<sema_expr(env, s.c[1])>> \o r.ss))
    [] s.k = "do" ->
         LET r == sema_stmt(env, s.c[1]) IN Out(r.env, s, <<r.s, sema_expr(env, s.c[2])>>)
    [] s.k = "for" ->
         LET i == sema_stmt(env, s.c[1])
             b == sema_stmt(i.env, s.c[4])
             ex(x) == IF x.k = "none" THEN x ELSE sema_expr(i.env, x)
         IN Out(b.env, s, <<i.s, ex(s.c[2]), ex(s.c[3]), b.s>>)
    [] s.k = "case" ->
         With([env EXCEPT !.sw = sema_switch_add_case(@, s.n[1], s.n[2])], LAMBDA in :
         LET r == sema_stmt(in, s.c[1])
         IN Out(r.env, s, <<r.s>>))
    [] s.k = "default" ->
         LET in == [env EXCEPT !.sw = [@ EXCEPT !.err = @ \/ env.sw.dflt, !.dflt = TRUE]]
             r == sema_stmt(in, s.c[1])
         IN Out(r.env, s, <<r.s>>)
    [] s.k = "label" -> LET r == sema_stmt(env, s.c[1]) IN Out(r.env, s, <<r.s>>)
    [] OTHER -> [env |-> env, s |-> s]

Typing(what, env, x) == IF what = "expr" THEN ExprOf(env, x) ELSE StmtOf(env, x)

\* The typed bodies of a program.
sema_function(p) ==
  LET names(ps) == [x \in {ps[i][1] : i \in DOMAIN ps} |->
                      ps[CHOOSE i \in DOMAIN ps : ps[i][1] = x][2]]
  IN With([vars |-> Over(names(p.params), names(p.globals)), protos |-> p.protos, ret |-> p.ret,
           sw |-> NoSwitch], LAMBDA env :
    [p EXCEPT !.body = sema_stmt(env, @).s])
sema_program(p) == [sema_function(p) EXCEPT !.others = [i \in DOMAIN @ |-> sema_function(@[i])]]
=============================================================================
