-------------------------------- MODULE CSem --------------------------------
(***************************************************************************)
(* What a C program of module CAst means: a reference interpreter written  *)
(* from C11 and the GNU extensions of docs/gnu-extensions.md, over the     *)
(* untyped tree, against which typing and lowering are judged.  It shares  *)
(* with IrSem the representation of values, memory and behaviours.  Where  *)
(* the standard leaves the order of evaluation open it is left to right,   *)
(* as the compiler promises.                                               *)
(***************************************************************************)
EXTENDS CAst

CONSTANTS MaxEvents, MaxJumps
S == INSTANCE IrSem

(***************************************************************************)
(* Types, by the rules of 6.3.1: an integer type is a width, a signedness  *)
(* and a rank.                                                             *)
(***************************************************************************)
Width(k) == CASE k = "bool" -> 1 [] k \in {"char", "uchar"} -> NarrowBits
              [] k \in {"int", "uint"} -> IntBits [] OTHER -> WideBits
IsSigned(k) == k \in {"char", "int", "long", "llong"}
RankOf(k) == CASE k = "bool" -> 0 [] k \in {"char", "uchar"} -> 1 [] k \in {"int", "uint"} -> 2
               [] k \in {"long", "ulong"} -> 3 [] OTHER -> 4
IsInt(t) == t.k \in {"bool", "char", "uchar", "int", "uint", "long", "ulong", "llong", "ullong"}
Plain(t) == [t EXCEPT !.q = {}]
Decayed(t) == IF t.k = "array" THEN PtrTo(t.b[1]) ELSE Plain(t)

\* An int can represent every value of a type narrower than int.
Promoted(k, width) ==
  IF RankOf(k) > RankOf("int") THEN k
  ELSE IF width < IntBits \/ (width = IntBits /\ IsSigned(k)) THEN "int" ELSE "uint"

Unsigned(k) == CASE k = "int" -> "uint" [] k = "long" -> "ulong" [] k = "llong" -> "ullong" [] OTHER -> k
Common(k, l) ==
  LET hi == IF RankOf(k) >= RankOf(l) THEN k ELSE l
      lo == IF RankOf(k) >= RankOf(l) THEN l ELSE k
      u == IF IsSigned(k) THEN l ELSE k
      s == IF IsSigned(k) THEN k ELSE l
  IN CASE IsSigned(k) = IsSigned(l) -> hi
       [] RankOf(u) >= RankOf(s) -> u
       [] Width(s) > Width(u) -> s
       [] OTHER -> Unsigned(s)

Member(t, name) == t.b[CHOOSE i \in DOMAIN t.b : t.b[i].name = name]

\* G holds the types of all names (they are distinct) and the prototypes.
\* The types and the meanings of expressions and statements, in one recursion.
RECURSIVE Sem(_, _, _, _, _)
RType(G, e) == Sem("type", G, e, <<>>, <<>>)
Eval(G, st, e) == Sem("eval", G, st, e, <<>>)
EvalArgs(G, st, es, ts) == Sem("args", G, st, es, ts)
Run(G, st, s, seek) == Sem("run", G, st, s, seek)
BitsOf(G, e) == IF e.k = "member" THEN LET m == Member(RType(G, e.c[1]), e.op)
                                       IN IF m.width = 0 THEN Width(m.t.k) ELSE m.width
                ELSE Width(RType(G, e).k)
PromType(G, e) == Ty(Promoted(RType(G, e).k, BitsOf(G, e)))
TypeOfExpr(G, e) ==
  LET t(i) == RType(G, e.c[i])
      d(i) == Decayed(t(i))
      arith(i, j) == Ty(Common(PromType(G, e.c[i]).k, PromType(G, e.c[j]).k))
      last == e.c[1].c[Len(e.c[1].c)]
  IN CASE e.k = "int" -> Ty(e.op)
       [] e.k = "id" -> G.vars[e.op]
       [] e.k = "cast" -> e.t
       [] e.k = "call" -> G.protos[e.op].ret
       [] e.k = "sizeof" -> Ty("ulong")
       [] e.k = "member" -> LET m == Member(t(1), e.op) IN [m.t EXCEPT !.q = @ \cup t(1).q]
       [] e.k = "index" -> IF d(1).k = "ptr" THEN d(1).b[1] ELSE d(2).b[1]
       [] e.k \in {"assign", "assignop", "postfix"} -> Plain(t(1))
       [] e.k = "stmtexpr" -> IF e.c[1].c # <<>> /\ last.k = "expr" THEN Decayed(RType(G, last.c[1])) ELSE VoidT
       [] e.k = "elvis" -> IF IsInt(d(1)) THEN arith(1, 2) ELSE d(1)
       [] e.k = "cond" -> IF IsInt(d(2)) /\ IsInt(d(3)) THEN arith(2, 3)
                          ELSE IF d(2).k = "ptr" \/ (d(2).k # "void" /\ d(3).k # "ptr") THEN d(2) ELSE d(3)
       [] e.k = "unary" ->
           (CASE e.op = "&" -> PtrTo(t(1))
              [] e.op = "*" -> d(1).b[1]
              [] e.op = "!" -> IntT
              [] e.op \in {"++", "--"} -> Plain(t(1))
              [] OTHER -> PromType(G, e.c[1]))
       [] e.k = "binary" ->
            CASE e.op \in {"<", ">", "<=", ">=", "==", "!=", "&&", "||"} -> IntT
              [] e.op = "," -> d(2)
              [] e.op \in {"<<", ">>"} -> PromType(G, e.c[1])
              [] d(1).k = "ptr" -> d(1)
              [] d(2).k = "ptr" -> d(2)
              [] OTHER -> arith(1, 2)

(***************************************************************************)
(* Machine words.  A word of type k stands for a mathematical integer.     *)
(***************************************************************************)
Carrier(t) == CASE t.k \in {"bool", "char", "uchar"} -> "i8" [] t.k \in {"int", "uint"} -> "i32"
                [] IsInt(t) -> "i64" [] OTHER -> "ptr"
Number(w, k) == IF IsSigned(k) /\ w >= 2 ^ (Width(k) - 1) THEN w - 2 ^ Width(k) ELSE w
WordOf(n, k) == IF k = "bool" THEN IF n = 0 THEN 0 ELSE 1 ELSE n % 2 ^ Width(k)
ConvertW(ws, from, to) ==
  IF IsInt(to) /\ IsInt(from) THEN {WordOf(Number(w, from.k), to.k) : w \in ws}
  ELSE IF to.k = "bool" THEN {IF w = 0 THEN 0 ELSE 1 : w \in ws}
  ELSE ws

RECURSIVE Cells(_)
Cells(t) == IF t.k = "array" THEN t.n * Cells(t.b[1]) ELSE IF t.k = "struct" THEN t.n ELSE 1

\* Words x op y in type k; {} is undefined behaviour, as is signed overflow.
Arith(op, x, y, k) ==
  LET a == Number(x, k)
      b == Number(y, k)
      m == 2 ^ Width(k)
  IN With((IF a < 0 THEN -a ELSE a) \div (IF b < 0 THEN -b ELSE b), LAMBDA absq :
  With(IF (a < 0) = (b < 0) THEN absq ELSE -absq, LAMBDA q :
  LET fit(n) == IF IsSigned(k) /\ (n < -(m \div 2) \/ n >= m \div 2) THEN {} ELSE {n % m}
  IN CASE op = "+" -> fit(a + b)
       [] op = "-" -> fit(a - b)
       [] op = "*" -> fit(a * b)
       [] op = "/" -> IF b = 0 THEN {} ELSE fit(q)
       [] op = "%" -> IF b = 0 \/ fit(q) = {} THEN {} ELSE fit(a - q * b)
       [] op = "&" -> {x & y}
       [] op = "|" -> {x | y}
       [] op = "^" -> {x ^^ y}
       [] op = "<<" -> IF b < 0 \/ b >= Width(k) THEN {} ELSE {(x * 2 ^ b) % m}
       [] op = ">>" -> IF b < 0 \/ b >= Width(k) THEN {} ELSE {(a \div 2 ^ b) % m}))

Compare(op, a, b) ==
  CASE op = "<" -> a < b [] op = ">" -> a > b [] op = "<=" -> a <= b [] op = ">=" -> a >= b
    [] op = "==" -> a = b [] op = "!=" -> a # b

(***************************************************************************)
(* Evaluation.  st = [mem, env, tr, jumps]; a result is the new state, a   *)
(* set of words, and how control leaves: "" normally, "break", "continue", *)
(* "return" or "goto" (to the label `to`), or the end of the execution.    *)
(***************************************************************************)
Leaves == {"break", "continue", "return", "goto"}
Ok(st, v) == {[st |-> st, v |-> v, out |-> "", to |-> ""]}
Leave(st, v, out, to) == {[st |-> st, v |-> v, out |-> out, to |-> to]}
Stop(st, end) == Leave(st, {}, end, "")
Then(rs, F(_)) == UNION {IF r.out = "" THEN F(r) ELSE {r} : r \in rs}

Event(st, ev, v) ==
  LET s1 == [st EXCEPT !.tr = Append(@, ev)]
  IN IF Len(s1.tr) >= MaxEvents THEN Stop(s1, "cut") ELSE Ok(s1, v)

BitField(G, e) ==
  IF e.k # "member" THEN <<>>
  ELSE LET m == Member(RType(G, e.c[1]), e.op)
       IN IF m.width = 0 THEN <<>> ELSE <<m.shift, m.width, IsSigned(m.t.k)>>

\* The field's value, as a word of the member's type.
FieldWord(w, bf, t) ==
  LET raw == (w \div 2 ^ bf[1]) % 2 ^ bf[2]
  IN (IF bf[3] /\ raw >= 2 ^ (bf[2] - 1) THEN raw - 2 ^ bf[2] ELSE raw) % IntMask(Carrier(t))
WithField(w, x, bf) ==
  LET raw == (w \div 2 ^ bf[1]) % 2 ^ bf[2]
  IN w + ((x % 2 ^ bf[2]) - raw) * 2 ^ bf[1]

Fetch(st, addrs, t, bf) ==
  LET words == UNION {st.mem[S!ObjOf(a)][S!CellOf(a)] : a \in addrs}
  IN With(IF t.k = "ptr" THEN words ELSE {w % IntMask(Carrier(t)) : w \in words}, LAMBDA ws :
  With(IF bf = <<>> THEN ws ELSE {FieldWord(w, bf, t) : w \in ws}, LAMBDA r :
    IF \E a \in addrs : ~S!ValidAddr(st.mem, a) THEN Stop(st, "ub")
    ELSE IF "volatile" \in t.q THEN UNION {Event(st, <<"vload", a % ObjSize>>, r) : a \in addrs}
    ELSE Ok(st, r)))

Assign(st, addrs, t, bf, ws) ==
  LET cell(a) == IF bf = <<>> THEN ws
                 ELSE {WithField(w % IntMask(Carrier(t)), x, bf)
                         : w \in st.mem[S!ObjOf(a)][S!CellOf(a)], x \in ws}
      put(a) == [st EXCEPT !.mem[S!ObjOf(a)][S!CellOf(a)] = cell(a)]
  IN With(IF bf = <<>> THEN ws ELSE {FieldWord(x, <<0, bf[2], bf[3]>>, t) : x \in ws}, LAMBDA r :
    IF \E a \in addrs : ~S!ValidAddr(st.mem, a) THEN Stop(st, "ub")
    ELSE IF "volatile" \in t.q
    THEN UNION {Event(put(a), <<"vstore", a % ObjSize, w>>, r) : a \in addrs, w \in r}
    ELSE UNION {Ok(put(a), r) : a \in addrs})

Copy(st, dsts, srcs, t) ==
  LET ok(a) == S!ValidAddr(st.mem, a) /\ S!ValidAddr(st.mem, a + Cells(t) - 1)
      put(a, q) == [st EXCEPT !.mem[S!ObjOf(a)] = [c \in DOMAIN @ |->
                      IF c \in S!CellOf(a)..(S!CellOf(a) + Cells(t) - 1)
                      THEN st.mem[S!ObjOf(q)][S!CellOf(q) + c - S!CellOf(a)] ELSE @[c]]]
  IN IF \E a \in dsts \cup srcs : ~ok(a) THEN Stop(st, "ub")
     ELSE UNION {Ok(put(a, q), dsts) : a \in dsts, q \in srcs}

\* Words x op y for every pair, undefined when one of the pairs is.
Combine(st, op, xs, ys, k) ==
  With({Arith(op, x, y, k) : x \in xs, y \in ys}, LAMBDA rs :
    IF {} \in rs THEN Stop(st, "ub") ELSE Ok(st, UNION rs))

Step(ps, ns, it, pt, sign) ==
  {p + sign * Number(n, it.k) * Cells(pt.b[1]) : p \in ps, n \in ns}

Call(G, st, fn, args, ret) ==
  LET p == G.protos[fn]
      passed == {S!ObjOf(q) : q \in {w \in UNION {args[j] : j \in DOMAIN args} : w >= ObjSize}}
  IN With(S!VisibleFrom(st.mem, (1..G.globals) \cup (passed \cap DOMAIN st.mem)), LAMBDA seen :
  LET hide(ws) == {IF w >= ObjSize THEN ObjSize ELSE w : w \in ws}
  IN With(S!Picks([j \in DOMAIN args |-> hide(args[j])] \o S!Observed(st.mem, seen)), LAMBDA picks :
  LET after == [st EXCEPT !.mem = S!Clobber(@, seen)]
  IN UNION {IF p.noret THEN Stop([st EXCEPT !.tr = Append(@, <<fn, x>>)], "exit")
            ELSE Event(after, <<fn, x>>, {Len(st.tr) % IntMask("i8")}) : x \in picks}))

\* Addresses of an lvalue (and of an array or structure value).
Addr(G, st, e) ==
  CASE e.k = "id" -> Ok(st, {ObjSize * st.env[e.op]})
    [] e.k = "unary" -> Eval(G, st, e.c[1])
    [] e.k = "member" -> Then(Eval(G, st, e.c[1]),
                           LAMBDA r : Ok(r.st, {a + Member(RType(G, e.c[1]), e.op).off : a \in r.v}))
    [] e.k = "index" ->
         LET lt == Decayed(RType(G, e.c[1]))
             rt == Decayed(RType(G, e.c[2]))
         IN Then(Eval(G, st, e.c[1]), LAMBDA l : Then(Eval(G, l.st, e.c[2]), LAMBDA r :
              Ok(r.st, IF lt.k = "ptr" THEN Step(l.v, r.v, rt, lt, 1) ELSE Step(r.v, l.v, lt, rt, 1))))

EvalAs(G, st, e, t) ==
  Then(Eval(G, st, e), LAMBDA r : Ok(r.st, ConvertW(r.v, Decayed(RType(G, e)), t)))
ArgsOf(G, st, es, ts) ==
  IF es = <<>> THEN Ok(st, <<>>)
  ELSE With(IF ts = <<>> THEN PromType(G, Head(es)) ELSE Head(ts), LAMBDA t :
       LET et == Decayed(RType(G, Head(es)))
       IN Then(EvalAs(G, st, Head(es), IF IsInt(et) THEN t ELSE et), LAMBDA r :
            Then(EvalArgs(G, r.st, Tail(es), IF ts = <<>> THEN ts ELSE Tail(ts)), LAMBDA q :
              Ok(q.st, <<r.v>> \o q.v))))

\* The branches a truth value may take.
Branch(r, Yes(_), No(_)) ==
  (IF r.v # {0} THEN Yes(r) ELSE {}) \cup (IF 0 \in r.v THEN No(r) ELSE {})

\* x op= y, ++ and --: `old` is what the expression's value is taken from when post.
Update(G, st, e, op, rhs, post) ==
  LET l == e.c[1]
      t == RType(G, l)
  IN With(BitField(G, l), LAMBDA bf :
  With(PromType(G, l), LAMBDA pl :
  With(PromType(G, rhs), LAMBDA pr :
  With(IF op \in {"<<", ">>"} THEN pl.k ELSE Common(pl.k, pr.k), LAMBDA k :
  LET rt == Decayed(RType(G, rhs))
  IN Then(Addr(G, st, l), LAMBDA a : Then(Eval(G, a.st, rhs), LAMBDA y :
     Then(Fetch(y.st, a.v, t, bf), LAMBDA x :
     Then(IF t.k = "ptr" THEN Ok(x.st, Step(x.v, y.v, rt, t, IF op = "-" THEN -1 ELSE 1))
          ELSE Combine(x.st, op, ConvertW(x.v, t, Ty(k)), ConvertW(y.v, rt, Ty(k)), k), LAMBDA z :
     Then(Assign(z.st, a.v, t, bf, IF t.k = "ptr" THEN z.v ELSE ConvertW(z.v, Ty(k), t)), LAMBDA w :
       Ok(w.st, IF post THEN x.v ELSE w.v))))))))))

ValueOf(G, st, e) ==
  LET t == RType(G, e)
      lt == Decayed(RType(G, e.c[1]))
      rt == Decayed(RType(G, e.c[2]))
      agg == t.k \in {"array", "struct"}
  IN With(Common(PromType(G, e.c[1]).k, PromType(G, e.c[2]).k), LAMBDA pk :
  LET truth(b) == {IF b THEN 1 ELSE 0}
      block == e.c[1]
  IN CASE e.k = "int" -> Ok(st, {e.n % IntMask(Carrier(t))})
       [] e.k \in {"id", "member", "index"} ->
            IF agg THEN Addr(G, st, e)
            ELSE Then(Addr(G, st, e), LAMBDA a : Fetch(a.st, a.v, t, BitField(G, e)))
       [] e.k = "cast" -> IF t.k = "void" THEN Eval(G, st, e.c[1]) ELSE EvalAs(G, st, e.c[1], t)
       [] e.k = "sizeof" -> Ok(st, {Cells(RType(G, e.c[1]))})
       [] e.k = "call" -> Then(EvalArgs(G, st, e.c, IF G.protos[e.op].proto THEN G.protos[e.op].params ELSE <<>>),
                               LAMBDA r : Call(G, r.st, e.op, r.v, t))
       [] e.k = "assign" ->
            Then(Addr(G, st, e.c[1]), LAMBDA a : Then(Eval(G, a.st, e.c[2]), LAMBDA r :
              IF agg THEN Copy(r.st, a.v, r.v, t)
              ELSE Assign(r.st, a.v, RType(G, e.c[1]), BitField(G, e.c[1]), ConvertW(r.v, rt, t))))
       [] e.k = "assignop" -> Update(G, st, e, e.op, e.c[2], FALSE)
       [] e.k = "postfix" -> Update(G, st, e, IF e.op = "++" THEN "+" ELSE "-", Lit(1), TRUE)
       [] e.k = "unary" ->
           (CASE e.op = "&" -> Addr(G, st, e.c[1])
              [] e.op = "*" -> IF agg THEN Eval(G, st, e.c[1])
                               ELSE Then(Eval(G, st, e.c[1]), LAMBDA a : Fetch(a.st, a.v, t, <<>>))
              [] e.op \in {"++", "--"} -> Update(G, st, e, IF e.op = "++" THEN "+" ELSE "-", Lit(1), FALSE)
              [] e.op = "!" -> Then(Eval(G, st, e.c[1]), LAMBDA r : Ok(r.st, {IF w = 0 THEN 1 ELSE 0 : w \in r.v}))
              [] e.op = "+" -> EvalAs(G, st, e.c[1], t)
              [] e.op = "-" -> Then(EvalAs(G, st, e.c[1], t), LAMBDA r : Combine(r.st, "-", {0}, r.v, t.k))
              [] e.op = "~" -> Then(EvalAs(G, st, e.c[1], t), LAMBDA r :
                                 Ok(r.st, {IntMask(Carrier(t)) - 1 - w : w \in r.v})))
       [] e.k = "binary" /\ e.op = "&&" ->
            Then(Eval(G, st, e.c[1]), LAMBDA l : Branch(l,
              LAMBDA x : Then(Eval(G, x.st, e.c[2]), LAMBDA r : Ok(r.st, {IF w = 0 THEN 0 ELSE 1 : w \in r.v})),
              LAMBDA x : Ok(x.st, {0})))
       [] e.k = "binary" /\ e.op = "||" ->
            Then(Eval(G, st, e.c[1]), LAMBDA l : Branch(l, LAMBDA x : Ok(x.st, {1}),
              LAMBDA x : Then(Eval(G, x.st, e.c[2]), LAMBDA r : Ok(r.st, {IF w = 0 THEN 0 ELSE 1 : w \in r.v}))))
       [] e.k = "binary" ->
            Then(Eval(G, st, e.c[1]), LAMBDA l : Then(Eval(G, l.st, e.c[2]), LAMBDA r :
              CASE e.op = "," -> Ok(r.st, r.v)
                [] e.op \in {"<", ">", "<=", ">=", "==", "!="} /\ IsInt(lt) /\ IsInt(rt) ->
                     Ok(r.st, UNION {truth(Compare(e.op, Number(x, pk), Number(y, pk)))
                                : x \in ConvertW(l.v, lt, Ty(pk)), y \in ConvertW(r.v, rt, Ty(pk))})
                [] e.op \in {"<", ">", "<=", ">=", "==", "!="} ->
                     Ok(r.st, UNION {truth(Compare(e.op, x, y)) : x \in l.v, y \in r.v})
                [] lt.k = "ptr" -> Ok(r.st, Step(l.v, r.v, rt, lt, IF e.op = "-" THEN -1 ELSE 1))
                [] rt.k = "ptr" -> Ok(r.st, Step(r.v, l.v, lt, rt, 1))
                [] e.op \in {"<<", ">>"} ->       \* the count keeps its own type
                     With({IF Number(y, rt.k) \in 0..(Width(t.k) - 1)
                           THEN Arith(e.op, x, y, t.k) ELSE {} : x \in ConvertW(l.v, lt, t), y \in r.v}, LAMBDA rs :
                       IF {} \in rs THEN Stop(r.st, "ub") ELSE Ok(r.st, UNION rs))
                [] OTHER -> Combine(r.st, e.op, ConvertW(l.v, lt, t), ConvertW(r.v, rt, t), t.k)))
       [] e.k = "cond" -> Then(Eval(G, st, e.c[1]), LAMBDA c : Branch(c,
            LAMBDA r : IF t.k = "void" THEN Eval(G, r.st, e.c[2]) ELSE EvalAs(G, r.st, e.c[2], t),
            LAMBDA r : IF t.k = "void" THEN Eval(G, r.st, e.c[3]) ELSE EvalAs(G, r.st, e.c[3], t)))
       [] e.k = "elvis" -> Then(Eval(G, st, e.c[1]), LAMBDA c : Branch(c,
            LAMBDA r : Ok(r.st, ConvertW(r.v, lt, t)), LAMBDA r : EvalAs(G, r.st, e.c[2], t)))
       [] e.k = "stmtexpr" -> Run(G, st, block, <<>>))

(***************************************************************************)
(* Statements.  seek # <<>> looks for a label or case inside the statement *)
(* and runs on from there.                                                 *)
(***************************************************************************)
RECURSIVE Holds(_, _)
Holds(s, seek) ==
  \/ s.k = "label" /\ seek[1] = "label" /\ s.op = seek[2]
  \/ s.k = "case" /\ seek[1] = "case" /\ s.n = seek[2]
  \/ s.k = "default" /\ seek[1] = "default"
  \/ s.k \notin {"expr", "decl", "return"} /\ ~(s.k = "switch" /\ seek[1] # "label")
       /\ \E i \in DOMAIN s.c : Holds(s.c[i], seek)

RECURSIVE CasesIn(_)
CasesIn(s) ==
  (IF s.k = "case" THEN {s.n} ELSE {})
    \cup (IF s.k \in {"expr", "decl", "return", "switch"} THEN {} ELSE UNION {CasesIn(s.c[i]) : i \in DOMAIN s.c})

\* Calls of the cleanups of the declarations ds, last one first.
RECURSIVE Cleanups(_, _, _)
Cleanups(G, st, ds) ==
  IF ds = <<>> THEN Ok(st, {})
  ELSE LET d == ds[Len(ds)]
           rest == SubSeq(ds, 1, Len(ds) - 1)
       IN IF d.k # "decl" \/ d.bf = <<>> THEN Cleanups(G, st, rest)
          ELSE Then(Call(G, st, d.bf[1], <<{ObjSize * st.env[d.op]}>>, VoidT),
                    LAMBDA r : Cleanups(G, r.st, rest))

\* Control leaves a scope with declarations ds by the result r.
Exit(G, r, ds) ==
  IF r.out # "" /\ r.out \notin Leaves THEN {r}
  ELSE UNION {IF c.out = "" THEN {[r EXCEPT !.st = c.st]} ELSE {c} : c \in Cleanups(G, r.st, ds)}

Tick(st) == [st EXCEPT !.jumps = @ + 1]

\* Items i.. of a compound; a goto into it is followed here.
RECURSIVE Items(_, _, _, _, _)
Items(G, st, ss, i, seek) ==
  IF i > Len(ss) THEN UNION {Exit(G, r, ss) : r \in Ok(st, {})}
  ELSE UNION {
    LET target == {j \in DOMAIN ss : Holds(ss[j], <<"label", r.to>>)}
        j == CHOOSE x \in target : TRUE
    IN CASE r.out = "" /\ i = Len(ss) -> Exit(G, r, ss)
         [] r.out = "" -> Items(G, r.st, ss, i + 1, <<>>)
         [] r.out = "goto" /\ target # {} ->
              IF r.st.jumps > MaxJumps THEN Stop(r.st, "run")
              ELSE Then(Cleanups(G, r.st, IF j <= i THEN SubSeq(ss, j, i) ELSE <<>>),
                        LAMBDA c : Items(G, Tick(c.st), ss, j, <<"label", r.to>>))
         [] OTHER -> Exit(G, r, SubSeq(ss, 1, i - 1))
    : r \in Run(G, st, ss[i], seek)}

\* One round of a loop: `at` is where it starts, the test, the step or the body (with
\* what to seek there).  "again" marks a result that goes around once more.
Round(G, st, s, at) ==
  LET cond == IF s.k = "do" THEN s.c[2] ELSE IF s.k = "while" THEN s.c[1] ELSE s.c[2]
      body == IF s.k = "do" THEN s.c[1] ELSE IF s.k = "while" THEN s.c[2] ELSE s.c[4]
      after(rs) == UNION {CASE r.out = "break" -> Ok(r.st, {})
                            [] r.out \in {"", "continue"} -> Leave(Tick(r.st), {}, "again", "")
                            [] OTHER -> {r} : r \in rs}
      more(r) == after(Run(G, r.st, body, <<>>))
      done(r) == Ok(r.st, {})
      step == IF at = <<"step">> /\ s.k = "for" /\ s.c[3].k # "none" THEN Eval(G, st, s.c[3]) ELSE Ok(st, {})
  IN CASE st.jumps > MaxJumps -> Stop(st, "run")
       [] at \in {<<"test">>, <<"step">>} ->
            IF cond.k = "none" THEN Then(step, more)
            ELSE Then(step, LAMBDA x : Then(Eval(G, x.st, cond), LAMBDA r : Branch(r, more, done)))
       [] OTHER -> after(Run(G, st, body, at[2]))

\* 2^k rounds.
RECURSIVE Rounds(_, _, _, _)
Rounds(G, rs, s, k) ==
  IF \A r \in rs : r.out # "again" THEN rs
  ELSE IF k = 0 THEN UNION {IF r.out = "again" THEN Round(G, r.st, s, <<"step">>) ELSE {r} : r \in rs}
  ELSE UNION {Rounds(G, half, s, k - 1) : half \in {Rounds(G, rs, s, k - 1)}}

Loop(G, st, s, at) == Rounds(G, Round(G, st, s, at), s, 8)

\* An object without an initializer, or re-entered, holds any word.
Declare(G, st, s) ==
  LET o == st.env[s.op]
      blank == [st EXCEPT !.mem[o] = [i \in DOMAIN @ |-> S!Words("i32")]]
      t == Plain(s.t)
  IN IF s.c = <<>> THEN Ok(blank, {})
     ELSE IF t.k = "struct" THEN Then(Eval(G, blank, s.c[1]), LAMBDA r : Copy(r.st, {ObjSize * o}, r.v, t))
     ELSE Then(EvalAs(G, blank, s.c[1], t), LAMBDA r : Assign(r.st, {ObjSize * o}, s.t, <<>>, r.v))

RunStmt(G, st, s, seek) ==
  LET inside == seek # <<>>
      sub(i) == inside /\ Holds(s.c[i], seek)
  IN CASE s.k = "none" -> Ok(st, {})
       [] s.k \in {"compound", "neutral"} ->
            IF inside THEN Items(G, st, s.c, CHOOSE i \in DOMAIN s.c : sub(i), seek)
            ELSE IF s.c = <<>> THEN Ok(st, {}) ELSE Items(G, st, s.c, 1, <<>>)
       [] s.k = "decl" -> Declare(G, st, s)
       [] s.k = "expr" -> Eval(G, st, s.c[1])
       [] s.k \in {"label", "case", "default"} ->
            Run(G, st, s.c[1], IF inside /\ Holds(s.c[1], seek) THEN seek ELSE <<>>)
       [] s.k = "if" ->
            IF inside THEN Run(G, st, s.c[CHOOSE i \in 2..Len(s.c) : sub(i)], seek)
            ELSE Then(Eval(G, st, s.c[1]), LAMBDA r : Branch(r, LAMBDA x : Run(G, x.st, s.c[2], <<>>),
                   LAMBDA x : IF Len(s.c) = 3 THEN Run(G, x.st, s.c[3], <<>>) ELSE Ok(x.st, {})))
       [] s.k \in {"while", "do"} ->
            Loop(G, st, s, IF inside THEN <<"body", seek>> ELSE IF s.k = "do" THEN <<"body", <<>>>> ELSE <<"test">>)
       [] s.k = "for" ->
            UNION {Exit(G, r, <<s.c[1]>>) : r \in
              IF inside THEN Loop(G, st, s, <<"body", seek>>)
              ELSE Then(Run(G, st, s.c[1], <<>>), LAMBDA r : Loop(G, r.st, s, <<"test">>))}
       [] s.k = "switch" ->
            With(PromType(G, s.c[1]).k, LAMBDA k :
            LET num(n) == Number(WordOf(n, k), k)
                hit(w) == {c \in CasesIn(s.c[2]) : Number(w, k) \in num(c[1])..num(c[2])}
                go(w) == IF hit(w) # {} THEN <<"case", CHOOSE c \in hit(w) : TRUE>> ELSE <<"default">>
                from(x, at) == IF Holds(s.c[2], at) THEN Run(G, x, s.c[2], at) ELSE Ok(x, {})
            IN With(IF inside THEN Run(G, st, s.c[2], seek)
                    ELSE Then(EvalAs(G, st, s.c[1], Ty(k)), LAMBDA r :
                           UNION {from(r.st, go(w)) : w \in r.v}), LAMBDA rs :
              {IF r.out = "break" THEN [r EXCEPT !.out = ""] ELSE r : r \in rs}))
       [] s.k = "goto" -> Leave(st, {}, "goto", s.op)
       [] s.k \in {"break", "continue"} -> Leave(st, {}, s.k, "")
       [] s.k = "return" ->
            IF s.c = <<>> THEN Leave(st, {0}, "return", "")
            ELSE Then(EvalAs(G, st, s.c[1], G.ret), LAMBDA r : Leave(r.st, r.v, "return", ""))

Sem(what, G, a, b, c) ==
  CASE what = "type" -> TypeOfExpr(G, a)
    [] what = "eval" -> ValueOf(G, a, b)
    [] what = "args" -> ArgsOf(G, a, b, c)
    [] what = "run" -> RunStmt(G, a, b, c)

(***************************************************************************)
(* A program on argument words.                                            *)
(***************************************************************************)
RECURSIVE DeclsIn(_)
DeclsIn(s) ==
  Fold(LAMBDA acc, x : acc \o DeclsIn(x), IF s.k = "decl" THEN <<<<s.op, s.t>>>> ELSE <<>>, s.c)

Meaning(p, args) ==
  With(DeclsIn(p.body), LAMBDA locals :
  LET names == p.globals \o p.params \o locals
      G == [vars |-> [x \in {names[i][1] : i \in DOMAIN names} |->
                        names[CHOOSE i \in DOMAIN names : names[i][1] = x][2]],
            protos |-> p.protos, ret |-> p.ret, globals |-> Len(p.globals)]
      np == Len(p.globals) + Len(p.params)
  IN With([mem |-> Evaluated([i \in DOMAIN names |-> Evaluated([c \in 1..Cells(names[i][2]) |->
                      IF i <= Len(p.globals) THEN {0} ELSE IF i <= np THEN {args[i - Len(p.globals)]}
                      ELSE S!Words("i32")])]),
           env |-> [x \in DOMAIN G.vars |-> CHOOSE i \in DOMAIN names : names[i][1] = x],
           tr |-> <<>>, jumps |-> 0], LAMBDA st :
  LET final(r) == IF r.out \notin {"", "return"} THEN {S!Outcome(r.st.tr, r.out)}
                  ELSE {S!Outcome(Append(r.st.tr, <<"ret", x>>), "ret")
                          : x \in S!Picks(<<IF r.out = "" THEN {0} ELSE r.v>>
                                            \o S!Observed(r.st.mem, 1..Len(p.globals)))}
  IN UNION {final(r) : r \in Run(G, st, p.body, <<>>)}))
=============================================================================
