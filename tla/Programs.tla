------------------------------ MODULE Programs ------------------------------
(***************************************************************************)
(* The C programs the lowering and optimizer runs start from.  Each is     *)
(* there for a construct or for a pass; main takes one int, so that one    *)
(* program stands for 2^IntBits executions.  e, g and cl are external: e   *)
(* and cl are events, g returns an unknown word, x does not return.        *)
(***************************************************************************)
EXTENDS CAst

LOCAL Proto(ret, params) == [ret |-> ret, params |-> params, proto |-> TRUE, variadic |-> FALSE, noret |-> FALSE]
LOCAL Protos == [e |-> Proto(VoidT, <<IntT>>), g |-> Proto(IntT, <<>>),
                 cl |-> Proto(VoidT, <<PtrTo(IntT)>>),
                 x |-> [Proto(VoidT, <<>>) EXCEPT !.noret = TRUE],
                 h |-> Proto(IntT, <<IntT, IntT>>), k |-> Proto(IntT, <<IntT>>)]
LOCAL Globals == <<<<"b", ArrayOf(IntT, 2)>>, <<"a", ArrayOf(IntT, 2)>>, <<"gi", IntT>>,
                   <<"gv", Qual(IntT, "volatile")>>>>
Prog(ss) == Program(IntT, <<<<"p", IntT>>>>, Globals, Protos, Block(ss))

UIntT == Ty("uint")
LongT == Ty("long")
LOCAL p == Id("p")
LOCAL vi == Id("i")
LOCAL vj == Id("j")
LOCAL va(n) == Index(Id("a"), n)
LOCAL vb(n) == Index(Id("b"), n)
LOCAL gi == Id("gi")
LOCAL ev(x) == ExprS(CallE("e", <<x>>))
LOCAL set(l, r) == ExprS(Asg(l, r))
LOCAL ret(x) == Return(<<x>>)
LOCAL let(x, y) == Decl(x, IntT, <<y>>)

\* for (t x = from; x rel to; step) body
LOCAL Loop(t, x, from, rel, to, step, ss) ==
  For(Decl(x, t, <<from>>), Bin(rel, Id(x), to), step, Block(ss))
LOCAL UpTo(x, n, ss) == Loop(IntT, x, Lit(0), "<", n, Un("++", Id(x)), ss)

\* Straight-line code: arithmetic, conversions, bit-fields, pointers, cleanups.
Straight == {
  Prog(<<ret(Bin("+", p, Lit(1)))>>),
  Prog(<<set(va(Bin("&", p, Lit(1))), p),
         set(Id("gv"), Bin("&&", p, Bin("||", gi, CallE("g", <<>>)))),
         ret(Elvis(Id("gv"), Lit(3)))>>),
  Prog(<<Decl("i", Ty("uchar"), <<p>>), ExprS(AsgOp("+", vi, Lit(3))), ExprS(AsgOp("<<", vi, Lit(1))),
         ret(StmtE(Block(<<ev(Un("~", vi)), ExprS(Bin("*", Un("-", vi), vi))>>)))>>),
  Prog(<<Decl("s", StructOf(<<Field("b", IntT, 0, 0, 2), Field("c", UIntT, 0, 2, 1), Field("d", IntT, 1, 0, 0)>>, 2), <<>>),
         set(Dot(Id("s"), "b"), p), set(Dot(Id("s"), "c"), Lit(1)),
         ret(Bin("+", Dot(Id("s"), "b"), Dot(Id("s"), "c")))>>),
  Prog(<<set(gi, Lit(1)), set(gi, p), ev(gi), set(gi, Lit(2)), ret(gi)>>),
  Prog(<<Decl("q", PtrTo(IntT), <<Cond(p, Un("&", gi), Id("a"))>>), set(Un("*", Id("q")), Lit(2)),
         set(gi, Lit(1)), ret(Un("*", Id("q")))>>) }

\* Two unsigned operations with constants.
Arith(ops, consts) ==
  {Prog(<<Decl("i", UIntT, <<p>>), ret(Bin(o[1], Bin(o[2], vi, Lit(o[3])), LitOf(o[4], "uint")))>>)
     : o \in ops \X ops \X consts \X consts}

\* One operation on operands of two types, a compound assignment, a step.
Mixed(ops, types) ==
  {Prog(<<Decl("i", Ty(o[2]), <<p>>), ret(Bin(o[1], vi, CastE(Ty(o[3]), Lit(1))))>>) : o \in ops \X types \X types}
Updates(ops, types) ==
  {Prog(<<Decl("i", Ty(o[2]), <<p>>), ev(AsgOp(o[1], vi, CastE(Ty(o[3]), Lit(2)))), ret(vi)>>)
     : o \in ops \X types \X types}
Steps(types) ==
  {Prog(<<Decl("i", Ty(t), <<Bin("&", p, Lit(1))>>), ev(Post("++", vi)), ev(Un("--", vi)), ev(Post("--", vi)),
          ret(Un("++", vi))>>) : t \in types}

\* Branches.
Branches == {
  Prog(<<IfElse(Bin(">", p, Lit(1)), ev(Bin("^", p, Lit(1))), Block(<<ev(Lit(2)), ev(Bin("^", p, Lit(1)))>>)), ret(Lit(0))>>),
  Prog(<<Switch(p, Block(<<Case(0, 0, ev(Lit(1))), Case(1, 3, Block(<<ev(Lit(2)), Break>>)), Default(ev(Lit(3)))>>)),
         ret(Lit(0))>>),
  Prog(<<If(p, Block(<<DeclClean("i", IntT, <<p>>, "cl"), If(Bin("==", vi, Lit(1)), ret(vi)),
                       If(Bin("==", vi, Lit(2)), Goto("out")), ev(vi)>>)),
         Label("out", ev(Lit(1))), ret(Lit(0))>>),
  Prog(<<let("i", Cond(p, Lit(1), Lit(0))), IfElse(vi, ev(Lit(1)), ev(Lit(2))), If(vi, ev(Lit(3))), ret(vi)>>),
  Prog(<<let("i", Lit(0)), IfElse(p, set(vi, Lit(1)), ev(Lit(2))), If(Bin("==", vi, Lit(1)), ev(Lit(3))), ret(vi)>>),
  Prog(<<If(Bin("&&", Bin(">", p, Lit(0)), Bin("<", p, Lit(3))), set(gi, p)),
         If(Bin("==", p, Lit(3)), ExprS(CallE("x", <<>>))), ret(gi)>>),
  Prog(<<If(p, ev(Lit(1))), If(p, ev(Lit(2))), set(gi, p), ret(vb(Lit(1)))>>) }

\* One GNU case range: 1 when p is in it, 0 otherwise.
RangeSwitch(lo, hi) == Prog(<<Switch(p, Block(<<Case(lo, hi, ret(Lit(1)))>>)), ret(Lit(0))>>)

\* One loop.
Loops == {
  Prog(<<UpTo("i", Bin("&", p, Lit(3)), <<ev(gi)>>), ret(gi)>>),
  Prog(<<let("i", Lit(0)), While(Bin("<", vi, p), Block(<<ev(vi), ExprS(Post("++", vi))>>)), ret(vi)>>),
  Prog(<<Loop(UIntT, "i", Lit(0), "<", Lit(3), Un("++", vi),
              <<If(Bin("==", vi, p), Continue), IfElse(Bin("==", vi, Lit(2)), Break, ev(vi))>>), ret(Lit(2))>>),
  Prog(<<Decl("q", PtrTo(IntT), <<Id("a")>>), set(Un("*", Post("++", Id("q"))), Lit(2)),
         set(Un("*", Id("q")), Index(Id("q"), Un("-", Lit(1)))),
         Decl("i", UIntT, <<p>>), Do(ExprS(Un("--", vi)), Bin(">", vi, LitOf(1, "uint"))), ret(vi)>>),
  Prog(<<UpTo("i", Lit(2), <<set(va(vi), Bin("^", p, vi))>>), ret(Bin("^", va(Lit(0)), va(Lit(1))))>>),
  Prog(<<UpTo("i", Lit(2), <<If(Bin("<", vi, Lit(3)), ev(vi))>>), ret(Lit(2))>>),
  Prog(<<UpTo("i", p, <<set(gi, vi)>>), ret(gi)>>),
  Prog(<<UpTo("i", p, <<Switch(vi, Block(<<Case(0, 0, Continue), Case(1, 1, ev(Lit(1))), Default(Break)>>)),
                        If(Bin("==", vi, Lit(2)), Goto("out"))>>), Label("out", ret(Lit(1)))>>),
  Prog(<<Loop(UIntT, "i", Lit(0), "<", Lit(3), Un("++", vi), <<ev(Bin("*", vi, Lit(3)))>>),
         ret(Bin("/", Bin("|", p, Lit(1)), Bin("|", p, Lit(1))))>>),
  Prog(<<UpTo("i", Lit(2), <<IfElse(Bin("==", p, Lit(2)), ev(Lit(1)), ev(vi))>>), ret(Lit(2))>>),
  Prog(<<Loop(IntT, "i", Lit(3), ">", Lit(0), Un("--", vi), <<set(gi, Bin("^", gi, vi))>>), ret(gi)>>),
  Prog(<<Loop(LongT, "i", Un("-", LitOf(4, "long")), "<", LitOf(6, "long"), Un("++", vi),
              <<set(va(Bin("&", vi, Lit(1))), CastE(IntT, Bin("^", vi, p)))>>), ret(va(Lit(0)))>>),
  Prog(<<Loop(LongT, "i", Un("-", LitOf(4, "long")), "<", LitOf(6, "long"), Un("++", vi),
              <<set(gi, Bin("^", gi, p))>>), ret(gi)>>),
  Prog(<<let("j", Lit(0)), UpTo("i", Bin("&", p, Lit(3)), <<ExprS(AsgOp("^", vj, gi)), set(vb(Lit(0)), vi)>>), ret(vj)>>),
  Prog(<<UpTo("i", Lit(3), <<If(Bin("!=", p, Lit(0)), set(gi, Bin("%", Lit(3), p)))>>), ret(gi)>>) }

\* Jumps into, out of and around scopes and loops.
LOCAL clean(x, y) == DeclClean(x, IntT, <<y>>, "cl")
Jumps == {
  Prog(<<let("i", p), Label("L", ExprS(AsgOp("-", vi, Lit(1)))), ev(vi), If(Bin(">", vi, Lit(0)), Goto("L")),
         ret(Cond(vi, p, Lit(1)))>>),
  Prog(<<let("j", Lit(0)), If(Bin("==", p, Lit(1)), Goto("in")),
         While(Bin("<", vj, Lit(2)), Block(<<ev(vj), Label("in", ExprS(Un("++", vj)))>>)), ret(vj)>>),
  Prog(<<UpTo("i", Lit(2), <<clean("j", vi), If(Bin("==", vi, p), Break), If(p, Continue), ev(vj)>>), ret(Lit(1))>>),
  Prog(<<Block(<<clean("i", Lit(1)), Block(<<clean("j", Lit(2)), Switch(p, Block(<<
           Case(0, 0, Goto("out")), Case(1, 1, Break), Case(2, 3, ret(vj)), Default(ev(vi))>>))>>), ev(Lit(3))>>),
         Label("out", ret(Lit(0)))>>),
  Prog(<<let("j", Lit(2)), Switch(p, Block(<<Case(0, 0, Do(Block(<<ev(vj), Case(1, 1, ExprS(Un("--", vj)))>>),
                                                          Bin(">", vj, Lit(0)))), Default(ev(Lit(3)))>>)), ret(vj)>>),
  Prog(<<Switch(Bin("&", p, Lit(3)), Block(<<ev(Lit(3)), Case(2, 2, Block(<<clean("i", p), Break>>)), Case(1, 1, ev(Lit(1)))>>)),
         ret(Lit(1))>>) }

\* Two loops, one after or inside the other.
LoopPairs == {
  Prog(<<UpTo("i", Lit(2), <<UpTo("j", Lit(2), <<ev(Bin("^", Bin("&", p, Lit(1)), vj))>>)>>), ret(Lit(2))>>),
  Prog(<<Loop(LongT, "i", Lit(0), "<", Lit(2), Un("++", vi), <<set(va(vi), p)>>),
         Loop(LongT, "j", Lit(0), "<", Lit(2), Un("++", vj), <<set(vb(vj), Lit(1))>>),
         ret(Bin("^", va(Lit(1)), vb(Lit(1))))>>),
  Prog(<<Loop(LongT, "i", Lit(0), "<", Lit(2), Un("++", vi), <<set(va(vi), p)>>),
         Loop(LongT, "j", Lit(0), "<", Lit(2), Un("++", vj), <<set(vb(vj), va(vj))>>),
         ret(Bin("^", va(Lit(1)), vb(Lit(1))))>>),
  Prog(<<Loop(LongT, "i", Lit(0), "<", Lit(2), Un("++", vi), <<set(va(vi), p)>>),
         Loop(LongT, "j", Lit(0), "<", Lit(2), Un("++", vj), <<set(vb(vj), va(Bin("-", Lit(1), vj)))>>),
         ret(vb(Lit(0)))>>) }

\* Several functions.
LOCAL WithH(attrs, params, body, ss) == Helper(Prog(ss), "h", attrs, IntT, params, Block(body))
LOCAL HParams == <<<<"y", IntT>>, <<"z", IntT>>>>
LOCAL CallH(y, z) == CallE("h", <<y, z>>)
LOCAL Clamp == <<If(Bin(">", Id("y"), Id("z")), ret(Id("z"))), ret(Id("y"))>>
Modules == {
  WithH({"static"}, HParams, Clamp, <<ret(CallH(p, Lit(2)))>>),
  WithH({"static"}, HParams, <<ev(Id("y")), ret(Id("y"))>>, <<ExprS(CallH(p, gi)), ret(CallH(Lit(1), p))>>),
  WithH({"static"}, HParams, <<ev(Id("z")), ret(Id("y"))>>, <<ExprS(CallH(p, Lit(1))), ExprS(CallH(p, Lit(2))), ret(p)>>),
  WithH({"static"}, HParams, <<If(Id("y"), ev(CallH(Lit(0), Id("z")))), ret(Id("z"))>>, <<ret(CallH(p, p))>>),
  WithH({"always_inline", "static", "inline_only"}, HParams, Clamp,
        <<UpTo("i", Lit(2), <<ev(CallH(vi, p))>>), ret(CallH(p, p))>>),
  WithH({"always_inline", "static", "inline_only"}, HParams, <<If(Id("y"), ret(CallH(Lit(0), Id("z")))), ret(Id("z"))>>,
        <<ret(CallH(p, Lit(1)))>>),
  Helper(WithH({"static"}, HParams, <<set(gi, CallE("k", <<Id("y")>>)), ret(Lit(1))>>,
               <<ExprS(CallH(p, Lit(3))), ret(gi)>>),
         "k", {}, IntT, <<<<"y", IntT>>>>, Block(<<ret(Bin("&", Id("y"), Lit(1)))>>)) }
=============================================================================
