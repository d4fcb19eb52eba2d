---------------------------- MODULE CallAbi ----------------------------
(* Where the arguments of a call travel.  The plans of lower/abi.c, the two
   places that turn a plan into IR operands (the call site in lower/expr.c and
   the function entry in lower/lower.c), the register walks of the two
   backends on the caller's and on the callee's side, and va_start / va_arg. *)
EXTENDS Layout

---------------------------------------------------------------------------
\* Argument and return plans.  The width of an integer leaf is not kept: every
\* general-register leaf is I64.

lower_is_aggregate(t) == t.kind \in Records \cup {"array", "int128"}
lower_irtype(tg, k) ==
  CASE k = "float" -> "F32"
    [] k = "double" -> "F64"
    [] k = "float128" -> "F128"
    [] k = "ldouble" -> (CASE ldbl_kind(tg) = "x87" -> "F80" [] ldbl_kind(tg) = "ieee128" -> "F128" [] OTHER -> "F64")
    [] OTHER -> "I64"
eightbyte_irtype(c) == IF c = "INTEGER" THEN "I64" ELSE "F64"
sysv_whole_f128(c) == c = <<"SSE", "SSEUP">>
sysv_whole_f80(c) == c = <<"X87", "X87UP">>
IrBytes(t) == IF t = "F128" THEN 16 ELSE IF t = "F32" THEN 4 ELSE 8

Plan(kind, ts, l) ==
  [kind |-> kind, t |-> ts, size |-> l.size, align |-> l.align, aapcs |-> 0, stack |-> 0, even |-> FALSE]

aapcs_composite_arg_align(tg, t) ==
  With(layout_of(tg, Part(t)), LAMBDA l :
    With(IF t.kind \in Records THEN l.natural ELSE l.align, LAMBDA a : IF a > 8 THEN 16 ELSE a))

classify_arg_aapcs64(tg, t) ==
  With(layout_of(tg, t), LAMBDA l : With(layout_is_hfa(tg, t), LAMBDA h :
    With(lower_irtype(tg, h.base), LAMBDA leaf :
    IF h.ok THEN [Plan("HFA", [j \in 1..h.n |-> leaf], l) EXCEPT !.aapcs = IrBytes(leaf)]
    ELSE [IF l.size <= 16 THEN Plan("EIGHTBYTES", [j \in 1..(IF l.size > 8 THEN 2 ELSE 1) |-> "I64"], l)
                          ELSE Plan("BYVAL", <<>>, l) EXCEPT !.aapcs = aapcs_composite_arg_align(tg, t)])))

abi_classify_arg(tg, t) ==
  IF ~lower_is_aggregate(t) THEN Plan("SCALAR", <<lower_irtype(tg, t.kind)>>, [size |-> 0, align |-> 0])
  ELSE IF tg # X86 THEN classify_arg_aapcs64(tg, t)
  ELSE With(layout_of(tg, t), LAMBDA l : With(layout_classify_sysv(tg, t), LAMBDA c :
         CASE c = Memory \/ sysv_whole_f80(c) -> Plan("BYVAL", <<>>, l)
           [] sysv_whole_f128(c) -> Plan("EIGHTBYTES", <<"F128">>, l)
           [] OTHER -> Plan("EIGHTBYTES", [j \in DOMAIN c |-> eightbyte_irtype(c[j])], l)))

\* A return: its kind and the register classes that carry it.
Ret(kind, ts) == [kind |-> kind, t |-> ts]

classify_ret_aapcs64(tg, t) ==
  With(layout_of(tg, t).size, LAMBDA size : With(layout_is_hfa(tg, t), LAMBDA h :
    CASE t.kind = "void" -> Ret("VOID", <<>>)
      [] ~lower_is_aggregate(t) -> Ret("SCALAR", <<lower_irtype(tg, t.kind)>>)
      [] h.ok -> Ret("HFA", [j \in 1..h.n |-> lower_irtype(tg, h.base)])
      [] size <= 8 -> Ret("SMALL", <<"I64">>)
      [] size <= 16 -> Ret("PAIR", <<"I64", "I64">>)
      [] OTHER -> Ret("SRET", <<>>)))

abi_classify_ret(tg, t) ==
  CASE tg # X86 -> classify_ret_aapcs64(tg, t)
    [] t.kind = "void" -> Ret("VOID", <<>>)
    [] ~lower_is_aggregate(t) -> Ret("SCALAR", <<lower_irtype(tg, t.kind)>>)
    [] OTHER -> With(layout_classify_sysv(tg, t), LAMBDA c :
                  CASE c = Memory -> Ret("SRET", <<>>)
                    [] sysv_whole_f80(c) -> Ret("SMALL", <<"F80">>)
                    [] sysv_whole_f128(c) -> Ret("SMALL", <<"F128">>)
                    [] Len(c) = 1 -> Ret("SMALL", <<eightbyte_irtype(c[1])>>)
                    [] OTHER -> Ret("PAIR", <<eightbyte_irtype(c[1]), eightbyte_irtype(c[2])>>))

---------------------------------------------------------------------------
\* The register budget of one call: general and floating registers spent.

abi_budget_init(tg, ret) == [gp |-> IF ret.kind = "SRET" /\ tg = X86 THEN 1 ELSE 0, fp |-> 0]
IsFp(t) == t \in {"F32", "F64", "F128"}
Count(ts, fp) == Cardinality({j \in DOMAIN ts : IsFp(ts[j]) = fp})

abi_replan_as_eightbytes(a, fpBank) ==
  With(Larger(1, (a.size + 7) \div 8), LAMBDA n :
    [a EXCEPT !.kind = "STACK", !.t = [j \in 1..n |-> IF fpBank THEN "F64" ELSE "I64"]])

Spent(b, gp, fp) == [gp |-> b.gp + gp, fp |-> b.fp + fp]
Placed(a, b) == [a |-> a, b |-> b]

\* An aggregate that wants registers: all of them, or the stack.
Fit(tg, a, b0) ==
  LET needGp == IF a.kind = "HFA" THEN 0 ELSE Count(a.t, FALSE)
      needFp == IF a.kind = "HFA" THEN Len(a.t) ELSE Count(a.t, TRUE)
      even == tg = ArmLinux /\ needGp # 0 /\ a.kind = "EIGHTBYTES" /\ a.aapcs = 16 /\ b0.gp % 2 = 1
      b == IF even THEN Spent(b0, 1, 0) ELSE b0
      boundary == IF tg = ArmLinux THEN a.aapcs ELSE a.align
      stacked == [a EXCEPT !.even = even, !.stack = IF boundary > 8 THEN boundary ELSE 0]
  IN CASE b.gp + needGp <= (IF tg = X86 THEN 6 ELSE 8) /\ b.fp + needFp <= 8 ->
            Placed([a EXCEPT !.even = even], Spent(b, needGp, needFp))
       [] tg = X86 -> Placed([stacked EXCEPT !.kind = "STACK"], b)
       [] OTHER -> Placed(abi_replan_as_eightbytes(stacked, needFp # 0),
                          [gp |-> IF needGp # 0 THEN 8 ELSE b.gp, fp |-> IF needFp # 0 THEN 8 ELSE b.fp])

abi_arg_place(tg, a, b, anon) ==
  CASE anon /\ tg = ArmMacos /\ a.kind \in {"EIGHTBYTES", "HFA"} ->
         Placed(abi_replan_as_eightbytes([a EXCEPT !.stack = IF a.align >= 16 THEN a.align ELSE 0], FALSE), b)
    [] a.kind = "SCALAR" -> Placed(a, CASE IsFp(a.t[1]) -> Spent(b, 0, 1) [] a.t[1] = "F80" -> b [] OTHER -> Spent(b, 1, 0))
    [] a.kind = "BYVAL" ->
         IF tg = X86 THEN Placed([a EXCEPT !.stack = IF a.align > 8 THEN a.align ELSE 0], b) ELSE Placed(a, Spent(b, 1, 0))
    [] OTHER -> Fit(tg, a, b)

---------------------------------------------------------------------------
\* IR operands: a leaf is [t, size, byval, even, sal, onstack, anon].

Leaf(t) == [t |-> t, size |-> IrBytes(t), byval |-> FALSE, even |-> FALSE, sal |-> 0, onstack |-> FALSE, anon |-> FALSE]
Stacked(plan) == plan.kind = "STACK"
Spread(tg, plan) == plan.kind \in {"EIGHTBYTES", "HFA"} \/ (Stacked(plan) /\ tg # X86)

\* The operands of one argument at the call site.
lower_call_arg(tg, plan, scalar, anon) ==
  With(CASE plan.kind = "SCALAR" -> <<[Leaf(plan.t[1]) EXCEPT !.size = scalar]>>
         [] Spread(tg, plan) -> [k \in DOMAIN plan.t |-> Leaf(plan.t[k])]
         [] OTHER -> <<[Leaf("I64") EXCEPT !.size = plan.size, !.byval = TRUE]>>, LAMBDA ls :
    [k \in DOMAIN ls |->
       [ls[k] EXCEPT !.even = k = 1 /\ plan.even /\ ~Stacked(plan), !.sal = IF k = 1 THEN plan.stack ELSE 0,
                     !.onstack = Stacked(plan), !.anon = anon]])

\* The parameters one named argument becomes at the function's entry.
lower_param(tg, plan, scalar) ==
  CASE plan.kind = "SCALAR" -> <<[Leaf(plan.t[1]) EXCEPT !.size = scalar]>>
    [] Spread(tg, plan) ->
         [k \in DOMAIN plan.t |->
            [Leaf(plan.t[k]) EXCEPT !.even = k = 1 /\ plan.even /\ ~Stacked(plan),
                                    !.sal = IF k = 1 /\ Stacked(plan) THEN plan.stack ELSE 0, !.onstack = Stacked(plan)]]
    [] OTHER -> <<[Leaf("I64") EXCEPT !.size = plan.size, !.byval = TRUE, !.sal = plan.stack, !.onstack = Stacked(plan)]>>

---------------------------------------------------------------------------
\* Register walks.  A place is <<"gp", n>>, <<"fp", n>> or <<"st", offset>>.

Walk0 == [gp |-> 0, fp |-> 0, st |-> 0, at |-> <<>>]
InGp(w) == [w EXCEPT !.gp = @ + 1, !.at = Append(@, <<"gp", w.gp>>)]
InFp(w) == [w EXCEPT !.fp = @ + 1, !.at = Append(@, <<"fp", w.fp>>)]
OnStack(w, align, bytes) ==
  With(align_up(w.st, align), LAMBDA off : [w EXCEPT !.st = off + bytes, !.at = Append(@, <<"st", off>>)])

\* x86-64: one walk for the caller's operands and for the callee's parameters.
X64Step(w, l) ==
  CASE l.byval -> OnStack(w, Larger(l.sal, 1), align_up(l.size, 8))
    [] l.t = "F80" -> OnStack(w, 16, 16)
    [] l.t = "F128" -> IF w.fp < 8 THEN InFp(w) ELSE OnStack(w, 16, 16)
    [] l.t \in {"F32", "F64"} -> IF w.fp < 8 THEN InFp(w) ELSE OnStack(w, 1, 8)
    [] OTHER -> IF w.gp < 6 THEN InGp(w) ELSE OnStack(w, 1, 8)

A64Slot(apple, l) ==
  IF apple /\ ~l.anon THEN (IF l.byval THEN 8 ELSE l.size) ELSE IF l.t = "F128" THEN 16 ELSE 8
A64Stack(w, apple, l) == With(A64Slot(apple, l), LAMBDA s : OnStack([w EXCEPT !.st = align_up(@, l.sal)], s, s))
Pin(w, fp) == IF fp THEN [w EXCEPT !.fp = 8] ELSE [w EXCEPT !.gp = 8]
A64Queue(w, apple, l) ==
  CASE IsFp(l.t) /\ w.fp < 8 -> InFp(w)
    [] ~IsFp(l.t) /\ w.gp < 8 -> InGp(w)
    [] OTHER -> A64Stack(w, apple, l)

\* arm64, the caller's side.
marshal_call(apple, w, l) ==
  CASE ~apple /\ l.even -> With([w EXCEPT !.gp = align_up(@, 2)], LAMBDA v : IF v.gp < 8 THEN InGp(v) ELSE A64Stack(Pin(v, FALSE), apple, l))
    [] l.onstack -> A64Stack(Pin(w, IsFp(l.t)), apple, l)
    [] apple /\ l.anon -> A64Stack(w, apple, l)
    [] OTHER -> A64Queue(w, apple, l)

\* arm64, the callee's side.
MutBindParams(apple, w, l) == A64Queue(w, apple, l)
bind_params(apple, w, l) ==
  With(IF ~apple /\ l.even THEN [w EXCEPT !.gp = align_up(@, 2)] ELSE w, LAMBDA v :
    IF l.onstack THEN A64Stack(Pin(v, IsFp(l.t)), apple, l) ELSE A64Queue(v, apple, l))

\* A large result's hidden pointer: rdi on x86-64, x8 (outside the queue) on
\* arm64.
Hidden(tg, ret) == IF tg = X86 /\ ret.kind = "SRET" THEN [Walk0 EXCEPT !.gp = 1] ELSE Walk0

\* What lowering knows of an argument's type before it places it.
Typed(tg, t) == [plan |-> abi_classify_arg(tg, t), l |-> layout_of(tg, t), agg |-> lower_is_aggregate(t)]

TypedAll(tg, ts) == Fold(LAMBDA s, t : Append(s, Typed(tg, t)), <<>>, ts)

\* The call site: plan, lower and place every argument in order.
CallerStep(tg, s, a, anon) ==
  With(abi_arg_place(tg, a.plan, s.b, anon), LAMBDA r :
    With(Fold(LAMBDA w, l : IF tg = X86 THEN X64Step(w, l) ELSE marshal_call(tg = ArmMacos, w, l),
                  [s.w EXCEPT !.at = <<>>], lower_call_arg(tg, r.a, a.l.size, anon)), LAMBDA w :
      [b |-> r.b, w |-> w, places |-> Append(s.places, w.at)]))

lower_call(tg, ret, args, named) ==
  Fold(LAMBDA s, j : CallerStep(tg, s, args[j], j > named),
           [b |-> abi_budget_init(tg, ret), w |-> Hidden(tg, ret), places |-> <<>>], [j \in DOMAIN args |-> j])

\* The function's entry: the same for its named parameters.
CalleeStep(tg, s, a) ==
  With(abi_arg_place(tg, a.plan, s.b, FALSE), LAMBDA r :
    With(Fold(LAMBDA w, l : IF tg = X86 THEN X64Step(w, l) ELSE bind_params(tg = ArmMacos, w, l),
                  [s.w EXCEPT !.at = <<>>], lower_param(tg, r.a, a.l.size)), LAMBDA w :
      [b |-> r.b, w |-> w, places |-> Append(s.places, w.at)]))

lower_function(tg, ret, params) ==
  Fold(LAMBDA s, a : CalleeStep(tg, s, a),
           [b |-> abi_budget_init(tg, ret), w |-> Hidden(tg, ret), places |-> <<>>], params)

---------------------------------------------------------------------------
\* va_start and va_arg.  A va_list is [gp, fp, st]: the next register of each
\* save area (the byte offsets of the record divided by the slot size) and the
\* overflow cursor.

lower_va_builtin(tg, entry) ==
  [gp |-> Smaller(entry.b.gp, IF tg = X86 THEN 6 ELSE 8), fp |-> Smaller(entry.b.fp, 8),
   st |-> IF tg = X86 THEN entry.w.st ELSE align_up(entry.w.st, 8)]

Regs(bank, from, n) == [k \in 1..n |-> <<bank, from + k - 1>>]
Read(ap, at) == [ap |-> ap, at |-> at]
Overflow(ap, align, slot) ==
  With(align_up(ap.st, align), LAMBDA off : Read([ap EXCEPT !.st = off + slot], <<<<"st", off>>>>))

\* The places of a plan's leaves, counted on from those already read.
Gathered(ts, ap) ==
  LET rank(k, fp) == Cardinality({j \in 1..(k - 1) : IsFp(ts[j]) = fp})
  IN [k \in DOMAIN ts |-> IF IsFp(ts[k]) THEN <<"fp", ap.fp + rank(k, TRUE)>> ELSE <<"gp", ap.gp + rank(k, FALSE)>>]

lower_va_arg(a, ap) ==
  LET ngp == IF a.plan.kind = "BYVAL" \/ a.plan.t = <<"F80">> THEN 0 ELSE Count(a.plan.t, FALSE)
      nfp == IF a.plan.kind = "BYVAL" THEN 0 ELSE Count(a.plan.t, TRUE)
  IN IF ngp + nfp > 0 /\ (ngp > 0 => ap.gp + ngp <= 6) /\ (nfp > 0 => ap.fp + nfp <= 8)
     THEN Read([ap EXCEPT !.gp = @ + ngp, !.fp = @ + nfp], Gathered(a.plan.t, ap))
     ELSE Overflow(ap, IF a.l.align > 8 THEN a.l.align ELSE 1, align_up(a.l.size, 8))

\* The slot of an object on the stack, for the two arm64 lists.
ArmOverflow(ap, indirect, boundary, size) ==
  CASE indirect -> Overflow(ap, 1, 8)
    [] ~indirect /\ boundary > 8 -> Overflow(ap, boundary, align_up(size, boundary))
    [] OTHER -> Overflow(ap, 1, align_up(size, 8))

\* An argument that would cross the end of the save area is on the stack.
lower_va_arg_aapcs64(a, ap) ==
  LET fpPath == a.plan.kind = "HFA" \/ (a.plan.kind = "SCALAR" /\ IsFp(a.plan.t[1]))
      indirect == a.plan.kind = "BYVAL"
      n == IF indirect THEN 1 ELSE Len(a.plan.t)
      gp == IF a.plan.kind = "EIGHTBYTES" /\ a.plan.aapcs = 16 THEN align_up(ap.gp, 2) ELSE ap.gp
  IN CASE fpPath /\ ap.fp < 8 /\ ap.fp + n <= 8 -> Read([ap EXCEPT !.fp = @ + n], Regs("fp", ap.fp, n))
       [] ~fpPath /\ gp < 8 /\ gp + n <= 8 -> Read([ap EXCEPT !.gp = gp + n], Regs("gp", gp, n))
       [] OTHER -> ArmOverflow(ap, indirect, IF a.agg THEN a.plan.aapcs ELSE a.l.align, a.l.size)

lower_va_arg_apple(a, ap) == ArmOverflow(ap, a.agg /\ a.plan.kind = "BYVAL", a.l.align, a.l.size)

Fetched(tg, entry, anons) ==
  Fold(LAMBDA s, a :
             With(CASE tg = ArmMacos -> lower_va_arg_apple(a, s.ap)
                    [] tg = ArmLinux -> lower_va_arg_aapcs64(a, s.ap)
                    [] OTHER -> lower_va_arg(a, s.ap), LAMBDA r :
               [ap |-> r.ap, places |-> Append(s.places, r.at)]),
           [ap |-> lower_va_builtin(tg, entry), places |-> <<>>], anons).places

---------------------------------------------------------------------------
\* What the psABIs promise.

Word(n) == [k \in 1..n |-> "gp"]
Vector(n) == [k \in 1..n |-> "fp"]

\* The registers an argument asks for; none means memory.
Asks(tg, t, size, ss, hom) ==
  CASE tg = X86 /\ t.kind = "ldouble" -> <<>>
    [] ~lower_is_aggregate(t) -> IF t.kind \in Floats THEN Vector(1) ELSE Word(1)
    [] tg = X86 -> With(PsabiClasses(size, ss), LAMBDA c :
                     CASE c = <<"X87", "X87UP">> -> <<>>
                       [] c = <<"SSE", "SSEUP">> -> Vector(1)
                       [] OTHER -> [k \in DOMAIN c |-> IF c[k] = "INTEGER" THEN "gp" ELSE "fp"])
    [] OTHER -> IF hom THEN Vector(Cardinality({s.from : s \in ss}))
                ELSE IF size > 16 THEN Word(1) ELSE Word((size + 7) \div 8)

\* An argument as the psABI describes it: the registers it asks for, whether
\* an even one must come first, and its stack slot, which holds the object or,
\* for a large AAPCS64 composite, its address.
Asked(tg, t) ==
  With(layout_of(tg, t), LAMBDA own : With(Scalars(tg, t, 0), LAMBDA ss : With(Homogeneous(tg, t, own.size, ss), LAMBDA hom :
    LET agg == lower_is_aggregate(t)
        natural == IF t.kind \in Records THEN own.natural ELSE own.align
        direct == tg = X86 \/ ~agg \/ hom \/ own.size <= 16
        packed == tg = ArmMacos /\ ~agg
    IN [ask |-> Asks(tg, t, own.size, ss, hom),
        even |-> tg = ArmLinux /\ agg /\ natural > 8 /\ ~hom /\ own.size <= 16,
        align |-> CASE ~direct -> 8
                    [] packed -> own.align
                    [] tg = ArmLinux -> IF natural > 8 THEN 16 ELSE 8
                    [] OTHER -> Larger(8, own.align),
        bytes |-> CASE ~direct -> 8 [] packed -> own.size [] OTHER -> align_up(own.size, 8)])))

\* All of an argument in registers or all of it on the stack; AAPCS64 then
\* closes the bank that ran out.  Apple's anonymous arguments are all on the
\* stack, in eightbyte slots.
Promise(tg, s, a, anon) ==
  LET want(bank) == Cardinality({k \in DOMAIN a.ask : a.ask[k] = bank})
      gp == IF a.even THEN align_up(s.gp, 2) ELSE s.gp
      apple == anon /\ tg = ArmMacos
      room == /\ a.ask # <<>> /\ ~apple
              /\ want("gp") > 0 => gp + want("gp") <= (IF tg = X86 THEN 6 ELSE 8)
              /\ want("fp") > 0 => s.fp + want("fp") <= 8
      before(k) == Cardinality({j \in 1..(k - 1) : a.ask[j] = a.ask[k]})
      off == align_up(s.st, IF apple THEN Larger(8, a.align) ELSE a.align)
      closed(bank, n) == IF tg # X86 /\ ~apple /\ want(bank) > 0 THEN 8 ELSE n
  IN IF room
     THEN [s EXCEPT !.gp = IF want("gp") > 0 THEN gp + want("gp") ELSE @, !.fp = @ + want("fp"),
                    !.places = Append(@, [k \in DOMAIN a.ask |-> <<a.ask[k], (IF a.ask[k] = "gp" THEN gp ELSE s.fp) + before(k)>>])]
     ELSE [gp |-> closed("gp", s.gp), fp |-> closed("fp", s.fp), st |-> off + (IF apple THEN align_up(a.bytes, 8) ELSE a.bytes),
           places |-> Append(s.places, <<<<"st", off>>>>)]

Promised(tg, hidden, args, named) ==
  Fold(LAMBDA s, j : Promise(tg, s, args[j], j > named),
           [gp |-> hidden, fp |-> 0, st |-> 0, places |-> <<>>], [j \in DOMAIN args |-> j]).places

\* The leaves of an argument on the stack follow one another.
Whole(places) ==
  IF places[1][1] = "st"
  THEN IF \A k \in DOMAIN places : places[k] = <<"st", places[1][2] + 8 * (k - 1)>> THEN <<places[1]>> ELSE <<>>
  ELSE places

Agreed(tg, named, args, asked, ret) ==
  With(lower_call(tg, ret, args, named).places, LAMBDA caller :
    With(lower_function(tg, ret, SubSeq(args, 1, named)), LAMBDA entry :
      /\ Promised(tg, Hidden(tg, ret).gp, asked, named) = [j \in DOMAIN args |-> Whole(caller[j])]
      /\ \A j \in 1..named : entry.places[j] = caller[j]
      /\ With(Fetched(tg, entry, SubSeq(args, named + 1, Len(args))), LAMBDA read :
           \A j \in DOMAIN read :
             /\ read[j] = Whole(caller[named + j])
             /\ \A k \in DOMAIN read[j] : read[j][k][1] = "gp" => read[j][k][2] >= entry.w.gp)))

\* Every argument of a call is put where the platform's psABI promises it; the
\* function's entry looks for each named parameter, and va_arg for each
\* anonymous argument, exactly where the call put it, in a register its
\* prologue saved.
CallsAgree(c, ret, args) ==
  Agreed(c.tg, c.named, args, Fold(LAMBDA s, t : Append(s, Asked(c.tg, t)), <<>>, c.args), ret)

=============================================================================
