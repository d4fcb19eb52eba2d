-------------------------- MODULE Interprocedural ---------------------------
(***************************************************************************)
(* The passes over the call graph.                                         *)
(***************************************************************************)
EXTENDS Ir

(***************************************************************************)
(* The call graph and the interprocedural pass (src/opt/ipo.c): bottom-up  *)
(* over the strongly connected components, a static function whose every   *)
(* call is known loses the parameters it does not use or always gets as    *)
(* one constant, and a result nobody looks at; then functions nobody calls *)
(* are deleted.  A function's attrs hold its linkage ("static") and what   *)
(* keeps it as it is: "owner" (an ownership contract), "variadic",         *)
(* "unproto", and the references from outside the code, "used", "ctor",    *)
(* "dtor", "alias" and "reloc".                                            *)
(***************************************************************************)
IsCallOf(m, in) == in.op = "call" /\ in.sub \in DOMAIN m.funcs
\* The direct calls as <<caller, block, position>>.
CallsOf(m, callee) ==
  UNION {{<<k, p[1], p[2]>> : p \in {q \in AllInsts(m.funcs[k]) : InstAt(m.funcs[k], q).op = "call"
                                                                 /\ InstAt(m.funcs[k], q).sub = callee}}
           : k \in DOMAIN m.funcs}
CallAt(m, s) == m.funcs[s[1]].blocks[s[2]].insts[s[3]]

Callees(m, k) == {InstAt(m.funcs[k], p).sub : p \in {q \in AllInsts(m.funcs[k]) : IsCallOf(m, InstAt(m.funcs[k], q))}}
address_taken(m, k) == m.funcs[k].attrs \cap {"used", "ctor", "dtor", "alias", "reloc"} # {}

\* Depth-first postorder over the functions in module order.
RECURSIVE tarjan_visit(_, _, _)
tarjan_visit(m, acc, k) ==
  IF k \in acc.seen THEN acc
  ELSE LET next == SelectSeq(m.order, LAMBDA w : w \in Callees(m, k))
       IN With(Fold(LAMBDA a, w : tarjan_visit(m, a, w), [acc EXCEPT !.seen = @ \cup {k}], next), LAMBDA done :
         [done EXCEPT !.post = Append(@, k)])

RECURSIVE CallReach(_, _)
CallReach(m, ks) == LET next == ks \cup UNION {Callees(m, k) : k \in ks}
                    IN IF next = ks THEN ks ELSE CallReach(m, next)
scc_of(m, k) == {k} \cup {w \in DOMAIN m.funcs : w \in CallReach(m, Callees(m, k)) /\ k \in CallReach(m, Callees(m, w))}
recursive_node(m, k) == Cardinality(scc_of(m, k)) > 1 \/ k \in Callees(m, k)

\* Every component after the components it calls; its members in module order.
bottom_up(m) ==
  With(Fold(LAMBDA a, k : tarjan_visit(m, a, k), [seen |-> {}, post |-> <<>>], m.order).post, LAMBDA post :
  LET at(k) == CHOOSE i \in DOMAIN post : post[i] = k
      root(k) == Max({at(w) : w \in scc_of(m, k)})
      pos(k) == CHOOSE i \in DOMAIN m.order : m.order[i] = k
  IN Sorted(DOMAIN m.funcs, LAMBDA x, y : Lex(<<root(x), pos(x)>>, <<root(y), pos(y)>>)))

linkage_allows_ipo(m, k) == "owner" \notin m.funcs[k].attrs /\ "static" \in m.funcs[k].attrs

OperandsOf(in) == ToSet(in.ops) \cup UNION {ToSet(in.edges[e].args) : e \in DOMAIN in.edges}
func_uses_value(f, v) == \E p \in AllInsts(f) : V(v, f.vals[v]) \in OperandsOf(InstAt(f, p))

has_unprototyped_call(m, k) == \E s \in CallsOf(m, k) : "unproto" \in CallAt(m, s).fl

MapCalls(m, callee, op(_)) ==
  [m EXCEPT !.funcs = [k \in DOMAIN @ |-> [@[k] EXCEPT !.blocks = [b \in DOMAIN @ |->
     [@[b] EXCEPT !.insts = [i \in DOMAIN @ |-> IF @[i].op = "call" /\ @[i].sub = callee THEN op(@[i]) ELSE @[i]]]]]]]

drop_func_arg(m, k, a) ==
  MapCalls([m EXCEPT !.funcs[k].params = RemoveAt(@, a)], k, LAMBDA in : [in EXCEPT !.ops = RemoveAt(@, a)])

\* The one constant every call passes for parameter a, or <<>>.
all_calls_constant(m, k, a) ==
  LET args == {CallAt(m, s).ops[a] : s \in CallsOf(m, k)}
  IN IF Cardinality(args) = 1 /\ \A o \in args : IsC(o) THEN <<CHOOSE o \in args : TRUE>> ELSE <<>>

ignored(m, s) == CallAt(m, s).res = 0 \/ ~func_uses_value(m.funcs[s[1]], CallAt(m, s).res)
all_call_results_ignored(m, k) == CallsOf(m, k) # {} /\ \A s \in CallsOf(m, k) : ignored(m, s)

voidify(m, k) ==
  LET ret(in) == IF in.op = "ret" THEN [in EXCEPT !.ops = <<>>] ELSE in
      f == [m.funcs[k] EXCEPT !.ret = "void",
              !.blocks = [b \in DOMAIN @ |-> [@[b] EXCEPT !.insts = [i \in DOMAIN @ |-> ret(@[i])]]]]
  IN MapCalls([m EXCEPT !.funcs[k] = f], k, LAMBDA in : [in EXCEPT !.res = 0])

\* One function: its parameters last to first, then its result.
Specialize(m, k) ==
  LET param(x, a) == LET v == x.funcs[k].params[a]
                     IN With(all_calls_constant(x, k, a), LAMBDA c :
                       IF ~func_uses_value(x.funcs[k], v) THEN drop_func_arg(x, k, a)
                       ELSE IF c = <<>> THEN x
                       ELSE drop_func_arg([x EXCEPT !.funcs[k] = RewriteUses(@, [y \in {v} |-> c[1]])], k, a))
      n == Len(m.funcs[k].params)
  IN With(Fold(param, m, [i \in 1..n |-> n + 1 - i]), LAMBDA y :
  With(\/ ~linkage_allows_ipo(m, k) \/ address_taken(m, k)
       \/ m.funcs[k].attrs \cap {"variadic", "unproto"} # {}
       \/ has_unprototyped_call(m, k), LAMBDA fixed :
    IF fixed THEN m
    ELSE IF y.funcs[k].ret # "void" /\ all_call_results_ignored(y, k) THEN voidify(y, k) ELSE y))

Keep(m, ks) == [m EXCEPT !.order = SelectSeq(@, LAMBDA k : k \in ks), !.funcs = [k \in ks |-> @[k]]]
eliminate_dead_functions(m) ==
  Keep(m, {k \in DOMAIN m.funcs : ~linkage_allows_ipo(m, k) \/ address_taken(m, k) \/ CallsOf(m, k) # {}})

opt_ipo(m) ==
  With(eliminate_dead_functions(Fold(Specialize, m, bottom_up(m))), LAMBDA x :
    IF x = m THEN m ELSE [x EXCEPT !.funcs = [k \in DOMAIN @ |-> ir_func_renumber(@[k])]])

(***************************************************************************)
(* The inliner (src/opt/inline.c).  Functions are visited bottom-up; in    *)
(* each, the first eligible call is replaced by a copy of its callee and   *)
(* the scan starts again.  always_inline callees are expanded whatever     *)
(* their size; what an always_inline call cannot be expanded for is an     *)
(* error.  The facts about the module (recursion, number of direct calls)  *)
(* are those of the start of the pass, the counts maintained; m.growth     *)
(* holds what is left of each function's budget.                           *)
(***************************************************************************)
INL_MIN_GROWTH_BUDGET == 128
INL_MAX_CALLER_INSTS == 512

\* A cycle of calls to always_inline functions through k.
RECURSIVE ForcedReach(_, _)
ForcedReach(m, ks) ==
  LET next == ks \cup {w \in UNION {Callees(m, k) : k \in ks} : "always_inline" \in m.funcs[w].attrs}
  IN IF next = ks THEN ks ELSE ForcedReach(m, next)
force_recursive_node(m, k) ==
  "always_inline" \in m.funcs[k].attrs
  /\ k \in UNION {Callees(m, w) : w \in ForcedReach(m, {k})}

\* scan_func_facts.
Count(f, op) == Cardinality({p \in AllInsts(f) : InstAt(f, p).op = op})
InstCount(f) == Cardinality(AllInsts(f))
has_dynamic_alloca(f) == \E p \in AllInsts(f) : InstAt(f, p).op = "alloca" /\ ~IsC(InstAt(f, p).ops[1])
control_params(f) ==
  {i \in DOMAIN f.params : \E b \in BlockIds(f) :
     LET t == Terminator(f.blocks[b])
     IN t.op \in {"condbr", "switch"} /\ t.ops[1] = V(f.params[i], f.vals[f.params[i]])}
func_facts(m) ==
  [k \in DOMAIN m.funcs |-> [recursive |-> recursive_node(m, k), forced |-> force_recursive_node(m, k),
                             scc |-> scc_of(m, k)]]

growth_budget(n) ==
  IF n >= INL_MAX_CALLER_INSTS THEN 0 ELSE Min({Max({n, INL_MIN_GROWTH_BUDGET}), INL_MAX_CALLER_INSTS - n})

RECURSIVE BlocksAfter(_, _)
BlocksAfter(f, bs) == LET next == bs \cup UNION {Succs(f, b) : b \in bs}
                      IN IF next = bs THEN bs ELSE BlocksAfter(f, next)
block_in_loop(f, b) == b \in BlocksAfter(f, Succs(f, b))

call_matches_unprototyped_body(call, f) ==
  Len(call.ops) = Len(f.params) /\ \A i \in DOMAIN call.ops : TypeOf(call.ops[i]) = f.vals[f.params[i]]

\* The reasons that hold for always_inline callees too (and are errors then).
Unsafe(m, facts, s) ==
  LET call == CallAt(m, s)
      callee == m.funcs[call.sub]
      forced == "always_inline" \in callee.attrs
  IN \/ "owner" \in callee.attrs
     \/ {"variadic", "va_start"} \subseteq callee.attrs
     \/ /\ "unproto" \in callee.attrs \cup call.fl
        /\ ~forced \/ ~call_matches_unprototyped_body(call, callee)
     \/ m.funcs[s[1]].setjmp \/ callee.setjmp
     \/ Count(callee, "ret") = 0
     \/ IF forced THEN facts[call.sub].forced
        ELSE facts[call.sub].recursive \/ facts[s[1]].scc = facts[call.sub].scc
     \/ /\ IF forced THEN has_dynamic_alloca(callee) ELSE Count(callee, "alloca") > 0
        /\ block_in_loop(m.funcs[s[1]], s[2])

\* The size test of an ordinary call.
Affordable(m, calls, s, cfg) ==
  LET call == CallAt(m, s)
      callee == m.funcs[call.sub]
      base == IF "static" \in callee.attrs /\ calls[call.sub] = 1 /\ ~address_taken(m, call.sub)
              THEN cfg.inline * 4 ELSE cfg.inline
  IN With({i \in DOMAIN callee.params \cap DOMAIN call.ops :
             Kind(call.ops[i]) \notin {"v", "u"} /\ i \in control_params(callee)}, LAMBDA known :
    /\ InstCount(callee) <= base + (IF cfg.level = "Os" THEN 5 ELSE 10) * Cardinality(known)
    /\ InstCount(callee) <= m.growth[s[1]])

eligible(m, facts, calls, s, cfg) ==
  /\ ~Unsafe(m, facts, s)
  /\ "always_inline" \in m.funcs[CallAt(m, s).sub].attrs \/ Affordable(m, calls, s, cfg)

\* inline_site: the callee's blocks are appended, its values renamed to fresh ones and
\* its parameters to the arguments.  What follows the call continues at the only
\* return, or in a join block that takes the result.
inline_site(caller, callee, s) ==
  LET call == caller.blocks[s[2]].insts[s[3]]
      returns == Count(callee, "ret")
      nb == Len(caller.blocks)
      nv == Len(caller.vals)
      to(v) == nv + v
      param(v) == IF \E i \in DOMAIN callee.params : callee.params[i] = v
                  THEN call.ops[CHOOSE i \in DOMAIN callee.params : callee.params[i] = v]
                  ELSE V(to(v), callee.vals[v])
      sub(o) == IF IsV(o) THEN param(o[2]) ELSE o
      joinv == nv + Len(callee.vals) + 1
      typed == call.res # 0
      join == nb + Len(callee.blocks) + 1
      suffix == SubSeq(caller.blocks[s[2]].insts, s[3] + 1, Len(caller.blocks[s[2]].insts))
      clone(in) == IF in.op = "ret"
                   THEN Term("br", <<>>, <<Edge(join, IF in.ops = <<>> THEN <<>> ELSE <<sub(in.ops[1])>>, 0)>>, {})
                   ELSE [in EXCEPT !.res = IF @ = 0 THEN 0 ELSE to(@), !.ops = [i \in DOMAIN @ |-> sub(@[i])],
                           !.edges = [e \in DOMAIN @ |-> [@[e] EXCEPT !.to = nb + @, !.args = [i \in DOMAIN @ |-> sub(@[i])]]]]
      body(blk) == LET ins == [i \in DOMAIN blk.insts |-> clone(blk.insts[i])]
                   IN IF returns = 1 /\ Terminator(blk).op = "ret" THEN Front(ins) \o suffix ELSE ins
  IN With([b \in DOMAIN callee.blocks |->
             [params |-> [i \in DOMAIN callee.blocks[b].params |-> to(callee.blocks[b].params[i])],
              insts |-> body(callee.blocks[b])]], LAMBDA copies :
  LET cont == [params |-> IF typed THEN <<joinv>> ELSE <<>>, insts |-> suffix]
      rets == {b \in DOMAIN callee.blocks : Terminator(callee.blocks[b]).op = "ret"}
      only == Terminator(callee.blocks[CHOOSE b \in rets : TRUE])
  IN With(IF returns > 1 THEN V(joinv, caller.vals[call.res]) ELSE sub(only.ops[1]), LAMBDA result :
  LET gate == Append(SubSeq(caller.blocks[s[2]].insts, 1, s[3] - 1), Term("br", <<>>, <<Edge(nb + 1, <<>>, 0)>>, {}))
  IN With([caller EXCEPT
             !.vals = @ \o callee.vals \o (IF returns > 1 /\ typed THEN <<caller.vals[call.res]>> ELSE <<>>),
             !.slots = @ \cup {to(v) : v \in callee.slots},
             !.blocks = [@ EXCEPT ![s[2]].insts = gate] \o copies \o (IF returns > 1 THEN <<cont>> ELSE <<>>)], LAMBDA f :
    IF typed THEN RewriteUses(f, [v \in {call.res} |-> result]) ELSE f)))

\* The fixed point in one function: c = [m, calls, n (sites expanded)].
RECURSIVE InlineAll(_, _, _, _, _)
InlineAll(c, facts, k, forcedOnly, cfg) ==
  LET m == c.m
      inlinable(in) == IsCallOf(m, in) /\ (forcedOnly => "always_inline" \in m.funcs[in.sub].attrs)
  IN With({s \in {<<k, p[1], p[2]>> : p \in AllInsts(m.funcs[k])} :
             inlinable(CallAt(m, s)) /\ eligible(m, facts, c.calls, s, cfg)}, LAMBDA sites :
  LET s == CHOOSE x \in sites : \A y \in sites : y = x \/ Lex(<<x[2], x[3]>>, <<y[2], y[3]>>)
      callee == CallAt(m, s).sub
      cloned(w) == Cardinality({p \in AllInsts(m.funcs[callee]) :
                                  InstAt(m.funcs[callee], p).op = "call" /\ InstAt(m.funcs[callee], p).sub = w})
  IN With(IF "always_inline" \in m.funcs[callee].attrs THEN 0 ELSE InstCount(m.funcs[callee]), LAMBDA cost :
  With([m |-> [m EXCEPT !.funcs[k] = inline_site(@, m.funcs[callee], s),
                       !.growth = [w \in DOMAIN @ |-> IF w = k THEN @[w] - cost ELSE @[w]]],
        calls |-> [w \in DOMAIN c.calls |-> c.calls[w] - (IF w = callee THEN 1 ELSE 0) + cloned(w)],
        n |-> c.n + 1], LAMBDA after :
    IF sites = {} THEN c ELSE CHOOSE r \in {InlineAll(x, facts, k, forcedOnly, cfg) : x \in {after}} : TRUE)))

run_inline(m, forcedOnly, cfg) ==
  With(func_facts(m), LAMBDA facts :
  LET budgeted(x, k) == IF forcedOnly \/ k \in DOMAIN x.growth THEN x
                        ELSE [x EXCEPT !.growth = Put(@, k, growth_budget(InstCount(x.funcs[k])))]
      visit(c, k) == With(InlineAll([c EXCEPT !.m = budgeted(@, k), !.n = 0], facts, k, forcedOnly, cfg), LAMBDA d :
                       IF d.n = 0 THEN d
                       ELSE [d EXCEPT !.m.funcs[k] = ir_func_renumber(ir_func_remove_unreachable(@))])
      calls == [k \in DOMAIN m.funcs |-> Cardinality(CallsOf(m, k))]
  IN Fold(visit, [m |-> m, calls |-> calls, n |-> 0], bottom_up(m)).m)

opt_inline(m, cfg) == run_inline(m, FALSE, cfg)
opt_force_inline(m, cfg) == run_inline(m, TRUE, cfg)

\* A call of an always_inline function that is left was reported as an error.
ForcedCallLeft(m) == \E k \in DOMAIN m.funcs : "always_inline" \in m.funcs[k].attrs /\ CallsOf(m, k) # {}

\* opt_strip_inline_only: nothing when a call of such a function is left (an error).
InlineOnly(m) == {k \in DOMAIN m.funcs : {"always_inline", "inline_only"} \subseteq m.funcs[k].attrs}
opt_strip_inline_only(m) ==
  IF \E k \in InlineOnly(m) : CallsOf(m, k) # {} THEN m ELSE Keep(m, DOMAIN m.funcs \ InlineOnly(m))
=============================================================================
