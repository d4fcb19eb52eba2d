----------------------------- MODULE LoopPasses -----------------------------
(***************************************************************************)
(* The passes over single loops.                                           *)
(***************************************************************************)
EXTENDS LoopForest

(***************************************************************************)
(* Strength reduction (src/opt/strength.c): a multiplication of an         *)
(* induction variable by an invariant becomes an accumulator of its own.   *)
(***************************************************************************)
operand_invariant(f, lp, o) ==
  Kind(o) \in {"c", "s"} \/ (IsV(o) /\ DefBlock(f, o[2]) \notin lp.blocks)

NoIv == [iv |-> 0]

\* match_iv: header parameter k is its start plus or minus an invariant each iteration.
match_iv(f, lp, k) ==
  LET h == lp.header
      pre == edge_to(f, lp.pre, h)
      back == edge_to(f, lp.latches[1], h)
      iv == f.blocks[h].params[k]
      t == f.vals[iv]
  IN With(value_inst(f, back[1].args[k]), LAMBDA update :
  LET is(o) == o = V(iv, t)
  IN With(CASE is(update.ops[1]) /\ operand_invariant(f, lp, update.ops[2]) -> update.ops[2]
            [] update.op = "iadd" /\ is(update.ops[2]) /\ operand_invariant(f, lp, update.ops[1]) -> update.ops[1]
            [] OTHER -> NoFold, LAMBDA other :
    IF lp.pre = 0 \/ Len(lp.latches) # 1 THEN NoIv
    ELSE IF pre = <<>> \/ back = <<>> THEN NoIv
    ELSE IF update.op \notin {"iadd", "isub"} THEN NoIv
    ELSE IF DefBlock(f, update.res) # lp.latches[1] \/ other = NoFold THEN NoIv
    ELSE IF ~operand_invariant(f, lp, pre[1].args[k]) THEN NoIv
    ELSE [iv |-> iv, type |-> t, start |-> pre[1].args[k], step |-> other, sub |-> update.op = "isub"]))

\* find_mul: the positions of multiplications of the variable by an invariant.
MulScale(f, lp, m, in) ==
  IF in.ops[1] = V(m.iv, m.type) THEN in.ops[2]
  ELSE IF in.ops[2] = V(m.iv, m.type) THEN in.ops[1] ELSE NoFold

find_mul(f, lp, m) ==
  {p \in AllInsts(f) : /\ p[1] \in lp.blocks /\ InstAt(f, p).op = "imul"
                       /\ MulScale(f, lp, m, InstAt(f, p)) # NoFold
                       /\ operand_invariant(f, lp, MulScale(f, lp, m, InstAt(f, p)))}

\* build_mul: two constants fold at once; c = [f, out, op].
build_mul(c, t, x, y) ==
  LET id == FreshId(c.f)
  IN IF IsC(x) /\ IsC(y) THEN [c EXCEPT !.op = OpC(x[2] * y[2], t)]
     ELSE [f |-> AddVal(c.f, t), out |-> Append(c.out, Inst("imul", "", id, <<x, y>>, {})), op |-> V(id, t)]

Build2(c, op, t, x, y) ==
  LET id == FreshId(c.f)
  IN [f |-> AddVal(c.f, t), out |-> Append(c.out, Inst(op, "", id, <<x, y>>, {})), op |-> V(id, t)]

BeforeTerminator(insts, new) == Front(insts) \o new \o <<Last(insts)>>
WithEdgeArg(in, to, arg) ==
  [in EXCEPT !.edges = [e \in DOMAIN @ |-> IF @[e].to = to THEN [@[e] EXCEPT !.args = Append(@, arg)] ELSE @[e]]]

commit_reduction(f, lp, m, pos) ==
  LET t == m.type
      mul == InstAt(f, pos)
      scale == MulScale(f, lp, m, mul)
  IN With(build_mul([f |-> f, out |-> <<>>, op |-> NoFold], t, m.start, scale), LAMBDA c1 :
  LET c2 == IF m.sub THEN Build2(c1, "isub", t, C(0, t), m.step) ELSE [c1 EXCEPT !.op = m.step]
  IN With(build_mul(c2, t, c2.op, scale), LAMBDA c3 :
  LET accum == V(FreshId(c3.f), t)
  IN With(Build2([f |-> AddVal(c3.f, t), out |-> <<>>, op |-> NoFold], "iadd", t, accum, c3.op), LAMBDA c4 :
  LET latch == lp.latches[1]
      insts(b) == LET old == f.blocks[b].insts
                      i1 == IF b = lp.pre THEN BeforeTerminator(old, c3.out)
                            ELSE IF b = latch THEN BeforeTerminator(old, c4.out) ELSE old
                      arg == IF b = lp.pre THEN c1.op ELSE c4.op
                  IN With(IF b \in {lp.pre, latch} THEN Append(Front(i1), WithEdgeArg(Last(i1), lp.header, arg)) ELSE i1, LAMBDA i2 :
                    SelectSeq(i2, LAMBDA in : in.res # mul.res \/ in.res = 0))
  IN With([c4.f EXCEPT !.blocks = [b \in DOMAIN @ |->
             [params |-> IF b = lp.header THEN Append(@[b].params, accum[2]) ELSE @[b].params,
              insts |-> insts(b)]]], LAMBDA g :
    ir_func_renumber(RewriteUses(g, (mul.res :> accum)))))))

\* One reduction: the first loop and parameter that has one.
strength_function(f) ==
  Strictly(loop_tree_build(f).loops, LAMBDA loops :
  With({x \in UNION {{<<i, k>> : k \in DOMAIN f.blocks[loops[i].header].params} : i \in DOMAIN loops} :
          With(match_iv(f, loops[x[1]], x[2]), LAMBDA m :
            m # NoIv /\ find_mul(f, loops[x[1]], m) # {})}, LAMBDA cands :
  LET first == CHOOSE x \in cands : \A y \in cands : x[1] < y[1] \/ (x[1] = y[1] /\ x[2] <= y[2])
      lp == loops[first[1]]
  IN With(match_iv(f, lp, first[2]), LAMBDA m :
  With(find_mul(f, lp, m), LAMBDA muls :
  LET pos == CHOOSE p \in muls : \A q \in muls : p[1] < q[1] \/ (p[1] = q[1] /\ p[2] <= q[2])
  IN IF loop_tree_build(f).irreducible \/ cands = {} THEN f ELSE commit_reduction(f, lp, m, pos)))))

RECURSIVE ReduceAll(_)
ReduceAll(f) ==
  Strictly(loop_canonicalize(f), LAMBDA g :
  Strictly(strength_function(g), LAMBDA h :
    IF h = g THEN g ELSE ReduceAll(h)))

opt_strength(m) == [m EXCEPT !.funcs = [k \in DOMAIN @ |-> ReduceAll(@[k])]]

(***************************************************************************)
(* Bounds-check elimination (src/opt/bce.c): comparisons inside loops that *)
(* a dominating branch or the induction variable's range decides.          *)
(* Verdicts are "true", "false" and "open".                                *)
(***************************************************************************)
signed_pred(p) == p \in {"slt", "sle", "sgt", "sge"}
Verdict(yes, no) == IF yes THEN "true" ELSE IF no THEN "false" ELSE "open"

\* recurrence_range: <<lo, hi>> of start + k * step for k in first..last, in the
\* predicate's order (signed values biased by the sign bit); <<>> when it would wrap.
recurrence_range(trip, first, last, signed) ==
  LET t == trip.type
      half == 2 ^ (type_bits(t) - 1)
      bits == IF trip.sub THEN (0 - trip.step[2]) % IntMask(t) ELSE trip.step[2] % IntMask(t)
  IN With(Signed(bits, t), LAMBDA step :
  LET start == trip.start[2] % IntMask(t)
      coord == IF signed THEN (start + half) % IntMask(t) ELSE start
      at(k) == coord + k * step
  IN IF ~IsC(trip.start) \/ first > last \/ step = 0 THEN <<>>
     ELSE IF at(first) \notin 0..(IntMask(t) - 1) \/ at(last) \notin 0..(IntMask(t) - 1) THEN <<>>
     ELSE <<Min({at(first), at(last)}), Max({at(first), at(last)})>>)

prove_range(pred, r, constant, t, signed) ==
  LET k == constant % IntMask(t)
      c == IF signed THEN (k + 2 ^ (type_bits(t) - 1)) % IntMask(t) ELSE k
      only == r[1] = r[2] /\ r[1] = c
  IN With(c < r[1] \/ c > r[2], LAMBDA outside :
    CASE pred = "eq" -> Verdict(only, outside)
      [] pred = "ne" -> Verdict(outside, only)
      [] pred \in {"slt", "ult"} -> Verdict(r[2] < c, r[1] >= c)
      [] pred \in {"sle", "ule"} -> Verdict(r[2] <= c, r[1] > c)
      [] pred \in {"sgt", "ugt"} -> Verdict(r[1] > c, r[2] <= c)
      [] OTHER -> Verdict(r[1] >= c, r[2] < c))

ordered_domains_match(a, b) ==
  a \in {"eq", "ne"} \/ b \in {"eq", "ne"} \/ signed_pred(a) = signed_pred(b)

\* fact_proves: what a known comparison of the same operands says of another.
Strict == {"slt", "sgt", "ult", "ugt"}
Loose(p) == CASE p = "slt" -> "sle" [] p = "sgt" -> "sge" [] p = "ult" -> "ule" [] p = "ugt" -> "uge"
fact_proves(fact, wanted) ==
  CASE ~ordered_domains_match(fact, wanted) -> "open"
    [] wanted = fact -> "true"
    [] wanted = invert_pred(fact) -> "false"
    [] fact = "eq" -> Verdict(wanted \in {"sle", "sge", "ule", "uge"}, wanted \in Strict)
    [] fact \in Strict -> Verdict(wanted \in {"ne", Loose(fact)}, wanted \in {"eq", SwapPred(fact)})
    [] OTHER -> "open"

comparison_fact(cond, cand, trueEdge) ==
  LET same == cond.ops = cand.ops
      swapped == cond.ops = <<cand.ops[2], cand.ops[1]>>
      fact == IF same THEN cond.sub ELSE SwapPred(cond.sub)
  IN IF cond.op # "icmp" THEN "open"
     ELSE IF ~same /\ ~swapped THEN "open"
     ELSE fact_proves(IF trueEdge THEN fact ELSE invert_pred(fact), cand.sub)

\* The entry has the caller as a predecessor besides its edges.
unique_predecessor(f, target, p) ==
  /\ target # 1
  /\ {<<b, e>> \in UNION {{<<b, e>> : e \in DOMAIN Edges(f, b)} : b \in BlockIds(f)} :
        Edges(f, b)[e].to = target} \in {{<<p, 1>>}, {<<p, 2>>}}

\* prove_from_dominating_edge: the verdict of the first edge, in block order, that has one.
prove_from_dominating_edge(f, idom, at, cand) ==
  LET verdict(b, e) == LET term == Terminator(f.blocks[b])
                       IN With(value_inst(f, term.ops[1]), LAMBDA cond :
                         IF term.op # "condbr" THEN "open"
                         ELSE IF cond = cand THEN "open"
                         ELSE IF ~unique_predecessor(f, term.edges[e].to, b) \/ ~ir_dominates(idom, term.edges[e].to, at)
                              THEN "open"
                         ELSE comparison_fact(cond, cand, e = 1))
  IN With(Fold(LAMBDA acc, b : acc \o <<<<b, 1>>, <<b, 2>>>>, <<>>, [b \in BlockIds(f) |-> b]), LAMBDA order :
  With(SelectSeq(order, LAMBDA x : verdict(x[1], x[2]) # "open"), LAMBDA known :
    IF known = <<>> THEN "open" ELSE verdict(known[1][1], known[1][2])))

prove_from_trip(trip, in) ==
  LET is(o) == o \in {V(trip.iv, trip.type), V(trip.update, trip.type)}
      var == IF is(in.ops[1]) THEN in.ops[1] ELSE in.ops[2]
      const == IF is(in.ops[1]) THEN in.ops[2] ELSE in.ops[1]
      pred == IF is(in.ops[1]) THEN in.sub ELSE SwapPred(in.sub)
      signed == signed_pred(in.sub)
      first == IF var[2] = trip.update THEN 1 ELSE 0
  IN With(recurrence_range(trip, first, trip.constant - 1 + first, signed), LAMBDA range :
    IF trip.kind # "constant" THEN "open"
    ELSE IF trip.constant = 0 \/ ~is(var) \/ ~IsC(const) THEN "open"
    ELSE IF (signed /\ ~trip.nsw) \/ range = <<>> THEN "open"
    ELSE prove_range(pred, range, const[2], trip.type, signed))

\* run_function: all proofs on the unchanged function, then all replacements.
run_function(f) ==
  With(loop_tree_build(f), LAMBDA tree :
  With([i \in DOMAIN tree.loops |-> loop_trip_analyze(f, tree.loops[i])], LAMBDA trip :
  LET verdict(i, p) == LET in == InstAt(f, p)
                       IN With(prove_from_dominating_edge(f, tree.idom, p[1], in), LAMBDA byEdge :
                         IF trip[i].kind # "unknown" /\ in.res = trip[i].compare THEN "open"
                         ELSE IF byEdge # "open" \/ trip[i].kind = "unknown" THEN byEdge ELSE prove_from_trip(trip[i], in))
      cmps(i) == {p \in AllInsts(f) : p[1] \in tree.loops[i].blocks /\ InstAt(f, p).op = "icmp"}
      proved(p) == {i \in DOMAIN tree.loops : p \in cmps(i) /\ verdict(i, p) # "open"}
  IN With({p \in AllInsts(f) : InstAt(f, p).op = "icmp" /\ proved(p) # {}}, LAMBDA hits :
  LET at(v) == CHOOSE p \in hits : InstAt(f, p).res = v
      gone == {InstAt(f, p).res : p \in hits}
  IN With([v \in gone |-> C(IF verdict(Min(proved(at(v))), at(v)) = "true" THEN 1 ELSE 0, "i32")], LAMBDA sub :
  LET g == [f EXCEPT !.blocks = [b \in DOMAIN @ |->
              [@[b] EXCEPT !.insts = SelectSeq(@, LAMBDA in : in.res \notin gone)]]]
  IN IF hits = {} THEN f ELSE ir_func_renumber(RewriteUses(g, sub))))))

opt_bce(m) == [m EXCEPT !.funcs = [k \in DOMAIN @ |-> run_function(@[k])]]

(***************************************************************************)
(* Loop unrolling (src/opt/unroll.c): a two-block loop with a small        *)
(* constant trip becomes straight code; one of 9 to 12 iterations becomes  *)
(* trip % 4 peeled iterations and a body of four.                          *)
(***************************************************************************)
\* resolve_preheader_constant: through the preheader's parameter, if all agree.
resolve_preheader_constant(f, pre, o) ==
  LET k == ParamIndex(f, pre, o)
      into == UNION {{e \in ToSet(Edges(f, b)) : e.to = pre} : b \in BlockIds(f)}
      args == {e.args[k] : e \in into}
  IN IF IsC(o) THEN o
     ELSE IF ~value_is_param(f, pre, o) THEN NoFold
     ELSE IF Cardinality(args) = 1 /\ \A a \in args : IsC(a) THEN CHOOSE a \in args : TRUE ELSE NoFold

\* trace_header_param: the header parameter under at most four casts, or 0.
RECURSIVE trace_header_param(_, _, _, _)
trace_header_param(f, h, o, depth) ==
  With(value_inst(f, o), LAMBDA in :
    IF depth = 4 THEN 0
    ELSE IF value_is_param(f, h, o) THEN ParamIndex(f, h, o)
    ELSE IF in.op \in {"zext", "sext", "trunc"} THEN trace_header_param(f, h, in.ops[1], depth + 1) ELSE 0)

\* find_recurrence: the update instruction, through one truncation; NoDefinition if none.
find_recurrence(f, h, next, ord) ==
  With(value_inst(f, next), LAMBDA d :
  With(IF d.op = "trunc" THEN value_inst(f, d.ops[1]) ELSE d, LAMBDA in :
    IF in.op \notin {"iadd", "isub"} THEN NoDefinition
    ELSE IF IsC(in.ops[2]) /\ trace_header_param(f, h, in.ops[1], 0) = ord THEN in ELSE NoDefinition))

NoPlan == [ok |-> FALSE, trip |-> 0]

\* The two-block loop shape analyze_full starts from.
PlanShape(f, lp) ==
  /\ Len(lp.exits) = 1 /\ Len(lp.latches) = 1 /\ Cardinality(lp.blocks) = 2 /\ lp.pre # 0
  /\ Terminator(f.blocks[lp.latches[1]]).op = "br"
  /\ LET term == Terminator(f.blocks[lp.header])
     IN term.op = "condbr" /\ IsV(term.ops[1]) /\ term.edges[1].to = lp.latches[1]
        /\ term.edges[2].to \notin lp.blocks

\* analyze_full: the plan and its exact trip, or NoPlan.
analyze_full(f, lp, cfg) ==
  LET h == lp.header
      header == f.blocks[h]
      latch == f.blocks[lp.latches[1]]
      term == Terminator(header)
      pre == Edges(f, lp.pre)[1].args
      back == Terminator(latch).edges[1].args
  IN With(value_inst(f, term.ops[1]), LAMBDA cmp :
  With(trace_header_param(f, h, cmp.ops[1], 0), LAMBDA ord :
  LET direct == value_is_param(f, h, cmp.ops[1])
  IN With(resolve_preheader_constant(f, lp.pre, pre[ord]), LAMBDA start :
  With(find_recurrence(f, h, back[ord], ord), LAMBDA update :
  LET iv == header.params[ord]
      t == f.vals[iv]
      step == IF update.op = "isub" THEN (0 - update.ops[2][2]) % IntMask(t) ELSE update.ops[2][2] % IntMask(t)
      modular == \/ cmp.sub \in {"eq", "ne", "ult", "ule", "ugt", "uge"}
                 \/ "nsw" \notin update.fl \/ ~direct
  IN With(opt_unroll_trip_count(t, cmp.sub, start[2], step, cmp.ops[2][2] % IntMask(t), modular), LAMBDA trip :
  With(\E a \in ToSet(term.edges[2].args) :
         IsV(a) /\ DefBlock(f, a[2]) = h /\ ~value_is_param(f, h, a), LAMBDA exposes :
  LET directUpdate == back[ord] = V(update.res, t) /\ update.ops[1] = V(iv, t)
      cost == Len(header.insts) + Len(latch.insts) - 2
      copies == IF trip <= 8 THEN trip ELSE 4 + (trip % 4)
  IN IF ~PlanShape(f, lp) THEN NoPlan
     ELSE IF loop_trip_analyze(f, lp) = Unknown("trip_wrap") THEN NoPlan
     ELSE IF cmp.op # "icmp" THEN NoPlan
     ELSE IF ord = 0 \/ ~IsC(cmp.ops[2]) \/ exposes THEN NoPlan
     ELSE IF start = NoFold \/ update = NoDefinition THEN NoPlan
     ELSE IF trip = NoTrip THEN NoPlan
     ELSE IF ~direct \/ ~directUpdate \/ Len(header.insts) # 2 THEN [ok |-> FALSE, trip |-> trip]
     ELSE IF trip > 12 \/ copies * cost > cfg.unroll THEN [ok |-> FALSE, trip |-> trip]
     ELSE IF cfg.level = "Os" /\ trip > 1 THEN [ok |-> FALSE, trip |-> trip]
     ELSE IF HasPinned(f, lp.blocks) /\ trip \notin 9..12 THEN [ok |-> FALSE, trip |-> trip]
     ELSE [ok |-> TRUE, trip |-> trip]))))))

substitute(o, map) == IF IsV(o) /\ o[2] \in DOMAIN map THEN map[o[2]] ELSE o
SubstSeq(s, map) == Evaluated([i \in DOMAIN s |-> substitute(s[i], map)])

\* clone_nonterms / clone_range: c = [f, out, map].
clone_inst(c, in) ==
  LET id == FreshId(c.f)
      copy == [in EXCEPT !.res = IF @ = 0 THEN 0 ELSE id, !.ops = SubstSeq(@, c.map)]
  IN IF in.res = 0 THEN [c EXCEPT !.out = Append(@, copy)]
     ELSE LET t == c.f.vals[in.res]
          IN [f |-> AddVal(c.f, t), out |-> Append(c.out, copy), map |-> Put(c.map, in.res, V(id, t))]

\* map_edge_params: the target's parameters become the edge's (substituted) arguments.
map_edge_params(c, params, args) ==
  [c EXCEPT !.map = Over([v \in ToSet(params) |->
     substitute(args[CHOOSE i \in DOMAIN params : params[i] = v], c.map)], @)]

\* One serialized iteration: the given instructions of the header, the latch parameters,
\* the latch body, then the header parameters of the next iteration.
Iteration(f, lp, head, body, c) ==
  LET header == f.blocks[lp.header]
      latch == f.blocks[lp.latches[1]]
      phase(d, k) ==
        CASE k = 1 -> Fold(clone_inst, d, head)
          [] k = 2 -> map_edge_params(d, latch.params, Terminator(header).edges[1].args)
          [] k = 3 -> Fold(clone_inst, d, body)
          [] k = 4 -> map_edge_params(d, header.params, Terminator(latch).edges[1].args)
  IN Fold(phase, c, <<1, 2, 3, 4>>)

Iterations(n, f, lp, head, body, start) ==
  Fold(LAMBDA c, i : Iteration(f, lp, head, body, c), start, [i \in 1..n |-> i])

Seed(f, lp, out, args) == map_edge_params([f |-> f, out |-> out, map |-> <<>>], f.blocks[lp.header].params, args)

commit_full(f, lp, trip) ==
  LET header == f.blocks[lp.header]
      start == Seed(f, lp, Body(f.blocks[lp.pre]), Edges(f, lp.pre)[1].args)
      exit == Terminator(header).edges[2]
      br(c) == Term("br", <<>>, <<Edge(exit.to, SubstSeq(exit.args, c.map), 0)>>, {})
  IN Strictly(Iterations(trip, f, lp, Body(header), Body(f.blocks[lp.latches[1]]), start), LAMBDA c :
       ir_func_remove_unreachable([c.f EXCEPT !.blocks[lp.pre].insts = Append(c.out, br(c))]))

\* commit_partial_four: peeled iterations see the compare as true.
commit_partial_four(f, lp, trip) ==
  LET header == f.blocks[lp.header]
      latch == f.blocks[lp.latches[1]]
      cmp == header.insts[1]
      seed == Seed(f, lp, Body(f.blocks[lp.pre]), Edges(f, lp.pre)[1].args)
      first == [seed EXCEPT !.map = Put(@, cmp.res, C(1, f.vals[cmp.res]))]
      lane0(peel) == Seed(peel.f, lp, Body(latch), Terminator(latch).edges[1].args)
      state(c) == [i \in DOMAIN header.params |-> c.map[header.params[i]]]
      back(c) == Term("br", <<>>, <<Edge(lp.header, state(c), 0)>>, {})
  IN Strictly(Iterations(trip % 4, f, lp, <<>>, Body(latch), first), LAMBDA peel :
     Strictly(Iterations(3, f, lp, <<>>, Body(latch), lane0(peel)), LAMBDA lanes :
       [lanes.f EXCEPT !.blocks[lp.pre].insts = Append(peel.out, back(peel)),
                       !.blocks[lp.latches[1]].insts = Append(lanes.out, back(lanes))]))

\* The loop to unroll next, the deepest whose plan is accepted: a sequence of one
\* [lp, trip], or none.
NextUnroll(f, cfg) ==
  Strictly(loop_tree_build(f), LAMBDA tree :
  Strictly(Evaluated([i \in DOMAIN tree.loops |-> analyze_full(f, tree.loops[i], cfg)]), LAMBDA plan :
  LET ready == {i \in DOMAIN tree.loops : plan[i].ok}
      before(i, j) == \/ tree.loops[i].depth > tree.loops[j].depth
                      \/ tree.loops[i].depth = tree.loops[j].depth /\ i <= j
      best == CHOOSE i \in ready : \A j \in ready : before(i, j)
  IN IF tree.irreducible \/ ready = {} THEN <<>> ELSE <<[lp |-> tree.loops[best], trip |-> plan[best].trip]>>))

\* One more canonical form or one more unrolled loop; the result is [f, more].
UnrollStep(f, cfg) ==
  Strictly(loop_canonicalize(f), LAMBDA g :
  Strictly(IF g = f THEN NextUnroll(f, cfg) ELSE <<>>, LAMBDA next :
    CASE g # f -> [f |-> g, more |-> TRUE]
      [] next = <<>> -> [f |-> f, more |-> FALSE]
      [] OTHER -> [f |-> Strictly(IF next[1].trip <= 8 THEN commit_full(f, next[1].lp, next[1].trip)
                                  ELSE commit_partial_four(f, next[1].lp, next[1].trip), ir_func_renumber),
                   more |-> TRUE]))
unroll_func(f, cfg) ==
  Until(LAMBDA u : ~u.more, LAMBDA u : UnrollStep(u.f, cfg), [f |-> f, more |-> TRUE]).f

opt_unroll(m, cfg) == [m EXCEPT !.funcs = [k \in DOMAIN @ |-> unroll_func(@[k], cfg)]]

(***************************************************************************)
(* Loop unswitching (src/opt/unswitch.c): an invariant branch inside a     *)
(* loop is decided once, before it, between two copies of the loop.        *)
(***************************************************************************)
func_inst_count(f) == Cardinality(AllInsts(f))

speculatable_op(in, t) ==
  /\ "nsw" \notin in.fl
  /\ in.op \in BinOps \cup {"icmp", "ptradd", "select"}
  /\ in.op \in Shifts => IsC(in.ops[2]) /\ in.ops[2][2] < type_bits(t)
  /\ in.op \in Divisions => IsC(in.ops[2]) /\ in.ops[2][2] # 0
  /\ in.op \in {"sdiv", "srem"} =>
       ~(in.ops[2][2] = IntMask(t) - 1 /\ (~IsC(in.ops[1]) \/ in.ops[1][2] = 2 ^ (type_bits(t) - 1)))

\* plan_value: the loop's instructions a condition needs, in the order to copy them.
\* c = [ok, order].
RECURSIVE plan_value(_, _, _, _, _)
plan_value(f, idom, lp, c, v) ==
  With(DefOf(f, v), LAMBDA d :
  LET in == InstAt(f, <<d[2], d[3]>>)
      step(acc, o) == IF ~acc.ok \/ Kind(o) = "u" THEN [acc EXCEPT !.ok = FALSE]
                      ELSE IF IsV(o) THEN plan_value(f, idom, lp, acc, o[2]) ELSE acc
  IN With(Fold(step, c, in.ops), LAMBDA done :
    IF v \in ToSet(c.order) \/ d[1] = "param" THEN c
    ELSE IF DefBlock(f, v) \notin lp.blocks
         THEN [c EXCEPT !.ok = @ /\ DefBlock(f, v) # 0 /\ ir_dominates(idom, DefBlock(f, v), lp.pre)]
    ELSE IF d[1] # "inst" THEN [c EXCEPT !.ok = FALSE]
    ELSE IF ~speculatable_op(in, f.vals[v]) THEN [c EXCEPT !.ok = FALSE]
    ELSE IF done.ok THEN [done EXCEPT !.order = Append(@, v)] ELSE done))

\* The blocks whose branch can be decided before the loop; the first is taken.
BranchPlan(f, idom, lp, b) ==
  LET term == Terminator(f.blocks[b]) IN plan_value(f, idom, lp, [ok |-> TRUE, order |-> <<>>], term.ops[1][2])

analyze_candidate(f, idom, lp) ==
  With(loop_trip_analyze(f, lp), LAMBDA trip :
  LET fits(b) == LET term == Terminator(f.blocks[b])
                 IN /\ term.op = "condbr" /\ IsV(term.ops[1]) /\ term.ops[1][2] # trip.compare
                    /\ BranchPlan(f, idom, lp, b).ok
  IN IF lp.pre = 0 \/ Len(lp.latches) # 1 THEN {}
     ELSE IF trip.kind = "unknown" THEN {} ELSE {b \in lp.blocks : fits(b)})

\* copy_condition_dag: c = [f, out, map].
CopyForCondition(c, v) ==
  With(DefOf(c.f, v), LAMBDA d :
  LET in == InstAt(c.f, <<d[2], d[3]>>)
      id == FreshId(c.f)
      use(o) == IF IsV(o) /\ o[2] \in DOMAIN c.map THEN c.map[o[2]] ELSE o
  IN [f |-> AddVal(c.f, c.f.vals[v]),
      out |-> Append(c.out, [in EXCEPT !.res = id, !.ops = [i \in DOMAIN @ |-> use(@[i])]]),
      map |-> Put(c.map, v, V(id, c.f.vals[v]))])

commit_unswitch(f, idom, lp, b) ==
  With(BranchPlan(f, idom, lp, b), LAMBDA plan :
  With(loop_clone_region(f, Sorted(lp.blocks, LAMBDA x, y : x < y)), LAMBDA clone :
  LET cond == Terminator(f.blocks[b]).ops[1]
  IN With(Fold(CopyForCondition, [f |-> clone.f, out |-> Body(f.blocks[lp.pre]), map |-> <<>>], plan.order), LAMBDA dag :
  LET hoisted == IF cond[2] \in DOMAIN dag.map THEN dag.map[cond[2]] ELSE cond
      incoming == Edges(f, lp.pre)[1]
      choose == Term("condbr", <<hoisted>>, <<incoming, [incoming EXCEPT !.to = clone.block[lp.header]]>>, {})
      n == Len(f.blocks[b].insts)
  IN ir_func_renumber([dag.f EXCEPT !.blocks[b].insts[n].ops = <<C(1, "i32")>>,
                                    !.blocks[clone.block[b]].insts[n].ops = <<C(0, "i32")>>,
                                    !.blocks[lp.pre].insts = Append(dag.out, choose)]))))

\* run_func: one commit per call, deepest loops first, within twice the size.
run_func(f0) ==
  Strictly(loop_canonicalize(f0), LAMBDA f :
  Strictly(loop_tree_build(f), LAMBDA tree :
  With([i \in DOMAIN tree.loops |-> analyze_candidate(f, tree.idom, tree.loops[i])], LAMBDA cand :
  LET ready == {i \in DOMAIN tree.loops : cand[i] # {}}
      before(i, j) == \/ tree.loops[i].depth > tree.loops[j].depth
                      \/ tree.loops[i].depth = tree.loops[j].depth /\ i <= j
      best == CHOOSE i \in ready : \A j \in ready : before(i, j)
      lp == tree.loops[best]
      b == Min(cand[best])
      size == Cardinality({p \in AllInsts(f) : p[1] \in lp.blocks})
  IN With(func_inst_count(f) + size + Len(BranchPlan(f, tree.idom, lp, b).order), LAMBDA grown :
    IF tree.irreducible \/ ready = {} THEN f
    ELSE IF grown > 2 * func_inst_count(f) THEN f ELSE commit_unswitch(f, tree.idom, lp, b)))))

opt_unswitch(m) == [m EXCEPT !.funcs = [k \in DOMAIN @ |-> run_func(@[k])]]
=============================================================================
