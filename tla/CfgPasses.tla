----------------------------- MODULE CfgPasses ------------------------------
(***************************************************************************)
(* The passes over the flow graph: cleanup and jump threading.             *)
(***************************************************************************)
EXTENDS Ir

(***************************************************************************)
(* Control-flow cleanup (src/opt/simplify_cfg.c): branches on constants,   *)
(* code after noreturn calls, diamonds that become selects, and straight   *)
(* lines that become one block.  The log of removed blocks (read by the    *)
(* unreachable-code warnings) is not modelled.                             *)
(***************************************************************************)
\* value_definition: the instruction that defines v, or NoDef.
NoDef == Inst("none", "", 0, <<>>, {})
value_definition(f, v) ==
  With(DefOf(f, v), LAMBDA d :
    IF d[1] = "inst" THEN InstAt(f, <<d[2], d[3]>>) ELSE NoDef)

\* The constant a tree of foldable operations computes, or NoFold.
RECURSIVE resolve_edge_constant(_, _, _)
resolve_edge_constant(f, o, depth) ==
  IF IsC(o) THEN o
  ELSE IF ~IsV(o) \/ depth > Len(f.vals) THEN NoFold
  ELSE With(value_definition(f, o[2]), LAMBDA def :
       With([i \in DOMAIN def.ops |-> resolve_edge_constant(f, def.ops[i], depth + 1)], LAMBDA ops :
         IF def = NoDef \/ Len(def.ops) > 3 \/ NoFold \in ToSet(ops) THEN NoFold
         ELSE With(opt_fold_inst([def EXCEPT !.ops = ops], f.vals[o[2]]), LAMBDA r :
                IF IsC(r) THEN r ELSE NoFold)))

\* The edge a constant condition takes: nonzero the first, a matching case its own.
ChosenEdge(term, word) ==
  IF term.op = "condbr" THEN IF word # 0 THEN 1 ELSE 2
  ELSE LET hits == {e \in 2..Len(term.edges) : term.edges[e].case = word}
       IN IF hits = {} THEN 1 ELSE Min(hits)

make_br(term, e) ==
  [term EXCEPT !.op = "br", !.sub = "", !.ops = <<>>, !.fl = @ \cap {"flow"},
               !.edges = <<[term.edges[e] EXCEPT !.case = 0]>>]

FoldTerm(f, term) ==
  IF term.op \notin {"condbr", "switch"} THEN term
  ELSE With(resolve_edge_constant(f, term.ops[1], 0), LAMBDA c :
         IF c = NoFold THEN term ELSE make_br(term, ChosenEdge(term, c[2])))

SetTerm(blk, term) == [blk EXCEPT !.insts = Append(Body(blk), term)]

fold_const_edges(f) ==
  [f EXCEPT !.blocks = [b \in DOMAIN @ |-> SetTerm(@[b], FoldTerm(f, Terminator(@[b])))]]

\* A block that calls a noreturn function ends in unreachable; the rest of it stays.
terminate_noreturn_blocks(f) ==
  LET never(blk) == \E i \in DOMAIN blk.insts : blk.insts[i].op = "call" /\ "noret" \in blk.insts[i].fl
  IN [f EXCEPT !.blocks = [b \in DOMAIN @ |->
        IF never(@[b]) THEN SetTerm(@[b], Term("unreachable", <<>>, <<>>, {})) ELSE @[b]]]

prune_func_cfg(f) ==
  ir_func_remove_unreachable(fold_const_edges(terminate_noreturn_blocks(f)))

\* Number of edges into b from live blocks.
predecessor_counts(f, dead, b) ==
  Cardinality(UNION {{<<p, e>> : e \in {x \in DOMAIN Edges(f, p) : Edges(f, p)[x].to = b}}
                       : p \in BlockIds(f) \ dead})

speculation_safe(op) ==
  op \in {"iadd", "isub", "imul", "and", "or", "xor", "icmp", "sext", "zext", "trunc",
          "ptradd", "select"}

arm_is_safe(blk) ==
  /\ blk.params = <<>>
  /\ Terminator(blk).op = "br"
  /\ \A i \in DOMAIN Body(blk) : blk.insts[i].res # 0 /\ speculation_safe(blk.insts[i].op)

\* Block h ends a diamond: two private parameterless arms that meet in one block, each
\* passing it one argument.  preds are the counts taken before any collapse.
IsDiamond(f, h, preds) ==
  LET term == Terminator(f.blocks[h])
  IN /\ term.op = "condbr"
     /\ LET t == term.edges[1].to
            e == term.edges[2].to
        IN /\ t # e /\ term.edges[1].args = <<>> /\ term.edges[2].args = <<>>
           /\ preds[t] = 1 /\ preds[e] = 1
           /\ Terminator(f.blocks[t]).op = "br" /\ Terminator(f.blocks[e]).op = "br"
           /\ LET te == Edges(f, t)[1]
                  fe == Edges(f, e)[1]
              IN /\ te.to = fe.to /\ te.to \notin {t, e}
                 /\ Len(te.args) = 1 /\ Len(fe.args) = 1 /\ Len(f.blocks[te.to].params) = 1
                 /\ TypeOf(te.args[1]) = TypeOf(fe.args[1])
           /\ arm_is_safe(f.blocks[t]) /\ arm_is_safe(f.blocks[e])

\* Both arms run in the header and a select picks the argument.
CollapseAt(f, h) ==
  LET term == Terminator(f.blocks[h])
      t == f.blocks[term.edges[1].to]
      e == f.blocks[term.edges[2].to]
      tv == Terminator(t).edges[1].args[1]
      fv == Terminator(e).edges[1].args[1]
      r == FreshId(f)
      sel == Inst("select", "", r, <<term.ops[1], tv, fv>>, {})
      br == [term EXCEPT !.op = "br", !.ops = <<>>,
               !.edges = <<Edge(Terminator(t).edges[1].to, <<V(r, TypeOf(tv))>>, 0)>>]
  IN [AddVal(f, TypeOf(tv)) EXCEPT
        !.blocks[h].insts = Body(f.blocks[h]) \o Body(t) \o Body(e) \o <<sel, br>>]

collapse_diamonds(f) ==
  LET preds == [b \in BlockIds(f) |-> predecessor_counts(f, {}, b)]
      step(g, h) == IF IsDiamond(g, h, preds) THEN CollapseAt(g, h) ELSE g
  IN ir_func_remove_unreachable(Fold(step, f, [b \in BlockIds(f) |-> b]))

\* splice_successor: the successor's parameters become the edge's arguments and its
\* instructions follow the predecessor's.
splice_successor(f, b, s) ==
  LET edge == Edges(f, b)[1]
      ps == f.blocks[s].params
  IN With(Fold(LAMBDA acc, i : RewriteUses(acc, [v \in {ps[i]} |-> Edges(acc, b)[1].args[i]]),
                   f, [i \in DOMAIN edge.args |-> i]), LAMBDA g :
    [g EXCEPT !.blocks[b].insts = Body(g.blocks[b]) \o g.blocks[s].insts])

RECURSIVE MergeFrom(_, _)
MergeFrom(f, dead) ==
  LET ok(b) == /\ b \notin dead
               /\ Terminator(f.blocks[b]).op = "br"
               /\ LET s == Edges(f, b)[1].to
                  IN /\ s # 1 /\ s # b /\ s \notin dead
                     /\ predecessor_counts(f, dead, s) = 1
                     /\ Len(Edges(f, b)[1].args) = Len(f.blocks[s].params)
  IN With({b \in BlockIds(f) : ok(b)}, LAMBDA hits :
    IF hits = {} THEN f
    ELSE LET b == Min(hits)
             s == Edges(f, b)[1].to
         IN MergeFrom(splice_successor(f, b, s), dead \cup {s}))

merge_straight_lines(f) ==
  With(MergeFrom(f, {}), LAMBDA g :
    IF g = f THEN f ELSE ir_func_remove_unreachable(g))

simplify_func(f) ==
  With(merge_straight_lines(collapse_diamonds(prune_func_cfg(f))), LAMBDA g :
    IF g = f THEN f ELSE ir_func_renumber(g))

prune_cfg_func(f) ==
  With(prune_func_cfg(f), LAMBDA g :
    IF g = f THEN f ELSE ir_func_renumber(g))

opt_prune_cfg(m) == [m EXCEPT !.funcs = [k \in DOMAIN @ |-> prune_cfg_func(@[k])]]
opt_simplify_cfg(m) == [m EXCEPT !.funcs = [k \in DOMAIN @ |-> simplify_func(@[k])]]

(***************************************************************************)
(* Jump threading (src/opt/jump_thread.c): a conditional branch whose      *)
(* target tests the same value again is sent to a copy of the target that  *)
(* ends in the known branch, if the copy is small, nothing outside uses    *)
(* the target's values, the graph stays reducible, and the function grows  *)
(* by no more than 15%.                                                    *)
(***************************************************************************)
JT_MAX_BLOCK_INSTS == 12
GrowthPercent == 115

CloneableOps == BinOps \cup {"icmp", "sext", "zext", "trunc", "ptradd", "select"}

func_inst_count(f) == Fold(LAMBDA n, blk : n + Len(blk.insts), 0, f.blocks)

block_cloneable(blk) ==
  /\ Len(blk.insts) <= JT_MAX_BLOCK_INSTS
  /\ \A i \in DOMAIN Body(blk) : blk.insts[i].op \in CloneableOps

BlockDefs(blk) == ToSet(blk.params) \cup ({blk.insts[i].res : i \in DOMAIN blk.insts} \ {0})

block_values_used_elsewhere(f, b) ==
  \E p \in AllInsts(f) : p[1] # b /\ ValuesUsed(InstAt(f, p)) \cap BlockDefs(f.blocks[b]) # {}

\* The edges of the graph after threading edge e of block p to a new block that leads
\* to `to`; validated before anything changes.
VirtualFunc(f, p, e, to) ==
  [f EXCEPT !.blocks =
     Append([f.blocks EXCEPT ![p].insts[Len(f.blocks[p].insts)].edges[e].to = Len(f.blocks) + 1],
            [params |-> <<>>, insts |-> <<Term("br", <<>>, <<Edge(to, <<>>, 0)>>, {})>>])]

\* Every retreating edge of the depth-first walk goes to a dominator of its source.
RECURSIVE RetreatingFrom(_, _, _, _)
RetreatingFrom(f, stack, seen, acc) ==
  IF stack = <<>> THEN acc
  ELSE LET b == Head(stack)[1]
           i == Head(stack)[2]
           onstack == {stack[k][1] : k \in DOMAIN stack}
       IN IF i > Len(Edges(f, b)) THEN RetreatingFrom(f, Tail(stack), seen, acc)
          ELSE LET t == Edges(f, b)[i].to
                   rest == <<<<b, i + 1>>>> \o Tail(stack)
               IN IF t \in onstack THEN RetreatingFrom(f, rest, seen, acc \cup {<<b, t>>})
                  ELSE IF t \in seen THEN RetreatingFrom(f, rest, seen, acc)
                  ELSE RetreatingFrom(f, <<<<t, 1>>>> \o rest, seen \cup {t}, acc)

virtual_reducible(g) ==
  With(ir_domtree_build(g), LAMBDA idom :
    \A x \in RetreatingFrom(g, <<<<1, 1>>>>, {1}, {}) : ir_dominates(idom, x[2], x[1]))

\* commit_clone: a copy of block src with fresh values, ending in a jump along its
\* edge e; the copy is the last block.
commit_clone(f, src, e) ==
  LET blk == f.blocks[src]
      defs == blk.params \o SelectSeq([i \in DOMAIN blk.insts |-> blk.insts[i].res], LAMBDA r : r # 0)
      n == Len(f.vals)
  IN With([v \in ToSet(defs) |-> n + (CHOOSE i \in DOMAIN defs : defs[i] = v)], LAMBDA new :
  LET use(o) == IF IsV(o) /\ o[2] \in DOMAIN new THEN V(new[o[2]], o[3]) ELSE o
      copy(in) == [in EXCEPT !.res = IF @ = 0 THEN 0 ELSE new[@], !.ops = [i \in DOMAIN @ |-> use(@[i])]]
      edge == Terminator(blk).edges[e]
      br == Term("br", <<>>, <<[edge EXCEPT !.args = [i \in DOMAIN @ |-> use(@[i])]]>>, {})
  IN [f EXCEPT !.vals = @ \o [i \in DOMAIN defs |-> f.vals[defs[i]]],
               !.blocks = Append(@, [params |-> [i \in DOMAIN blk.params |-> new[blk.params[i]]],
                                     insts |-> Append([i \in DOMAIN Body(blk) |-> copy(blk.insts[i])], br)])])

Threadable(f, reach, p, e, original, growth) ==
  LET first == Terminator(f.blocks[p])
      t == first.edges[e].to
      mid == f.blocks[t]
  IN /\ t # p /\ t \in reach
     /\ Terminator(mid).op = "condbr"
     /\ first.ops[1] = Terminator(mid).ops[1]
     /\ block_cloneable(mid)
     /\ ~block_values_used_elsewhere(f, t)
     /\ virtual_reducible(VirtualFunc(f, p, e, Terminator(mid).edges[e].to))
     /\ (original + growth + Len(mid.insts)) * 100 <= original * GrowthPercent

\* The first candidate in block and edge order is committed, then the search restarts.
RECURSIVE ThreadLoop(_, _, _)
ThreadLoop(f, original, growth) ==
  With(Reachable(f), LAMBDA reach :
  LET tests == {p \in reach : Terminator(f.blocks[p]).op = "condbr" /\ IsV(Terminator(f.blocks[p]).ops[1])}
  IN With({x \in tests \X {1, 2} : Threadable(f, reach, x[1], x[2], original, growth)}, LAMBDA cands :
    IF cands = {} THEN f
    ELSE LET x == CHOOSE y \in cands : \A z \in cands : 2 * y[1] + y[2] <= 2 * z[1] + z[2]
             t == Edges(f, x[1])[x[2]].to
         IN With(commit_clone(f, t, x[2]), LAMBDA g :
         LET k == Len(g.blocks[x[1]].insts)
         IN ThreadLoop([g EXCEPT !.blocks[x[1]].insts[k].edges[x[2]].to = Len(g.blocks)],
                       original, growth + Len(f.blocks[t].insts)))))

jump_thread_func(f) ==
  With(ThreadLoop(f, func_inst_count(f), 0), LAMBDA g :
    IF g = f THEN f ELSE ir_func_renumber(ir_func_remove_unreachable(g)))

opt_jump_thread(m) == [m EXCEPT !.funcs = [k \in DOMAIN @ |-> jump_thread_func(@[k])]]
=============================================================================
