----------------------------- MODULE LoopForest -----------------------------
(***************************************************************************)
(* Natural loops, their canonical form and their trip counts.              *)
(***************************************************************************)
EXTENDS Ir

(***************************************************************************)
(* Natural loops (src/opt/loop_tree.c): discovery, nesting, reducibility,  *)
(* and the canonical form every loop pass starts from: a dedicated         *)
(* preheader, dedicated exits, and loop-closed SSA, where a value used     *)
(* after the loop leaves it through a parameter of the exit block.         *)
(***************************************************************************)
\* The edges <<source, header>> whose target dominates their source, in order.
BackEdges(f, idom) ==
  LET ofBlock(b) == SelectSeq([e \in DOMAIN Edges(f, b) |-> <<b, Edges(f, b)[e].to>>],
                              LAMBDA x : ir_dominates(idom, x[2], x[1]))
  IN Fold(LAMBDA acc, b : acc \o ofBlock(b), <<>>, [b \in BlockIds(f) |-> b])

\* collect_natural_body: backwards from the latches, stopping at the header.
RECURSIVE collect_natural_body(_, _, _)
collect_natural_body(f, header, seen) ==
  LET more == UNION {Preds(f, b) : b \in seen \ {header}} \ seen
  IN IF more = {} THEN seen ELSE collect_natural_body(f, header, seen \cup more)

\* detect_preheader: the only block outside that enters the header, if a plain branch
\* is all it ends in.
detect_preheader(f, header, body) ==
  LET outside == Preds(f, header) \ body
      p == CHOOSE x \in outside : TRUE
  IN IF Cardinality(outside) = 1 /\ Terminator(f.blocks[p]).op = "br" THEN p ELSE 0

\* The exits <<source, target>> of a loop in block and edge order, each pair once.
ExitEdges(f, body) ==
  LET ofBlock(b) == SelectSeq([e \in DOMAIN Edges(f, b) |-> <<b, Edges(f, b)[e].to>>],
                              LAMBDA x : x[2] \notin body)
  IN With(Fold(LAMBDA acc, b : acc \o ofBlock(b), <<>>,
                   Sorted(body, LAMBDA x, y : x < y)), LAMBDA all :
    Fold(LAMBDA acc, x : IF x \in ToSet(acc) THEN acc ELSE Append(acc, x), <<>>, all))

\* c = [stack, on, seen, bad]: an edge to a block on the path that does not dominate it.
DfsStep(f, idom, c) ==
  LET b == Head(c.stack)[1]
      e == Head(c.stack)[2]
      t == Edges(f, b)[e].to
      rest == <<<<b, e + 1>>>> \o Tail(c.stack)
  IN IF e > Len(Edges(f, b)) THEN [c EXCEPT !.stack = Tail(@), !.on = @ \ {b}]
     ELSE IF t \in c.on THEN [c EXCEPT !.stack = rest, !.bad = @ \/ ~ir_dominates(idom, t, b)]
     ELSE IF t \in c.seen THEN [c EXCEPT !.stack = rest]
     ELSE [c EXCEPT !.stack = <<<<t, 1>>>> \o rest, !.on = @ \cup {t}, !.seen = @ \cup {t}]
dfs_irreducible(f, idom) ==
  Until(LAMBDA c : c.stack = <<>>, LAMBDA c : DfsStep(f, idom, c),
        [stack |-> <<<<1, 1>>>>, on |-> {1}, seen |-> {1}, bad |-> FALSE]).bad

\* The loops in the order their first back edge is met; `up` is the index of the
\* smallest enclosing loop, or 0.
loop_tree_build(f) ==
  Strictly(ir_domtree_build(f), LAMBDA idom :
  Strictly(BackEdges(f, idom), LAMBDA back :
  With(Fold(LAMBDA acc, x : IF x[2] \in ToSet(acc) THEN acc ELSE Append(acc, x[2]), <<>>, back), LAMBDA headers :
  LET latchesOf(h) == Fold(LAMBDA acc, x : IF x[2] # h \/ x[1] \in ToSet(acc) THEN acc
                                               ELSE Append(acc, x[1]), <<>>, back)
  IN Strictly(Evaluated([i \in DOMAIN headers |->
             collect_natural_body(f, headers[i], {headers[i]} \cup ToSet(latchesOf(headers[i])))]), LAMBDA body :
  LET above(i) == {j \in DOMAIN headers : body[i] \subseteq body[j] /\ body[i] # body[j]}
      smallest(js) == {j \in js : \A k \in js : Cardinality(body[j]) <= Cardinality(body[k])}
  IN [idom |-> idom,
      irreducible |-> \/ dfs_irreducible(f, idom)
                      \/ \E i \in DOMAIN headers : Preds(f, headers[i]) \subseteq body[i],
      loops |-> Evaluated([i \in DOMAIN headers |->
        [header |-> headers[i], blocks |-> body[i], latches |-> latchesOf(headers[i]),
         exits |-> ExitEdges(f, body[i]), pre |-> detect_preheader(f, headers[i], body[i]),
         up |-> IF above(i) = {} THEN 0 ELSE Min(smallest(above(i))),
         depth |-> Cardinality(above(i))]])]))))

\* new_forwarder: a block with the target's parameters that branches to it.
new_forwarder(f, target) ==
  LET ps == f.blocks[target].params
      n == Len(f.vals)
      ids == [i \in DOMAIN ps |-> n + i]
      args == [i \in DOMAIN ps |-> V(n + i, f.vals[ps[i]])]
  IN [f EXCEPT !.vals = @ \o [i \in DOMAIN ps |-> f.vals[ps[i]]],
               !.blocks = Append(@, [params |-> ids,
                                     insts |-> <<Term("br", <<>>, <<Edge(target, args, 0)>>, {})>>])]

redirect_edges(f, from, old, new) ==
  LET turn(in) == [in EXCEPT !.edges = Evaluated([e \in DOMAIN @ |->
                     IF @[e].to = old THEN [@[e] EXCEPT !.to = new] ELSE @[e]])]
  IN [f EXCEPT !.blocks = Evaluated([b \in DOMAIN @ |-> IF b \notin from THEN @[b]
        ELSE [@[b] EXCEPT !.insts = Evaluated([i \in DOMAIN @ |-> turn(@[i])])]])]

has_outside_predecessor(f, lp, t) == ~(Preds(f, t) \subseteq lp.blocks)

\* The first loop that lacks its preheader or shares an exit block with the outside.
NeedsSplit(f, lp) ==
  LET bad == {x \in DOMAIN lp.exits : has_outside_predecessor(f, lp, lp.exits[x][2])}
  IN IF lp.pre = 0 THEN <<"pre", lp.header>>
     ELSE IF bad # {} THEN <<"exit", lp.exits[Min(bad)][2]>> ELSE <<"no", 0>>

\* Split the edges into the block of kind what[1] that loop lp needs.
SplitBoundary(f, lp, what) ==
  LET from == IF what[1] = "pre" THEN BlockIds(f) \ lp.blocks ELSE lp.blocks
  IN redirect_edges(new_forwarder(f, what[2]), from, what[2], Len(f.blocks) + 1)
\* One boundary; the result is [f, more].
SplitFirst(f) ==
  Strictly(loop_tree_build(f).loops, LAMBDA loops :
  Strictly({i \in DOMAIN loops : NeedsSplit(f, loops[i])[1] # "no"}, LAMBDA bad :
    IF bad = {} THEN [f |-> f, more |-> FALSE]
    ELSE LET lp == loops[Min(bad)]
         IN [f |-> ir_func_renumber(SplitBoundary(f, lp, NeedsSplit(f, lp))), more |-> TRUE]))
canonicalize_boundaries(f) ==
  Until(LAMBDA c : ~c.more, LAMBDA c : SplitFirst(c.f), [f |-> f, more |-> TRUE]).f

block_uses_value(f, b, v) == \E i \in DOMAIN f.blocks[b].insts : v \in ValuesUsed(f.blocks[b].insts[i])

\* The blocks outside the loop from which a use of the value is reached backwards.
RECURSIVE NeedParam(_, _, _)
NeedParam(f, lp, need) ==
  LET more == UNION {Preds(f, b) : b \in need} \ (need \cup lp.blocks)
  IN IF more = {} THEN need ELSE NeedParam(f, lp, need \cup more)

\* lcssa_value: each needed block gets a parameter, each edge into it an argument.
lcssa_value(f, lp, v) ==
  LET users == {b \in BlockIds(f) \ lp.blocks : block_uses_value(f, b, v)}
  IN With(Sorted(NeedParam(f, lp, users), LAMBDA x, y : x < y), LAMBDA need :
  LET t == f.vals[v]
      param(b) == Len(f.vals) + (CHOOSE i \in DOMAIN need : need[i] = b)
      argFrom(b) == V(IF b \in lp.blocks THEN v ELSE param(b), t)
      inst(b, in) == With(IF b \in ToSet(need) THEN RewriteInst(in, [x \in {v} |-> V(param(b), t)]) ELSE in, LAMBDA renamed :
                       [renamed EXCEPT !.edges = Evaluated([e \in DOMAIN @ |->
                          IF @[e].to \in ToSet(need) THEN [@[e] EXCEPT !.args = Append(@, argFrom(b))] ELSE @[e]])])
  IN IF users = {} THEN f
     ELSE [f EXCEPT !.vals = @ \o [i \in DOMAIN need |-> t],
                    !.blocks = Evaluated([b \in DOMAIN @ |->
                       [params |-> IF b \in ToSet(need) THEN Append(@[b].params, param(b)) ELSE @[b].params,
                        insts |-> Evaluated([i \in DOMAIN @[b].insts |-> inst(b, @[b].insts[i])])]])])

DefBlock(f, v) == With(DefOf(f, v), LAMBDA d :
                    IF d[1] \in {"bparam", "inst"} THEN d[2] ELSE 0)

\* establish_lcssa: deepest loops first, values in order.
establish_lcssa(f, loops) ==
  LET deeper(i, j) == loops[i].depth > loops[j].depth \/ (loops[i].depth = loops[j].depth /\ i < j)
      order == Sorted(DOMAIN loops, deeper)
      close(g, lp) == Fold(LAMBDA acc, v : IF DefBlock(acc, v) \in lp.blocks
                                               THEN lcssa_value(acc, lp, v) ELSE acc,
                               g, [v \in 1..Len(g.vals) |-> v])
  IN Fold(LAMBDA acc, i : close(acc, loops[i]), f, order)

loop_canonicalize(f) ==
  IF loop_tree_build(f).irreducible THEN f
  ELSE With(canonicalize_boundaries(f), LAMBDA g :
       With(establish_lcssa(g, loop_tree_build(g).loops), LAMBDA h :
         IF h = g THEN g ELSE ir_func_renumber(h)))

(***************************************************************************)
(* Trip counts (src/opt/unroll.c, opt_unroll_trip_count), the induction    *)
(* recognizer (src/opt/loop_clone.c, loop_trip_analyze) and the cloning of *)
(* a region of blocks.  The counter's own arithmetic is that of the widest *)
(* machine word: 2^WideBits stands for 2^64.                               *)
(***************************************************************************)
NoTrip == -1
U64(x) == x % 2 ^ WideBits
U64Max == 2 ^ WideBits - 1
CeilDiv(a, b) == a \div b + (IF a % b # 0 THEN 1 ELSE 0)

pred_holds(pred, x, end, t) == fold_icmp(Inst("icmp", pred, 1, <<C(x, t), C(end, t)>>, {})) = C(1, "i32")

gcd_pow2(v, t) == IF v = 0 THEN IntMask(t) ELSE Max({2 ^ k : k \in {j \in 0..type_bits(t) : v % 2 ^ j = 0}})

\* The inverse of an odd number modulo n, as the Newton iteration converges to it.
inverse_odd(v, n) == CHOOSE x \in 0..(n - 1) : (v * x) % n = 1 % n

\* start + k * step = end modulo 2^width, solved for the least k.
modular_ne_count(t, start, step, end) ==
  LET diff == (end - start) % IntMask(t)
      d == gcd_pow2(step, t)
      n == IntMask(t) \div d
  IN IF diff = 0 THEN 0
     ELSE IF step = 0 \/ diff % d # 0 THEN NoTrip
     ELSE ((diff \div d) * inverse_odd((step \div d) % n, n)) % n

\* enumerate_modular: walk the whole state space of a sub-word type.
enumerate_modular(t, pred, start, step, end) ==
  With({n \in 0..(IntMask(t) - 1) : ~pred_holds(pred, (start + n * step) % IntMask(t), end, t)}, LAMBDA stop :
    IF stop = {} THEN NoTrip ELSE Min(stop))

\* A monotone walk that must reach the boundary before wrapping.
unsigned_nowrap_count(t, pred, start, step, end) ==
  LET mask == IntMask(t) - 1
      up(distance) == LET n == CeilDiv(distance, step)
                      IN IF n <= (mask - start) \div step THEN n ELSE NoTrip
      amount == (0 - step) % IntMask(t)
      down(distance) == LET n == CeilDiv(distance, amount)
                        IN IF n <= start \div amount THEN n ELSE NoTrip
  IN CASE ~pred_holds(pred, start, end, t) -> 0
       [] step = 0 -> NoTrip
       [] pred = "ult" -> up(end - start)
       [] pred = "ule" -> IF end = mask THEN NoTrip ELSE up(end + 1 - start)
       [] pred = "ugt" -> down(start - end)
       [] pred = "uge" -> down(U64(start - end + 1))
       [] OTHER -> NoTrip

\* Mutant: an inclusive bound is counted as an exclusive one.
MutSignedCount(t, pred, start, step, end) ==
  LET s == Signed(start, t)
      e == Signed(end, t)
      d == Signed(step, t)
  IN CASE d > 0 /\ pred \in {"slt", "sle"} -> CeilDiv(U64(e - s), d)
       [] d < 0 /\ pred \in {"sgt", "sge"} -> CeilDiv(U64(s - e), -d)
       [] OTHER -> NoTrip
\* A signed walk in the direction of its step; overflow was excluded by NSW.
SignedCount(t, pred, start, step, end) ==
  LET s == Signed(start, t)
      e == Signed(end, t)
      d == Signed(step, t)
      count(distance, amount, inclusive) ==
        IF inclusive /\ distance = U64Max THEN NoTrip
        ELSE CeilDiv(distance + (IF inclusive THEN 1 ELSE 0), amount)
  IN CASE d > 0 /\ pred \in {"slt", "sle"} -> count(U64(e - s), d, pred = "sle")
       [] d < 0 /\ pred \in {"sgt", "sge"} -> count(U64(s - e), -d, pred = "sge")
       [] OTHER -> NoTrip

opt_unroll_trip_count(t, pred, start, step, end, modular) ==
  CASE ~pred_holds(pred, start, end, t) -> 0
    [] pred = "ne" -> modular_ne_count(t, start, step, end)
    [] pred = "eq" -> IF step = 0 THEN NoTrip ELSE 1
    [] modular /\ t = "i8" -> enumerate_modular(t, pred, start, step, end)
    [] ~modular /\ pred \in {"slt", "sle", "sgt", "sge"} -> SignedCount(t, pred, start, step, end)
    [] OTHER -> unsigned_nowrap_count(t, pred, start, step, end)

(***************************************************************************)
(* Recognizing an induction variable.                                      *)
(***************************************************************************)
NoDefinition == Inst("none", "", 0, <<>>, {})
value_inst(f, o) ==
  With(DefOf(f, o[2]), LAMBDA d :
    IF IsV(o) /\ d[1] = "inst" THEN InstAt(f, <<d[2], d[3]>>) ELSE NoDefinition)

value_is_param(f, b, o) == IsV(o) /\ o[2] \in ToSet(f.blocks[b].params)
ParamIndex(f, b, o) == CHOOSE i \in DOMAIN f.blocks[b].params : f.blocks[b].params[i] = o[2]

loop_operand_invariant(f, lp, o) ==
  IF IsV(o) THEN DefOf(f, o[2])[1] # "none" /\ DefBlock(f, o[2]) \notin lp.blocks
  ELSE Kind(o) # "u"

SwapPred(p) ==
  CASE p = "slt" -> "sgt" [] p = "sgt" -> "slt" [] p = "sle" -> "sge" [] p = "sge" -> "sle"
    [] p = "ult" -> "ugt" [] p = "ugt" -> "ult" [] p = "ule" -> "uge" [] p = "uge" -> "ule"
    [] OTHER -> p
invert_pred(p) ==
  CASE p = "eq" -> "ne" [] p = "ne" -> "eq" [] p = "slt" -> "sge" [] p = "sge" -> "slt"
    [] p = "sgt" -> "sle" [] p = "sle" -> "sgt" [] p = "ult" -> "uge" [] p = "uge" -> "ult"
    [] p = "ugt" -> "ule" [] p = "ule" -> "ugt"

\* edge_to: the only edge from a to b, as a sequence of one (or none).
edge_to(f, a, b) ==
  LET es == SelectSeq(Edges(f, a), LAMBDA e : e.to = b) IN IF Len(es) = 1 THEN es ELSE <<>>

\* recurrence: next is the header parameter plus or minus a constant.
recurrence(f, h, next, ord) ==
  With(value_inst(f, next), LAMBDA in :
  LET isIv(o) == value_is_param(f, h, o) /\ ParamIndex(f, h, o) = ord
  IN CASE in.op \notin {"iadd", "isub"} -> NoFold
       [] isIv(in.ops[1]) /\ IsC(in.ops[2]) -> in.ops[2]
       [] in.op = "iadd" /\ isIv(in.ops[2]) /\ IsC(in.ops[1]) -> in.ops[1]
       [] OTHER -> NoFold)

Unknown(why) == [kind |-> "unknown", reason |-> why]

\* The induction of a loop whose header compares a parameter with an invariant bound.
InductionOf(f, lp, pre, back, inside, cmp) ==
  LET h == lp.header
      direct == value_is_param(f, h, cmp.ops[1])
      iv == IF direct THEN cmp.ops[1] ELSE cmp.ops[2]
      bound == IF direct THEN cmp.ops[2] ELSE cmp.ops[1]
      p1 == IF direct THEN cmp.sub ELSE SwapPred(cmp.sub)
  IN With(IF inside = 2 THEN invert_pred(p1) ELSE p1, LAMBDA pred :
  LET ord == ParamIndex(f, h, iv)
      start == pre.args[ord]
  IN With(recurrence(f, h, back.args[ord], ord), LAMBDA step :
  With(value_inst(f, back.args[ord]), LAMBDA update :
  LET nsw == "nsw" \in update.fl
      t == f.vals[iv[2]]
      modular == pred \in {"eq", "ne", "ult", "ule", "ugt", "uge"} \/ ~nsw
      step1 == IF update.op = "isub" THEN (0 - step[2]) % IntMask(t) ELSE step[2]
      info(kind, n) == [kind |-> kind, reason |-> "", constant |-> n, header |-> h, pre |-> lp.pre,
                        latch |-> lp.latches[1], iv |-> iv[2], ord |-> ord, type |-> t, pred |-> pred,
                        update |-> update.res, compare |-> cmp.res, start |-> start, step |-> step,
                        bound |-> bound, cont |-> inside, sub |-> update.op = "isub",
                        nsw |-> nsw, modular |-> modular]
  IN IF ~value_is_param(f, h, iv) THEN Unknown("no_induction")
     ELSE IF step = NoFold THEN Unknown("no_induction")
     ELSE IF ~loop_operand_invariant(f, lp, start) \/ ~loop_operand_invariant(f, lp, bound)
          THEN Unknown("noninvariant")
     ELSE IF ~IsC(start) \/ ~IsC(bound) THEN info("runtime", NoTrip)
     ELSE With(opt_unroll_trip_count(t, pred, start[2], step1, bound[2], modular), LAMBDA n :
            IF n = NoTrip THEN Unknown("trip_wrap") ELSE info("constant", n)))))

loop_trip_analyze(f, lp) ==
  LET h == lp.header
      term == Terminator(f.blocks[h])
      inside == {e \in DOMAIN term.edges : term.edges[e].to \in lp.blocks}
  IN IF lp.pre = 0 THEN Unknown("no_preheader")
     ELSE IF Len(lp.latches) # 1 THEN Unknown("multi_latch")
     ELSE LET pre == edge_to(f, lp.pre, h)
              back == edge_to(f, lp.latches[1], h)
          IN IF pre = <<>> \/ back = <<>> \/ term.op # "condbr" THEN Unknown("shape")
             ELSE IF ~IsV(term.ops[1]) \/ Cardinality(inside) # 1 THEN Unknown("shape")
             ELSE With(value_inst(f, term.ops[1]), LAMBDA cmp :
                    IF cmp.op # "icmp" THEN Unknown("no_induction")
                    ELSE InductionOf(f, lp, pre[1], back[1], Min(inside), cmp))

(***************************************************************************)
(* loop_clone_region: copies of the region's blocks are appended; edges    *)
(* inside the region and uses of its definitions name the copies.          *)
(* region is a sequence of block ids.  The result: [f, block, value].      *)
(***************************************************************************)
HasPinned(f, bs) == \E b \in bs : \E i \in DOMAIN f.blocks[b].insts : "vol" \in f.blocks[b].insts[i].fl

loop_clone_region(f, region) ==
  LET n == Len(f.blocks)
      block == [b \in ToSet(region) |-> n + (CHOOSE i \in DOMAIN region : region[i] = b)]
      defsOf(b) == f.blocks[b].params \o
        SelectSeq([i \in DOMAIN f.blocks[b].insts |-> f.blocks[b].insts[i].res], LAMBDA r : r # 0)
  IN With(Fold(LAMBDA acc, b : acc \o defsOf(b), <<>>, region), LAMBDA defs :
  LET fresh == [v \in ToSet(defs) |-> Len(f.vals) + (CHOOSE i \in DOMAIN defs : defs[i] = v)]
      value == [v \in ToSet(defs) |-> V(fresh[v], f.vals[v])]
      use(o) == IF IsV(o) /\ o[2] \in DOMAIN value THEN value[o[2]] ELSE o
      inst(in) == [in EXCEPT !.res = IF @ = 0 THEN 0 ELSE fresh[@],
                     !.ops = [i \in DOMAIN @ |-> use(@[i])],
                     !.edges = [e \in DOMAIN @ |->
                        [@[e] EXCEPT !.to = IF @ \in DOMAIN block THEN block[@] ELSE @,
                                     !.args = [i \in DOMAIN @ |-> use(@[i])]]]]
      copy(b) == [params |-> [i \in DOMAIN f.blocks[b].params |-> fresh[f.blocks[b].params[i]]],
                  insts |-> [i \in DOMAIN f.blocks[b].insts |-> inst(f.blocks[b].insts[i])]]
  IN [f |-> [f EXCEPT !.vals = @ \o [i \in DOMAIN defs |-> f.vals[defs[i]]],
                      !.blocks = @ \o [i \in DOMAIN region |-> copy(region[i])]],
      block |-> block, value |-> value])
=============================================================================
