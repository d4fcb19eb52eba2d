---------------------------- MODULE MemoryPasses ----------------------------
(***************************************************************************)
(* What may be known of addresses (affine forms and points-to sets), and   *)
(* the passes that rest on it.                                             *)
(***************************************************************************)
EXTENDS LoopForest, ScalarPasses

(***************************************************************************)
(* Affine forms of an operand in a loop's induction variable, and the      *)
(* interval such an operand covers (src/opt/dep.c).  Checked arithmetic is *)
(* that of the widest signed word.                                         *)
(***************************************************************************)
I64Min == -(2 ^ (WideBits - 1))
I64Max == 2 ^ (WideBits - 1) - 1
InI64(x) == x \in I64Min..I64Max

\* An affine form k * iv + c, or NoAffine.
NoAffine == <<>>
Checked(k, c) == IF InI64(k) /\ InI64(c) THEN <<k, c>> ELSE NoAffine

\* The cast (i64)op.a: a narrow constant is held zero-extended.
AsI64(o) == IF TypeOf(o) = "i64" THEN Signed(o[2], "i64") ELSE o[2]

RECURSIVE affine_expr(_, _, _, _)
affine_expr(f, o, iv, depth) ==
  With(value_inst(f, o), LAMBDA in :
  With(affine_expr(f, in.ops[1], iv, depth + 1), LAMBDA a :
  With(affine_expr(f, in.ops[2], iv, depth + 1), LAMBDA b :
    CASE depth > 16 -> NoAffine
      [] IsC(o) -> <<0, AsI64(o)>>
      [] ~IsV(o) -> NoAffine
      [] o[2] = iv -> <<1, 0>>
      [] in.op \in {"sext", "zext"} -> a
      [] in.op = "shl" ->
           IF ~IsC(in.ops[2]) THEN NoAffine
           ELSE IF in.ops[2][2] > WideBits - 2 \/ a = NoAffine THEN NoAffine
           ELSE Checked(a[1] * 2 ^ in.ops[2][2], a[2] * 2 ^ in.ops[2][2])
      [] in.op \in {"iadd", "isub", "imul"} ->
           IF a = NoAffine \/ b = NoAffine THEN NoAffine
           ELSE IF in.op = "iadd" THEN Checked(a[1] + b[1], a[2] + b[2])
           ELSE IF in.op = "isub" THEN Checked(a[1] - b[1], a[2] - b[2])
           ELSE IF a[1] # 0 /\ b[1] # 0 THEN NoAffine
           ELSE IF a[1] # 0 THEN Checked(a[1] * b[2], a[2] * b[2])
           ELSE Checked(b[1] * a[2], b[2] * a[2])
      [] OTHER -> NoAffine)))

signed_loop_predicate(p) == p \in {"slt", "sle", "sgt", "sge"}

\* bits_as_i64: <<value>>, or <<>> when an unsigned value does not fit.
bits_as_i64(w, t, signed) ==
  IF signed THEN <<Signed(w, t)>> ELSE IF w > I64Max THEN <<>> ELSE <<w>>

\* The first and last value of the form over the iterations of one loop, or <<>>.
LoopRange(f, idom, lp, o, at) ==
  With(loop_trip_analyze(f, lp), LAMBDA trip :
  LET ok == trip.kind = "constant" /\ trip.constant # 0 /\ Len(lp.exits) = 1
  IN With(affine_expr(f, o, trip.iv, 0), LAMBDA expr :
  With(IF at # 0 THEN at ELSE IF IsV(o) THEN DefBlock(f, o[2]) ELSE 0, LAMBDA here :
  LET onPath == IF at # 0 THEN at \in lp.blocks /\ ir_dominates(idom, at, trip.latch)
                ELSE here \in lp.blocks => ir_dominates(idom, here, trip.latch)
      signed == signed_loop_predicate(trip.pred)
      start == bits_as_i64(trip.start[2], trip.type, signed)
      step0 == bits_as_i64(trip.step[2], trip.type, signed)
  IN With(IF trip.sub THEN -step0[1] ELSE step0[1], LAMBDA step :
  LET delta == step * (trip.constant - 1)
      last == start[1] + delta
      v1 == expr[1] * start[1] + expr[2]
      v2 == expr[1] * last + expr[2]
  IN With(/\ ~(trip.sub /\ step0[1] = I64Min)
          /\ \A x \in {step, delta, last, expr[1] * start[1], v1, expr[1] * last, v2} : InI64(x), LAMBDA fits :
    IF ~ok THEN <<>>
    ELSE IF expr = NoAffine THEN <<>>
    ELSE IF expr[1] = 0 \/ ~onPath \/ start = <<>> \/ step0 = <<>> THEN <<>>
    ELSE IF ~fits THEN <<>> ELSE <<Min({v1, v2}), Max({v1, v2})>>)))))

\* affine_range: the answer of the first loop that has one.
affine_range(f, tree, o, at) ==
  With({i \in DOMAIN tree.loops : LoopRange(f, tree.idom, tree.loops[i], o, at) # <<>>}, LAMBDA hits :
    IF hits = {} THEN <<>> ELSE LoopRange(f, tree.idom, tree.loops[Min(hits)], o, at))

(***************************************************************************)
(* Points-to and alias analysis (src/opt/alias.c): a flow-insensitive      *)
(* solver over abstract objects with an offset hull per pointer.  Objects: *)
(* 0 is everything unknown, 1..nsyms the module's symbols, and an alloca   *)
(* is nsyms plus its value's number.  Restrict parameters, allocation and  *)
(* return seeds (used only by the memory-safety diagnostics) are not       *)
(* modelled.  Sizes are in cells; every scalar is one cell.                *)
(***************************************************************************)
NoEnd == ObjSize - 1          \* INT64_MAX; -NoEnd is INT64_MIN
FullOff == <<-NoEnd, NoEnd>>
Unset == <<>>
UnknownPts == {0}

operand_pts(c, o) ==
  CASE IsV(o) -> IF c.vp[o[2]] # {} THEN c.vp[o[2]] ELSE UnknownPts
    [] Kind(o) = "s" -> {o[2] \div ObjSize}
    [] OTHER -> UnknownPts

operand_off(c, o) ==
  CASE Kind(o) = "s" -> <<o[2] % ObjSize, o[2] % ObjSize>>
    [] IsV(o) -> IF c.vo[o[2]] # Unset THEN c.vo[o[2]] ELSE FullOff
    [] OTHER -> FullOff

\* off_join: the hull; in the widening phase an end that still moves goes to infinity.
off_join(c, dst, src) ==
  LET lo == Min({dst[1], src[1]})
      hi == Max({dst[2], src[2]})
  IN IF src = Unset THEN dst
     ELSE IF dst = Unset THEN src
     ELSE IF ~c.widen THEN <<lo, hi>>
     ELSE <<IF lo < dst[1] THEN -NoEnd ELSE lo, IF hi > dst[2] THEN NoEnd ELSE hi>>

FlowInto(c, v, pts, off) == [c EXCEPT !.vp[v] = @ \cup pts, !.vo[v] = off_join(c, @, off)]

\* The constant a chain of integer operations computes, or NoFold.
RECURSIVE fold_integer_operand(_, _, _)
fold_integer_operand(f, o, depth) ==
  With(value_inst(f, o), LAMBDA def :
  With([i \in DOMAIN def.ops |-> fold_integer_operand(f, def.ops[i], depth + 1)], LAMBDA ops :
    IF IsC(o) THEN o
    ELSE IF ~IsV(o) \/ depth > Len(f.vals) THEN NoFold
    ELSE IF def.op \notin {"iadd", "isub", "imul", "shl", "lshr", "ashr", "sext", "zext", "trunc"} THEN NoFold
    ELSE IF NoFold \in ToSet(ops) THEN NoFold
    ELSE With(opt_fold_inst([def EXCEPT !.ops = ops], f.vals[o[2]]), LAMBDA r :
           IF IsC(r) THEN r ELSE NoFold)))

\* shifted_off: a pointer's hull moved by an index that is constant or affine.
shifted_off(c, base, o) ==
  With(fold_integer_operand(c.f, o, 0), LAMBDA k :
  With(IF k # NoFold THEN <<AsI64(k), AsI64(k)>> ELSE affine_range(c.f, c.tree, o, 0), LAMBDA r :
  LET lo == base[1] + r[1]
      hi == base[2] + r[2]
  IN IF r = <<>> THEN FullOff
     ELSE IF lo < -NoEnd \/ hi > NoEnd THEN FullOff ELSE <<lo, hi>>))

Objects(c) == DOMAIN c.mp
Targets(c, o) == IF 0 \in operand_pts(c, o) THEN Objects(c) ELSE operand_pts(c, o)

propagate_edges(c) ==
  LET arg(d, e, i) == IF TypeOf(e.args[i]) # "ptr" THEN d
                      ELSE FlowInto(d, c.f.blocks[e.to].params[i],
                                    operand_pts(d, e.args[i]), operand_off(d, e.args[i]))
      edge(d, e) == Fold(LAMBDA x, i : arg(x, e, i), d, [i \in DOMAIN e.args |-> i])
  IN With(Fold(LAMBDA acc, blk : acc \o Terminator(blk).edges, <<>>, c.f.blocks), LAMBDA all :
    Fold(edge, c, all))

\* Pointer contents pts with hull off are added to the objects of set objs.
Fill(c, objs, pts, off, explicit) ==
  [c EXCEPT !.mp = [o \in DOMAIN @ |-> IF o \in objs THEN @[o] \cup pts ELSE @[o]],
            !.st = [o \in DOMAIN @ |-> IF o \in objs /\ explicit THEN @[o] \cup pts ELSE @[o]],
            !.mo = [o \in DOMAIN @ |-> IF o \in objs THEN off_join(c, @[o], off) ELSE @[o]]]

propagate_store(c, val, ptr) == Fill(c, Targets(c, ptr), operand_pts(c, val), operand_off(c, val), TRUE)

propagate_load(c, v, ptr) ==
  With(IF 0 \in operand_pts(c, ptr) THEN FlowInto(c, v, UnknownPts, FullOff) ELSE c, LAMBDA start :
    Fold(LAMBDA d, o : FlowInto(d, v, d.mp[o], d.mo[o]), start,
             Sorted(Targets(c, ptr), LAMBDA x, y : x < y)))

\* What a call can reach: the globals, its pointer arguments and what they hold.
RECURSIVE CallReach(_, _)
CallReach(c, objs) ==
  LET next == objs \cup UNION {c.st[o] : o \in objs}
  IN IF 0 \in objs THEN Objects(c) ELSE IF next = objs THEN objs ELSE CallReach(c, next)

poison_call_memory(c, in) ==
  LET passed == UNION {operand_pts(c, in.ops[i]) : i \in {j \in DOMAIN in.ops : TypeOf(in.ops[j]) = "ptr"}}
  IN Fill(c, CallReach(c, (1..c.nsyms) \cup passed), UnknownPts, FullOff, FALSE)

propagate_inst(c, in) ==
  LET ptr == in.res # 0 /\ c.f.vals[in.res] = "ptr"
      into(d, o) == FlowInto(d, in.res, operand_pts(d, o), operand_off(d, o))
  IN CASE in.op = "ptradd" ->
            FlowInto(c, in.res, operand_pts(c, in.ops[1]), shifted_off(c, operand_off(c, in.ops[1]), in.ops[2]))
       [] in.op = "select" /\ ptr -> into(into(c, in.ops[2]), in.ops[3])
       [] in.op = "load" /\ ptr -> propagate_load(c, in.res, in.ops[1])
       [] in.op = "store" /\ TypeOf(in.ops[1]) = "ptr" -> propagate_store(c, in.ops[1], in.ops[2])
       [] in.op = "memcpy" -> Fill(c, Targets(c, in.ops[1]), UnknownPts, FullOff, TRUE)
       [] in.op = "call" ->
            poison_call_memory(IF ptr THEN FlowInto(c, in.res, UnknownPts, FullOff) ELSE c, in)
       [] OTHER -> c

AllInOrder(f) == Fold(LAMBDA acc, blk : acc \o blk.insts, <<>>, f.blocks)

\* The solver loop.  Widening starts once the points-to sets have been stable for a
\* full dependency depth; reaching the cap is an internal error.
RECURSIVE SolveAlias(_, _, _)
SolveAlias(c, stable, iteration) ==
  LET depth == Len(c.f.vals) + Cardinality(Objects(c)) + 1
      cap == depth * (Cardinality(Objects(c)) + 2) * 2
      d == [c EXCEPT !.widen = stable >= depth]
  IN Strictly(Fold(propagate_inst, propagate_edges(d), AllInOrder(c.f)), LAMBDA next :
  LET moved == next.vp # d.vp \/ next.mp # d.mp \/ next.st # d.st
  IN IF iteration = cap THEN [c EXCEPT !.ice = TRUE]
     ELSE IF next = d THEN c
     ELSE SolveAlias(next, IF moved THEN 0 ELSE Min({stable + 1, depth}), iteration + 1))

\* init_roots: pointer parameters are unknown at offset 0, allocas themselves.
init_roots(m, f) ==
  LET n == Len(m.globals)
      allocas == {InstAt(f, p).res : p \in {q \in AllInsts(f) : InstAt(f, q).op = "alloca"}}
      params == {v \in ToSet(f.params) : f.vals[v] = "ptr"}
      objs == (0..n) \cup {n + v : v \in allocas}
  IN [f |-> f, tree |-> loop_tree_build(f), nsyms |-> n, widen |-> FALSE, ice |-> FALSE, esc |-> {},
      vp |-> Evaluated([v \in DOMAIN f.vals |-> IF v \in params THEN UnknownPts
                                              ELSE IF v \in allocas THEN {n + v} ELSE {}]),
      vo |-> Evaluated([v \in DOMAIN f.vals |-> IF v \in params \cup allocas THEN <<0, 0>> ELSE Unset]),
      mp |-> [o \in objs |-> {}], st |-> [o \in objs |-> {}], mo |-> [o \in objs |-> Unset]]

\* mark_escapes: what is stored, passed to a call or returned.
mark_escapes(c) ==
  LET leaks(in) == CASE in.op = "store" -> {in.ops[1]}
                     [] in.op \in {"call", "ret"} -> ToSet(in.ops)
                     [] OTHER -> {}
      all == UNION {leaks(InstAt(c.f, p)) : p \in AllInsts(c.f)}
  IN [c EXCEPT !.esc = UNION {operand_pts(c, o) : o \in {x \in all : TypeOf(x) = "ptr"}}]

alias_build(m, f) ==
  With(SolveAlias(init_roots(m, f), 0, 0), LAMBDA c :
  LET lost(v) == f.vals[v] = "ptr" /\ c.vp[v] = {}
  IN mark_escapes([c EXCEPT !.vp = [v \in DOMAIN @ |-> IF lost(v) THEN UnknownPts ELSE @[v]],
                            !.vo = [v \in DOMAIN @ |-> IF lost(v) THEN FullOff ELSE @[v]]]))

alias_escapes(c, o) == 0 \in operand_pts(c, o) \/ operand_pts(c, o) \cap c.esc # {}

\* A location: address operand, size in cells, effective type.
MemLoc(o, size, t) == [base |-> o, size |-> size, type |-> t]
NoLoc == MemLoc(Undef("ptr"), 0, "")

\* footprint: <<first, last>> cell, or Unset when unbounded.
footprint(c, l) ==
  LET off == operand_off(c, l.base)
  IN IF off[1] = -NoEnd \/ off[2] = NoEnd \/ l.size = 0 THEN Unset ELSE <<off[1], off[2] + l.size - 1>>

type_disjoint(a, b) == {a, b} \cap {"", "char", "agg"} = {} /\ a # b
SingleObject(c, o) == Cardinality(operand_pts(c, o)) = 1
Exact(c, o) == operand_off(c, o)[1] = operand_off(c, o)[2]
SymNumber(o) == o[2] \div ObjSize
DistinctSymbols(a, b) == Kind(a) = "s" /\ Kind(b) = "s" /\ SymNumber(a) # SymNumber(b)
SameObject(c, a, b) ==
  /\ SingleObject(c, a) /\ operand_pts(c, a) = operand_pts(c, b)
  /\ operand_pts(c, a) # UnknownPts \/ a = b

alias_query(c, x, y) ==
  LET a == x.base
      b == y.base
  IN With(footprint(c, x), LAMBDA fa :
  With(footprint(c, y), LAMBDA fb :
  LET known == fa # Unset /\ fb # Unset
      apart == known /\ (fa[2] < fb[1] \/ fb[2] < fa[1])
  IN With(/\ 0 \notin operand_pts(c, a) /\ 0 \notin operand_pts(c, b)
          /\ operand_pts(c, a) \cap operand_pts(c, b) = {}, LAMBDA provenance :
    CASE x.size = 0 \/ y.size = 0 \/ DistinctSymbols(a, b) -> "no"
      [] SameObject(c, a, b) /\ known /\ fa = fb /\ (a = b \/ (Exact(c, a) /\ Exact(c, b))) -> "must"
      [] provenance \/ (SameObject(c, a, b) /\ apart) \/ type_disjoint(x.type, y.type) -> "no"
      [] OTHER -> "may")))

alias_covers(c, outer, inner) ==
  LET a == outer.base
      b == inner.base
  IN With(footprint(c, outer), LAMBDA fo :
  With(footprint(c, inner), LAMBDA fi :
    /\ ~DistinctSymbols(a, b) /\ SameObject(c, a, b) /\ fo # Unset /\ fi # Unset
    /\ a = b \/ (Exact(c, a) /\ Exact(c, b))
    /\ fo[1] <= fi[1] /\ fo[2] >= fi[2]))

(***************************************************************************)
(* Global value numbering (src/opt/gvn.c): in dominator preorder, a pure   *)
(* expression is replaced by the dominating leader of its class, and a     *)
(* load by the value a store or load before it in its own block, or in its *)
(* only predecessor, is known to have left there.                          *)
(***************************************************************************)
GVN_MEMORY_INST_LIMIT == 4096

is_pure_candidate(op) == is_candidate(op) /\ op \notin Divisions \cup Shifts

\* The pass keeps its own copy of the undef analysis.
may_undef_values(f) == cse_find_may_undef(f, {})

gvn_is_barrier(in) == in.op = "call" \/ "vol" \in in.fl

ReadLoc(in) == IF in.op = "load" THEN MemLoc(in.ops[1], 1, in.sub) ELSE NoLoc

gvn_write_loc(in) ==
  CASE in.op = "store" -> MemLoc(in.ops[2], 1, in.sub)
    [] in.op \in {"memcpy", "memset"} ->
         IF IsC(in.ops[3]) THEN MemLoc(in.ops[1], in.ops[3][2], "char") ELSE NoLoc
    [] OTHER -> NoLoc

\* scan_memory_range: backwards over insts for what the load must read.
RECURSIVE scan_memory_range(_, _, _, _, _)
scan_memory_range(alias, insts, load, c, mu) ==
  LET in == insts[Len(insts)]
  IN With(scan_memory_range(alias, Front(insts), load, c, mu), LAMBDA rest :
  LET wanted == ReadLoc(load)
      type == alias.f.vals[load.res]
      found(o) == <<"found", Resolve(o, c.repl)>>
      blocked == <<"blocked", NoFold>>
  IN With(alias_query(alias, wanted, gvn_write_loc(in)), LAMBDA relation :
  LET forwardable(o) == TypeOf(o) = type /\ Kind(o) # "u" /\ ~(IsV(o) /\ o[2] \in mu)
  IN IF insts = <<>> THEN <<"none", NoFold>>
     ELSE IF gvn_is_barrier(in) THEN blocked
     ELSE IF in.op = "load"
          THEN IF alias.f.vals[in.res] # type THEN rest
               ELSE IF alias_query(alias, wanted, ReadLoc(in)) = "must"
                    THEN found(V(in.res, type)) ELSE rest
     ELSE IF in.op \notin {"store", "memcpy", "memset"} THEN rest
     ELSE IF gvn_write_loc(in) = NoLoc THEN blocked
     ELSE IF relation = "no" THEN rest
     ELSE IF in.op = "store" /\ relation = "must"
          THEN IF forwardable(in.ops[1]) THEN found(in.ops[1]) ELSE blocked
     ELSE blocked))

EdgeCount(f, b) ==
  Fold(LAMBDA n, blk : n + Len(SelectSeq(Terminator(blk).edges, LAMBDA e : e.to = b)), 0, f.blocks)

\* find_load_value: the load's own block, then its dominator if that is the only way in.
find_load_value(alias, f, idom, b, pos, c, mu) ==
  LET load == f.blocks[b].insts[pos]
  IN With(scan_memory_range(alias, SubSeq(f.blocks[b].insts, 1, pos - 1), load, c, mu), LAMBDA here :
  LET d == idom[b]
  IN IF here[1] # "none" \/ d = 0 THEN here
     ELSE IF EdgeCount(f, b) # 1 \/ b \notin Succs(f, d) THEN here
     ELSE scan_memory_range(alias, f.blocks[d].insts, load, c, mu))

\* The key of an expression over the classes of its operands.
class_operand(c, o) == IF IsV(o) THEN V(c.cls[o[2]], o[3]) ELSE o
ClassKey(c, in, t) == make_key([in EXCEPT !.ops = [i \in DOMAIN @ |-> class_operand(c, @[i])]], t)

NewClass(c, v) == [c EXCEPT !.cls[v] = c.next, !.next = @ + 1]

\* Mutant: the leader need not dominate the expression it replaces.
MutNumberPure(c, f, idom, b, in) ==
  LET key == ClassKey(c, in, f.vals[in.res])
      hits == {i \in DOMAIN c.table : c.table[i].key = key}
  IN With(c.table[Min(hits)].leader, LAMBDA leader :
    IF hits # {}
    THEN [c EXCEPT !.repl = Put(@, in.res, V(leader, f.vals[leader])), !.cls[in.res] = c.cls[leader]]
    ELSE [NewClass(c, in.res) EXCEPT !.table = Append(@, [key |-> key, block |-> b, leader |-> in.res])])
number_pure(c, f, idom, b, in) ==
  LET key == ClassKey(c, in, f.vals[in.res])
  IN With({i \in DOMAIN c.table : c.table[i].key = key /\ ir_dominates(idom, c.table[i].block, b)}, LAMBDA hits :
  LET leader == c.table[Min(hits)].leader
  IN IF hits # {}
     THEN [c EXCEPT !.repl = Put(@, in.res, V(leader, f.vals[leader])), !.cls[in.res] = c.cls[leader]]
     ELSE [NewClass(c, in.res) EXCEPT !.table = Append(@, [key |-> key, block |-> b, leader |-> in.res])])

number_load(c, f, idom, alias, mu, b, pos) ==
  LET res == f.blocks[b].insts[pos].res
  IN With(find_load_value(alias, f, idom, b, pos, c, mu), LAMBDA hit :
  LET d == [c EXCEPT !.repl = Put(@, res, hit[2])]
  IN IF hit[1] # "found" THEN NewClass(c, res)
     ELSE IF IsV(hit[2]) THEN [d EXCEPT !.cls[res] = c.cls[hit[2][2]]] ELSE NewClass(d, res))

gvn_func(m, f) ==
  Strictly(ir_domtree_build(f), LAMBDA idom :
  Strictly(may_undef_values(f), LAMBDA mu :
  LET memory == Cardinality(AllInsts(f)) <= GVN_MEMORY_INST_LIMIT
  IN Strictly(alias_build(m, f), LAMBDA alias :
  With(f.params \o Fold(LAMBDA acc, blk : acc \o blk.params, <<>>, f.blocks), LAMBDA params :
  With(Fold(NewClass, [cls |-> Evaluated([v \in DOMAIN f.vals |-> 0]), next |-> 1,
                           table |-> <<>>, repl |-> <<>>], params), LAMBDA start :
  LET pure(in) == /\ is_pure_candidate(in.op) /\ in.res \notin mu
                  /\ \A i \in DOMAIN in.ops : Kind(in.ops[i]) # "u" /\ ~(IsV(in.ops[i]) /\ in.ops[i][2] \in mu)
      visit(c, b, i) == LET in == f.blocks[b].insts[i]
                        IN IF in.res = 0 THEN c
                           ELSE IF pure(in) THEN number_pure(c, f, idom, b, in)
                           ELSE IF memory /\ in.op = "load" /\ "vol" \notin in.fl THEN number_load(c, f, idom, alias, mu, b, i)
                           ELSE NewClass(c, in.res)
      block(c, b) == Fold(LAMBDA d, i : visit(d, b, i), c, [i \in DOMAIN f.blocks[b].insts |-> i])
  IN With(Fold(block, start, DomPreorder(idom, 1)), LAMBDA c :
  LET g == [f EXCEPT !.blocks = [b \in DOMAIN @ |->
              [@[b] EXCEPT !.insts = SelectSeq(@, LAMBDA in : in.res \notin DOMAIN c.repl)]]]
  IN IF DOMAIN c.repl = {} THEN f ELSE ir_func_renumber(RewriteUses(g, c.repl))))))))

opt_gvn(m) == [m EXCEPT !.funcs = [k \in DOMAIN @ |-> gvn_func(m, @[k])]]

(***************************************************************************)
(* Dead store elimination (src/opt/dse.c): backwards through each block,   *)
(* a write whose cells are all overwritten before anything may read them   *)
(* goes.  Before a return every alloca that never escapes is dead.         *)
(***************************************************************************)
DSE_MEMORY_INST_LIMIT == 4096

singleton_object(alias, o) == 0 \notin operand_pts(alias, o) /\ SingleObject(alias, o)
known_interval(alias, o) == Exact(alias, o) /\ operand_off(alias, o)[1] \notin {-NoEnd, NoEnd}

\* A cover: the location and, when known, its object and half-open interval of cells.
Cover(alias, loc) ==
  With(singleton_object(alias, loc.base) /\ known_interval(alias, loc.base), LAMBDA known :
  LET lo == operand_off(alias, loc.base)[1]
  IN [loc |-> loc, known |-> known,
      object |-> IF known THEN CHOOSE x \in operand_pts(alias, loc.base) : TRUE ELSE 0,
      cells |-> IF known THEN lo..(lo + loc.size - 1) ELSE {}])

dse_write_loc(in) ==
  CASE in.op = "store" -> MemLoc(in.ops[2], 1, in.sub)
    [] in.op = "memset" -> IF IsC(in.ops[3]) THEN MemLoc(in.ops[1], in.ops[3][2], in.sub) ELSE NoLoc
    [] OTHER -> NoLoc

dse_is_barrier(in) == in.op \in {"call", "memcpy"} \/ "vol" \in in.fl

\* apply_read: a read ends every cover it may touch.
apply_read(alias, covers, loc) == {k \in covers : alias_query(alias, loc, k.loc) = "no"}

aggregate_covers(covers, w) ==
  w.known /\ w.cells \subseteq UNION {k.cells : k \in {x \in covers : x.known /\ x.object = w.object}}

any_single_cover(alias, covers, loc) == \E k \in covers : alias_covers(alias, k.loc, loc)

seed_dead_allocas(alias, f) ==
  LET allocas == {in \in {InstAt(f, p) : p \in AllInsts(f)} : in.op = "alloca"}
      ptr(in) == V(in.res, "ptr")
  IN {Cover(alias, MemLoc(ptr(in), in.ops[1][2], in.sub)) :
        in \in {x \in allocas : IsC(x.ops[1]) /\ x.ops[1][2] # 0 /\ ~alias_escapes(alias, ptr(x))
                                /\ Cover(alias, MemLoc(ptr(x), x.ops[1][2], x.sub)).known}}

\* One step back over an instruction; c.keep collects what stays.
dse_inst(alias, in, c) ==
  LET loc == dse_write_loc(in)
  IN With(Cover(alias, loc), LAMBDA cover :
  LET kept == [c EXCEPT !.keep = <<in>> \o @]
  IN CASE dse_is_barrier(in) -> [kept EXCEPT !.covers = {}]
       [] in.op = "load" -> [kept EXCEPT !.covers = apply_read(alias, @, MemLoc(in.ops[1], 1, in.sub))]
       [] loc.size = 0 -> kept
       [] any_single_cover(alias, c.covers, loc) \/ aggregate_covers(c.covers, cover) -> c
       [] OTHER -> [kept EXCEPT !.covers = @ \cup {cover}])

dse_func(m, f) ==
  Strictly(alias_build(m, f), LAMBDA alias :
  LET exits(blk) == Terminator(blk).op \in {"ret", "unreachable"}
      block(blk) == FoldRight(LAMBDA in, c : dse_inst(alias, in, c), blk.insts,
                      [keep |-> <<>>, covers |-> IF exits(blk) THEN seed_dead_allocas(alias, f) ELSE {}]).keep
  IN With([f EXCEPT !.blocks = [b \in DOMAIN @ |-> [@[b] EXCEPT !.insts = block(f.blocks[b])]]], LAMBDA g :
    IF Cardinality(AllInsts(f)) > DSE_MEMORY_INST_LIMIT \/ g = f THEN f ELSE ir_func_renumber(g)))

opt_dse(m) == [m EXCEPT !.funcs = [k \in DOMAIN @ |-> dse_func(m, @[k])]]

(***************************************************************************)
(* Loop-invariant code motion (src/opt/licm.c): invariant computations and *)
(* loads move to the preheader, an invariant store to the only exit.       *)
(***************************************************************************)
LICM_MAX_FUNC_INSTS == 512

operand_is_zero(o) == IsC(o) /\ o[2] = 0

\* checked_nonzero: a dominating test against zero whose safe edge's target dominates.
checked_nonzero(f, idom, before, wanted) ==
  LET test(b) == value_inst(f, Terminator(f.blocks[b]).ops[1])
      compares(b) == \/ test(b).ops[1] = wanted /\ operand_is_zero(test(b).ops[2])
                     \/ test(b).ops[2] = wanted /\ operand_is_zero(test(b).ops[1])
      safe(b) == IF test(b).sub = "ne" THEN 1 ELSE 2
  IN IF IsC(wanted) THEN wanted[2] # 0
     ELSE \E b \in BlockIds(f) :
            /\ ir_dominates(idom, b, before) /\ Terminator(f.blocks[b]).op = "condbr"
            /\ test(b).op = "icmp" /\ test(b).sub \in {"eq", "ne"} /\ compares(b)
            /\ ir_dominates(idom, Edges(f, b)[safe(b)].to, before)

\* Neither -1 as divisor nor the least value as dividend.
signed_div_safe(in, t) ==
  \/ IsC(in.ops[2]) /\ in.ops[2][2] # IntMask(t) - 1
  \/ IsC(in.ops[1]) /\ in.ops[1][2] # 2 ^ (type_bits(t) - 1)

pure_candidate(op) == op \in BinOps \cup {"icmp", "ptradd", "select"}

operand_invariant(f, lp, o) ==
  Kind(o) # "u" /\ (IsV(o) => DefBlock(f, o[2]) \notin lp.blocks)
inst_operands_invariant(f, lp, in) == \A i \in DOMAIN in.ops : operand_invariant(f, lp, in.ops[i])

\* pointer_dereferenceable: a global or an alloca with the cell inside it.
RECURSIVE pointer_dereferenceable(_, _, _, _)
pointer_dereferenceable(m, f, o, need) ==
  With(value_inst(f, o), LAMBDA def :
    CASE Kind(o) = "s" -> (o[2] % ObjSize) + need <= Len(m.globals[SymNumber(o)])
      [] def.op = "alloca" -> IsC(def.ops[1]) /\ def.ops[1][2] >= need
      [] def.op = "ptradd" -> /\ IsC(def.ops[2]) /\ AsI64(def.ops[2]) >= 0
                              /\ pointer_dereferenceable(m, f, def.ops[1], need + def.ops[2][2])
      [] OTHER -> FALSE)

\* Every exit and every cycle inside the loop passes the block first.
load_executes_before_every_progress(f, idom, lp, b) ==
  /\ lp.exits # <<>>
  /\ \A x \in ToSet(lp.exits) : ir_dominates(idom, b, x[1])
  /\ \A s \in lp.blocks : \A t \in Succs(f, s) \cap lp.blocks :
       ir_dominates(idom, t, s) => ir_dominates(idom, b, s)

licm_write_loc(in) ==
  CASE in.op = "store" -> MemLoc(in.ops[2], 1, in.sub)
    [] in.op \in {"memcpy", "memset"} ->
         IF IsC(in.ops[3]) THEN MemLoc(in.ops[1], in.ops[3][2], "char") ELSE NoLoc
    [] OTHER -> NoLoc
read_loc(in) ==
  CASE in.op = "load" -> MemLoc(in.ops[1], 1, in.sub)
    [] in.op = "memcpy" -> IF IsC(in.ops[3]) THEN MemLoc(in.ops[2], in.ops[3][2], "char") ELSE NoLoc
    [] OTHER -> NoLoc
Writers == {"store", "memcpy", "memset"}

\* Mutant: a call may be crossed by loads and stores.
MutMemoryStateBarrier(in) == FALSE
memory_state_barrier(in) == in.op = "call"

Positions(f, lp) == {p \in AllInsts(f) : p[1] \in lp.blocks}

load_unclobbered(alias, f, lp, pos) ==
  \A p \in Positions(f, lp) \ {pos} :
    LET in == InstAt(f, p)
    IN /\ ~memory_state_barrier(in)
       /\ in.op \in Writers => /\ licm_write_loc(in) # NoLoc
                               /\ alias_query(alias, read_loc(InstAt(f, pos)), licm_write_loc(in)) = "no"

\* store_sink_safe.  Of a memcpy only the write is compared: licm_write_loc is tried first.
store_sink_safe(alias, f, idom, lp, pos) ==
  LET store == InstAt(f, pos)
      touched(in) == IF licm_write_loc(in) # NoLoc THEN licm_write_loc(in) ELSE read_loc(in)
  IN /\ Len(lp.exits) = 1
     /\ ir_dominates(idom, pos[1], lp.exits[1][1])
     /\ inst_operands_invariant(f, lp, store)
     /\ \A p \in Positions(f, lp) \ {pos} :
          LET in == InstAt(f, p)
          IN /\ ~memory_state_barrier(in) /\ "vol" \notin in.fl
             /\ in.op \in Writers \cup {"load"} =>
                  /\ touched(in) # NoLoc
                  /\ alias_query(alias, licm_write_loc(store), touched(in)) = "no"

\* Where an instruction may move: "stay", "hoist" or "sink".
eligible(m, f, idom, lp, alias, pos) ==
  LET in == InstAt(f, pos)
      t == f.vals[in.res]
  IN With(/\ inst_operands_invariant(f, lp, in)
          /\ \/ load_executes_before_every_progress(f, idom, lp, pos[1])
             \/ pointer_dereferenceable(m, f, in.ops[1], 1)
          /\ load_unclobbered(alias, f, lp, pos), LAMBDA hoistLoad :
  With(/\ pure_candidate(in.op) /\ in.res # 0 /\ inst_operands_invariant(f, lp, in)
       /\ in.op \in Shifts => IsC(in.ops[2]) /\ in.ops[2][2] < type_bits(t)
       /\ in.op \in Divisions => checked_nonzero(f, idom, lp.pre, in.ops[2])
       /\ in.op \in {"sdiv", "srem"} => signed_div_safe(in, t), LAMBDA hoistPure :
  LET when(c, where) == IF c THEN where ELSE "stay"
  IN CASE "vol" \in in.fl \/ in.op = "call" -> "stay"
       [] in.op = "store" -> when(store_sink_safe(alias, f, idom, lp, pos), "sink")
       [] in.op = "load" -> when(hoistLoad, "hoist")
       [] OTHER -> when(hoistPure, "hoist")))

\* run_loop: waves of moves until none is left.
RECURSIVE run_loop(_, _, _, _)
run_loop(m, f, idom, lp) ==
  Strictly(alias_build(m, f), LAMBDA alias :
  LET order == Sorted(Positions(f, lp), Lex)
  IN With([p \in Positions(f, lp) |-> eligible(m, f, idom, lp, alias, p)], LAMBDA where :
  LET moved(w) == LET ps == SelectSeq(order, LAMBDA p : where[p] = w) IN [i \in DOMAIN ps |-> InstAt(f, ps[i])]
      left(b) == LET kept == {i \in DOMAIN f.blocks[b].insts : b \in lp.blocks => where[<<b, i>>] = "stay"}
                     seq == Sorted(kept, LAMBDA x, y : x < y)
                 IN [i \in DOMAIN seq |-> f.blocks[b].insts[seq[i]]]
      insts(b) == LET old == left(b)
                      hoisted == IF b = lp.pre THEN moved("hoist") ELSE <<>>
                      sunk == IF lp.exits # <<>> /\ b = lp.exits[1][2] THEN moved("sink") ELSE <<>>
                  IN sunk \o Front(old) \o hoisted \o <<Last(old)>>
  IN IF moved("hoist") = <<>> /\ moved("sink") = <<>> THEN f
     ELSE Strictly(ir_func_renumber([f EXCEPT !.blocks = [b \in DOMAIN @ |-> [@[b] EXCEPT !.insts = insts(b)]]]),
                   LAMBDA g : run_loop(m, g, idom, lp))))

run_func(m, f) ==
  Strictly(loop_canonicalize(f), LAMBDA g :
  Strictly(loop_tree_build(g), LAMBDA tree :
  LET deeper(i, j) == \/ tree.loops[i].depth > tree.loops[j].depth
                      \/ tree.loops[i].depth = tree.loops[j].depth /\ i < j
      order == Sorted(DOMAIN tree.loops, deeper)
  IN IF tree.irreducible \/ Cardinality(AllInsts(g)) > LICM_MAX_FUNC_INSTS THEN g
     ELSE Fold(LAMBDA h, i : run_loop(m, h, tree.idom, tree.loops[i]), g, order)))

opt_licm(m) == [m EXCEPT !.funcs = [k \in DOMAIN @ |-> run_func(m, @[k])]]

(***************************************************************************)
(* Dependence distances and loop fusion (src/opt/dep.c): two adjacent      *)
(* two-block loops with the same constant trip become one when no access   *)
(* of the second would be moved before one of the first it depends on.     *)
(***************************************************************************)
NoAccess == [base |-> Undef("ptr"), stride |-> 0, offset |-> 0]

\* dep_access_from_ptr: base + stride * iv + offset, one cell wide.
dep_access_from_ptr(f, ptr, iv) ==
  With(value_inst(f, ptr), LAMBDA in :
  With(affine_expr(f, in.ops[2], iv, 0), LAMBDA off :
    IF in.op # "ptradd" THEN NoAccess
    ELSE IF off = NoAffine THEN NoAccess
    ELSE IF off[1] = 0 THEN NoAccess
    ELSE [base |-> in.ops[1], stride |-> off[1], offset |-> off[2]]))

points_to_disjoint(alias, a, b) ==
  \/ DistinctSymbols(a, b)
  \/ /\ 0 \notin operand_pts(alias, a) \cup operand_pts(alias, b)
     /\ operand_pts(alias, a) \cap operand_pts(alias, b) = {}

AbsVal(x) == IF x < 0 THEN -x ELSE x
TruncDiv(a, b) == LET q == AbsVal(a) \div AbsVal(b) IN IF (a < 0) # (b < 0) THEN -q ELSE q

\* dep_query: <<"independent", 0>>, <<"distance", iterations>> or <<"unknown", 0>>.
dep_query(alias, a, b) ==
  LET diff == a.offset - b.offset
  IN CASE a.stride = 0 \/ a.stride # b.stride -> <<"unknown", 0>>
       [] a.base # b.base -> IF points_to_disjoint(alias, a.base, b.base)
                             THEN <<"independent", 0>> ELSE <<"unknown", 0>>
       [] ~InI64(diff) -> <<"unknown", 0>>
       [] AbsVal(diff) % AbsVal(a.stride) # 0 -> <<"independent", 0>>
       [] OTHER -> <<"distance", TruncDiv(diff, a.stride)>>

supported_body_op(in) ==
  "vol" \notin in.fl /\ in.op \in BinOps \cup {"icmp", "ptradd", "load", "store"}

\* An operand of the second body still exists where it is cloned to.
clone_operand_available(f, idom, a, b, body, iv, o) ==
  \/ ~IsV(o) \/ o[2] = iv
  \/ With(DefBlock(f, o[2]), LAMBDA d :
       \/ d \in {0, body}
       \/ d # b.pre /\ d \notin b.blocks /\ ir_dominates(idom, d, a.pre))

loop_has_direct_liveout(f, lp) ==
  \E b \in BlockIds(f) \ lp.blocks : \E i \in DOMAIN f.blocks[b].insts :
    \E v \in ValuesUsed(f.blocks[b].insts[i]) : DefBlock(f, v) \in lp.blocks

trip_equal(a, b) ==
  /\ a.kind = "constant" /\ b.kind = "constant"
  /\ \A k \in {"constant", "type", "pred", "sub", "start", "step", "bound"} : a[k] = b[k]

\* access_for_inst: the stride per iteration includes the induction step.
access_for_inst(f, in, trip) ==
  With(dep_access_from_ptr(f, IF in.op = "load" THEN in.ops[1] ELSE in.ops[2], trip.iv), LAMBDA acc :
  LET step == bits_as_i64(trip.step[2], trip.type, signed_loop_predicate(trip.pred))
  IN With(acc.stride * (IF trip.sub THEN -step[1] ELSE step[1]), LAMBDA stride :
    IF acc = NoAccess \/ step = <<>> THEN NoAccess
    ELSE IF (trip.sub /\ step[1] = I64Min) \/ ~InI64(stride) \/ stride = 0 THEN NoAccess
    ELSE [acc EXCEPT !.stride = stride]))

fusion_dependences_ok(m, f, abody, ta, bbody, tb) ==
  With(alias_build(m, f), LAMBDA alias :
  LET accesses(b) == {in \in ToSet(Body(f.blocks[b])) : in.op \in {"load", "store"}}
      ok(x, y) == With(access_for_inst(f, x, ta), LAMBDA a :
                  With(access_for_inst(f, y, tb), LAMBDA b :
                  With(dep_query(alias, a, b), LAMBDA d :
                    /\ NoAccess \notin {a, b} /\ d[1] # "unknown"
                    /\ ~(d[1] = "distance" /\ d[2] < 0))))
  IN \A x \in accesses(abody) :
       /\ access_for_inst(f, x, ta) # NoAccess
       /\ \A y \in accesses(bbody) : ~(x.op = "load" /\ y.op = "load") => ok(x, y))

\* The shape fuse_pair asks for, besides the dependences.
Fusable(f, idom, a, b) ==
  With(loop_trip_analyze(f, a), LAMBDA ta :
  With(loop_trip_analyze(f, b), LAMBDA tb :
  LET next(lp, t) == Edges(f, lp.header)[t.cont].to
      bexit == Edges(f, b.header)[3 - tb.cont]
      bpre == f.blocks[b.pre]
      abody == f.blocks[a.latches[1]]
      bbody == f.blocks[b.latches[1]]
  IN /\ \A lp \in {a, b} : Cardinality(lp.blocks) = 2 /\ Len(lp.latches) = 1 /\ Len(lp.exits) = 1
     /\ b.pre # 0 /\ a.exits[1][2] = b.pre
     /\ Fold(LAMBDA n, blk : n + Len(SelectSeq(Terminator(blk).edges, LAMBDA e : e.to = b.pre)), 0, f.blocks) = 1
     /\ ta.kind = "constant" /\ tb.kind = "constant"
     /\ trip_equal(ta, tb)
     /\ Len(f.blocks[a.header].params) = 1 /\ Len(f.blocks[b.header].params) = 1
     /\ bpre.params = <<>> /\ Len(bpre.insts) = 1
     /\ next(a, ta) = a.latches[1] /\ next(b, tb) = b.latches[1]
     /\ abody.params = <<>> /\ bbody.params = <<>> /\ f.blocks[bexit.to].params = <<>> /\ bexit.args = <<>>
     /\ ~loop_has_direct_liveout(f, b)
     /\ \A in \in ToSet(Body(abody)) : supported_body_op(in)
     /\ \A in \in ToSet(Body(bbody)) :
          /\ supported_body_op(in)
          /\ \A i \in DOMAIN in.ops : clone_operand_available(f, idom, a, b, b.latches[1], tb.iv, in.ops[i])
     /\ Terminator(abody).op = "br"))

\* clone_inst over a body: fresh results, operands through the map.
CloneInst(c, in) ==
  LET use(o) == IF IsV(o) /\ o[2] \in DOMAIN c.map THEN c.map[o[2]] ELSE o
      fresh == FreshId(c.f)
      copy == [in EXCEPT !.res = IF @ = 0 THEN 0 ELSE fresh, !.ops = [i \in DOMAIN @ |-> use(@[i])]]
  IN IF in.res = 0 THEN [c EXCEPT !.out = Append(@, copy)]
     ELSE LET t == c.f.vals[in.res]
          IN [f |-> AddVal(c.f, t), out |-> Append(c.out, copy), map |-> Put(c.map, in.res, V(fresh, t))]

fuse_pair(f, a, b) ==
  With(loop_trip_analyze(f, a), LAMBDA ta :
  With(loop_trip_analyze(f, b), LAMBDA tb :
  LET abody == a.latches[1]
  IN With(Fold(CloneInst, [f |-> f, out |-> Body(f.blocks[abody]),
                               map |-> (tb.iv :> V(ta.iv, ta.type))], Body(f.blocks[b.latches[1]])), LAMBDA c :
  LET back == Terminator(f.blocks[abody])
      bexit == Edges(f, b.header)[3 - tb.cont].to
      skip(in) == [in EXCEPT !.edges[3 - ta.cont] = Edge(bexit, <<>>, 0)]
      hn == Len(f.blocks[a.header].insts)
  IN ir_func_renumber(ir_func_remove_unreachable(
       [c.f EXCEPT !.blocks[abody].insts = Append(c.out, back),
                   !.blocks[a.header].insts[hn] = skip(@)])))))

RECURSIVE FuseFunc(_, _)
FuseFunc(m, f) ==
  With(loop_tree_build(f), LAMBDA tree :
  LET ls == tree.loops
  IN With({p \in (DOMAIN ls) \X (DOMAIN ls) :
             /\ p[1] # p[2] /\ ls[p[1]].up = ls[p[2]].up
             /\ Fusable(f, tree.idom, ls[p[1]], ls[p[2]])
             /\ fusion_dependences_ok(m, f, ls[p[1]].latches[1], loop_trip_analyze(f, ls[p[1]]),
                                      ls[p[2]].latches[1], loop_trip_analyze(f, ls[p[2]]))}, LAMBDA pairs :
  LET first == CHOOSE p \in pairs : \A q \in pairs : p[1] < q[1] \/ (p[1] = q[1] /\ p[2] <= q[2])
  IN IF tree.irreducible \/ pairs = {} THEN f
     ELSE FuseFunc(m, fuse_pair(f, ls[first[1]], ls[first[2]]))))

opt_fusion(m) == [m EXCEPT !.funcs = [k \in DOMAIN @ |-> FuseFunc(m, @[k])]]
=============================================================================
