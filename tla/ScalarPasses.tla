---------------------------- MODULE ScalarPasses ----------------------------
(***************************************************************************)
(* The scalar passes: constant propagation, algebraic simplification,      *)
(* common subexpressions, dead code, and the promotion of local slots.     *)
(***************************************************************************)
EXTENDS Ir

(***************************************************************************)
(* Sparse conditional constant propagation (src/opt/sccp.c).  A value's    *)
(* lattice element is Top, a constant operand, or Over; s holds the        *)
(* lattice, the executable blocks and edges, and the three work queues in  *)
(* the code's order.                                                       *)
(***************************************************************************)
LatTop == <<"top", 0, "">>
LatOver == <<"over", 0, "">>

lattice_of(s, o) == IF IsV(o) THEN s.val[o[2]] ELSE o

lattice_join(x, y) ==
  CASE x = LatTop -> y
    [] y = LatTop -> x
    [] x = y -> x
    [] OTHER -> LatOver

\* update_value: join, and queue the value when it moved.
update_value(s, v, incoming) ==
  LET next == lattice_join(s.val[v], incoming)
  IN IF next = s.val[v] THEN s
     ELSE [s EXCEPT !.val[v] = next,
                    !.vw = IF v \in ToSet(@) THEN @ ELSE Append(@, v)]

mark_edge(s, b, e) ==
  IF <<b, e>> \in s.exe THEN s
  ELSE [s EXCEPT !.exe = @ \cup {<<b, e>>}, !.ew = Append(@, <<b, e>>)]

mark_all_edges(s, b, n) == Fold(LAMBDA acc, e : mark_edge(acc, b, e), s, [e \in 1..n |-> e])

\* The edge a constant condition selects.
constant_successor(term, word) ==
  IF term.op = "condbr" THEN IF word # 0 THEN 1 ELSE 2
  ELSE LET hits == {e \in 2..Len(term.edges) : term.edges[e].case = word}
       IN IF hits = {} THEN 1 ELSE Min(hits)

\* undef has per-use freedom: it makes every successor executable.
eval_terminator(s, b, term) ==
  LET n == Len(term.edges)
      cond == lattice_of(s, term.ops[1])
  IN CASE n = 0 -> s
       [] term.op = "br" -> mark_edge(s, b, 1)
       [] cond = LatTop -> s
       [] IsC(cond) -> mark_edge(s, b, constant_successor(term, cond[2]))
       [] OTHER -> mark_all_edges(s, b, n)

eval_inst(s, f, in) ==
  LET lats == [i \in DOMAIN in.ops |-> lattice_of(s, in.ops[i])]
      temp == [in EXCEPT !.ops = [i \in DOMAIN @ |->
                 IF lats[i] \in {LatTop, LatOver} THEN @[i] ELSE lats[i]]]
  IN With(opt_fold_inst(temp, f.vals[in.res]), LAMBDA folded :
    IF in.res = 0 THEN s
    ELSE update_value(s, in.res,
           IF folded # NoFold THEN lattice_of(s, folded)
           ELSE IF LatOver \in ToSet(lats) \/ LatTop \notin ToSet(lats) THEN LatOver
           ELSE LatTop))

EvalAt(s, f, b, in) ==
  IF is_terminator(in.op) THEN eval_terminator(s, b, in) ELSE eval_inst(s, f, in)

scan_block(s, f, b) == Fold(LAMBDA acc, in : EvalAt(acc, f, b, in), s, f.blocks[b].insts)

block_param_value(s, f, t, i) ==
  Fold(LAMBDA acc, x : IF Edges(f, x[1])[x[2]].to # t THEN acc
                           ELSE lattice_join(acc, lattice_of(s, Edges(f, x[1])[x[2]].args[i])),
           LatTop, Sorted(s.exe, Lex))

update_block_params(s, f, t) ==
  LET ps == f.blocks[t].params
  IN Fold(LAMBDA acc, i : update_value(acc, ps[i], block_param_value(acc, f, t, i)),
              s, [i \in DOMAIN ps |-> i])

process_edge(s, f, x) ==
  LET t == Edges(f, x[1])[x[2]].to
  IN With(update_block_params(s, f, t), LAMBDA s1 :
    IF t \in s1.blk THEN s1
    ELSE [s1 EXCEPT !.blk = @ \cup {t}, !.bw = Append(@, t)])

\* Every use of a value that moved: block parameters fed over executable edges, and
\* the instructions of executable blocks.
UsesOf(f, v) ==
  Sorted({p \in AllInsts(f) : v \in ValuesUsed(InstAt(f, p))},
               LAMBDA x, y : x[1] > y[1] \/ (x[1] = y[1] /\ x[2] > y[2]))

process_use(s, f, v, p) ==
  LET in == InstAt(f, p)
      fed == SelectSeq([e \in DOMAIN in.edges |-> e], LAMBDA e :
               <<p[1], e>> \in s.exe /\ V(v, f.vals[v]) \in ToSet(in.edges[e].args))
  IN With(Fold(LAMBDA acc, e : update_block_params(acc, f, in.edges[e].to), s, fed), LAMBDA s1 :
    IF p[1] \in s1.blk /\ V(v, f.vals[v]) \in ToSet(in.ops) THEN EvalAt(s1, f, p[1], in) ELSE s1)

process_value(s, f, v) == Fold(LAMBDA acc, p : process_use(acc, f, v, p), s, UsesOf(f, v))

\* The loop of analyze: all edges, then all blocks, then one value.
RECURSIVE SccpLoop(_, _)
SccpLoop(s, f) ==
  CASE s.ew # <<>> -> SccpLoop(process_edge([s EXCEPT !.ew = Tail(@)], f, Head(s.ew)), f)
    [] s.bw # <<>> -> SccpLoop(scan_block([s EXCEPT !.bw = Tail(@)], f, Head(s.bw)), f)
    [] s.vw # <<>> -> SccpLoop(process_value([s EXCEPT !.vw = Tail(@)], f, Head(s.vw)), f)
    [] OTHER -> s

analyze(f) ==
  SccpLoop([val |-> [v \in 1..Len(f.vals) |-> IF v \in ToSet(f.params) THEN LatOver ELSE LatTop],
            blk |-> {1}, exe |-> {}, ew |-> <<>>, bw |-> <<1>>, vw |-> f.params], f)

\* rewrite_func: constants replace their uses, decided branches become unconditional,
\* and what that cuts off is removed.
FoldBranch(in) ==
  IF in.op \in {"condbr", "switch"} /\ IsC(in.ops[1])
  THEN LET e == in.edges[constant_successor(in, in.ops[1][2])]
       IN [in EXCEPT !.op = "br", !.ops = <<>>, !.edges = <<[e EXCEPT !.case = 0]>>]
  ELSE in

rewrite_func(f, s) ==
  LET known == {v \in 1..Len(f.vals) : s.val[v] \notin {LatTop, LatOver}}
  IN With(RewriteUses(f, [v \in known |-> s.val[v]]), LAMBDA g :
  With([g EXCEPT !.blocks = [b \in DOMAIN @ |->
          [@[b] EXCEPT !.insts = [i \in DOMAIN @ |-> FoldBranch(@[i])]]]], LAMBDA h :
    IF h = f THEN f ELSE ir_func_renumber(ir_func_remove_unreachable(h))))

sccp_func(f) == rewrite_func(f, analyze(f))
opt_sccp(m) == [m EXCEPT !.funcs = [k \in DOMAIN @ |-> sccp_func(@[k])]]

(***************************************************************************)
(* Algebraic simplification (src/opt/simplify.c).  One walk over the       *)
(* blocks; an instruction is folded away, rewritten in place, or expanded. *)
(* The floating-point identities are not modelled.                         *)
(***************************************************************************)
\* find_may_undef: values that a shift, a division or an undef may reach.
RECURSIVE find_may_undef(_, _)
find_may_undef(f, mu) ==
  LET may(o) == Kind(o) = "u" \/ (IsV(o) /\ o[2] \in mu)
      insts == {InstAt(f, p) : p \in AllInsts(f)}
      results == {in.res : in \in {i \in insts : i.res # 0 /\
                    (i.op \in Divisions \cup Shifts \/ \E k \in DOMAIN i.ops : may(i.ops[k]))}}
      edges == UNION {ToSet(Edges(f, b)) : b \in BlockIds(f)}
      params == UNION {{f.blocks[e.to].params[k] : k \in {j \in DOMAIN e.args : may(e.args[j])}} : e \in edges}
  IN With(mu \cup results \cup params, LAMBDA next :
    IF next = mu THEN mu ELSE find_may_undef(f, next))

NoInst == Inst("none", "", 0, <<>>, {})

\* def_of: the instruction defining operand o, if it existed when the walk began.
def_of(c, o) ==
  LET hit == {p \in AllInsts(c.f) : InstAt(c.f, p).res = o[2]}
  IN IF IsV(o) /\ o[2] <= c.nold /\ hit # {} THEN InstAt(c.f, CHOOSE p \in hit : TRUE) ELSE NoInst

swapped_predicate(p) ==
  CASE p = "slt" -> "sgt" [] p = "sgt" -> "slt" [] p = "sle" -> "sge" [] p = "sge" -> "sle"
    [] p = "ult" -> "ugt" [] p = "ugt" -> "ult" [] p = "ule" -> "uge" [] p = "uge" -> "ule"
    [] OTHER -> p

power_of_two(n) == \E k \in 0..WideBits : n = 2 ^ k
Log2(n) == CHOOSE k \in 0..WideBits : n = 2 ^ k

\* Outcomes of simplify_one: nothing, the value that replaces the instruction, or a
\* new form of it after the instructions `pre`.
Unchanged(in) == [chg |-> FALSE, pre |-> <<>>, in |-> in, val |-> NoFold]
Replace(in, v) == [chg |-> TRUE, pre |-> <<>>, in |-> in, val |-> v]
Rewrite(in, pre) == [chg |-> TRUE, pre |-> pre, in |-> in, val |-> NoFold]

mutate_binary(in, op, x, y) ==
  [in EXCEPT !.op = op, !.ops = <<x, y>>,
             !.fl = IF op \in {"iadd", "isub", "imul"} THEN @ ELSE @ \ {"nsw"}]

\* Signed division by 2^k: bias a negative dividend so that the arithmetic shift
\* rounds toward zero; the remainder subtracts the shifted-back quotient.
ExpandSignedDivision(c, in, t, x, k) ==
  LET w == type_bits(t)
      n == Len(c.f.vals)
      v(i) == V(n + i, t)
      mk(i, op, a, b) == Inst(op, "", n + i, <<a, b>>, {})
  IN With(<<mk(1, "ashr", x, C(w - 1, t)), mk(2, "lshr", v(1), C(w - k, t)),
            mk(3, "iadd", x, v(2))>>, LAMBDA bias :
    IF in.op = "sdiv" THEN Rewrite(mutate_binary(in, "ashr", v(3), C(k, t)), bias)
    ELSE Rewrite(mutate_binary(in, "isub", x, v(5)),
                 bias \o <<mk(4, "ashr", v(3), C(k, t)), mk(5, "shl", v(4), C(k, t))>>))

SimplifyDivision(c, in, t, x, y) ==
  LET k == Log2(y[2])
      signed == in.op \in {"sdiv", "srem"}
      undef == Kind(x) = "u" \/ (IsV(x) /\ x[2] \in c.mu)
  IN IF signed /\ (undef \/ k = type_bits(t) - 1) THEN Unchanged(in)
     ELSE IF k = 0 THEN Replace(in, IF in.op \in {"sdiv", "udiv"} THEN x ELSE C(0, t))
     ELSE IF in.op = "udiv" THEN Rewrite(mutate_binary(in, "lshr", x, C(k, t)), <<>>)
     ELSE IF in.op = "urem" THEN Rewrite(mutate_binary(in, "and", x, C(2 ^ k - 1, t)), <<>>)
     ELSE ExpandSignedDivision(c, in, t, x, k)

\* A right shift that undoes a left shift by the same count.
SimplifyShiftPair(c, in, t, x, y) ==
  With(def_of(c, x), LAMBDA sh :
  LET base == Resolve(sh.ops[1], c.repl)
  IN With(def_of(c, base), LAMBDA ext :
    IF ~(sh.op = "shl" /\ IsC(sh.ops[2]) /\ sh.ops[2][2] = y[2]) THEN Unchanged(in)
    ELSE IF in.op = "lshr"
         THEN Rewrite(mutate_binary(in, "and", base, C((IntMask(t) - 1) \div 2 ^ y[2], t)), <<>>)
    ELSE IF ext.op = "zext" /\ type_bits(TypeOf(ext.ops[1])) = type_bits(t) - y[2]
         THEN Rewrite([in EXCEPT !.op = "sext", !.ops = <<Resolve(ext.ops[1], c.repl)>>], <<>>)
    ELSE Unchanged(in)))

SimplifyMul(in, t, x, y) ==
  LET swap == IsC(x) /\ ~IsC(y)
      val == IF swap THEN y ELSE x
      con == IF swap THEN x ELSE y
  IN IF ~IsC(con) \/ ~power_of_two(con[2]) THEN Unchanged(in)
     ELSE IF con[2] = 1 THEN Replace(in, val)
     ELSE Rewrite(mutate_binary(in, "shl", val, C(Log2(con[2]), t)), <<>>)

\* Integer identities, in the order the code tests them.
SimplifyInteger(c, in, t) ==
  LET x == in.ops[1]
      y == in.ops[2]
      is(o, n) == IsC(o) /\ o[2] = n
      ones == IntMask(t) - 1
      undef(o) == Kind(o) = "u" \/ (IsV(o) /\ o[2] \in c.mu)
      inner(o) == def_of(c, o)
      again(i, k) == Resolve(i.ops[k], c.repl)
  IN CASE in.op = "iadd" /\ is(x, 0) -> Replace(in, y)
       [] \/ in.op \in {"iadd", "isub", "or", "xor"} /\ is(y, 0)
          \/ in.op = "imul" /\ is(y, 1)
          \/ in.op = "and" /\ is(y, ones) -> Replace(in, x)
       [] in.op = "imul" /\ (is(x, 0) \/ is(y, 0)) -> Replace(in, C(0, t))
       [] in.op = "isub" /\ x = y /\ ~undef(x) -> Replace(in, C(0, t))
       [] in.op = "imul" -> SimplifyMul(in, t, x, y)
       [] in.op = "isub" /\ is(x, 0) /\ inner(y).op = "isub" /\ is(inner(y).ops[1], 0) ->
            Replace(in, again(inner(y), 2))
       [] in.op = "xor" /\ IsC(y) /\ inner(x).op = "xor" /\ again(inner(x), 2) = y ->
            Replace(in, again(inner(x), 1))
       [] in.op \in Divisions /\ IsC(y) /\ power_of_two(y[2]) -> SimplifyDivision(c, in, t, x, y)
       [] in.op \in {"lshr", "ashr"} /\ IsC(y) /\ y[2] < type_bits(t) -> SimplifyShiftPair(c, in, t, x, y)
       [] OTHER -> Unchanged(in)

\* An unsigned comparison of a zero-extended value is made in the narrow type.
SimplifyIcmp(c, in) ==
  LET x == in.ops[1]
      y == in.ops[2]
  IN With(def_of(c, x), LAMBDA ext :
  LET src == Resolve(ext.ops[1], c.repl)
      max == IntMask(TypeOf(src)) - 1
  IN IF IsC(x) /\ ~IsC(y)
     THEN Rewrite([in EXCEPT !.ops = <<y, x>>, !.sub = swapped_predicate(@)], <<>>)
     ELSE IF ~(in.sub = "ult" /\ IsC(y) /\ ext.op = "zext") THEN Unchanged(in)
     ELSE IF y[2] = 0 THEN Replace(in, C(0, "i32"))
     ELSE IF y[2] > max THEN Replace(in, C(1, "i32"))
     ELSE Rewrite([in EXCEPT !.ops = <<src, C(y[2], TypeOf(src))>>], <<>>))

simplify_one(c, in) ==
  LET t == c.f.vals[in.res]
  IN With(opt_fold_inst(in, t), LAMBDA folded :
    CASE in.res = 0 -> Unchanged(in)
      [] folded # NoFold -> Replace(in, folded)
      [] in.op = "icmp" -> SimplifyIcmp(c, in)
      [] in.op \in BinOps -> SimplifyInteger(c, in, t)
      [] OTHER -> Unchanged(in))

\* The walk.  c = [f, repl, mu, nold, chg].
RECURSIVE SimplifyWalk(_, _, _)
SimplifyWalk(c, b, i) ==
  IF b > Len(c.f.blocks) THEN c
  ELSE IF i > Len(c.f.blocks[b].insts) THEN SimplifyWalk(c, b + 1, 1)
  ELSE LET is == c.f.blocks[b].insts
           in == [is[i] EXCEPT !.ops = ResolveSeq(@, c.repl)]
       IN With(simplify_one(c, in), LAMBDA r :
       LET keep == IF r.val = NoFold THEN <<r.in>> ELSE <<>>
           t == c.f.vals[in.res]
       IN SimplifyWalk([c EXCEPT
             !.f.blocks[b].insts = SubSeq(is, 1, i - 1) \o r.pre \o keep \o SubSeq(is, i + 1, Len(is)),
             !.f.vals = @ \o [k \in DOMAIN r.pre |-> t],
             !.repl = IF r.val = NoFold THEN @
                      ELSE [x \in DOMAIN @ \cup {in.res} |-> IF x = in.res THEN r.val ELSE @[x]],
             !.chg = @ \/ r.chg], b, i + Len(r.pre) + Len(keep)))

simplify_func(f) ==
  With(SimplifyWalk([f |-> f, repl |-> <<>>, mu |-> find_may_undef(f, {}),
                     nold |-> Len(f.vals), chg |-> FALSE], 1, 1), LAMBDA c :
    IF c.chg THEN ir_func_renumber(RewriteUses(c.f, c.repl)) ELSE f)

opt_simplify(m) == [m EXCEPT !.funcs = [k \in DOMAIN @ |-> simplify_func(@[k])]]

(***************************************************************************)
(* Local common subexpression elimination (src/opt/cse.c): within one      *)
(* block an expression already in the table replaces its repetition,       *)
(* unless undef could reach either.                                        *)
(***************************************************************************)
\* cse_find_may_undef: values that a shift, a division or an undef may reach.
RECURSIVE cse_find_may_undef(_, _)
cse_find_may_undef(f, mu) ==
  LET may(o) == Kind(o) = "u" \/ (IsV(o) /\ o[2] \in mu)
      insts == {in \in {InstAt(f, p) : p \in AllInsts(f)} : in.res # 0}
      results == {in.res : in \in {i \in insts : i.op \in Divisions \cup Shifts
                                                 \/ \E k \in DOMAIN i.ops : may(i.ops[k])}}
      edges == UNION {ToSet(Edges(f, b)) : b \in BlockIds(f)}
      params == UNION {{f.blocks[e.to].params[k] : k \in {j \in DOMAIN e.args : may(e.args[j])}} : e \in edges}
  IN With(mu \cup results \cup params, LAMBDA next :
    IF next = mu THEN mu ELSE cse_find_may_undef(f, next))

is_candidate(op) == op \in BinOps \cup {"icmp", "sext", "zext", "trunc", "ptradd", "select"}

commutative_key(in) ==
  in.op \in {"iadd", "imul", "and", "or", "xor"} \/ (in.op = "icmp" /\ in.sub \in {"eq", "ne"})

\* make_key: commutative operands lose their order.
make_key(in, t) ==
  [op |-> in.op, type |-> t, sub |-> in.sub, fl |-> in.fl,
   ops |-> {<<IF commutative_key(in) THEN 0 ELSE i, in.ops[i]>> : i \in DOMAIN in.ops}]

\* One instruction: drop it for its table entry, or keep it (and enter it).
cse_inst(c, f, mu, in0) ==
  LET in == [in0 EXCEPT !.ops = ResolveSeq(@, c.repl)]
  IN With(\/ in.res \in mu
          \/ \E i \in DOMAIN in.ops : Kind(in.ops[i]) = "u" \/ (IsV(in.ops[i]) /\ in.ops[i][2] \in mu), LAMBDA undef :
  With(make_key(in, f.vals[in.res]), LAMBDA key :
  LET kept == [c EXCEPT !.out = Append(@, in)]
  IN IF ~is_candidate(in.op) THEN kept
     ELSE IF undef THEN kept
     ELSE IF key \in DOMAIN c.table THEN [c EXCEPT !.repl = Put(@, in.res, c.table[key])]
     ELSE [kept EXCEPT !.table = Put(@, key, V(in.res, f.vals[in.res]))]))

cse_func(f) ==
  With(cse_find_may_undef(f, {}), LAMBDA mu :
  LET block(c, b) == With(Fold(LAMBDA x, in : cse_inst(x, f, mu, in),
                                   [repl |-> c.repl, table |-> <<>>, out |-> <<>>], f.blocks[b].insts), LAMBDA d :
                       [repl |-> d.repl, blocks |-> Append(c.blocks, [f.blocks[b] EXCEPT !.insts = d.out])])
  IN With(Fold(block, [repl |-> <<>>, blocks |-> <<>>], [b \in BlockIds(f) |-> b]), LAMBDA c :
    IF DOMAIN c.repl = {} THEN f
    ELSE ir_func_renumber(RewriteUses([f EXCEPT !.blocks = c.blocks], c.repl))))

opt_cse(m) == [m EXCEPT !.funcs = [k \in DOMAIN @ |-> cse_func(@[k])]]

(***************************************************************************)
(* Dead code elimination (src/opt/dce.c): instructions with an effect are  *)
(* the roots; what they need is live; the rest goes.  Block parameters and *)
(* the edges feeding them stay.                                            *)
(***************************************************************************)
dce_root(in) ==
  \/ in.op \in Terminators \cup {"store", "memcpy", "memset", "call"}
  \/ "vol" \in in.fl

\* One round of the worklist: what the values and instructions already live need.
\* A live block parameter needs the argument every predecessor passes for it.
ParamFeeds(f, v) ==
  UNION {UNION {{Edges(f, p)[e].args[i] : i \in {j \in DOMAIN f.blocks[Edges(f, p)[e].to].params :
                                                   f.blocks[Edges(f, p)[e].to].params[j] = v}}
                  : e \in DOMAIN Edges(f, p)} : p \in BlockIds(f)}

LiveStep(f, live) ==
  live \cup UNION {ValuesUsed(InstAt(f, p)) : p \in {q \in AllInsts(f) :
                     dce_root(InstAt(f, q)) \/ InstAt(f, q).res \in live \ {0}}}
       \cup {o[2] : o \in {x \in UNION {ParamFeeds(f, v) : v \in live} : IsV(x)}}

RECURSIVE LiveClosure(_, _)
LiveClosure(f, live) ==
  With(LiveStep(f, live), LAMBDA next :
    IF next = live THEN live ELSE LiveClosure(f, next))

dce_func(f) ==
  With(LiveClosure(f, {}), LAMBDA live :
  LET keep(in) == in.res = 0 \/ dce_root(in) \/ in.res \in live
      g == [f EXCEPT !.blocks = [b \in DOMAIN @ |-> [@[b] EXCEPT !.insts = SelectSeq(@, keep)]]]
  IN IF g = f THEN f ELSE ir_func_renumber(g))

opt_dce(m) == [m EXCEPT !.funcs = [k \in DOMAIN @ |-> dce_func(@[k])]]

(***************************************************************************)
(* mem2reg (src/opt/mem2reg.c): local slots whose address never escapes    *)
(* become values, with block parameters where definitions meet.            *)
(***************************************************************************)
Allocas(f) ==
  LET ps == Sorted({p \in AllInsts(f) : InstAt(f, p).op = "alloca"},
                         LAMBDA x, y : x[1] < y[1] \/ (x[1] = y[1] /\ x[2] < y[2]))
  IN [i \in DOMAIN ps |-> [ptr |-> InstAt(f, ps[i]).res, block |-> ps[i][1],
                           cells |-> InstAt(f, ps[i]).ops[1]]]

LoadsFrom(in, p) == in.op = "load" /\ in.ops[1][1] = "v" /\ in.ops[1][2] = p
StoresTo(in, p) == in.op = "store" /\ in.ops[2][1] = "v" /\ in.ops[2][2] = p

\* note_access: the types a slot is read and written with.
AccessTypes(f, p) ==
  {f.vals[InstAt(f, q).res] : q \in {r \in AllInsts(f) : LoadsFrom(InstAt(f, r), p)}}
    \cup {TypeOf(InstAt(f, q).ops[1]) : q \in {r \in AllInsts(f) : StoresTo(InstAt(f, r), p)}}

EscapesIn(in, p) ==
  LET direct == IF LoadsFrom(in, p) THEN 1 ELSE IF StoresTo(in, p) THEN 2 ELSE 0
  IN \/ \E i \in DOMAIN in.ops \ {direct} : IsV(in.ops[i]) /\ in.ops[i][2] = p
     \/ \E e \in DOMAIN in.edges : \E i \in DOMAIN in.edges[e].args :
          IsV(in.edges[e].args[i]) /\ in.edges[e].args[i][2] = p

\* The reason a slot stays in memory, in the order the code tests them.
analyze_alloca(f, a) ==
  LET insts == {InstAt(f, q) : q \in AllInsts(f)}
  IN With(AccessTypes(f, a.ptr), LAMBDA types :
    IF \E in \in insts : EscapesIn(in, a.ptr) THEN "addr_taken"
    ELSE IF \E in \in insts : (LoadsFrom(in, a.ptr) \/ StoresTo(in, a.ptr)) /\ "vol" \in in.fl
         THEN "volatile_access"
    ELSE IF Cardinality(types) > 1 THEN "mixed_access_type"
    ELSE IF a.block # 1 \/ ~IsC(a.cells) \/ types = {} \/ a.cells[2] # 1 THEN "nonscalar"
    ELSE "none")

Promotable(f) == SelectSeq(Allocas(f), LAMBDA a : analyze_alloca(f, a) = "none")
SlotType(f, a) == CHOOSE t \in AccessTypes(f, a.ptr) : TRUE

(***************************************************************************)
(* Where parameters go: the iterated dominance frontier of the stores,     *)
(* pruned to the blocks where the slot is live on entry.                   *)
(***************************************************************************)
DefBlocks(f, p) == {b \in BlockIds(f) : \E in \in ToSet(f.blocks[b].insts) : StoresTo(in, p)}

use_before_def(f, p, b) ==
  LET is == f.blocks[b].insts
  IN \E i \in DOMAIN is : LoadsFrom(is[i], p) /\ \A j \in 1..(i - 1) : ~StoresTo(is[j], p)

RECURSIVE LiveIn(_, _, _)
LiveIn(f, p, live) ==
  With({b \in BlockIds(f) :
          \/ use_before_def(f, p, b)
          \/ b \notin DefBlocks(f, p) /\ Succs(f, b) \cap live # {}}, LAMBDA next :
    IF next = live THEN live ELSE LiveIn(f, p, next))

\* The chain of dominators from runner up to, and without, stop.
RECURSIVE RunnerUpTo(_, _, _)
RunnerUpTo(idom, runner, stop) ==
  IF runner = stop \/ runner = 0 THEN {}
  ELSE {runner} \cup RunnerUpTo(idom, idom[runner], stop)

Frontier(f, idom, x) ==
  {b \in BlockIds(f) : Cardinality(Preds(f, b)) >= 2
     /\ \E p \in Preds(f, b) : x \in RunnerUpTo(idom, p, idom[b])}

RECURSIVE PhiBlocksFrom(_, _, _, _, _)
PhiBlocksFrom(f, idom, live, work, phis) ==
  With((UNION {Frontier(f, idom, x) : x \in work} \cap live) \ phis, LAMBDA new :
    IF new = {} THEN phis ELSE PhiBlocksFrom(f, idom, live, new, phis \cup new))
PhiBlocks(f, idom, p) == PhiBlocksFrom(f, idom, LiveIn(f, p, {}), DefBlocks(f, p), {})

\* ir_block_param for every placed parameter, slot by slot.  The result carries the
\* new function and phi[i][b], the value standing for slot i on entry to b (0: none).
PlaceParams(f, slots, idom) ==
  LET place(acc, i) ==
        With(PhiBlocks(f, idom, slots[i].ptr), LAMBDA bs :
        LET order == Sorted(bs, LAMBDA x, y : x < y)
            base == Len(acc.f.vals)
        IN With([b \in BlockIds(f) |->
                   IF b \in bs THEN base + CHOOSE k \in DOMAIN order : order[k] = b ELSE 0], LAMBDA id :
          [f |-> [acc.f EXCEPT
                   !.vals = @ \o [k \in DOMAIN order |-> SlotType(f, slots[i])],
                   !.blocks = [b \in DOMAIN @ |-> IF b \in bs
                                 THEN [@[b] EXCEPT !.params = Append(@, id[b])] ELSE @[b]]],
           phi |-> Append(acc.phi, id)]))
  IN Fold(place, [f |-> f, phi |-> <<>>], [i \in DOMAIN slots |-> i])

(***************************************************************************)
(* Renaming, in dominator preorder.  cur[i] is what slot i holds; a load   *)
(* is replaced by it, a store changes it, and each edge passes it on.      *)
(***************************************************************************)
RECURSIVE DomPreorder(_, _)
DomPreorder(idom, b) ==
  LET kids == Sorted(Children(idom, b), LAMBDA x, y : x < y)
  IN Fold(LAMBDA acc, k : acc \o DomPreorder(idom, k), <<b>>, kids)

SlotAt(slots, o) ==
  LET hit == {i \in DOMAIN slots : IsV(o) /\ slots[i].ptr = o[2]}
  IN IF hit = {} THEN 0 ELSE CHOOSE i \in hit : TRUE

RenameInst(slots, f, acc, in0) ==      \* acc = [cur, repl, insts]
  LET in == RewriteInst(in0, acc.repl)
  IN With(IF in.op = "load" THEN SlotAt(slots, in.ops[1]) ELSE 0, LAMBDA ld :
  With(IF in.op = "store" THEN SlotAt(slots, in.ops[2]) ELSE 0, LAMBDA st :
    CASE in.op = "alloca" /\ SlotAt(slots, V(in.res, "ptr")) # 0 -> acc
      [] ld # 0 -> [acc EXCEPT !.repl = [x \in DOMAIN @ \cup {in.res} |->
                                           IF x = in.res THEN acc.cur[ld] ELSE @[x]]]
      [] st # 0 -> [acc EXCEPT !.cur[st] = in.ops[1]]
      [] OTHER -> [acc EXCEPT !.insts = Append(@, in)]))

append_phi_args(slots, phi, e, cur) ==
  LET adds == SelectSeq([i \in DOMAIN slots |-> i], LAMBDA i : phi[i][e.to] # 0)
  IN [e EXCEPT !.args = @ \o [k \in DOMAIN adds |-> cur[adds[k]]]]

RenameBlock(f, slots, phi, idom, acc, b) ==   \* acc = [f, out, repl]
  With([i \in DOMAIN slots |-> Undef(SlotType(f, slots[i]))], LAMBDA undefs :
  LET inherit == IF idom[b] = 0 THEN undefs ELSE acc.out[idom[b]]
  IN With([i \in DOMAIN slots |-> IF phi[i][b] # 0
             THEN V(phi[i][b], SlotType(f, slots[i])) ELSE inherit[i]], LAMBDA start :
  With(Fold(LAMBDA a, in : RenameInst(slots, f, a, in),
                [cur |-> start, repl |-> acc.repl, insts |-> <<>>], acc.f.blocks[b].insts), LAMBDA r :
  LET insts == [k \in DOMAIN r.insts |-> [r.insts[k] EXCEPT !.edges =
                  [e \in DOMAIN @ |-> append_phi_args(slots, phi, @[e], r.cur)]]]
  IN [f |-> [acc.f EXCEPT !.blocks[b].insts = insts],
      out |-> [acc.out EXCEPT ![b] = r.cur], repl |-> r.repl])))

promote_func(f) ==
  With(Promotable(f), LAMBDA slots :
  With(ir_domtree_build(f), LAMBDA idom :
  With(PlaceParams(f, slots, idom), LAMBDA placed :
  With(Fold(LAMBDA acc, b : RenameBlock(f, slots, placed.phi, idom, acc, b),
                [f |-> placed.f, out |-> [b \in BlockIds(f) |-> <<>>], repl |-> <<>>],
                DomPreorder(idom, 1)), LAMBDA done :
    IF slots = <<>> \/ f.setjmp THEN f
    ELSE ir_func_renumber(RewriteUses(done.f, done.repl))))))

opt_mem2reg(m) == [m EXCEPT !.funcs = [k \in DOMAIN @ |-> promote_func(@[k])]]
=============================================================================
