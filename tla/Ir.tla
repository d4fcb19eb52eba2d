--------------------------------- MODULE Ir ---------------------------------
(***************************************************************************)
(* The intermediate representation (src/ir/ir.h, ir.c, dom.c): functions    *)
(* are sequences of basic blocks; a block has parameters instead of phis,  *)
(* and every edge of its terminator passes one argument per parameter of   *)
(* the target.  A value is named by its index into `vals`, which holds its *)
(* type.  What is abstracted: source locations, names, alignment, ABI      *)
(* annotations and the floating and vector types; the integer types are    *)
(* i8, i32 and i64, of a few bits each.                                    *)
(***************************************************************************)
EXTENDS Integers, Sequences, FiniteSets, FiniteSetsExt, SequencesExt, Bitwise

\* Folding and sorting in linear and quadratic time: the community definitions
\* enumerate subsets, respectively functions.  (The singleton sets make TLC evaluate
\* the accumulator before the next step.)
Fold(op(_, _), base, seq) ==
  LET RECURSIVE over(_, _, _)
      over(lo, hi, acc) ==
        IF lo > hi THEN acc
        ELSE IF lo = hi THEN op(acc, seq[lo])
        ELSE LET mid == (lo + hi) \div 2
             IN CHOOSE r \in {over(mid + 1, hi, x) : x \in {over(lo, mid, acc)}} : TRUE
  IN over(1, Len(seq), base)
Sorted(S, before(_, _)) ==
  [n \in 1..Cardinality(S) |-> CHOOSE x \in S : Cardinality({y \in S : before(y, x)}) = n - 1]
\* A value and what is made of it; in Strictly the value is evaluated first, where it is.
With(x, op(_)) == op(x)
Strictly(x, op(_)) == CHOOSE r \in {op(v) : v \in {x}} : TRUE
\* step from x until done: four times, eight times, ...
Until(done(_), step(_), start) ==
  LET RECURSIVE times(_, _), from(_, _)
      times(x, k) == IF done(x) THEN x
                     ELSE IF k = 0 THEN step(x)
                     ELSE CHOOSE z \in {times(y, k - 1) : y \in {times(x, k - 1)}} : TRUE
      from(x, k) == IF done(x) THEN x
                    ELSE CHOOSE z \in {from(y, k + 1) : y \in {times(x, k)}} : TRUE
  IN from(start, 2)
\* The same sequence, evaluated.
Evaluated(s) == SubSeq(s, 1, Len(s))
\* fn with x mapped to v; the function g over fn.
Put(fn, x, v) == (x :> v) @@ fn
Over(g, fn) == g @@ fn
Lex(x, y) == x[1] < y[1] \/ (x[1] = y[1] /\ x[2] < y[2])

NarrowBits == 2
IntBits == 3
WideBits == 4

\* Operands: a value, an integer constant, a module symbol plus an offset (the
\* pair encoded as the address ObjSize * object + offset), or undef.
ObjSize == 100
V(n, t) == <<"v", n, t>>
C(n, t) == <<"c", n, t>>
Undef(t) == <<"u", 0, t>>
Sym(g, off) == <<"s", ObjSize * g + off, "ptr">>
Kind(o) == o[1]
IsV(o) == o[1] = "v"
IsC(o) == o[1] = "c"
TypeOf(o) == o[3]

IntTypes == {"i8", "i32", "i64"}
type_bits(t) == CASE t = "i8" -> NarrowBits [] t = "i32" -> IntBits [] t = "i64" -> WideBits
IntMask(t) == 2 ^ type_bits(t)
Signed(x, t) == IF x >= 2 ^ (type_bits(t) - 1) THEN x - IntMask(t) ELSE x
OpC(n, t) == C(n % IntMask(t), t)

BinOps == {"iadd", "isub", "imul", "udiv", "urem", "sdiv", "srem", "and", "or", "xor",
           "shl", "lshr", "ashr"}

Terminators == {"ret", "br", "condbr", "switch", "unreachable"}
is_terminator(op) == op \in Terminators

\* Instructions.  `sub` is the comparison predicate, the callee of a call or the
\* effective type of a memory access; `fl` the set of flags.
Inst(op, sub, res, ops, fl) ==
  [op |-> op, sub |-> sub, res |-> res, ops |-> ops, fl |-> fl, edges |-> <<>>]
Edge(to, args, case) == [to |-> to, args |-> args, case |-> case]
Term(op, ops, edges, fl) ==
  [op |-> op, sub |-> "", res |-> 0, ops |-> ops, fl |-> fl, edges |-> edges]

Terminator(blk) == blk.insts[Len(blk.insts)]
Body(blk) == SubSeq(blk.insts, 1, Len(blk.insts) - 1)
BlockIds(f) == 1..Len(f.blocks)
Edges(f, b) == Terminator(f.blocks[b]).edges
Succs(f, b) == {Edges(f, b)[i].to : i \in DOMAIN Edges(f, b)}
Preds(f, b) == {p \in BlockIds(f) : b \in Succs(f, p)}
AllInsts(f) == UNION {{<<b, i>> : i \in DOMAIN f.blocks[b].insts} : b \in BlockIds(f)}
InstAt(f, p) == f.blocks[p[1]].insts[p[2]]
OpsOf(in) == ToSet(in.ops) \cup UNION {ToSet(in.edges[i].args) : i \in DOMAIN in.edges}
ValuesUsed(in) == {o[2] : o \in {p \in OpsOf(in) : IsV(p)}}

\* ir_func_new_value: a fresh value of type t is the next index of vals.
FreshId(f) == Len(f.vals) + 1
AddVal(f, t) == [f EXCEPT !.vals = Append(@, t)]

\* Where a value is defined: <<"param">>, <<"bparam", block>> or <<"inst", block, pos>>.
DefOf(f, v) ==
  IF v \in ToSet(f.params) THEN <<"param">>
  ELSE LET bp == {b \in BlockIds(f) : v \in ToSet(f.blocks[b].params)}
           ip == {p \in AllInsts(f) : InstAt(f, p).res = v}
       IN IF bp # {} THEN <<"bparam", Min(bp)>>
          ELSE IF ip # {} THEN LET p == CHOOSE q \in ip : TRUE IN <<"inst", p[1], p[2]>>
          ELSE <<"none">>

(***************************************************************************)
(* Rewriting operands.  `sub` maps value ids to the operands replacing     *)
(* them; chains of replacements are followed to their end, as every pass's *)
(* resolve function does.                                                  *)
(***************************************************************************)
RECURSIVE Resolve(_, _)
Resolve(o, sub) ==
  IF IsV(o) /\ o[2] \in DOMAIN sub THEN Resolve(sub[o[2]], sub) ELSE o

ResolveSeq(s, sub) == Evaluated([i \in DOMAIN s |-> Resolve(s[i], sub)])

RewriteInst(in, sub) ==
  [in EXCEPT !.ops = ResolveSeq(@, sub),
             !.edges = Evaluated([e \in DOMAIN @ |-> [@[e] EXCEPT !.args = ResolveSeq(@, sub)]])]

RewriteUses(f, sub) ==
  [f EXCEPT !.blocks = Evaluated([b \in DOMAIN @ |->
     [@[b] EXCEPT !.insts = Evaluated([i \in DOMAIN @ |-> RewriteInst(@[i], sub)])]])]

(***************************************************************************)
(* remove_unreachable: blocks the entry cannot reach are dropped and the   *)
(* survivors keep their order, the edges renamed to the new numbers.       *)
(***************************************************************************)
RECURSIVE ReachFrom(_, _, _)
ReachFrom(f, seen, work) ==
  IF work = {} THEN seen
  ELSE LET next == UNION {Succs(f, b) : b \in work} \ seen
       IN ReachFrom(f, seen \cup next, next)
Reachable(f) == ReachFrom(f, {1}, {1})

RetargetEdges(blk, remap) ==
  [blk EXCEPT !.insts = Evaluated([i \in DOMAIN @ |->
     [@[i] EXCEPT !.edges = Evaluated([e \in DOMAIN @ |-> [@[e] EXCEPT !.to = remap[@]]])]])]

KeepBlocks(f, keep) ==
  LET order == Sorted(keep, LAMBDA x, y : x < y)
      remap == [b \in BlockIds(f) |-> IF b \in keep THEN Cardinality({k \in keep : k <= b}) ELSE 0]
  IN [f EXCEPT !.blocks = [i \in 1..Len(order) |-> RetargetEdges(f.blocks[order[i]], remap)]]

ir_func_remove_unreachable(f) ==
  IF Reachable(f) = BlockIds(f) THEN f ELSE KeepBlocks(f, Reachable(f))

(***************************************************************************)
(* ir_func_renumber: values are renamed in document order and the ones no  *)
(* longer defined disappear from vals.                                     *)
(***************************************************************************)
DefsInOrder(f) ==
  LET ofBlock(blk) == blk.params \o
        SelectSeq([i \in DOMAIN blk.insts |-> blk.insts[i].res], LAMBDA r : r # 0)
  IN f.params \o Fold(LAMBDA acc, blk : acc \o ofBlock(blk), <<>>, f.blocks)

ir_func_renumber(f) ==
  Strictly(DefsInOrder(f), LAMBDA defs :
  LET new == [v \in 0..Len(f.vals) |->
                IF \E i \in DOMAIN defs : defs[i] = v
                THEN CHOOSE i \in DOMAIN defs : defs[i] = v ELSE 0]
      use(o) == IF IsV(o) THEN <<"v", new[o[2]], o[3]>> ELSE o
      uses(os) == Evaluated([i \in DOMAIN os |-> use(os[i])])
      names(vs) == Evaluated([i \in DOMAIN vs |-> new[vs[i]]])
      inst(in) == [in EXCEPT !.res = new[@], !.ops = uses(@),
                     !.edges = Evaluated([e \in DOMAIN @ |-> [@[e] EXCEPT !.args = uses(@)]])]
      block(blk) == [params |-> names(blk.params),
                     insts |-> Evaluated([i \in DOMAIN blk.insts |-> inst(blk.insts[i])])]
  IN [f EXCEPT !.params = names(@),
               !.vals = Evaluated([i \in DOMAIN defs |-> f.vals[defs[i]]]),
               !.slots = {new[s] : s \in @} \ {0},
               !.blocks = Evaluated([b \in DOMAIN @ |-> block(@[b])])])

(***************************************************************************)
(* ir_domtree_build: a depth-first postorder over the edges in order, then *)
(* Cooper-Harvey-Kennedy iteration in reverse postorder.                   *)
(***************************************************************************)
EdgeTargets(f, b) == [i \in DOMAIN Edges(f, b) |-> Edges(f, b)[i].to]

PostOrderStep(f, c) ==      \* c = [stack, seen, post], a stack of <<block, next edge>>
  LET b == Head(c.stack)[1]
      i == Head(c.stack)[2]
      t == Edges(f, b)[i].to
      rest == <<<<b, i + 1>>>> \o Tail(c.stack)
  IN IF i > Len(Edges(f, b)) THEN [c EXCEPT !.stack = Tail(@), !.post = Append(@, b)]
     ELSE IF t \in c.seen THEN [c EXCEPT !.stack = rest]
     ELSE [c EXCEPT !.stack = <<<<t, 1>>>> \o rest, !.seen = @ \cup {t}]
PostOrder(f) ==
  Until(LAMBDA c : c.stack = <<>>, LAMBDA c : PostOrderStep(f, c),
        [stack |-> <<<<1, 1>>>>, seen |-> {1}, post |-> <<>>]).post
Rpo(f) == Reverse(PostOrder(f))

RECURSIVE Intersect(_, _, _, _)
Intersect(x, y, idom, num) ==
  IF x = y THEN x
  ELSE IF num[x] > num[y] THEN Intersect(idom[x], y, idom, num)
  ELSE Intersect(x, idom[y], idom, num)

RECURSIVE ChkIterate(_, _, _, _)
ChkIterate(f, rpo, num, idom) ==
  LET visit(acc, b) == LET ps == Sorted({p \in DOMAIN num : b \in Succs(f, p) /\ acc[p] # 0},
                                              LAMBDA x, y : x < y)
                       IN IF b = 1 \/ ps = <<>> THEN acc
                          ELSE [acc EXCEPT ![b] =
                                  Fold(LAMBDA x, y : Intersect(x, y, acc, num), Head(ps), Tail(ps))]
  IN With(Fold(visit, idom, rpo), LAMBDA next :
    IF next = idom THEN idom ELSE ChkIterate(f, rpo, num, next))

\* idom by block id: 0 for the entry and for unreachable blocks.
ir_domtree_build(f) ==
  Strictly(Rpo(f), LAMBDA rpo :
  LET num == [b \in ToSet(rpo) |-> CHOOSE i \in DOMAIN rpo : rpo[i] = b]
      start == [b \in BlockIds(f) |-> IF b = 1 THEN 1 ELSE 0]
  IN [ChkIterate(f, rpo, num, start) EXCEPT ![1] = 0])

RECURSIVE ir_dominates(_, _, _)
ir_dominates(idom, a, b) == a = b \/ (idom[b] # 0 /\ ir_dominates(idom, a, idom[b]))

Children(idom, b) == {c \in DOMAIN idom : idom[c] = b}

(***************************************************************************)
(* opt_fold_inst (src/opt/simplify.c): the constant folder shared by sccp  *)
(* and simplify.  The result is an operand, or NoFold.  Floating point is  *)
(* not modelled here.                                                      *)
(***************************************************************************)
NoFold == <<"none", 0, "">>

\* An undef operand folds only where every choice gives the same word.
fold_undef(in, t) ==
  LET x == in.ops[1]
      y == in.ops[2]
      other == IF Kind(x) = "u" THEN y ELSE x
      ones == IntMask(t) - 1
  IN IF "u" \notin {Kind(x), Kind(y)} \/ ~IsC(other) THEN NoFold
     ELSE IF in.op \in {"and", "imul"} /\ other[2] = 0 THEN C(0, t)
     ELSE IF in.op = "or" /\ other[2] = ones THEN C(ones, t)
     ELSE NoFold

Divisions == {"sdiv", "udiv", "srem", "urem"}
Shifts == {"shl", "lshr", "ashr"}

\* A zero divisor or an out-of-range shift count makes the result undef.
fold_integer_ub(in, t) ==
  LET y == in.ops[2]
  IN IF IsC(y) /\ (\/ in.op \in Divisions /\ y[2] = 0
                   \/ in.op \in Shifts /\ y[2] >= type_bits(t)) THEN Undef(t) ELSE NoFold

\* Two constants.  Signed division works on magnitudes and restores the sign; a
\* signed shift fills in the sign bits it lost.
fold_integer(in, t) ==
  LET x == in.ops[1][2]
      y == in.ops[2][2]
      m == IntMask(t)
      w == type_bits(t)
      sx == x >= m \div 2
      sy == y >= m \div 2
      mx == IF sx THEN (0 - x) % m ELSE x
      my == IF sy THEN (0 - y) % m ELSE y
      sign(neg, q) == IF neg THEN (0 - q) % m ELSE q
  IN IF ~IsC(in.ops[1]) \/ ~IsC(in.ops[2]) THEN NoFold
     ELSE CASE in.op = "iadd" -> OpC(x + y, t)
            [] in.op = "isub" -> OpC(x - y, t)
            [] in.op = "imul" -> OpC(x * y, t)
            [] in.op = "and" -> OpC(x & y, t)
            [] in.op = "or" -> OpC(x | y, t)
            [] in.op = "xor" -> OpC(x ^^ y, t)
            [] in.op = "shl" -> OpC(x * 2 ^ y, t)
            [] in.op = "lshr" -> OpC(x \div 2 ^ y, t)
            [] in.op = "ashr" -> OpC((x \div 2 ^ y) + (IF sx /\ y # 0 THEN m - 2 ^ (w - y) ELSE 0), t)
            [] in.op = "udiv" -> OpC(x \div y, t)
            [] in.op = "urem" -> OpC(x % y, t)
            [] in.op \in {"sdiv", "srem"} /\ x = m \div 2 /\ y = m - 1 -> Undef(t)
            [] in.op = "sdiv" -> OpC(sign(sx # sy, mx \div my), t)
            [] in.op = "srem" -> OpC(sign(sx, mx % my), t)

fold_icmp(in) ==
  LET x == in.ops[1][2]
      y == in.ops[2][2]
      half == IntMask(TypeOf(in.ops[1])) \div 2
      sx == x >= half
      sy == y >= half
  IN With(CASE in.sub = "eq" -> x = y
            [] in.sub = "ne" -> x # y
            [] in.sub = "slt" -> IF sx # sy THEN sx ELSE x < y
            [] in.sub = "sle" -> IF sx # sy THEN sx ELSE x <= y
            [] in.sub = "sgt" -> IF sx # sy THEN sy ELSE x > y
            [] in.sub = "sge" -> IF sx # sy THEN sy ELSE x >= y
            [] in.sub = "ult" -> x < y
            [] in.sub = "ule" -> x <= y
            [] in.sub = "ugt" -> x > y
            [] in.sub = "uge" -> x >= y, LAMBDA holds :
    IF ~IsC(in.ops[1]) \/ ~IsC(in.ops[2]) \/ TypeOf(in.ops[1]) \notin IntTypes THEN NoFold
    ELSE C(IF holds THEN 1 ELSE 0, "i32"))

fold_conversion(in, t) ==
  LET o == in.ops[1]
      fm == IntMask(TypeOf(o))
  IN IF ~IsC(o) THEN NoFold
     ELSE IF in.op = "sext" /\ o[2] >= fm \div 2 THEN OpC(o[2] - fm, t)
     ELSE OpC(o[2], t)

fold_select(in) ==
  IF IsC(in.ops[1]) THEN in.ops[IF in.ops[1][2] # 0 THEN 2 ELSE 3]
  ELSE IF in.ops[2] = in.ops[3] THEN in.ops[2] ELSE NoFold

\* A symbol plus a constant offset is again a symbol with an addend.
fold_ptradd(in) ==
  LET off == Signed(in.ops[2][2], "i64")
  IN IF Kind(in.ops[1]) = "s" /\ IsC(in.ops[2]) THEN <<"s", in.ops[1][2] + off, "ptr">> ELSE NoFold

\* The folders in the order the code tries them; t is the type of the result.
opt_fold_inst(in, t) ==
  CASE in.res = 0 -> NoFold
    [] in.op \in BinOps ->
         IF fold_undef(in, t) # NoFold THEN fold_undef(in, t)
         ELSE IF fold_integer_ub(in, t) # NoFold THEN fold_integer_ub(in, t)
         ELSE fold_integer(in, t)
    [] in.op = "icmp" -> fold_icmp(in)
    [] in.op \in {"sext", "zext", "trunc"} -> fold_conversion(in, t)
    [] in.op = "select" -> fold_select(in)
    [] in.op = "ptradd" -> fold_ptradd(in)
    [] OTHER -> NoFold
=============================================================================
