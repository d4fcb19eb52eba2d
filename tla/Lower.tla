------------------------------- MODULE Lower --------------------------------
(***************************************************************************)
(* Lowering of the typed syntax tree to the intermediate representation    *)
(* (src/lower/expr.c and the function part of src/lower/lower.c).  The     *)
(* state lo holds the function built so far, the current block, the slot   *)
(* of each name, the label and case blocks, and the stacks of enclosing    *)
(* scopes and loops; every function returns the new state, with the        *)
(* operand it computed.  A block is closed when it ends in a terminator.   *)
(* Evaluation is strictly left to right.                                   *)
(***************************************************************************)
EXTENDS Sema

R(lo, v) == [lo |-> lo, v |-> v]

lower_irtype(t) ==
  CASE t.k \in {"bool", "char", "uchar"} -> "i8"
    [] t.k \in {"int", "uint"} -> "i32"
    [] t.k \in {"long", "ulong", "llong", "ullong"} -> "i64"
    [] OTHER -> "ptr"

lower_efftype(t) ==
  CASE t.k \in {"void", "char", "uchar"} -> "char"
    [] t.k \in {"struct", "array"} -> "agg"
    [] OTHER -> lower_irtype(t)

lower_is_aggregate(t) == t.k \in {"struct", "array"}

\* Cells an object of type t occupies (layout_of).
RECURSIVE CellsOf(_)
CellsOf(t) == IF t.k = "array" THEN t.n * CellsOf(BaseOf(t)) ELSE IF t.k = "struct" THEN t.n ELSE 1

lower_i64(n) == OpC(n, "i64")

lower_new_block(lo) ==
  [lo EXCEPT !.f = [@ EXCEPT !.blocks = Append(@, [params |-> <<>>, insts |-> <<>>])]]
lower_at(lo, b) == [lo EXCEPT !.cur = b]
NBlocks(lo) == Len(lo.f.blocks)

terminated(lo) ==
  LET ins == lo.f.blocks[lo.cur].insts IN ins # <<>> /\ is_terminator(ins[Len(ins)].op)

emit(lo, in) == [lo EXCEPT !.f = [@ EXCEPT !.blocks[lo.cur].insts = Append(@, in)]]

build(lo, op, sub, ops, fl, t) ==
  LET id == FreshId(lo.f)
  IN R(emit([lo EXCEPT !.f = AddVal(@, t)], Inst(op, sub, id, ops, fl)), V(id, t))

ir_block_param(lo, b, t) ==
  [lo EXCEPT !.f = [AddVal(@, t) EXCEPT !.blocks[b].params = Append(@, FreshId(lo.f))]]

br(lo, b, args) == emit(lo, Term("br", <<>>, <<Edge(b, args, 0)>>, {}))
condbr(lo, c, t, targs, e, eargs) ==
  emit(lo, Term("condbr", <<c>>, <<Edge(t, targs, 0), Edge(e, eargs, 0)>>, {}))

ensure_open_block(lo) ==
  IF terminated(lo) THEN lower_at(lower_new_block(lo), NBlocks(lo) + 1) ELSE lo
lower_branch_to(lo, b) == IF terminated(lo) THEN lo ELSE br(lo, b, <<>>)

\* NSW marks the additions, subtractions and products of signed integers.
build_source_arith(lo, op, ops, t) ==
  build(lo, op, "", ops,
        IF op \in {"iadd", "isub", "imul"} /\ conv_is_signed(t) THEN {"nsw"} ELSE {}, lower_irtype(t))

truth_ne(lo, v) == build(lo, "icmp", "ne", <<v, C(0, TypeOf(v))>>, {}, "i32")

(***************************************************************************)
(* Loads, stores and conversions.  An lvalue is an address, the type read  *)
(* there and the bit-field position (<<shift, width, signed>> or <<>>).    *)
(***************************************************************************)
lv_of(addr, t, bf) == [addr |-> addr, t |-> t, bf |-> bf]
lv_flags(lv) == IF "volatile" \in lv.t.q THEN {"vol"} ELSE {}

\* The field's top bit goes to the top of the word and comes back down; an i8 word is
\* widened first.
bitfield_extract(lo, v, unit, shift, width, sgn) ==
  LET work == IF unit = "i8" THEN "i32" ELSE unit
  IN With(IF work = unit THEN R(lo, v) ELSE build(lo, "zext", "", <<v>>, {}, work), LAMBDA w :
  With(build(w.lo, "shl", "", <<w.v, OpC(type_bits(work) - shift - width, work)>>, {}, work), LAMBDA hi :
  With(build(hi.lo, IF sgn THEN "ashr" ELSE "lshr", "",
             <<hi.v, OpC(type_bits(work) - width, work)>>, {}, work), LAMBDA out :
    IF work = unit THEN out ELSE build(out.lo, "trunc", "", <<out.v>>, {}, unit))))

RawLoad(lo, lv) ==
  build(lo, "load", lower_efftype(lv.t), <<lv.addr>>, lv_flags(lv), lower_irtype(lv.t))

lower_load(lo, lv) ==
  With(RawLoad(lo, lv), LAMBDA raw :
    IF lv.bf = <<>> THEN raw
    ELSE bitfield_extract(raw.lo, raw.v, lower_irtype(lv.t), lv.bf[1], lv.bf[2], lv.bf[3]))

EmitStore(lo, lv, v) == emit(lo, Inst("store", lower_efftype(lv.t), 0, <<v, lv.addr>>, lv_flags(lv)))

\* A bit-field store reads, clears, inserts and writes its word; the value of the
\* assignment is the field's, not the right-hand side's.
lower_store(lo, lv, v) ==
  LET t == lower_irtype(lv.t)
      mask == 2 ^ lv.bf[2] - 1
  IN IF lv.bf = <<>> THEN R(EmitStore(lo, lv, v), v)
     ELSE With(RawLoad(lo, lv), LAMBDA old :
          With(build(old.lo, "and", "", <<old.v, OpC(-1 - mask * 2 ^ lv.bf[1], t)>>, {}, t), LAMBDA clr :
          With(build(clr.lo, "and", "", <<v, OpC(mask, t)>>, {}, t), LAMBDA nv :
          With(build(nv.lo, "shl", "", <<nv.v, OpC(lv.bf[1], t)>>, {}, t), LAMBDA sh :
          With(build(sh.lo, "or", "", <<clr.v, sh.v>>, {}, t), LAMBDA ins :
            bitfield_extract(EmitStore(ins.lo, lv, ins.v), nv.v, t, 0, lv.bf[2], lv.bf[3]))))))

\* _Bool tests for nonzero; other integers extend by the source's signedness, or are
\* truncated.  (Conversions between pointers and integers are not modelled.)
lower_scalar_convert(lo, v, from, to) ==
  LET ft == IF from.k = "array" THEN "ptr" ELSE lower_irtype(from)
      tt == lower_irtype(to)
  IN With(truth_ne(lo, v), LAMBDA one :
    CASE to.k = "void" -> R(lo, v)
      [] to.k = "bool" /\ from.k # "bool" -> build(one.lo, "trunc", "", <<one.v>>, {}, "i8")
      [] ft = tt -> R(lo, v)
      [] type_bits(tt) > type_bits(ft) ->
           build(lo, IF conv_is_signed(from) THEN "sext" ELSE "zext", "", <<v>>, {}, tt)
      [] OTHER -> build(lo, "trunc", "", <<v>>, {}, tt))

lower_memcpy_aggregate(lo, dst, src, t, fl) ==
  emit(lo, Inst("memcpy", "agg", 0, <<dst, src, lower_i64(CellsOf(t))>>, fl))

lower_temp(lo, t) == build(lo, "alloca", lower_efftype(t), <<lower_i64(CellsOf(t))>>, {}, "ptr")

\* A constant offset folds into a symbol, and is a ptradd on anything else.
addr_plus(lo, base, off) ==
  CASE off = 0 -> R(lo, base)
    [] Kind(base) = "s" -> R(lo, <<"s", base[2] + off, "ptr">>)
    [] OTHER -> build(lo, "ptradd", "", <<base, lower_i64(off)>>, {}, "ptr")

\* Pointer plus or minus a scaled integer.
ptr_index(lo, p, n, pt, it, neg) ==
  With(lower_scalar_convert(lo, n, it, Ty("long")), LAMBDA wide :
  With(build(wide.lo, "imul", "", <<wide.v, lower_i64(CellsOf(BaseOf(pt)))>>, {}, "i64"), LAMBDA sc :
  With(IF neg THEN build(sc.lo, "isub", "", <<lower_i64(0), sc.v>>, {}, "i64") ELSE sc, LAMBDA off :
    build(off.lo, "ptradd", "", <<p, off.v>>, {}, "ptr"))))

lower_sym_addr(lo, x) == lo.slot[x]

icmp_pred_for(op, sgn) ==
  CASE op = "==" -> "eq" [] op = "!=" -> "ne"
    [] op = "<" -> IF sgn THEN "slt" ELSE "ult"
    [] op = "<=" -> IF sgn THEN "sle" ELSE "ule"
    [] op = ">" -> IF sgn THEN "sgt" ELSE "ugt"
    [] OTHER -> IF sgn THEN "sge" ELSE "uge"

arith_op_for(op, t) ==
  LET sgn == conv_is_signed(t)
  IN CASE op = "+" -> "iadd" [] op = "-" -> "isub" [] op = "*" -> "imul"
       [] op = "/" -> IF sgn THEN "sdiv" ELSE "udiv"
       [] op = "%" -> IF sgn THEN "srem" ELSE "urem"
       [] op = "&" -> "and" [] op = "|" -> "or" [] op = "^" -> "xor" [] op = "<<" -> "shl"
       [] op = ">>" -> IF sgn THEN "ashr" ELSE "lshr"

(***************************************************************************)
(* Expressions.                                                            *)
(***************************************************************************)
\* The operators of one recursion, by name: expressions contain statements and statements
\* expressions.
RECURSIVE Lowering(_, _, _)
lower_rvalue(lo, e) == Lowering("rvalue", lo, e)
lower_lvalue(lo, e) == Lowering("lvalue", lo, e)
lower_cond(lo, e) == Lowering("cond", lo, e)
Step(lo) == Lowering("step", lo, <<>>)

member_offset(t, name) == find_member(t, name)[1]

\* Computes the address: [lo, v] with v an lvalue record.
LvalueOf(lo, e) ==
  LET a == lower_rvalue(lo, e.c[1])
      b == lower_rvalue(a.lo, e.c[2])
      left == is_ptr(e.c[1].t)
  IN With(IF left THEN ptr_index(b.lo, a.v, b.v, e.c[1].t, e.c[2].t, FALSE)
          ELSE ptr_index(b.lo, b.v, a.v, e.c[2].t, e.c[1].t, FALSE), LAMBDA ptr :
  LET m == member_offset(e.c[1].t, e.op)
  IN With(addr_plus(a.lo, a.v, m.off), LAMBDA at :
  With(IF m.width = 0 THEN <<>> ELSE <<m.shift, m.width, conv_is_signed(m.t)>>, LAMBDA bf :
    CASE e.k = "id" -> R(lo, lv_of(lower_sym_addr(lo, e.op), e.t, <<>>))
      [] e.k = "unary" -> R(a.lo, lv_of(a.v, e.t, <<>>))
      [] e.k = "index" -> R(ptr.lo, lv_of(ptr.v, e.t, <<>>))
      [] e.k = "member" -> R(at.lo, lv_of(at.v, e.t, bf)))))

\* Comparisons, &&, || and ! are already truth values; sema's implicit conversion to
\* _Bool is looked through.
CondOf(lo, e) ==
  LET v == lower_rvalue(lo, e)
  IN CASE e.k = "binary" /\ e.op \in CmpOps \cup {"&&", "||"} -> v
       [] e.k = "unary" /\ e.op = "!" -> v
       [] e.k = "cast" /\ e.imp /\ e.t.k = "bool" -> lower_cond(lo, e.c[1])
       [] OTHER -> truth_ne(v.lo, v.v)

\* The result of && and || travels as the parameter of the join block.
lower_logical(lo, e) ==
  LET ca == lower_cond(lo, e.c[1])
      rhs == NBlocks(ca.lo) + 1
      join == rhs + 1
      l1 == ir_block_param(lower_new_block(lower_new_block(ca.lo)), join, "i32")
      res == V(FreshId(ca.lo.f), "i32")
  IN With(IF e.op = "&&" THEN condbr(l1, ca.v, rhs, <<>>, join, <<OpC(0, "i32")>>)
          ELSE condbr(l1, ca.v, join, <<OpC(1, "i32")>>, rhs, <<>>), LAMBDA l2 :
  LET cb == lower_cond(lower_at(l2, rhs), e.c[2])
  IN R(lower_at(br(cb.lo, join, <<cb.v>>), join), res))

\* ?: and its two-operand form, which evaluates its condition once.  An aggregate
\* result goes through one temporary.
lower_ternary(lo, e) ==
  LET elvis == e.k = "elvis"
      shared == lower_rvalue(lo, e.c[1])
  IN With(IF elvis THEN truth_ne(shared.lo, shared.v) ELSE lower_cond(lo, e.c[1]), LAMBDA c :
  LET tb == NBlocks(c.lo) + 1
      join == tb + 2
      l1 == lower_new_block(lower_new_block(lower_new_block(c.lo)))
      agg == lower_is_aggregate(e.t)
      void == e.t.k = "void"
  IN With(lower_temp(l1, e.t), LAMBDA tmp :
  With(IF agg THEN tmp.lo ELSE IF void THEN l1 ELSE ir_block_param(l1, join, lower_irtype(e.t)), LAMBDA l2 :
  LET res == IF agg THEN tmp.v ELSE IF void THEN Undef("i32") ELSE V(FreshId(l1.f), lower_irtype(e.t))
      l3 == condbr(l2, c.v, tb, <<>>, tb + 1, <<>>)
      finish(r) == IF agg THEN br(lower_memcpy_aggregate(r.lo, res, r.v, e.t, {}), join, <<>>)
                   ELSE br(r.lo, join, IF void THEN <<>> ELSE <<r.v>>)
  IN With(IF elvis THEN R(lower_at(l3, tb), shared.v) ELSE lower_rvalue(lower_at(l3, tb), e.c[2]), LAMBDA then :
  With(lower_rvalue(lower_at(finish(then), tb + 1), e.c[Len(e.c)]), LAMBDA else :
    R(lower_at(finish(else), join), res))))))

lower_binary(lo, e) ==
  LET a == lower_rvalue(lo, e.c[1])
      b == lower_rvalue(a.lo, e.c[2])
      lt == e.c[1].t
      rt == e.c[2].t
  IN With(IF e.op \in {"<<", ">>"} /\ rt # e.t THEN lower_scalar_convert(b.lo, b.v, rt, e.t) ELSE b, LAMBDA n :
  LET sgn == ~is_ptr(lt) /\ ~is_ptr(rt) /\ conv_is_signed(lt)
  IN CASE e.op = "," -> b
       [] e.op \in {"&&", "||"} -> lower_logical(lo, e)
       [] e.op \in CmpOps -> build(b.lo, "icmp", icmp_pred_for(e.op, sgn), <<a.v, b.v>>, {}, "i32")
       [] is_ptr(lt) -> ptr_index(b.lo, a.v, b.v, lt, rt, e.op = "-")
       [] is_ptr(rt) -> ptr_index(b.lo, b.v, a.v, rt, lt, FALSE)
       [] OTHER -> build_source_arith(n.lo, arith_op_for(e.op, e.t), <<a.v, n.v>>, e.t))

\* Address first, value second; an aggregate is one memcpy.
lower_assign(lo, e) ==
  With(lower_lvalue(lo, e.c[1]), LAMBDA lv : With(lower_rvalue(lv.lo, e.c[2]), LAMBDA r :
    IF lower_is_aggregate(e.c[1].t)
    THEN R(lower_memcpy_aggregate(r.lo, lv.v.addr, r.v, e.c[1].t, lv_flags(lv.v)), lv.v.addr)
    ELSE lower_store(r.lo, lv.v, r.v)))

\* x op= y: the address once, then y, then the old value, in the common type.
lower_compound(lo, e) ==
  LET lt == e.c[1].t
      rt == e.c[2].t
      left(lv) == IF lv.bf = <<>> THEN lt ELSE conv_promote_bitfield_type(lt, lv.bf[2], lv.bf[3])
      common(lv) == IF e.op \in {"<<", ">>"} THEN conv_promote_type(left(lv)) ELSE conv_uac_type(left(lv), rt)
      result(old, r, t) ==
        With(lower_scalar_convert(old.lo, old.v, lt, t), LAMBDA a :
        With(lower_scalar_convert(a.lo, r.v, rt, t), LAMBDA b :
        With(build_source_arith(b.lo, arith_op_for(e.op, t), <<a.v, b.v>>, t), LAMBDA x :
          lower_scalar_convert(x.lo, x.v, t, lt))))
      update(old, r, lv) == IF is_ptr(lt) THEN ptr_index(old.lo, old.v, r.v, lt, rt, e.op = "-")
                            ELSE result(old, r, common(lv))
  IN With(lower_lvalue(lo, e.c[1]), LAMBDA lv : With(lower_rvalue(lv.lo, e.c[2]), LAMBDA r :
     With(update(lower_load(r.lo, lv.v), r, lv.v), LAMBDA back : lower_store(back.lo, lv.v, back.v))))

\* ++ and --: one added in the object's own type; the postfix forms yield the old value.
lower_incdec(lo, e) ==
  LET t == e.c[1].t
      inc == e.op = "++"
      size == CellsOf(BaseOf(t))
      next(old) ==
        IF is_ptr(t)
        THEN build(old.lo, "ptradd", "", <<old.v, lower_i64(IF inc THEN size ELSE -size)>>, {}, "ptr")
        ELSE build_source_arith(old.lo, IF inc THEN "iadd" ELSE "isub", <<old.v, OpC(1, lower_irtype(t))>>, t)
  IN With(lower_lvalue(lo, e.c[1]), LAMBDA lv : With(lower_load(lv.lo, lv.v), LAMBDA old :
     With(next(old), LAMBDA nv : With(lower_store(nv.lo, lv.v, nv.v), LAMBDA st :
       R(st.lo, IF e.k = "postfix" THEN old.v ELSE st.v)))))

lower_unary(lo, e) ==
  LET v == lower_rvalue(lo, e.c[1])
      lv == lower_lvalue(lo, e.c[1])
      here == lower_lvalue(lo, e)
      t == lower_irtype(e.t)
  IN CASE e.op = "&" -> R(lv.lo, lv.v.addr)
       [] e.op = "*" -> IF e.t.k = "void" THEN R(v.lo, Undef("i32"))
                        ELSE IF lower_is_aggregate(e.t) THEN v
                        ELSE lower_load(here.lo, here.v)
       [] e.op = "+" -> v
       [] e.op = "-" -> build_source_arith(v.lo, "isub", <<OpC(0, t), v.v>>, e.t)
       [] e.op = "~" -> build(v.lo, "xor", "", <<v.v, OpC(-1, t)>>, {}, t)
       [] e.op = "!" -> build(v.lo, "icmp", "eq", <<v.v, C(0, TypeOf(v.v))>>, {}, "i32")
       [] OTHER -> lower_incdec(lo, e)

\* Arguments left to right; a call of a noreturn function keeps its flag.
lower_call(lo, e) ==
  LET p == lo.protos[e.op]
  IN With(Fold(LAMBDA acc, x : LET r == lower_rvalue(acc.lo, x)
                                   IN R(r.lo, Append(acc.v, r.v)), R(lo, <<>>), e.c), LAMBDA args :
  LET fl == (IF p.noret THEN {"noret"} ELSE {}) \cup (IF p.proto THEN {} ELSE {"unproto"})
  IN IF e.t.k = "void" THEN R(emit(args.lo, Inst("call", e.op, 0, args.v, fl)), Undef("i32"))
     ELSE build(args.lo, "call", e.op, args.v, fl, lower_irtype(e.t)))

\* The value of an expression, by its form.
RvalueOf(lo, e) ==
  LET lv == lower_lvalue(lo, e)
      v == lower_rvalue(lo, e.c[1])
  IN CASE e.k = "int" -> R(lo, OpC(e.n, lower_irtype(e.t)))
       [] e.k \in {"id", "index", "member"} ->
            IF lower_is_aggregate(e.t) THEN R(lv.lo, lv.v.addr) ELSE lower_load(lv.lo, lv.v)
       [] e.k = "cast" -> IF e.c[1].t.k = "array" \/ lower_is_aggregate(e.t) THEN v
                          ELSE lower_scalar_convert(v.lo, v.v, e.c[1].t, e.t)
       [] e.k = "unary" -> lower_unary(lo, e)
       [] e.k = "postfix" -> lower_incdec(lo, e)
       [] e.k = "assign" -> lower_assign(lo, e)
       [] e.k = "assignop" -> lower_compound(lo, e)
       [] e.k = "binary" -> lower_binary(lo, e)
       [] e.k \in {"cond", "elvis"} -> lower_ternary(lo, e)
       [] e.k = "call" -> lower_call(lo, e)
       [] e.k = "sizeof" -> R(lo, lower_i64(CellsOf(e.c[1].t)))
       [] e.k = "stmtexpr" -> Lowering("stmtexpr", lo, e)

(***************************************************************************)
(* Statements (src/lower/stmt.c).  A statement is identified by its path   *)
(* from the function body, a sequence of child positions, so a scope       *)
(* encloses a label when its path is a prefix of the label's.              *)
(***************************************************************************)
\* The calls of one scope, last declared first.
cleanup_run_scope(lo, sc) ==
  Fold(LAMBDA l, c : emit(l, Inst("call", c[1], 0, <<c[2]>>, {})), lo, sc.cl)

cleanup_register(lo, fn, slot) ==
  [lo EXCEPT !.scopes[1].cl = <<<<fn, slot>>>> \o @]

\* The scopes inside the one at depth `depth` from the outside.
cleanup_run_until(lo, depth) ==
  Fold(LAMBDA l, sc : cleanup_run_scope(l, sc), lo, SubSeq(lo.scopes, 1, Len(lo.scopes) - depth))

\* goto leaves the scopes up to the innermost one that encloses the label too.
cleanup_run_for_goto(lo, lab) ==
  LET common == {i \in DOMAIN lo.scopes : IsPrefix(lo.scopes[i].id, lab.at)}
  IN cleanup_run_until(lo, IF common = {} THEN 0 ELSE Len(lo.scopes) - Min(common) + 1)

PushScope(lo, id) == [lo EXCEPT !.scopes = <<[id |-> id, cl |-> <<>>]>> \o @]
PopScope(lo) == [lo EXCEPT !.scopes = Tail(@)]
scope_exit_here(lo) == PopScope(IF terminated(lo) THEN lo ELSE cleanup_run_scope(lo, Head(lo.scopes)))

PushLoop(lo, brk, cont) ==
  [lo EXCEPT !.loops = <<[brk |-> brk, cont |-> cont, mark |-> Len(lo.scopes)]>> \o @]
PopLoop(lo) == [lo EXCEPT !.loops = Tail(@)]

\* The statements directly inside s, with their paths.
SubStmts(s, path) ==
  LET kids == CASE s.k \in {"compound", "neutral", "label", "case", "default"} -> {i : i \in DOMAIN s.c}
                [] s.k \in {"if", "while", "switch"} -> 2..Len(s.c)
                [] s.k = "do" -> {1}
                [] s.k = "for" -> {1, 4}
                [] OTHER -> {}
  IN [i \in 1..Cardinality(kids) |-> LET n == Min(kids) + i - 1
        IN IF s.k = "for" THEN <<s.c[3 * i - 2], Append(path, 3 * i - 2)>> ELSE <<s.c[n], Append(path, n)>>]

\* Labels in the order they get their blocks: a compound's items last to first.
RECURSIVE collect_labels(_, _)
collect_labels(s, path) ==
  With(SubStmts(s, path), LAMBDA kids :
  With(Fold(LAMBDA acc, x : acc \o collect_labels(x[1], x[2]), <<>>,
                IF s.k = "compound" THEN Reverse(kids) ELSE kids), LAMBDA inner :
    IF s.k = "label" THEN <<<<s.op, path>>>> \o inner ELSE inner))

\* The declarations that get a slot in the entry block, in document order: unused
\* objects without initializer or cleanup are elided.
can_elide_unused_fixed_local(lo, d) == d.c = <<>> /\ d.bf = <<>> /\ d.op \notin lo.used
RECURSIVE LocalDecls(_)
LocalDecls(s) ==
  IF s.k = "decl" THEN <<s>>
  ELSE Fold(LAMBDA acc, x : acc \o LocalDecls(x[1]), <<>>, SubStmts(s, <<>>))

BindSlot(lo, x, t) ==
  With(lower_temp(lo, t), LAMBDA r :
    [r.lo EXCEPT !.slot = Put(@, x, r.v), !.f = [@ EXCEPT !.slots = @ \cup {r.v[2]}]])

lower_prebind_locals(lo, body) ==
  Fold(LAMBDA l, d : IF can_elide_unused_fixed_local(l, d) THEN l ELSE BindSlot(l, d.op, d.t),
           lo, LocalDecls(body))

lower_local_init(lo, d) ==
  LET r == lower_rvalue(lo, d.c[1])
  IN With(lower_scalar_convert(r.lo, r.v, d.c[1].t, d.t), LAMBDA v :
    IF lower_is_aggregate(d.t) THEN lower_memcpy_aggregate(r.lo, lo.slot[d.op], r.v, d.t, {})
    ELSE lower_store(v.lo, lv_of(lo.slot[d.op], d.t, <<>>), v.v).lo)

\* The cleanup is registered before the initializer runs.
lower_one_decl(lo, d) ==
  With(IF d.op \in DOMAIN lo.slot \/ can_elide_unused_fixed_local(lo, d) THEN lo
       ELSE BindSlot(lo, d.op, d.t), LAMBDA l1 :
  LET l2 == IF d.bf = <<>> THEN l1 ELSE cleanup_register(l1, d.bf[1], l1.slot[d.op])
  IN IF d.c = <<>> THEN l2 ELSE lower_local_init(l2, d))

(***************************************************************************)
(* switch.  collect_cases lists the labels in source order; `blk` is the   *)
(* path of the label whose block it shares.                                *)
(***************************************************************************)
RECURSIVE collect_cases(_, _)
collect_cases(s, path) ==
  With(SubStmts(s, path), LAMBDA kids :
  LET marks == {i \in DOMAIN kids : kids[i][1].k \in {"case", "default"}}
      label(x, blk) == [dflt |-> x[1].k = "default", n |-> x[1].n, at |-> x[2], blk |-> blk]
      neutral(i) == IF i \in marks THEN <<label(kids[i], kids[Min(marks)][2])>>
                    ELSE collect_cases(kids[i][1], kids[i][2])
  IN With(Fold(LAMBDA acc, x : acc \o collect_cases(x[1], x[2]), <<>>, kids), LAMBDA inner :
    CASE s.k = "switch" -> <<>>
      [] s.k = "neutral" -> Fold(LAMBDA acc, i : acc \o neutral(i), <<>>, [i \in DOMAIN kids |-> i])
      [] s.k \in {"case", "default"} -> <<label(<<s, path>>, path)>> \o inner
      [] OTHER -> inner))

\* Mutant: the comparison excludes the upper end.
MutRangeTest(l, scrut, lo, hi, target) ==
  LET t == TypeOf(scrut)
      next == NBlocks(l) + 1
  IN With(build(lower_new_block(l), "isub", "", <<scrut, OpC(lo, t)>>, {}, t), LAMBDA d :
  With(build(d.lo, "icmp", "ult", <<d.v, OpC(hi - lo, t)>>, {}, "i32"), LAMBDA c :
    lower_at(condbr(c.lo, c.v, target, <<>>, next, <<>>), next)))
\* lo <= x <= hi as one subtraction and one unsigned comparison.
RangeTest(l, scrut, lo, hi, target) ==
  LET t == TypeOf(scrut)
      next == NBlocks(l) + 1
  IN With(build(lower_new_block(l), "isub", "", <<scrut, OpC(lo, t)>>, {}, t), LAMBDA d :
  With(build(d.lo, "icmp", "ule", <<d.v, OpC(hi - lo, t)>>, {}, "i32"), LAMBDA c :
    lower_at(condbr(c.lo, c.v, target, <<>>, next, <<>>), next)))

\* The sorted table, cut into runs of adjacent values that enter the same block.
SwitchRangeMinCases == 4
RECURSIVE Runs(_)
Runs(es) ==
  IF es = <<>> THEN <<>>
  ELSE LET ends == {n \in DOMAIN es : \A i \in 2..n : es[i][1] = es[i - 1][1] + 1 /\ es[i][2] = es[1][2]}
       IN <<SubSeq(es, 1, Max(ends))>> \o Runs(SubSeq(es, Max(ends) + 1, Len(es)))

\* The bit pattern of a label converted to the promoted type of the condition.
switch_convert_value(t, x) == sw_convert(t, x)
case_in_table(t, c) == switch_convert_value(t, c.n[1]) = switch_convert_value(t, c.n[2])

lower_switch_dispatch(lo, scrut, t, cases, blk, dflt) ==
  LET val(c, i) == switch_convert_value(t, c.n[i])
      labels == SelectSeq(cases, LAMBDA c : ~c.dflt)
  IN With(Fold(LAMBDA l, c : RangeTest(l, scrut, val(c, 1), val(c, 2), blk[c.blk]),
                   lo, SelectSeq(labels, LAMBDA c : ~case_in_table(t, c))), LAMBDA l1 :
  With(SelectSeq(labels, LAMBDA c : case_in_table(t, c)), LAMBDA singles :
  With(Sorted({<<val(singles[i], 1), blk[singles[i].blk]>> : i \in DOMAIN singles},
                    LAMBDA x, y : x[1] < y[1]), LAMBDA table :
  LET long(r) == Len(r) >= SwitchRangeMinCases
  IN With(Fold(LAMBDA l, r : RangeTest(l, scrut, r[1][1], r[Len(r)][1], r[1][2]),
                   l1, SelectSeq(Runs(table), long)), LAMBDA l2 :
  With(Fold(LAMBDA acc, r : IF long(r) THEN acc ELSE acc \o r, <<>>, Runs(table)), LAMBDA keep :
  LET edges == [i \in DOMAIN keep |-> Edge(keep[i][2], <<>>, keep[i][1] % IntMask(TypeOf(scrut)))]
  IN emit(l2, Term("switch", <<scrut>>, <<Edge(dflt, <<>>, 0)>> \o edges, {})))))))

(***************************************************************************)
(* The recursion of lower_stmt over the statements is unrolled into a      *)
(* stack of work: statements still to lower, and what a construct does     *)
(* once its substatement is lowered (an "end" item, with the first of the  *)
(* blocks it made).                                                        *)
(***************************************************************************)
Stmt(s, path, n) == [k |-> "stmt", s |-> s.c[n], path |-> Append(path, n), n |-> 0]
End(k, n, s) == [k |-> k, s |-> s, path |-> <<>>, n |-> n]
Todo(lo, items) == [lo EXCEPT !.todo = items \o @]
AllOf(s, path) == [i \in DOMAIN s.c |-> Stmt(s, path, i)]
NewBlocks(lo, n) == Fold(LAMBDA l, i : lower_new_block(l), lo, [i \in 1..n |-> i])

lower_switch(lo, s, path) ==
  LET scrut == lower_rvalue(lo, s.c[1])
  IN With(collect_cases(s.c[2], Append(path, 2)), LAMBDA cases :
  LET groups == {cases[i].blk : i \in DOMAIN cases}
      first(i) == \A j \in 1..(i - 1) : cases[j].blk # cases[i].blk
      nth(i) == Cardinality({j \in 1..i : first(j)})
      base == NBlocks(scrut.lo)
      blk == [x \in groups |-> base + nth(CHOOSE i \in DOMAIN cases : cases[i].blk = x)]
      join == base + Cardinality(groups) + 1
      dflts == SelectSeq(cases, LAMBDA c : c.dflt)
  IN With(IF dflts = <<>> THEN join ELSE blk[dflts[Len(dflts)].blk], LAMBDA dflt :
  With(lower_switch_dispatch(NewBlocks(scrut.lo, join - base), scrut.v, s.c[1].t, cases, blk, dflt), LAMBDA l2 :
    Todo(PushLoop([l2 EXCEPT !.cases = Over(blk, @)], join, 0), <<Stmt(s, path, 2), End("endswitch", join, s)>>))))
EndSwitch(lo, join) == lower_at(PopLoop(lower_branch_to(lo, join)), join)

lower_if(lo, s, path) ==
  LET c == lower_cond(lo, s.c[1])
      tb == NBlocks(c.lo) + 1
      els == Len(s.c) = 3
  IN With(condbr(NewBlocks(c.lo, Len(s.c)), c.v, tb, <<>>, IF els THEN tb + 2 ELSE tb + 1, <<>>), LAMBDA l1 :
    Todo(lower_at(l1, tb), IF els THEN <<Stmt(s, path, 2), End("else", tb, s), Stmt(s, path, 3), End("endif", tb, s)>>
                           ELSE <<Stmt(s, path, 2), End("endif", tb, s)>>))
Else(lo, tb) == lower_at(lower_branch_to(lo, tb + 1), tb + 2)
EndIf(lo, tb) == lower_at(lower_branch_to(lo, tb + 1), tb + 1)

lower_while(lo, s, path) ==
  LET head == NBlocks(lo) + 1
  IN With(lower_branch_to(NewBlocks(lo, 3), head), LAMBDA l1 :
  LET c == lower_cond(lower_at(l1, head), s.c[1])
  IN With(condbr(c.lo, c.v, head + 1, <<>>, head + 2, <<>>), LAMBDA l2 :
    Todo(lower_at(PushLoop(l2, head + 2, head), head + 1), <<Stmt(s, path, 2), End("endwhile", head, s)>>)))
EndWhile(lo, head) == lower_at(PopLoop(lower_branch_to(lo, head)), head + 2)

\* continue goes to the test of a do, and to the step of a for.
lower_do(lo, s, path) ==
  LET body == NBlocks(lo) + 1
  IN With(lower_branch_to(NewBlocks(lo, 3), body), LAMBDA l1 :
    Todo(lower_at(PushLoop(l1, body + 2, body + 1), body), <<Stmt(s, path, 1), End("enddo", body, s)>>))
EndDo(lo, body, s) ==
  With(lower_cond(lower_at(PopLoop(lower_branch_to(lo, body + 1)), body + 1), s.c[2]), LAMBDA c :
    lower_at(condbr(c.lo, c.v, body, <<>>, body + 2, <<>>), body + 2))

\* The init declaration lives in a scope of the for itself, left at the exit block.
lower_for(lo, s, path) == Todo(PushScope(lo, path), <<Stmt(s, path, 1), End("fortest", 0, s), Stmt(s, path, 4)>>)
ForTest(lo, s) ==
  LET head == NBlocks(lo) + 1
  IN With(lower_at(lower_branch_to(NewBlocks(lo, 4), head), head), LAMBDA l1 :
  LET c == lower_cond(l1, s.c[2])
  IN With(IF s.c[2].k = "none" THEN br(l1, head + 1, <<>>)
          ELSE condbr(c.lo, c.v, head + 1, <<>>, head + 3, <<>>), LAMBDA l2 :
  LET body == lower_at(PushLoop(l2, head + 3, head + 2), head + 1)
  IN [body EXCEPT !.todo = <<Head(@), End("endfor", head, s)>> \o Tail(@)]))
EndFor(lo, head, s) ==
  LET l4 == lower_at(PopLoop(lower_branch_to(lo, head + 2)), head + 2)
  IN With(IF s.c[3].k = "none" THEN l4 ELSE lower_rvalue(l4, s.c[3]).lo, LAMBDA l5 :
    scope_exit_here(lower_at(lower_branch_to(l5, head), head + 3)))

\* Falling into a label is an explicit edge.
EnterLabel(lo, b) == lower_at(lower_branch_to(lo, b), b)

lower_leave(lo, target, depth) == br(cleanup_run_until(lo, depth), target, <<>>)

\* The value is computed before the cleanups run.
lower_return(lo, s) ==
  LET v == IF s.c = <<>> THEN R(lo, Undef(lo.f.ret)) ELSE lower_rvalue(lo, s.c[1])
  IN emit(cleanup_run_until(v.lo, 0), Term("ret", IF lo.f.ret = "void" THEN <<>> ELSE <<v.v>>, <<>>, {}))

lower_stmt_impl(lo, s, path) ==
  LET o == [ensure_open_block(lo) EXCEPT !.at = path]
      loops == SelectSeq(lo.loops, LAMBDA x : x.cont # 0)
  IN CASE s.k = "compound" -> Todo(PushScope(lo, path), Append(AllOf(s, path), End("endscope", 0, s)))
       [] s.k = "neutral" -> Todo(lo, AllOf(s, path))
       [] s.k = "none" -> o
       [] s.k = "decl" -> lower_one_decl(o, s)
       [] s.k = "expr" -> lower_rvalue(o, s.c[1]).lo
       [] s.k = "if" -> lower_if(o, s, path)
       [] s.k = "while" -> lower_while(o, s, path)
       [] s.k = "do" -> lower_do(o, s, path)
       [] s.k = "for" -> lower_for(o, s, path)
       [] s.k = "switch" -> lower_switch(o, s, path)
       [] s.k \in {"case", "default"} ->
            Todo(IF path \in DOMAIN lo.cases THEN EnterLabel(lo, lo.cases[path]) ELSE lo, <<Stmt(s, path, 1)>>)
       [] s.k = "label" -> Todo(EnterLabel(lo, lo.labels[s.op].b), <<Stmt(s, path, 1)>>)
       [] s.k = "goto" -> br(cleanup_run_for_goto(o, lo.labels[s.op]), lo.labels[s.op].b, <<>>)
       [] s.k = "break" -> lower_leave(o, Head(lo.loops).brk, Head(lo.loops).mark)
       [] s.k = "continue" -> lower_leave(o, Head(loops).cont, Head(loops).mark)
       [] s.k = "return" -> lower_return(o, s)

StepOf(lo) ==
  LET w == Head(lo.todo)
      l == [lo EXCEPT !.todo = Tail(@)]
  IN CASE w.k = "stmt" -> lower_stmt_impl(l, w.s, w.path)
       [] w.k = "endscope" -> scope_exit_here(l)
       [] w.k = "endswitch" -> EndSwitch(l, w.n)
       [] w.k = "else" -> Else(l, w.n)
       [] w.k = "endif" -> EndIf(l, w.n)
       [] w.k = "endwhile" -> EndWhile(l, w.n)
       [] w.k = "enddo" -> EndDo(l, w.n, w.s)
       [] w.k = "fortest" -> ForTest(l, w.s)
       [] w.k = "endfor" -> EndFor(l, w.n, w.s)

\* The statements inside an expression.
lower_items(lo, items) ==
  [Until(LAMBDA l : l.todo = <<>>, Step, [lo EXCEPT !.todo = items]) EXCEPT !.todo = lo.todo]

\* ({ ... }): the value, then the scope's cleanups; when the body has left already, the
\* enclosing expression continues in a block nothing reaches.
lower_stmt_expr(lo, e) ==
  LET items == e.c[1].c
      valued == items # <<>> /\ items[Len(items)].k = "expr"
      id == Append(lo.at, 0)
      n == IF valued THEN Len(items) - 1 ELSE Len(items)
      l1 == lower_items(PushScope(lo, id), SubSeq(AllOf(e.c[1], id), 1, n))
      none == Undef(IF e.t.k = "void" THEN "i32" ELSE lower_irtype(e.t))
  IN With(IF valued /\ ~terminated(l1) THEN lower_rvalue(l1, items[Len(items)].c[1]) ELSE R(l1, none), LAMBDA r :
  LET dead == terminated(r.lo)
  IN R([ensure_open_block(scope_exit_here(r.lo)) EXCEPT !.at = lo.at], IF dead THEN none ELSE r.v))

Lowering(what, lo, x) ==
  CASE what = "rvalue" -> Strictly(lo, LAMBDA l : RvalueOf(l, x))
    [] what = "lvalue" -> LvalueOf(lo, x)
    [] what = "cond" -> CondOf(lo, x)
    [] what = "stmtexpr" -> lower_stmt_expr(lo, x)
    [] what = "step" -> StepOf(lo)

(***************************************************************************)
(* lower_function: label blocks after the entry, parameters spilled to     *)
(* slots, slots for the locals, the body, and an undefined return value    *)
(* when control falls off the end.                                         *)
(***************************************************************************)
RECURSIVE NamesUsed(_)
NamesUsed(e) == (IF e.k = "id" THEN {e.op} ELSE {}) \cup UNION {NamesUsed(e.c[i]) : i \in DOMAIN e.c}

SpillParam(lo, i, p) ==
  With(BindSlot(lo, p[1], p[2]), LAMBDA l :
    lower_store(l, lv_of(l.slot[p[1]], p[2], <<>>), V(i, lower_irtype(p[2]))).lo)

\* (A function called main, which would return 0 there, is not among the programs.)
lower_function_begin(p) ==
  LET types == [i \in DOMAIN p.params |-> lower_irtype(p.params[i][2])]
      labels == Evaluated(collect_labels(p.body, <<>>))
      globals == [x \in {p.globals[i][1] : i \in DOMAIN p.globals} |->
                    Sym(CHOOSE i \in DOMAIN p.globals : p.globals[i][1] = x, 0)]
      at(x) == CHOOSE i \in DOMAIN labels : labels[i][1] = x
      f0 == [params |-> [i \in DOMAIN p.params |-> i], vals |-> types, slots |-> {}, setjmp |-> FALSE, attrs |-> p.attrs,
             ret |-> IF p.ret.k = "void" THEN "void" ELSE lower_irtype(p.ret),
             blocks |-> [i \in 1..(1 + Len(labels)) |-> [params |-> <<>>, insts |-> <<>>]]]
      lo0 == [f |-> f0, cur |-> 1, slot |-> globals, protos |-> p.protos, used |-> NamesUsed(p.body),
              labels |-> [x \in {labels[i][1] : i \in DOMAIN labels} |->
                            [b |-> 1 + at(x), at |-> labels[at(x)][2]]],
              scopes |-> <<>>, loops |-> <<>>, cases |-> <<>>, at |-> <<>>,
              todo |-> <<[k |-> "stmt", s |-> p.body, path |-> <<>>, n |-> 0]>>]
  IN lower_prebind_locals(
       Fold(LAMBDA l, i : SpillParam(l, i, p.params[i]), lo0, [i \in DOMAIN p.params |-> i]), p.body)

lower_function_end(lo) ==
  LET ret == Term("ret", IF lo.f.ret = "void" THEN <<>> ELSE <<Undef(lo.f.ret)>>, <<>>, {})
      closed == IF terminated(lo) THEN lo ELSE emit(lo, ret)
  IN ir_func_renumber(ir_func_remove_unreachable(closed.f))

(***************************************************************************)
(* The functions of a unit, one after the other; globals start zeroed.     *)
(* tu holds the functions still to lower, the state of the first of them   *)
(* and the module; a step lowers one statement, or ends a function.        *)
(***************************************************************************)
lower_translation_unit(p) ==
  LET fs == Append(p.others, p)
  IN [fs |-> fs, lo |-> lower_function_begin(fs[1]),
      m |-> [funcs |-> <<>>, order |-> [i \in DOMAIN fs |-> fs[i].name], growth |-> <<>>,
             globals |-> [i \in DOMAIN p.globals |-> [c \in 1..CellsOf(p.globals[i][2]) |-> {0}]]]]
Lowered(tu) == tu.fs = <<>>
UnitStep(tu) ==
  IF tu.lo.todo # <<>> THEN [tu EXCEPT !.lo = Step(@)]
  ELSE [fs |-> Tail(tu.fs),
        lo |-> IF Len(tu.fs) = 1 THEN tu.lo ELSE lower_function_begin(tu.fs[2]),
        m |-> [tu.m EXCEPT !.funcs = Put(@, tu.fs[1].name, lower_function_end(tu.lo))]]
=============================================================================
