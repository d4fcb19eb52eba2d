------------------------------- MODULE IrText -------------------------------
(***************************************************************************)
(* The textual form of the intermediate representation: the printer        *)
(* (src/ir/print.c) and its inverse, the parser (src/ir/parse.c).  A text  *)
(* is a sequence of tokens; only quoted strings are spelled out, because   *)
(* their escaping is a conversion of its own.  Values are renumbered in    *)
(* document order by the printer and recreated in that order by the        *)
(* parser, which parks a fixup for a value used before its definition.     *)
(* Abstracted: white space, source positions and the wording of errors.    *)
(***************************************************************************)
EXTENDS Integers, Sequences, FiniteSets, SequencesExt

LOCAL I == INSTANCE Ir

\* A value and what is made of it.
With(x, op(_)) == op(x)

F32Bits == 2                    \* the bits of an f32 constant; wider ones do not fit

Id(s) == <<"id", s>>
Num(n) == <<"int", n>>
Hex(n) == <<"hex", n>>
LP == <<"(">>
RP == <<")">>
LB == <<"{">>
RB == <<"}">>
Comma == <<",">>
Colon == <<":">>
Eq == <<"=">>
Eof == <<"eof">>
Paren(s) == <<LP>> \o s \o <<RP>>

BinaryOps == {"iadd", "isub", "imul", "sdiv", "udiv", "srem", "urem", "and", "or", "xor", "shl", "lshr", "ashr",
              "fadd", "fsub", "fmul", "fdiv"}
NswOps == {"iadd", "isub", "imul"}
UnaryOps == {"fneg", "fabs"}
ReduceOps == {"vreduce_add", "vreduce_mul", "vreduce_and", "vreduce_or", "vreduce_xor"}
ConvOps == {"sext", "zext", "trunc", "fpext", "fptrunc", "fptosi", "fptoui", "sitofp", "uitofp", "bitcast"}
VoidOps == {"store", "memcpy", "memset", "va_start", "stackrestore", "asm", "ret", "br", "condbr", "switch",
            "unreachable"}
op_names == BinaryOps \cup UnaryOps \cup ReduceOps \cup ConvOps \cup VoidOps \cup
            {"icmp", "fcmp", "vsplat", "vextract", "alloca", "load", "ptradd", "select", "call", "stacksave",
             "atomicrmw", "cmpxchg"}
floats == {"f32", "f64", "f80", "f128"}
elems == [v16i8 |-> "i8", v8i16 |-> "i16", v4i32 |-> "i32", v2i64 |-> "i64", v4f32 |-> "f32", v2f64 |-> "f64"]
type_names == {"i8", "i16", "i32", "i64", "ptr", "void"} \cup floats \cup DOMAIN elems
etype_names == {"unknown", "char", "i8", "i16", "i32", "i64", "f32", "f64", "f80", "f128", "ptr", "aggregate", "union"}
rmw_names == {"add", "sub", "and", "or", "xor", "xchg"}
icmp_names == {"eq", "ne", "slt", "sle", "sgt", "sge", "ult", "ule", "ugt", "uge"}
fcmp_names == {"oeq", "one", "olt", "ole", "ogt", "oge", "ord", "ueq", "une", "ult", "ule", "ugt", "uge", "uno"}
abi_pairs == {"sret", "pair_ii", "pair_is", "pair_si", "pair_ss"}
abi_hfas == {"hfa_f32", "hfa_f64", "hfa_f128"}
ir_type_is_vector(t) == t \in DOMAIN elems
type_is_float(t) == t \in floats

\* Operands.  `annot` holds the ABI annotation of a call argument, `flags` its argflags.
NoAnnot == [kind |-> "", size |-> 0, n |-> 0, align |-> 0, even |-> FALSE]
ir_op(kind, t, a) == [kind |-> kind, type |-> t, a |-> a, hi |-> 0, sym |-> 0, flags |-> {}, annot |-> NoAnnot]
ir_op_value(f, v) == ir_op("value", f.vals[v], v)
ir_op_iconst(t, n) == ir_op("iconst", t, n)
ir_op_fconst(t, lo, hi) == [ir_op("fconst", t, lo) EXCEPT !.hi = hi]
ir_op_symbol(t, s, addend) == [ir_op("symbol", t, addend) EXCEPT !.sym = s]
ir_op_undef(t) == ir_op("undef", t, 0)

NoInst == [op |-> "", type |-> "void", sub |-> "", res |-> 0, ops |-> <<>>, flags |-> {}, align |-> 0,
           edges |-> <<>>, callee |-> 0]

(***************************************************************************)
(* Quoted strings: the escapes of print_quoted_bytes and the decoding in   *)
(* lex_all.  A byte is a printable character or one of the names below.    *)
(***************************************************************************)
HexPair == [nul |-> <<"0", "0">>, high |-> <<"f", "f">>]

print_quoted_bytes(s) ==
  LET esc(b) == CASE b = "quote" -> <<"backslash", "quote">>
                  [] b = "backslash" -> <<"backslash", "backslash">>
                  [] b = "newline" -> <<"backslash", "n">>
                  [] b = "tab" -> <<"backslash", "t">>
                  [] b \in DOMAIN HexPair -> <<"backslash", "x">> \o HexPair[b]
                  [] OTHER -> <<b>>
  IN I!Fold(LAMBDA acc, b : acc \o esc(b), <<>>, s)

RECURSIVE lex_string(_, _)      \* the bytes, or <<"bad">> when a quote ends the string early
lex_string(c, acc) ==
  IF c = <<>> THEN acc
  ELSE LET two == Len(c) >= 2 /\ c[1] = "backslash"
           after(n) == SubSeq(c, n + 1, Len(c))
       IN CASE c[1] = "quote" \/ c[1] = "newline" -> <<"bad">>
            [] two /\ c[2] = "x" ->
                 IF \E b \in DOMAIN HexPair : SubSeq(c, 3, 4) = HexPair[b]
                 THEN lex_string(after(4), Append(acc, CHOOSE b \in DOMAIN HexPair : SubSeq(c, 3, 4) = HexPair[b]))
                 ELSE <<"bad">>
            [] two /\ c[2] = "n" -> lex_string(after(2), Append(acc, "newline"))
            [] two /\ c[2] = "t" -> lex_string(after(2), Append(acc, "tab"))
            [] two /\ c[2] \in {"quote", "backslash"} -> lex_string(after(2), Append(acc, c[2]))
            [] OTHER -> lex_string(after(1), Append(acc, c[1]))

Str(s) == <<"str", print_quoted_bytes(s)>>

\* lex_all: the tokens of a text with its strings decoded; no character of the text may
\* begin no token.
LexFails(text) ==
  \E k \in DOMAIN text : text[k][1] = "stray" \/ (text[k][1] = "str" /\ lex_string(text[k][2], <<>>) = <<"bad">>)
lex_all(text) ==
  [k \in DOMAIN text |-> IF text[k][1] = "str" THEN <<"str", lex_string(text[k][2], <<>>)>> ELSE text[k]]
    \o <<Eof>>

(***************************************************************************)
(* The printer.                                                            *)
(***************************************************************************)
Flat(ss) == I!Fold(LAMBDA acc, s : acc \o s, <<>>, ss)
RECURSIVE Commas(_)             \* the sequences of ss, separated by commas
Commas(ss) == IF Len(ss) <= 1 THEN Flat(ss) ELSE ss[1] \o <<Comma>> \o Commas(Tail(ss))
When(b, s) == IF b THEN s ELSE <<>>
Words(set, order) == LET present == SelectSeq(order, LAMBDA w : w \in set) IN [k \in DOMAIN present |-> Id(present[k])]
Clauses(set, order) == Flat([k \in DOMAIN order |-> When(order[k] \in set, <<Comma, Id(order[k])>>)])

\* vn_build: the printed number of every value, in document order.
DefsInOrder(f) ==
  LET ofBlock(b) == b.params \o SelectSeq([k \in DOMAIN b.insts |-> b.insts[k].res], LAMBDA r : r # 0)
  IN f.params \o Flat([b \in DOMAIN f.blocks |-> ofBlock(f.blocks[b])])
vn_build(f) ==
  With(DefsInOrder(f), LAMBDA defs :
    [v \in ToSet(defs) |-> (CHOOSE k \in DOMAIN defs : defs[k] = v) - 1])

print_val(vn, v) == <<IF v \in DOMAIN vn THEN <<"%", vn[v]>> ELSE <<"%", v + 100>>>>
print_sym_name(name) == <<IF name[1] THEN <<"@!", name[2]>> ELSE <<"@", name[2]>>>>

print_atom(m, vn, o) ==
  CASE o.kind = "value" -> print_val(vn, o.a)
    [] o.kind = "iconst" -> <<Num(o.a)>>
    [] o.kind = "fconst" /\ o.type = "f32" -> <<Hex(o.a % 2 ^ F32Bits)>>
    [] o.kind = "fconst" /\ o.type = "f64" -> <<Hex(o.a)>>
    [] o.kind = "fconst" -> <<Hex(o.hi), Colon, Hex(o.a)>>
    [] o.kind = "symbol" -> print_sym_name(m.syms[o.sym].name) \o When(o.a # 0, <<Num(o.a)>>)
    [] o.kind = "undef" -> <<Id("undef")>>
print_typed(m, vn, o) == <<Id(o.type)>> \o print_atom(m, vn, o)

print_stack_align(n) ==
  CASE n = 0 -> <<>> [] n = 16 -> <<Id("stackalign16")>> [] OTHER -> <<Id("stackalign")>> \o Paren(<<Num(n)>>)

print_call_arg(m, vn, o) ==
  LET a == IF o.kind \in {"value", "symbol"} THEN o.annot ELSE NoAnnot
  IN print_typed(m, vn, o)
     \o (CASE a.kind = "" -> <<>>
           [] a.kind = "hfa" -> <<Id("hfa")>> \o Paren(<<Num(a.size), Comma, Num(a.n)>>)
           [] OTHER -> <<Id(a.kind)>> \o Paren(<<Num(a.size)>>))
     \o Words(o.flags, <<"anon", "sext", "zext", "onstack">>)
     \o print_stack_align(a.align) \o When(a.even, <<Id("even")>>)

print_edge(m, f, vn, e) ==
  <<Id(f.blocks[e.target].name)>> \o Paren(Commas([k \in DOMAIN e.args |-> print_typed(m, vn, e.args[k])]))

print_memflags(in) == Clauses(in.flags, <<"volatile", "seq_cst", "self_init">>)
print_etype(in) == When(in.sub # "unknown", <<Comma, Id("etype"), Id(in.sub)>>)
print_align(in) == <<Comma, Id("align"), Num(in.align)>>
\* IRF_FLOW_PROVENANCE is spelled by the terminator that carries it.
Provenance == [ret |-> "implicit", br |-> "defensive", condbr |-> "config", switch |-> "config"]
print_provenance(in) == When("flow_provenance" \in in.flags, <<Comma, Id(Provenance[in.op])>>)

\* An early-clobber operand is printed with an '&', which begins no token.
print_asm(m, vn, in) ==
  LET a == m.asms[in.callee]
      one(k) == <<Comma, Id(IF a.ops[k].output THEN "out" ELSE "in")>> \o When(a.ops[k].early, <<<<"stray">>>>)
                \o When(a.ops[k].tied >= 0, <<Eq, Num(a.ops[k].tied)>>) \o <<Str(a.ops[k].constraint)>>
                \o print_typed(m, vn, in.ops[k])
  IN <<Id("asm")>> \o Words(a.flags, <<"volatile", "basic">>) \o <<Str(a.tmpl)>>
     \o Flat([k \in DOMAIN a.ops |-> one(k)])
     \o When(a.clobbers # {} \/ a.regs # <<>>,
             <<Comma, Id("clobbers")>> \o Words(a.clobbers, <<"memory", "cc">>)
             \o [k \in DOMAIN a.regs |-> <<"id", "r", a.regs[k]>>])

print_call(m, vn, in) ==
  LET args(first) == Paren(Commas([k \in 1..(Len(in.ops) - first + 1) |-> print_call_arg(m, vn, in.ops[k + first - 1])]))
      name == m.syms[in.callee].name
  IN With(CASE in.sub = "internal" -> print_sym_name(m.funcs[in.callee].name) \o args(1)
            [] in.sub = "external" ->
                 When(\E k \in DOMAIN m.funcs : m.funcs[k].name = name, <<Id("external")>>)
                 \o print_sym_name(name) \o args(1)
            [] OTHER -> When(in.ops[1].kind = "symbol", <<Id("indirect")>>) \o print_atom(m, vn, in.ops[1])
                        \o args(2), LAMBDA callee :
    <<Id("call"), Id(in.type)>> \o callee \o Words(in.flags, <<"unproto", "va", "noreturn">>))

print_inst(m, f, vn, in) ==
  LET A(k) == print_atom(m, vn, in.ops[k])
      T(k) == print_typed(m, vn, in.ops[k])
      E(k) == print_edge(m, f, vn, in.edges[k])
  IN With(A(1) \o <<Comma>> \o A(2), LAMBDA two :
    When(in.res # 0, print_val(vn, in.res) \o <<Eq>>) \o
    CASE in.op \in BinaryOps -> <<Id(in.op), Id(in.type)>> \o two \o Clauses(in.flags, <<"nsw">>)
      [] in.op = "icmp" -> <<Id("icmp"), Id(in.sub), Id(in.ops[1].type)>> \o two \o Clauses(in.flags, <<"bounds">>)
      [] in.op = "fcmp" -> <<Id("fcmp"), Id(in.sub), Id(in.ops[1].type)>> \o two
      [] in.op \in UnaryOps -> <<Id(in.op), Id(in.type)>> \o A(1)
      [] in.op = "vsplat" -> <<Id("vsplat"), Id(in.type)>> \o T(1)
      [] in.op = "vextract" -> <<Id("vextract"), Id(in.ops[1].type)>> \o A(1) \o <<Comma, Num(in.sub)>>
      [] in.op \in ReduceOps -> <<Id(in.op), Id(in.ops[1].type)>> \o A(1)
      [] in.op \in ConvOps -> <<Id(in.op)>> \o T(1) \o <<Id("to"), Id(in.type)>>
      [] in.op = "alloca" -> <<Id("alloca")>> \o A(1) \o print_align(in) \o print_etype(in)
      [] in.op = "load" -> <<Id("load"), Id(in.type), Comma>> \o A(1) \o print_align(in) \o print_memflags(in)
                           \o print_etype(in)
      [] in.op = "store" -> <<Id("store")>> \o T(1) \o <<Comma>> \o A(2) \o print_align(in) \o print_memflags(in)
                            \o print_etype(in)
      [] in.op = "ptradd" -> <<Id("ptradd")>> \o two
      [] in.op \in {"memcpy", "memset"} -> <<Id(in.op)>> \o two \o <<Comma>> \o A(3) \o print_align(in)
                                           \o print_memflags(in)
      [] in.op = "select" -> <<Id("select")>> \o A(1) \o <<Comma, Id(in.type)>> \o A(2) \o <<Comma>> \o A(3)
      [] in.op = "call" -> print_call(m, vn, in)
      [] in.op \in {"va_start", "stackrestore"} -> <<Id(in.op)>> \o A(1)
      [] in.op \in {"stacksave", "unreachable"} -> <<Id(in.op)>>
      [] in.op = "asm" -> print_asm(m, vn, in)
      [] in.op = "atomicrmw" -> <<Id("atomicrmw"), Id(in.sub), Id(in.type)>> \o two \o print_memflags(in)
      [] in.op = "cmpxchg" -> <<Id("cmpxchg"), Id(in.type)>> \o two \o <<Comma>> \o A(3) \o print_memflags(in)
      [] in.op = "ret" -> <<Id("ret")>> \o When(in.ops # <<>>, T(1)) \o print_provenance(in)
      [] in.op = "br" -> <<Id("br")>> \o E(1) \o print_provenance(in)
      [] in.op = "condbr" -> <<Id("condbr")>> \o A(1) \o <<Comma>> \o E(1) \o <<Comma>> \o E(2) \o print_provenance(in)
      [] in.op = "switch" -> <<Id("switch"), Id(in.ops[1].type)>> \o A(1) \o <<Comma>> \o E(1)
           \o Flat([k \in 1..(Len(in.edges) - 1) |-> <<Comma, Num(in.edges[k + 1].case), Colon>> \o E(k + 1)])
           \o print_provenance(in))

\* The attributes of a header, in the order they are printed.
DefaultPriority == 65535
FuncAttrs == <<"unproto", "internal", "weak", "visibility", "align", "used", "always_inline", "inline_only",
               "returns_twice", "section", "constructor", "destructor", "abi", "setjmp", "contract">>
SymAttrs == <<"weak", "visibility", "tls_model", "returns_twice">>
AliasAttrs == <<"weak", "visibility">>
GlobalAttrs == <<"tentative", "tls", "weak", "used", "const", "section", "visibility", "init">>

print_attr(w, x) ==
  CASE w = "visibility" -> <<Id(w)>> \o Paren(<<Id(x)>>)
    [] w = "align" -> <<Id(w)>> \o Paren(<<Num(x)>>)
    [] w = "section" -> <<Id(w)>> \o Paren(<<Str(x)>>)
    [] w \in {"constructor", "destructor"} -> <<Id(w)>> \o When(x # DefaultPriority, Paren(<<Num(x)>>))
    [] w = "abi" -> <<Id(w)>> \o Paren(<<Id(x[1])>> \o When(x[1] \in abi_hfas, <<Comma, Num(x[2])>>))
    [] w = "tls_model" -> <<Id("tls")>> \o Paren(<<Id(x)>>)
    [] w = "init" -> <<Id("init"), <<"id", "x", x>>>>
    [] OTHER -> <<Id(w)>>
print_attrs(at, order) == Flat([k \in DOMAIN order |-> When(order[k] \in DOMAIN at, print_attr(order[k], at[order[k]]))])

print_param(f, vn, k) ==
  LET a == f.annots[k]
  IN <<Id(f.vals[f.params[k]])>> \o When(a.kind = "byval", <<Id("byval")>> \o Paren(<<Num(a.size)>>))
     \o When(a.onstack, <<Id("onstack")>>) \o print_stack_align(a.align) \o When(a.even, <<Id("even")>>)
     \o When(a.restrict, <<Id("restrict")>>) \o print_val(vn, f.params[k])

print_func(m, f) ==
  With(vn_build(f), LAMBDA vn :
  LET param(v) == <<Id(f.vals[v])>> \o print_val(vn, v)
      block(b) == <<Id(b.name)>> \o Paren(Commas([k \in DOMAIN b.params |-> param(b.params[k])])) \o <<Colon>>
                  \o Flat([k \in DOMAIN b.insts |-> print_inst(m, f, vn, b.insts[k])])
  IN With([k \in DOMAIN f.params |-> print_param(f, vn, k)], LAMBDA params :
    <<Id("func"), Id(f.ret)>> \o print_sym_name(f.name)
    \o Paren(Commas(IF f.variadic THEN Append(params, <<<<"...">>>>) ELSE params))
    \o print_attrs(f.at, FuncAttrs) \o <<LB>> \o Flat([b \in DOMAIN f.blocks |-> block(f.blocks[b])]) \o <<RB>>))

ir_print_module_buf(m) ==
  LET ident(s) == <<Id("ident"), Str(s)>>
      sym(s) == <<Id("sym")>> \o print_sym_name(s.name) \o print_attrs(s.at, SymAttrs)
      alias(a) == <<Id("alias")>> \o print_sym_name(a.name) \o <<Eq>> \o print_sym_name(a.target)
                  \o <<Id(a.linkage)>> \o print_attrs(a.at, AliasAttrs)
      reloc(r) == <<Id("reloc"), Num(r.offset)>> \o print_sym_name(m.syms[r.symbol].name) \o <<Num(r.addend)>>
      global(g) == <<Id("global")>> \o print_sym_name(g.name)
                   \o <<Id("size"), Num(g.size), Id("align"), Num(g.align), Id(g.linkage)>>
                   \o print_attrs(g.at, GlobalAttrs) \o Flat([k \in DOMAIN g.relocs |-> reloc(g.relocs[k])])
  IN Flat([k \in DOMAIN m.idents |-> ident(m.idents[k])]) \o Flat([k \in DOMAIN m.syms |-> sym(m.syms[k])])
     \o Flat([k \in DOMAIN m.aliases |-> alias(m.aliases[k])])
     \o Flat([k \in DOMAIN m.globals |-> global(m.globals[k])])
     \o Flat([k \in DOMAIN m.funcs |-> print_func(m, m.funcs[k])])

(***************************************************************************)
(* The parser.  p holds the position, the module and function under        *)
(* construction, the names of the function's values, the fixups, the type  *)
(* and the operand last parsed, and the instruction under construction.    *)
(* The first error stops it.                                               *)
(***************************************************************************)
peek(p) == p.toks[p.pos]
peek2(p) == IF peek(p) = Eof THEN Eof ELSE p.toks[p.pos + 1]
next(p) == IF peek(p) = Eof THEN p ELSE [p EXCEPT !.pos = @ + 1]
tok_is_symbol(t) == t[1] \in {"@", "@!"}
tok_name(t) == <<t[1] = "@!", t[2]>>
perr(p) == [p EXCEPT !.ok = FALSE]
expect(p, tok) == IF peek(p) = tok THEN next(p) ELSE perr(p)
expectKind(p, kind) == IF peek(p)[1] = kind THEN next(p) ELSE perr(p)
expect_symbol(p) == IF tok_is_symbol(peek(p)) THEN next(p) ELSE perr(p)
Take(p) == peek(p)[2]           \* the payload of the token about to be taken

\* ir_sym: the index of a name, added to the table when it is new.
SymIndex(m, name) == IF \E k \in DOMAIN m.syms : m.syms[k].name = name
                     THEN CHOOSE k \in DOMAIN m.syms : m.syms[k].name = name ELSE 0
ir_sym(m, name) == IF SymIndex(m, name) # 0 THEN m ELSE [m EXCEPT !.syms = Append(@, [name |-> name, at |-> <<>>])]

parse_type(p) ==
  IF peek(p)[1] = "id" /\ Take(p) \in type_names THEN [next(p) EXCEPT !.ty = Take(p)] ELSE perr(p)

def_value(p, name, v) == IF name \in DOMAIN p.vals THEN perr(p) ELSE [p EXCEPT !.vals = I!Put(@, name, v)]
parse_new_value(p, t) == [p EXCEPT !.f.vals = Append(@, t)]

\* The operand is left in p.o; p.fwd is the name of a value not defined yet, or -1.
Operand(p, o) == [next(p) EXCEPT !.o = o, !.fwd = -1]
parse_atom(p, expected) ==
  LET t == peek(p)
      q == next(p)
  IN CASE t[1] = "%" -> IF t[2] \in DOMAIN p.vals THEN Operand(p, ir_op_value(p.f, p.vals[t[2]]))
                        ELSE [q EXCEPT !.o = ir_op("value", expected, 0), !.fwd = t[2]]
       [] t[1] = "int" -> IF ir_type_is_vector(expected) \/ type_is_float(expected) THEN perr(p)
                          ELSE Operand(p, ir_op_iconst(expected, t[2]))
       [] t[1] = "hex" ->
            CASE ir_type_is_vector(expected) -> perr(p)
              [] expected \in {"f80", "f128"} ->
                   IF peek(q) = Colon /\ peek(next(q))[1] = "hex"
                   THEN Operand(next(q), ir_op_fconst(expected, peek(next(q))[2], t[2])) ELSE perr(p)
              [] expected = "f32" /\ t[2] >= 2 ^ F32Bits -> perr(p)
              [] type_is_float(expected) -> Operand(p, ir_op_fconst(expected, t[2], 0))
              [] OTHER -> Operand(p, ir_op_iconst(expected, t[2]))
       [] tok_is_symbol(t) ->
            LET m == ir_sym(p.m, tok_name(t))
            IN With(SymIndex(m, tok_name(t)), LAMBDA s :
              CASE ir_type_is_vector(expected) -> perr(p)
                [] peek(q)[1] = "int" -> [Operand(q, ir_op_symbol(expected, s, Take(q))) EXCEPT !.m = m]
                [] OTHER -> [Operand(p, ir_op_symbol(expected, s, 0)) EXCEPT !.m = m])
       [] t = Id("undef") -> Operand(p, ir_op_undef(expected))
       [] OTHER -> perr(p)

parse_typed(p) == LET q == parse_type(p) IN IF q.ok THEN parse_atom(q, q.ty) ELSE q

\* The operand becomes the next one of the instruction, or the next argument of its
\* last edge; a value not defined yet leaves a fixup for the slot.
add_fixup(p, edge, k, cmp) ==
  IF p.fwd = -1 THEN p
  ELSE [p EXCEPT !.fix = Append(@, [block |-> p.cur, inst |-> Len(p.f.blocks[p.cur].insts) + 1,
                                    edge |-> edge, k |-> k, name |-> p.fwd, cmp |-> cmp])]
PlaceOp(p, cmp) == IF ~p.ok THEN p ELSE add_fixup([p EXCEPT !.in.ops = Append(@, p.o)], 0, Len(p.in.ops) + 1, cmp)
PlaceArg(p) ==
  IF ~p.ok THEN p
  ELSE LET e == Len(p.in.edges)
       IN add_fixup([p EXCEPT !.in.edges[e].args = Append(@, p.o)], e, Len(p.in.edges[e].args) + 1, "")

parse_cmp_atom(p) ==
  With(parse_atom(p, p.ty), LAMBDA q :
    IF q.ok /\ q.fwd = -1 /\ q.o.type # p.ty THEN perr(q) ELSE PlaceOp(q, p.ty))

parse_stack_align(p) ==         \* the alignment is left in p.num
  CASE peek(p) = Id("stackalign16") -> [next(p) EXCEPT !.num = 16]
    [] peek(p) = Id("stackalign") ->
         LET q == expect(next(p), LP)
         IN IF ~q.ok \/ peek(q)[1] # "int" THEN perr(q)
            ELSE IF Take(q) < 8 \/ Take(q) % 8 # 0 THEN perr(q) ELSE expect([next(q) EXCEPT !.num = Take(q)], RP)
    [] OTHER -> [p EXCEPT !.num = 0]

ArgFlag(p, ws) ==
  IF p.ok /\ peek(p)[1] = "id" /\ Take(p) \in ws THEN [next(p) EXCEPT !.o.flags = @ \cup {Take(p)}] ELSE p

\* byval(size), sret(size), pair_xy(size) or hfa(size,n) after the operand.
parse_annotation(p) ==
  IF ~p.ok \/ peek(p)[1] # "id" \/ Take(p) \notin abi_pairs \cup {"byval", "hfa"} THEN p
  ELSE LET kind == Take(p)
           q == expect(next(p), LP)
       IN With(expectKind(q, "int"), LAMBDA r :
       LET s == expectKind(expect(r, Comma), "int")
       IN IF ~r.ok THEN r
          ELSE IF kind # "hfa"
          THEN expect([r EXCEPT !.o.annot.kind = kind, !.o.annot.size = Take(q)], RP)
          ELSE IF ~s.ok THEN s
          ELSE expect([s EXCEPT !.o.annot.kind = kind, !.o.annot.size = Take(q), !.o.annot.n = s.toks[s.pos - 1][2]], RP))

parse_call_arg(p) ==
  With(ArgFlag(ArgFlag(ArgFlag(parse_annotation(parse_typed(p)), {"anon"}), {"sext", "zext"}), {"onstack"}), LAMBDA q :
  With(IF q.ok THEN parse_stack_align(q) ELSE q, LAMBDA r :
  LET addressed == q.o.kind \in {"value", "symbol"}
      s == [r EXCEPT !.o.annot.align = r.num]
  IN IF ~r.ok \/ (r.num # 0 /\ ~addressed) THEN perr(r)
     ELSE IF peek(s) # Id("even") THEN PlaceOp(s, "")
     ELSE IF addressed THEN PlaceOp([next(s) EXCEPT !.o.annot.even = TRUE], "") ELSE perr(s)))

\* The comma-separated items between the parentheses (count_args and the loop over
\* the count): call arguments or typed edge arguments.
RECURSIVE parse_items(_, _)
parse_items(p, call) ==
  With(IF call THEN parse_call_arg(p) ELSE PlaceArg(parse_typed(p)), LAMBDA q :
    IF ~q.ok THEN q ELSE IF peek(q) = Comma THEN parse_items(next(q), call) ELSE expect(q, RP))
parse_args(p, call) ==
  LET q == expect(p, LP) IN IF ~q.ok THEN q ELSE IF peek(q) = RP THEN next(q) ELSE parse_items(q, call)

BlockNamed(f, name) == IF \E b \in DOMAIN f.blocks : f.blocks[b].name = name
                       THEN CHOOSE b \in DOMAIN f.blocks : f.blocks[b].name = name ELSE 0
parse_edge(p, case) ==
  IF peek(p)[1] # "id" \/ BlockNamed(p.f, Take(p)) = 0 THEN perr(p)
  ELSE parse_args([next(p) EXCEPT !.in.edges = Append(@, [target |-> BlockNamed(p.f, Take(p)), args |-> <<>>,
                                                          case |-> case])], FALSE)
RECURSIVE parse_cases(_)
parse_cases(p) ==
  IF ~p.ok \/ peek(p) # Comma \/ peek2(p)[1] # "int" THEN p
  ELSE LET q == expect(next(next(p)), Colon) IN IF q.ok THEN parse_cases(parse_edge(q, peek2(p)[2])) ELSE q

parse_align(p) ==
  LET q == expect(expect(p, Comma), Id("align"))
  IN IF q.ok /\ peek(q)[1] = "int" THEN [next(q) EXCEPT !.in.align = Take(q)] ELSE perr(q)

\* A clause `, word` of the instruction: taken when its word is one of ws.
Clause(p, ws) ==
  IF peek(p) = Comma /\ peek2(p)[1] = "id" /\ peek2(p)[2] \in ws
  THEN [next(next(p)) EXCEPT !.in.flags = @ \cup {peek2(p)[2]}] ELSE p
RECURSIVE parse_memflags(_)
parse_memflags(p) ==
  With(Clause(p, {"volatile", "seq_cst", "self_init"}), LAMBDA q :
    IF q.pos = p.pos THEN p ELSE parse_memflags(q))
parse_flow_provenance(p, name) ==
  IF peek(p) = Comma /\ peek2(p) = Id(name)
  THEN [next(next(p)) EXCEPT !.in.flags = @ \cup {"flow_provenance"}] ELSE p
parse_etype(p) ==
  LET q == next(next(p))
  IN IF peek(p) # Comma \/ peek2(p) # Id("etype") THEN (IF p.in.sub = "" THEN [p EXCEPT !.in.sub = "unknown"] ELSE p)
     ELSE IF peek(q)[1] = "id" /\ Take(q) \in etype_names THEN [next(q) EXCEPT !.in.sub = Take(q)] ELSE perr(q)

inst_append(p, t) ==
  LET q == parse_new_value(p, t)
      v == Len(q.f.vals)
  IN IF p.res = -1 THEN [p EXCEPT !.in.type = t]
     ELSE def_value([q EXCEPT !.in.type = t, !.in.res = v], p.res, v)

\* The callee: a symbol is internal when the text defines a function of that name and
\* the call is not marked external; anything else is a pointer operand.
parse_callee(p) ==
  LET external == peek(p) = Id("external")
      q == IF external THEN next(p) ELSE p
      indirect == peek(q) = Id("indirect")
  IN With(IF indirect THEN next(q) ELSE q, LAMBDA r :
  LET name == tok_name(peek(r))
      known == {k \in DOMAIN r.ids : r.ids[k] = name}
      m == ir_sym(r.m, name)
  IN CASE external /\ (indirect \/ ~tok_is_symbol(peek(r))) -> perr(r)
       [] ~external /\ (indirect \/ ~tok_is_symbol(peek(r))) ->
            PlaceOp(parse_atom([r EXCEPT !.in.sub = "indirect"], "ptr"), "")
       [] known # {} /\ ~external ->
            [next(r) EXCEPT !.in.sub = "internal", !.in.callee = CHOOSE k \in known : TRUE]
       [] OTHER -> [next(r) EXCEPT !.in.sub = "external", !.m = m, !.in.callee = SymIndex(m, name)])

elem_type(t) == IF ir_type_is_vector(t) THEN elems[t] ELSE "void"
Word(p, w) == IF peek(p) = Id(w) THEN [next(p) EXCEPT !.in.flags = @ \cup {w}] ELSE p
Predicate(p, names) ==
  IF peek(p)[1] = "id" /\ Take(p) \in names THEN [next(p) EXCEPT !.in.sub = Take(p)] ELSE perr(p)

\* One step of an instruction's shape.
ParseStep(p, s) ==
  LET ty == IF Len(s) < 2 \/ s[2] = "" THEN p.ty ELSE s[2]
      q == parse_type(p)
  IN CASE s[1] = "tok" -> expect(p, s[2])
       [] s[1] = "type" -> q
       [] s[1] = "append" -> inst_append(p, ty)
       [] s[1] = "append_elem" -> inst_append(p, elem_type(p.ty))
       [] s[1] = "lane_type" -> IF q.ok /\ q.ty = elem_type(p.ty) THEN q ELSE perr(q)
       [] s[1] = "atom" -> PlaceOp(parse_atom(p, ty), "")
       [] s[1] = "cmp_atom" -> parse_cmp_atom(p)
       [] s[1] = "typed" -> PlaceOp(parse_typed(p), "")
       [] s[1] = "ret_value" -> IF peek(p)[1] = "id" /\ Take(p) \in type_names THEN PlaceOp(parse_typed(p), "") ELSE p
       [] s[1] = "lane" -> IF peek(p)[1] = "int" THEN [next(p) EXCEPT !.in.sub = Take(p)] ELSE perr(p)
       [] s[1] = "pred" -> Predicate(p, s[2])
       [] s[1] = "align" -> parse_align(p)
       [] s[1] = "etype" -> parse_etype(p)
       [] s[1] = "memflags" -> parse_memflags(p)
       [] s[1] = "char" -> [p EXCEPT !.in.sub = "char"]
       [] s[1] = "word" -> Word(p, s[2])
       [] s[1] = "clause" -> Clause(p, {s[2]})
       [] s[1] = "prov" -> parse_flow_provenance(p, s[2])
       [] s[1] = "result" -> IF (p.res = -1) = (p.ty = "void") THEN p ELSE perr(p)
       [] s[1] = "callee" -> parse_callee(p)
       [] s[1] = "args" -> parse_args(p, TRUE)
       [] s[1] = "edge" -> parse_edge(p, 0)
       [] s[1] = "cases" -> parse_cases(p)

\* The shapes, in the order the cases of parse_inst take them.
Sep == <<"tok", Comma>>
Ty == <<"type">>
Result == <<"append", "">>
Void == <<"append", "void">>
Atom(t) == <<"atom", t>>
Mem == <<<<"align">>, <<"memflags">>>>
shape_arith(op) == When(op \in NswOps, <<<<"word", "nsw">>>>)
                   \o <<Ty, Result, Atom(""), Sep, Atom("")>> \o When(op \in NswOps, <<<<"clause", "nsw">>>>)
shape_compare(op) == <<<<"pred", IF op = "icmp" THEN icmp_names ELSE fcmp_names>>, Ty, <<"append", "i32">>,
                       <<"cmp_atom">>, Sep, <<"cmp_atom">>>> \o When(op = "icmp", <<<<"clause", "bounds">>>>)
shape_vector(op) == CASE op = "vsplat" -> <<Ty, Result, <<"lane_type">>, Atom("")>>
                      [] op = "vextract" -> <<Ty, <<"append_elem">>, Atom(""), Sep, <<"lane">>>>
                      [] op \in ReduceOps -> <<Ty, <<"append_elem">>, Atom("")>>
shape_convert == <<<<"typed">>, <<"tok", Id("to")>>, Ty, Result>>
shape_memory(op) ==
  CASE op = "alloca" -> <<<<"append", "ptr">>, Atom("i64"), <<"align">>, <<"etype">>>>
    [] op = "load" -> <<Ty, Sep, Result, Atom("ptr")>> \o Mem \o <<<<"etype">>>>
    [] op = "store" -> <<Void, <<"typed">>, Sep, Atom("ptr")>> \o Mem \o <<<<"etype">>>>
    [] op = "ptradd" -> <<<<"append", "ptr">>, Atom("ptr"), Sep, Atom("i64")>>
    [] op \in {"memcpy", "memset"} ->
         <<Void, <<"char">>, Atom("ptr"), Sep, Atom(IF op = "memcpy" THEN "ptr" ELSE "i32"), Sep, Atom("i64"),
           <<"align">>, <<"etype">>, <<"memflags">>>>
shape_select == <<Atom("i32"), Sep, Ty, Result, Atom(""), Sep, Atom("")>>
shape_call == <<Ty, <<"result">>, <<"callee">>, Result, <<"args">>, <<"word", "unproto">>, <<"word", "va">>,
                <<"word", "noreturn">>>>
shape_atomic(op) ==
  IF op = "atomicrmw" THEN <<<<"pred", rmw_names>>, Ty, Result, Atom("ptr"), Sep, Atom(""), <<"memflags">>>>
  ELSE <<Ty, Result, Atom("ptr"), Sep, Atom(""), Sep, Atom(""), <<"memflags">>>>
shape_terminator(op) ==
  CASE op = "ret" -> <<Void, <<"ret_value">>, <<"prov", "implicit">>>>
    [] op = "br" -> <<Void, <<"edge">>, <<"prov", "defensive">>>>
    [] op = "condbr" -> <<Void, Atom("i32"), Sep, <<"edge">>, Sep, <<"edge">>, <<"prov", "config">>>>
    [] op = "switch" -> <<Ty, Void, Atom(""), Sep, <<"edge">>, <<"cases">>, <<"prov", "config">>>>
    [] op = "unreachable" -> <<Void>>
shape(op) ==
  CASE op \in BinaryOps -> shape_arith(op)
    [] op \in {"icmp", "fcmp"} -> shape_compare(op)
    [] op \in UnaryOps -> <<Ty, Result, Atom("")>>
    [] op \in {"vsplat", "vextract"} \cup ReduceOps -> shape_vector(op)
    [] op \in ConvOps -> shape_convert
    [] op \in {"alloca", "load", "store", "ptradd", "memcpy", "memset"} -> shape_memory(op)
    [] op = "select" -> shape_select
    [] op = "call" -> shape_call
    [] op \in {"va_start", "stackrestore"} -> <<Void, Atom("ptr")>>
    [] op = "stacksave" -> <<<<"append", "ptr">>>>
    [] op \in {"atomicrmw", "cmpxchg"} -> shape_atomic(op)
    [] op \in {"ret", "br", "condbr", "switch", "unreachable"} -> shape_terminator(op)

\* An inline-asm instruction: the whole record is in the text.
RECURSIVE parse_clobbers(_)
parse_clobbers(p) ==
  LET t == peek(p)
  IN CASE t \in {Id("memory"), Id("cc")} -> parse_clobbers([next(p) EXCEPT !.asm.clobbers = @ \cup {t[2]}])
       [] t[1] = "id" /\ Len(t) = 3 /\ t[2] = "r" -> parse_clobbers([next(p) EXCEPT !.asm.regs = Append(@, t[3])])
       [] OTHER -> p

parse_asm_operand(p) ==
  LET output == peek(p) = Id("out")
      q == next(p)
  IN With(IF peek(q) = Eq THEN expectKind(next(q), "int") ELSE q, LAMBDA r :
  LET tied == IF peek(q) = Eq THEN peek2(q)[2] ELSE -1
  IN IF peek(p) \notin {Id("out"), Id("in")} \/ ~r.ok \/ peek(r)[1] # "str" THEN perr(p)
     ELSE PlaceOp(parse_typed([next(r) EXCEPT !.asm.ops =
            Append(@, [output |-> output, early |-> FALSE, tied |-> tied, constraint |-> Take(r)])]), ""))

RECURSIVE parse_asm_clauses(_)
parse_asm_clauses(p) ==
  IF ~p.ok \/ peek(p) # Comma THEN p
  ELSE parse_asm_clauses(IF peek2(p) = Id("clobbers") THEN parse_clobbers(next(next(p)))
                         ELSE parse_asm_operand(next(p)))

parse_asm_inst(p) ==
  LET q == Word(Word(p, "volatile"), "basic")
  IN With([flags |-> q.in.flags, tmpl |-> Take(q), ops |-> <<>>, clobbers |-> {}, regs |-> <<>>], LAMBDA empty :
  With(parse_asm_clauses([next(q) EXCEPT !.asm = empty, !.in.flags = {}]), LAMBDA r :
    IF peek(q)[1] # "str" THEN perr(q)
    ELSE IF ~r.ok THEN r
    ELSE [r EXCEPT !.m.asms = Append(@, r.asm), !.in.callee = Len(r.m.asms) + 1]))

parse_inst(p0) ==
  LET named == peek(p0)[1] = "%"
      p == IF named THEN expect(next(p0), Eq) ELSE p0
      op == Take(p)
  IN With([next(p) EXCEPT !.res = IF named THEN Take(p0) ELSE -1, !.in = [NoInst EXCEPT !.op = op]], LAMBDA q :
  With(IF op = "asm" THEN parse_asm_inst(q)
       ELSE I!Fold(LAMBDA r, s : IF r.ok THEN ParseStep(r, s) ELSE r, q, shape(op)), LAMBDA done :
    IF ~p.ok \/ peek(p)[1] # "id" \/ op \notin op_names THEN perr(p)
    ELSE IF (op \in VoidOps /\ named) \/ (op \notin VoidOps /\ ~named /\ op # "call") THEN perr(p)
    ELSE IF done.ok THEN [done EXCEPT !.f.blocks[done.cur].insts = Append(@, done.in)] ELSE done))

\* prescan_blocks: a name, a balanced list and a colon is a label; every block exists
\* before the first branch is parsed.
RECURSIVE prescan_blocks(_, _)
prescan_blocks(p, i) ==
  LET close == CHOOSE j \in i..Len(p.toks) : /\ p.toks[j] \in {RP, Eof}
                                             /\ \A k \in i..(j - 1) : p.toks[k] \notin {RP, Eof}
      name == p.toks[i][2]
  IN CASE p.toks[i] = RB -> p
       [] p.toks[i] = Eof -> perr(p)
       [] p.toks[i][1] = "id" /\ p.toks[i + 1] = LP /\ p.toks[close] = RP /\ p.toks[close + 1] = Colon ->
            IF BlockNamed(p.f, name) # 0 \/ name \in op_names \cup type_names \cup {"undef"} THEN perr(p)
            ELSE prescan_blocks([p EXCEPT !.f.blocks = Append(@, [name |-> name, params |-> <<>>, insts |-> <<>>])],
                                close + 2)
       [] OTHER -> prescan_blocks(p, i + 1)

RECURSIVE parse_block_params(_)
parse_block_params(p) ==
  LET q == parse_type(p)
  IN With(parse_new_value(next(q), q.ty), LAMBDA r :
  LET v == Len(r.f.vals)
  IN With(def_value([r EXCEPT !.f.blocks[r.cur].params = Append(@, v)], Take(q), v), LAMBDA s :
    IF ~q.ok \/ peek(q)[1] # "%" THEN perr(q)
    ELSE IF ~s.ok THEN s
    ELSE IF peek(s) = Comma THEN parse_block_params(next(s)) ELSE expect(s, RP)))

parse_block_header(p) ==
  LET b == BlockNamed(p.f, Take(p))
  IN With(expect([next(p) EXCEPT !.cur = b], LP), LAMBDA q :
    IF peek(p)[1] # "id" \/ b = 0 THEN perr(p)
    ELSE IF ~q.ok THEN q
    ELSE expect(IF peek(q) = RP THEN next(q) ELSE parse_block_params(q), Colon))

RECURSIVE parse_body(_)
parse_body(p) ==
  LET t == peek(p)
  IN With(t[1] = "id" /\ BlockNamed(p.f, t[2]) # 0 /\ peek2(p) = LP /\ t[2] \notin op_names, LAMBDA header :
    IF ~p.ok \/ t = RB THEN p
    ELSE IF t = Eof THEN perr(p)
    ELSE parse_body(IF p.cur = 0 \/ header THEN parse_block_header(p) ELSE parse_inst(p)))

\* Every fixup becomes the value its name turned out to have; the annotation of a call
\* argument is kept, its flags are not.
Resolved(p, fx, new) ==
  CASE ~p.ok -> p
    [] fx.cmp # "" /\ new.type # fx.cmp -> perr(p)
    [] fx.edge = 0 -> [p EXCEPT !.f.blocks[fx.block].insts[fx.inst].ops[fx.k] = new]
    [] OTHER -> [p EXCEPT !.f.blocks[fx.block].insts[fx.inst].edges[fx.edge].args[fx.k] = new]
MutResolveFixup(p, fx) ==
  IF fx.name \notin DOMAIN p.vals THEN perr(p) ELSE Resolved(p, fx, ir_op_value(p.f, p.vals[fx.name]))
resolve_fixup(p, fx) ==
  LET in == p.f.blocks[fx.block].insts[fx.inst]
      old == IF fx.edge = 0 THEN in.ops[fx.k] ELSE in.edges[fx.edge].args[fx.k]
  IN IF fx.name \notin DOMAIN p.vals THEN perr(p)
     ELSE Resolved(p, fx, [ir_op_value(p.f, p.vals[fx.name]) EXCEPT !.annot = old.annot])
resolve_fixups(p) == I!Fold(resolve_fixup, p, p.fix)

(***************************************************************************)
(* Headers.  ParseAttr takes attribute w when the text has it next; the    *)
(* parser looks for the attributes in one fixed order.                     *)
(***************************************************************************)
Spelling(w) == IF w = "tls_model" THEN "tls" ELSE w
parse_attr(p, w) ==
  LET q == next(p)
      r == next(q)
      s == next(r)
      set(t, x) == [t EXCEPT !.at = I!Put(@, w, x)]
      arg(kind) == IF peek(q) = LP /\ peek(r)[1] = kind THEN expect(set(s, Take(r)), RP) ELSE perr(p)
      one(words) == IF peek(r)[1] = "id" /\ Take(r) \in words THEN arg("id") ELSE perr(p)
  IN CASE ~p.ok \/ peek(p) # Id(Spelling(w)) -> p
       [] w = "visibility" -> one({"default", "hidden", "protected", "internal"})
       [] w = "tls_model" -> one({"initial_exec"})
       [] w = "align" -> arg("int")
       [] w = "section" -> arg("str")
       [] w \in {"constructor", "destructor"} ->
            IF peek(q) # LP THEN set(q, DefaultPriority)
            ELSE IF peek(r)[1] = "int" /\ Take(r) > DefaultPriority THEN perr(p) ELSE arg("int")
       [] w = "abi" -> IF peek(q) # LP \/ peek(r)[1] # "id" THEN perr(p)
                       ELSE IF Take(r) \in abi_pairs THEN expect(set(s, <<Take(r), 0>>), RP)
                       ELSE IF Take(r) \in abi_hfas /\ peek(s) = Comma /\ peek2(s)[1] = "int"
                       THEN expect(set(next(next(s)), <<Take(r), peek2(s)[2]>>), RP) ELSE perr(p)
       [] w = "init" -> IF Len(peek(q)) = 3 /\ peek(q)[2] = "x" /\ Len(peek(q)[3]) = p.size THEN set(r, peek(q)[3])
                        ELSE perr(p)
       [] OTHER -> set(q, TRUE)
parse_attrs(p, order) == I!Fold(parse_attr, [p EXCEPT !.at = <<>>], order)

parse_func_attrs == <<"unproto", "internal", "weak", "visibility", "align", "used", "always_inline", "inline_only",
                      "returns_twice", "section", "constructor", "destructor", "abi", "setjmp", "contract">>
parse_sym_attrs == <<"weak", "visibility", "tls_model", "returns_twice">>
parse_alias_attrs == <<"weak", "visibility">>
parse_global_attrs == <<"tentative", "tls", "weak", "used", "const", "section", "visibility", "init">>

\* One parameter: its type, its annotations in order, its name.
NoParamAnnot == [kind |-> "", size |-> 0, onstack |-> FALSE, align |-> 0, even |-> FALSE, restrict |-> FALSE]
parse_param(p) ==
  LET q == parse_type(p)
      byval == peek(q) = Id("byval")
  IN With(IF byval THEN expect(expectKind(expect(next(q), LP), "int"), RP) ELSE q, LAMBDA q1 :
  LET onstack == peek(q1) = Id("onstack")
  IN With(parse_stack_align(IF onstack THEN next(q1) ELSE q1), LAMBDA q2 :
  LET even == peek(q2) = Id("even")
      q3 == IF even THEN next(q2) ELSE q2
      restrict == peek(q3) = Id("restrict")
  IN With(IF restrict THEN next(q3) ELSE q3, LAMBDA q4 :
  With([kind |-> IF byval THEN "byval" ELSE "", size |-> IF byval THEN q.toks[q.pos + 2][2] ELSE 0,
        onstack |-> onstack, align |-> q2.num, even |-> even, restrict |-> restrict], LAMBDA annot :
    IF ~q.ok \/ ~q1.ok \/ ~q2.ok \/ peek(q4)[1] # "%" THEN perr(q)
    ELSE [next(q4) EXCEPT !.params = Append(@, [type |-> q.ty, name |-> Take(q4), annot |-> annot])]))))

RECURSIVE parse_params(_)
parse_params(p) ==
  With(parse_param(p), LAMBDA q :
    IF peek(p) = <<"...">> THEN expect([next(p) EXCEPT !.variadic = TRUE], RP)
    ELSE IF ~q.ok THEN q
    ELSE IF peek(q) = Comma THEN parse_params(next(q)) ELSE expect(q, RP))

parse_func(p) ==
  With(expect_symbol(parse_type(p)), LAMBDA q :
  LET name == tok_name(p.toks[q.pos - 1])
      r0 == expect([q EXCEPT !.params = <<>>, !.variadic = FALSE], LP)
  IN With(IF r0.ok /\ peek(r0) = RP THEN next(r0) ELSE IF r0.ok THEN parse_params(r0) ELSE r0, LAMBDA r :
  With(expect(parse_attrs(r, parse_func_attrs), LB), LAMBDA s :
  LET n == Len(s.params)
      f == [name |-> name, ret |-> q.ty, params |-> [k \in 1..n |-> k], variadic |-> s.variadic, at |-> s.at,
            annots |-> [k \in 1..n |-> s.params[k].annot], vals |-> [k \in 1..n |-> s.params[k].type],
            blocks |-> <<>>]
  IN With([s EXCEPT !.f = f, !.m = ir_sym(@, name), !.vals = <<>>, !.fix = <<>>, !.cur = 0], LAMBDA fresh :
  With(I!Fold(LAMBDA x, k : IF x.ok THEN def_value(x, x.params[k].name, k) ELSE x, fresh, f.params), LAMBDA t :
  With(prescan_blocks(t, t.pos), LAMBDA u :
  With(parse_body(u), LAMBDA v :
  With(resolve_fixups(next(v)), LAMBDA w :
    IF ~q.ok THEN q ELSE IF ~r.ok THEN r ELSE IF ~s.ok THEN s ELSE IF ~t.ok THEN t
    ELSE IF ~u.ok \/ u.f.blocks = <<>> THEN perr(u)
    ELSE IF ~v.ok THEN v ELSE IF ~w.ok THEN w ELSE [w EXCEPT !.m.funcs = Append(@, w.f)]))))))))

Linkages == {"internal", "external", "common"}
parse_alias(p) ==
  LET q == expect(expect_symbol(p), Eq)
  IN With(expect_symbol(q), LAMBDA r :
  LET linkage == Take(r)
  IN With(parse_attrs(next(r), parse_alias_attrs), LAMBDA s :
  With([name |-> tok_name(peek(p)), target |-> tok_name(peek(q)), linkage |-> linkage, at |-> s.at], LAMBDA alias :
    IF ~r.ok \/ peek(r)[1] # "id" \/ linkage \notin Linkages \/ ~s.ok THEN perr(p)
    ELSE [s EXCEPT !.m = [ir_sym(@, alias.name) EXCEPT !.aliases = Append(@, alias)]])))

RECURSIVE parse_relocs(_, _)
parse_relocs(p, acc) ==
  With(expect_symbol(expectKind(next(p), "int")), LAMBDA q :
  LET name == tok_name(p.toks[q.pos - 1])
      m == ir_sym(q.m, name)
  IN With([offset |-> p.toks[p.pos + 1][2], symbol |-> SymIndex(m, name), addend |-> Take(q)], LAMBDA reloc :
    IF peek(p) # Id("reloc") THEN [p EXCEPT !.relocs = acc]
    ELSE IF ~q.ok \/ peek(q)[1] # "int" THEN perr(q)
    ELSE parse_relocs([next(q) EXCEPT !.m = m], Append(acc, reloc))))

parse_global(p) ==
  With(expect(expect_symbol(p), Id("size")), LAMBDA q :
  LET r == expect(expectKind(q, "int"), Id("align"))
  IN With(expectKind(r, "int"), LAMBDA s :
  LET linkage == Take(s)
  IN With(parse_attrs([next(s) EXCEPT !.size = Take(q), !.m = ir_sym(@, tok_name(peek(p)))], parse_global_attrs), LAMBDA t :
  With(parse_relocs(t, <<>>), LAMBDA u :
  With([name |-> tok_name(peek(p)), size |-> Take(q), align |-> Take(r), linkage |-> linkage, at |-> t.at,
        relocs |-> u.relocs], LAMBDA g :
    IF ~s.ok \/ peek(s)[1] # "id" \/ linkage \notin Linkages THEN perr(p)
    ELSE IF ~t.ok THEN t ELSE IF ~u.ok THEN u
    ELSE [u EXCEPT !.m.globals = Append(@, g)])))))

\* A `sym` record; its attributes are merged into the table's entry.
parse_sym(p) ==
  With(parse_attrs(expect_symbol(p), parse_sym_attrs), LAMBDA q :
  LET name == tok_name(peek(p))
      m == ir_sym(q.m, name)
  IN IF ~q.ok THEN q ELSE [q EXCEPT !.m = [m EXCEPT !.syms[SymIndex(m, name)].at = I!Over(q.at, @)]])

\* prescan_funcs: the functions named at brace depth 0; a name may not appear twice.
prescan_funcs(toks) ==
  I!Fold(LAMBDA acc, k :
           CASE toks[k] = LB -> [acc EXCEPT !.depth = @ + 1]
             [] toks[k] = RB -> [acc EXCEPT !.depth = @ - 1]
             [] acc.depth = 0 /\ toks[k] = Id("func") /\ toks[k + 1][1] = "id" /\ tok_is_symbol(toks[k + 2]) ->
                  [acc EXCEPT !.dup = @ \/ \E j \in DOMAIN acc.ids : acc.ids[j] = tok_name(toks[k + 2]),
                              !.ids = Append(@, tok_name(toks[k + 2]))]
             [] OTHER -> acc,
         [depth |-> 0, ids |-> <<>>, dup |-> FALSE], [k \in 1..(Len(toks) - 1) |-> k])

NoModule == [idents |-> <<>>, syms |-> <<>>, aliases |-> <<>>, globals |-> <<>>, funcs |-> <<>>, asms |-> <<>>]

RECURSIVE parse_records(_)
parse_records(p) ==
  LET t == peek(p)
      q == next(p)
  IN IF ~p.ok \/ t = Eof THEN p
     ELSE parse_records(
       CASE t = Id("ident") -> IF peek(q)[1] = "str" THEN [next(q) EXCEPT !.m.idents = Append(@, Take(q))] ELSE perr(q)
         [] t = Id("sym") -> IF tok_is_symbol(peek(q)) THEN parse_sym(q) ELSE perr(q)
         [] t = Id("alias") -> parse_alias(q)
         [] t = Id("global") -> parse_global(q)
         [] t = Id("func") -> parse_func(q)
         [] OTHER -> perr(p))

\* The parsed module, with ok saying whether the text was accepted.
ir_parse_module(text) ==
  With(lex_all(text), LAMBDA toks :
  With(prescan_funcs(toks), LAMBDA scan :
  With(parse_records([toks |-> toks, pos |-> 1, ok |-> TRUE, m |-> NoModule, ids |-> scan.ids, f |-> <<>>,
                      vals |-> <<>>, fix |-> <<>>, cur |-> 0, ty |-> "void", o |-> ir_op_undef("void"), fwd |-> -1,
                      num |-> 0, res |-> -1, in |-> NoInst, asm |-> <<>>, at |-> <<>>, size |-> 0,
                      params |-> <<>>, variadic |-> FALSE, relocs |-> <<>>]), LAMBDA p :
    IF LexFails(text) \/ scan.dup THEN [ok |-> FALSE, m |-> NoModule] ELSE [ok |-> p.ok, m |-> p.m])))

(***************************************************************************)
(* What callers do before they print, and the judge of the round trip.     *)
(***************************************************************************)
\* ir_module_canonicalize_asms: one record per asm instruction, in print order.
AsmsInOrder(m) ==
  LET ofBlock(b) == LET asms == SelectSeq(b.insts, LAMBDA in : in.op = "asm")
                    IN [k \in DOMAIN asms |-> asms[k].callee]
  IN Flat([x \in DOMAIN m.funcs |-> Flat([b \in DOMAIN m.funcs[x].blocks |-> ofBlock(m.funcs[x].blocks[b])])])
ir_module_canonicalize_asms(m) ==
  With(AsmsInOrder(m), LAMBDA order :
  LET at(x, b, k) == Len(AsmsInOrder([m EXCEPT !.funcs = [y \in 1..x |->
        IF y < x THEN m.funcs[y]
        ELSE [m.funcs[x] EXCEPT !.blocks = [c \in 1..b |->
               IF c < b THEN @[c] ELSE [@[c] EXCEPT !.insts = SubSeq(@, 1, k)]]]]]))
  IN [m EXCEPT !.asms = [k \in DOMAIN order |-> m.asms[order[k]]],
               !.funcs = [x \in DOMAIN @ |-> [@[x] EXCEPT !.blocks = [b \in DOMAIN @ |->
                  [@[b] EXCEPT !.insts = [k \in DOMAIN @ |->
                     IF @[k].op = "asm" THEN [@[k] EXCEPT !.callee = at(x, b, k)] ELSE @[k]]]]]]])

\* ir_func_renumber: values numbered in document order.
renumber(f) ==
  With(DefsInOrder(f), LAMBDA defs :
  LET new == [v \in 0..Len(f.vals) |->
                IF \E k \in DOMAIN defs : defs[k] = v THEN CHOOSE k \in DOMAIN defs : defs[k] = v ELSE 0]
      use(o) == IF o.kind = "value" THEN [o EXCEPT !.a = new[@]] ELSE o
      uses(s) == [k \in DOMAIN s |-> use(s[k])]
      inst(in) == [in EXCEPT !.res = new[@], !.ops = uses(@),
                             !.edges = [e \in DOMAIN @ |-> [@[e] EXCEPT !.args = uses(@)]]]
  IN [f EXCEPT !.params = [k \in DOMAIN @ |-> new[@[k]]], !.vals = [k \in DOMAIN defs |-> f.vals[defs[k]]],
               !.blocks = [b \in DOMAIN @ |->
                  [@[b] EXCEPT !.params = [k \in DOMAIN @ |-> new[@[k]]],
                               !.insts = [k \in DOMAIN @ |-> inst(@[k])]]]])

\* ir_module_struct_eq: everything but the asm records.
ir_module_struct_eq(x, y) ==
  x.idents = y.idents /\ x.syms = y.syms /\ x.aliases = y.aliases /\ x.globals = y.globals /\ x.funcs = y.funcs

\* emit_ir_print: the text must parse to an equal module that prints the same text.
SelfCheck(m) ==
  With(ir_print_module_buf(m), LAMBDA text :
  With(ir_parse_module(text), LAMBDA back :
    back.ok /\ ir_module_struct_eq(m, back.m) /\ ir_print_module_buf(back.m) = text))
=============================================================================
