---------------------------- MODULE MCAlgorithms ----------------------------
(***************************************************************************)
(* The compiler's pure algorithms on small inputs, one of them in each     *)
(* behaviour: the text of the IR and its parser; softfloat arithmetic;     *)
(* constant expressions; the layout of records; calls and va_arg; bit-     *)
(* fields; initializers; and redeclarations.  An input is chosen at first  *)
(* and answered in one step.                                               *)
(***************************************************************************)
EXTENDS IrText

CONSTANT Parts

VARIABLES part, x, y

vars == <<part, x, y>>

---------------------------------------------------------------------------
(* Text: every instruction shape with every kind of operand it takes,      *)
(* headers with every attribute, call arguments with every annotation, and *)
(* control flow whose blocks are laid out in either order, so that values  *)
(* are used before their definition.  An argument with flags is used after *)
(* its definition only.                                                    *)

\* The values every function starts with: one per type.
ParamTypes == <<"i32", "i64", "ptr", "f32", "f80", "v4i32", "f64">>
Val(t) == [ir_op("value", t, CHOOSE k \in DOMAIN ParamTypes : ParamTypes[k] = t) EXCEPT !.type = t]
Consts(t) == CASE t \in {"i32", "i64", "i8"} -> {ir_op_iconst(t, 0), ir_op_iconst(t, -3)}
               [] t = "f32" -> {ir_op_fconst(t, 3, 0)}
               [] t \in {"f64"} -> {ir_op_fconst(t, 9, 0)}
               [] t = "f80" -> {ir_op_fconst(t, 9, 2)}
               [] t = "ptr" -> {ir_op_symbol(t, 3, 0), ir_op_symbol(t, 4, -8), ir_op_symbol(t, 3, 8)}
               [] OTHER -> {}
Opds(t) == {Val(t), ir_op_undef(t)} \cup Consts(t)

I0(op, t, ops) == [NoInst EXCEPT !.op = op, !.type = t, !.ops = ops, !.res = Len(ParamTypes) + 1]
V0(op, ops) == [NoInst EXCEPT !.op = op, !.ops = ops]
Flagged(ins, flags) == {[in EXCEPT !.flags = fl] : in \in ins, fl \in SUBSET flags}

Arith == LET two(op, t) == {I0(op, t, <<a, b>>) : a \in Opds(t), b \in Opds(t)}
         IN Flagged(two("iadd", "i32"), {"nsw"}) \cup two("sdiv", "i64") \cup two("fadd", "f32") \cup two("fmul", "f80")
              \cup {I0("fneg", "f64", <<a>>) : a \in Opds("f64")}
Compare == {[in EXCEPT !.sub = p, !.flags = fl] :
              in \in {I0("icmp", "i32", <<a, b>>) : a \in Opds("i64"), b \in Opds("i64")}, p \in {"eq", "ult"},
              fl \in {{}, {"bounds"}}}
           \cup {[I0("fcmp", "i32", <<a, Val("f80")>>) EXCEPT !.sub = "ult"] : a \in Opds("f80")}
Vectors == {I0("vsplat", "v4i32", <<a>>) : a \in Opds("i32")}
           \cup {[I0("vextract", "i32", <<a>>) EXCEPT !.sub = k] : a \in Opds("v4i32"), k \in {0, 3}}
           \cup {I0("vreduce_add", "i32", <<Val("v4i32")>>)}
Converts == {I0("sext", "i64", <<a>>) : a \in Opds("i32")} \cup {I0("bitcast", "f80", <<a>>) : a \in Opds("ptr")}
Memory ==
  LET access == {[in EXCEPT !.sub = t, !.align = n, !.flags = fl] :
                   in \in {I0("load", "i32", <<a>>) : a \in {Val("ptr"), ir_op_symbol("ptr", 4, -8)}}
                            \cup {V0("store", <<a, Val("ptr")>>) : a \in Opds("f80") \cup {Val("i32")}},
                   t \in {"unknown", "i32"}, n \in {1, 4}, fl \in SUBSET {"volatile", "seq_cst", "self_init"}}
  IN access \cup {[I0("alloca", "ptr", <<ir_op_iconst("i64", 4)>>) EXCEPT !.align = 4, !.sub = t] : t \in {"unknown", "char"}}
     \cup {I0("ptradd", "ptr", <<a, b>>) : a \in Opds("ptr"), b \in Opds("i64")}
     \cup {[V0(op, <<Val("ptr"), IF op = "memcpy" THEN Val("ptr") ELSE Val("i32"), b>>)
              EXCEPT !.align = 1, !.sub = "char", !.flags = fl] :
             op \in {"memcpy", "memset"}, b \in Opds("i64"), fl \in {{}, {"volatile"}}}
     \cup {I0("select", "f80", <<a, Val("f80"), ir_op_undef("f80")>>) : a \in Opds("i32")}
     \cup {V0("va_start", <<Val("ptr")>>), I0("stacksave", "ptr", <<>>), V0("stackrestore", <<Val("ptr")>>)}
     \cup {[I0("atomicrmw", "i32", <<Val("ptr"), a>>) EXCEPT !.sub = "xchg", !.flags = fl] :
             a \in Opds("i32"), fl \in {{}, {"seq_cst"}}}
     \cup {[I0("cmpxchg", "i32", <<Val("ptr"), a, Val("i32")>>) EXCEPT !.flags = {"seq_cst"}] : a \in Opds("i32")}

\* Call arguments: an annotated value or symbol, or a plain operand with flags.
Annots == {NoAnnot} \cup {[NoAnnot EXCEPT !.kind = k, !.size = 16, !.align = n] : k \in {"byval", "sret", "pair_is"}, n \in {0, 16, 32}}
          \cup {[NoAnnot EXCEPT !.kind = "hfa", !.size = 12, !.n = 3, !.even = TRUE]}
ArgFlags == {{}, {"anon"}, {"sext"}, {"anon", "zext", "onstack"}}
Args == {[a EXCEPT !.annot = n, !.flags = fl] : a \in {Val("ptr"), ir_op_symbol("ptr", 3, 8)}, n \in Annots, fl \in ArgFlags}
        \cup {[a EXCEPT !.flags = fl] : a \in Consts("i32") \cup {ir_op_undef("i64")}, fl \in ArgFlags}
Calls ==
  LET call(sub, callee, ops) == [I0("call", "i32", ops) EXCEPT !.sub = sub, !.callee = callee]
  IN {call("internal", k, <<a>>) : k \in {1, 2}, a \in Args} \cup {call("external", 5, <<a, Val("i32")>>) : a \in Args}
     \cup {call("external", 2, <<>>)} \cup {call("indirect", 0, <<p, a>>) : p \in {Val("ptr"), ir_op_symbol("ptr", 5, 0)}, a \in Args}
     \cup Flagged({[call("external", 5, <<>>) EXCEPT !.type = "void", !.res = 0]}, {"unproto", "va", "noreturn"})

Insts == Arith \cup Compare \cup Vectors \cup Converts \cup Memory \cup Calls

\* Symbols: the functions f and g, the global d, an exact assembler name, and an external function.
Name(s) == <<FALSE, s>>
Syms == <<Name("f"), Name("g"), Name("d"), <<TRUE, "d$x">>, Name("e")>>
Block(name, params, insts) == [name |-> name, params |-> params, insts |-> insts]
Func(name, extra, blocks) ==
  [name |-> Name(name), ret |-> "i32", params |-> [k \in DOMAIN ParamTypes |-> k], variadic |-> FALSE, at |-> <<>>,
   annots |-> [k \in DOMAIN ParamTypes |-> NoParamAnnot], vals |-> ParamTypes \o extra, blocks |-> blocks]
Ret == V0("ret", <<Val("i32")>>)
Module(f) ==
  [NoModule EXCEPT !.syms = [k \in DOMAIN Syms |-> [name |-> Syms[k], at |-> <<>>]],
                   !.funcs = <<f, Func("g", <<>>, <<Block("entry", <<>>, <<Ret>>)>>)>>]

InstModules == {Module(Func("f", IF in.res = 0 THEN <<>> ELSE <<in.type>>, <<Block("entry", <<>>, <<in, Ret>>)>>)) :
                  in \in Insts}

\* Headers: functions, parameters, symbols, aliases, globals and idents.
Attr(w) == CASE w = "visibility" -> {"default", "hidden"} [] w = "align" -> {16} [] w = "section" -> {<<"a", "quote">>}
             [] w \in {"constructor", "destructor"} -> {101, DefaultPriority}
             [] w = "abi" -> {<<"sret", 0>>, <<"hfa_f64", 3>>} [] w = "tls_model" -> {"initial_exec"}
             [] w = "init" -> {<<"0", "f">>} [] OTHER -> {TRUE}
\* No attribute, one, or two of them.
Headers(order) ==
  {<<>>} \cup UNION {{[w \in {v} |-> p] : p \in Attr(v)} : v \in ToSet(order)}
  \cup UNION {{[u \in {v, w} |-> IF u = v THEN p ELSE q] : p \in Attr(v), q \in Attr(w)} :
              <<v, w>> \in {<<order[i], order[j]>> : <<i, j>> \in {<<i, j>> \in (DOMAIN order) \X (DOMAIN order) : i < j}}}
Plain == Func("f", <<>>, <<Block("entry", <<>>, <<Ret>>)>>)
ParamAnnots == [kind : {"", "byval"}, size : {0}, onstack : BOOLEAN, align : {0, 16, 32}, even : BOOLEAN, restrict : BOOLEAN]
Reloc(o, s, n) == [offset |-> o, symbol |-> s, addend |-> n]
HeaderModules ==
  {Module([Plain EXCEPT !.at = h, !.variadic = v]) : h \in Headers(FuncAttrs), v \in BOOLEAN}
  \cup {Module([Plain EXCEPT !.annots[3] = a]) : a \in ParamAnnots}
  \cup {[Module(Plain) EXCEPT !.syms[5].at = h] : h \in Headers(SymAttrs)}
  \cup {[Module(Plain) EXCEPT !.aliases = <<[name |-> Name("d"), target |-> Name("f"), linkage |-> l, at |-> h]>>] :
          h \in Headers(AliasAttrs), l \in Linkages}
  \cup {[Module(Plain) EXCEPT !.globals = <<[name |-> n, size |-> 2, align |-> 1, linkage |-> "common", at |-> h,
                                             relocs |-> r]>>] :
          n \in {Name("d"), <<TRUE, "d$x">>}, h \in Headers(GlobalAttrs),
          r \in {<<>>, <<Reloc(0, 1, 0), Reloc(8, 4, -8)>>}}
  \cup {[Module(Plain) EXCEPT !.idents = <<s, <<"a">>>>] :
          s \in UNION {[1..n -> {"a", "n", "x", "0", "quote", "backslash", "newline", "tab", "nul", "high"}] : n \in 0..2}}

\* Control flow.  Block b defines %9 and leads to a, which uses it; a may be laid out before b.
Edge(to, args) == [target |-> to, args |-> args, case |-> 0]
Nine == ir_op("value", "i32", 9)
Jump(op, ops, edges) == [V0(op, ops) EXCEPT !.edges = edges]
Uses(forward) ==
  {I0("iadd", "i32", <<Nine, Val("i32")>>), [I0("icmp", "i32", <<ir_op_iconst("i32", 4), Nine>>) EXCEPT !.sub = "sle"],
   I0("sext", "i32", <<Nine>>), I0("select", "i32", <<Nine, Nine, Val("i32")>>)}
  \cup {[I0("call", "i32", <<[Nine EXCEPT !.annot = n]>>) EXCEPT !.sub = "internal", !.callee = 2] : n \in Annots}
  \cup {[I0("call", "i32", <<[Nine EXCEPT !.flags = fl]>>) EXCEPT !.sub = "internal", !.callee = 2] :
          fl \in IF forward THEN {{}} ELSE ArgFlags}
  \cup {[I0("call", "i32", <<Nine, [Nine EXCEPT !.annot = n]>>) EXCEPT !.sub = "indirect"] : n \in Annots}
Flow(in, first, prov) ==
  LET a == IF first THEN 2 ELSE 3
      b == 5 - a
      head == [Jump("switch", <<Val("i32")>>, <<Edge(b, <<Val("i64")>>), [Edge(b, <<ir_op_iconst("i64", 1)>>) EXCEPT !.case = -2]>>)
                 EXCEPT !.flags = prov]
      A == Block("a", <<>>, <<[in EXCEPT !.res = 8], [V0("ret", <<ir_op("value", in.type, 8)>>) EXCEPT !.flags = prov]>>)
      B == Block("b.1", <<10>>, <<[I0("trunc", "i32", <<ir_op("value", "i64", 10)>>) EXCEPT !.res = 9],
              [Jump("condbr", <<Nine>>, <<Edge(b, <<ir_op("value", "i64", 10)>>), Edge(a, <<>>)>>) EXCEPT !.flags = prov]>>)
      blocks == IF first THEN <<A, B>> ELSE <<B, A>>
  IN renumber(Func("f", <<in.type, "i32", "i64">>, <<Block("entry", <<>>, <<head>>)>> \o blocks))
FlowModules == {Module(Flow(in, FALSE, pr)) : in \in Uses(FALSE), pr \in {{}, {"flow_provenance"}}}
               \cup {Module(Flow(in, TRUE, pr)) : in \in Uses(TRUE), pr \in {{}, {"flow_provenance"}}}
               \cup {Module(Func("f", <<>>, <<Block("entry", <<>>, <<[Jump("br", <<>>, <<Edge(2, <<>>)>>) EXCEPT !.flags = pr]>>),
                                              Block("b", <<>>, <<t>>)>>)) :
                       pr \in {{}, {"flow_provenance"}}, t \in {V0("unreachable", <<>>), Ret}}

\* Inline asm: the table as the optimizer left it, with a record no instruction uses and
\* one that two clones share.
AsmRecord(flags, ops, clob, regs) ==
  [flags |-> flags, tmpl |-> <<"a", "newline", "tab">>, ops |-> ops, clobbers |-> clob, regs |-> regs]
AsmOp(out, tied) == [output |-> out, early |-> FALSE, tied |-> tied, constraint |-> <<"x">>]
Asm(k, ops) == [V0("asm", ops) EXCEPT !.callee = k]
AsmRecords == {AsmRecord(fl, <<AsmOp(TRUE, -1), AsmOp(FALSE, t)>>, cl, r) :
                 fl \in SUBSET {"volatile", "basic"}, t \in {-1, 0}, cl \in SUBSET {"memory", "cc"}, r \in {<<>>, <<3, 12>>}}
AsmUses == <<Val("ptr"), ir_op_iconst("i32", 5)>>
AsmModules ==
  {[Module(Func("f", <<>>, <<Block("entry", <<>>, <<Asm(2, <<>>), Asm(3, AsmUses), Asm(2, <<>>), Ret>>)>>))
      EXCEPT !.asms = <<AsmRecord({}, <<>>, {}, <<>>), AsmRecord({"basic"}, <<>>, {"cc"}, <<>>), r>>] : r \in AsmRecords}

Modules == InstModules \cup HeaderModules \cup FlowModules \cup AsmModules

---------------------------------------------------------------------------
(* Numbers: formats of a few bits with bignums of four bytes, so that every *)
(* rounding, overflow and subnormal case is near; integers of 2, 6, 8 and   *)
(* 16 bits for char, int, long and __int128; records of a few bytes.        *)

Fmt(e, f, explicit) == [exp |-> e, frac |-> f, explicit |-> explicit]
F32 == Fmt(5, 3, FALSE)
F64 == Fmt(3, 4, FALSE)
F80 == Fmt(3, 8, TRUE)
F128 == Fmt(4, 9, FALSE)
IntT(w, s, n) == [k |-> "int", w |-> w, signed |-> s, size |-> n]
CharT == IntT(2, TRUE, 1)
UCharT == IntT(2, FALSE, 1)
IntegerT == IntT(6, TRUE, 3)
UIntT == IntT(6, FALSE, 3)
LongT == IntT(8, TRUE, 4)
ULongT == IntT(8, FALSE, 4)
I128T == IntT(16, TRUE, 8)
U128T == IntT(16, FALSE, 8)
FloatT == [k |-> "float", f |-> F64, size |-> 4]
DoubleT == [k |-> "float", f |-> F128, size |-> 4]
PtrT(b) == [k |-> "ptr", base |-> b, size |-> 4]
ArrT(b, n) == [k |-> "array", base |-> b, size |-> n * b.size]
Numbers == INSTANCE ConstFold WITH
  LimbBits <- 8, BIGINT_WORDS <- 4, DivBits <- 14, Chunk <- 1,
  BINARY32 <- F32, BINARY64 <- F64, X87 <- F80, BINARY128 <- F128,
  TY_INT <- IntegerT, PtrBits <- 8, ByteBits <- 2

\* Images at the edges of each format.
Img(f, fr) == {s * 2^(f.exp+f.frac) + e * 2^f.frac + q : s \in {0,1}, e \in {0, 1, 2^(f.exp-1)-1, 2^(f.exp-1), 2^f.exp-2, 2^f.exp-1}, q \in fr}
S64 == Img(F64, {0, 1, 7, 8, 15})
S80 == Img(F80, {0, 1, 127, 128, 129, 192, 255})
S128 == Img(F128, {0, 1, 255, 256, 511})
Images(f) == 0 .. 2^(f.exp + f.frac + 1) - 1
FloatOps4 == {"+", "-", "*", "/"}

FloatInputs ==
  \/ x \in [op : {"fold"}, f : {F64}, on : FloatOps4, a : S64, b : S64]
  \/ x \in [op : {"fold"}, f : {F80}, on : FloatOps4, a : S80, b : S80]
  \/ x \in [op : {"call"}, on : FloatOps4, a : S128, b : S128]
  \/ x \in [op : {"sign"}, a : S128]
  \/ x \in [op : {"compare"}, a : S128, b : S128]
  \/ x \in [op : {"decimal"}, digits : (0..9) \X (0..9), e : -3..3, f : {F32, F64, F80, F128}]
  \/ x \in [op : {"hex"}, digits : {0, 1, 8, 10, 15} \X {0, 3, 4, 8} \X {0, 9, 15} \X {0, 1}, e : {-20, -9, -1, 0, 3, 8},
            f : {F32, F64, F80, F128}]
  \/ x \in [op : {"convert"}, f : {F32}, to : {F128}, a : Images(F32)]
  \/ x \in [op : {"convert"}, f : {F128}, to : {F32, F64, F80}, a : S128]
  \/ x \in [op : {"to_int"}, f : {F128}, w : {4, 8}, uns : BOOLEAN, a : S128]
  \/ x \in [op : {"to_ti"}, f : {F32}, uns : BOOLEAN, a : Images(F32)]
  \/ x \in [op : {"to_ti"}, f : {F128}, uns : BOOLEAN, a : S128]
  \/ x \in [op : {"from_int"}, a : -128..127]
  \/ x \in [op : {"from_ti"}, f : {F32, F128}, uns : BOOLEAN,
            a : {0, 1, 255, 256, 1023, 1024, 1025, 2047, 32767, 32768, 32769, 65535, 64511, 64513}]

\* Constant expressions.
ConstOf(t, n) == IF t.w <= 8 /\ n >= 0 THEN [k |-> "lit", t |-> t, v |-> n]
             ELSE [k |-> "ident", t |-> t, sym |-> [name |-> "E", kind |-> "enum", value |-> <<(n % 65536) \div 256, n % 256>>]]
EdgesOf(t) == LET lo == IF t.signed THEN -(2^(t.w-1)) ELSE 0  hi == IF t.signed THEN 2^(t.w-1)-1 ELSE 2^t.w - 1
            IN {lo, lo + 1, 0, 1, 2, 3, hi - 1, hi} \cup (IF t.w > 8 THEN {255, 256, 257, 300} ELSE {}) \cup (IF t.signed THEN {-1, -2} ELSE {})
ConstsOf(t) == {ConstOf(t, n) : n \in EdgesOf(t)}
UnaryOf(op, a, t) == [k |-> "unary", op |-> op, a |-> a, t |-> t, postfix |-> FALSE]
BinaryOf(op, a, b, t) == [k |-> "binary", op |-> op, a |-> a, b |-> b, t |-> t]
CastTo(t, a) == [k |-> "cast", a |-> a, t |-> t, implicit |-> FALSE]
ArithOps == {"+", "-", "*", "/", "%", "&", "|", "^"}
RelOps == {"<", ">", "<=", ">=", "==", "!="}
FoldTypes == {IntegerT, UIntT, LongT, ULongT, I128T, U128T}
IsMin(n) == n.k = "ident" /\ n.t.w <= 8 /\ n.t.signed /\ n.sym.value[2] = 256 - 2^(n.t.w - 1)
BinaryExprs == UNION {{BinaryOf(op, a, b, IF op \in RelOps THEN IntegerT ELSE t) : op \in ArithOps \cup RelOps, a \in ConstsOf(t), b \in ConstsOf(t)} : t \in FoldTypes}
ShiftExprs == UNION {{BinaryOf(op, a, b, t) : op \in {"<<", ">>"}, a \in ConstsOf(t), b \in {ConstOf(IntegerT, n) : n \in -1..7} \cup {ConstOf(LongT, n) : n \in {8, 15, 16}}} : t \in FoldTypes}
UnaryExprs == UNION {{UnaryOf(op, a, IF op = "!" THEN IntegerT ELSE t) : op \in {"+", "-", "~", "!"}, a \in ConstsOf(t)} : t \in FoldTypes}
CastExprs == UNION {{CastTo(t, a) : t \in FoldTypes \cup {CharT, UCharT, FloatT, DoubleT}, a \in ConstsOf(s)} : s \in FoldTypes}
Spelled(w, f, e, h) == [whole |-> w, frac |-> f, e |-> e, hex |-> h]
FloatLits == {[k |-> "float", t |-> t, sp |-> Spelled(w, f, e, h)] : t \in {FloatT, DoubleT}, w \in {<<0>>, <<1>>, <<7>>}, f \in {<<>>, <<5>>}, e \in {-2, 0, 2}, h \in BOOLEAN}
SmallF == {[k |-> "float", t |-> DoubleT, sp |-> Spelled(w, f, 0, FALSE)] : w \in {<<0>>, <<2>>}, f \in {<<>>, <<5>>}} \cup {[k |-> "call", op |-> o, args |-> <<>>, t |-> DoubleT] : o \in {"inf", "nan"}}
SignedF == SmallF \cup {UnaryOf("-", a, DoubleT) : a \in SmallF}
FloatOps == {BinaryOf(op, a, b, IF op \in RelOps THEN IntegerT ELSE DoubleT) : op \in {"+", "-", "*", "/"} \cup RelOps, a \in SignedF, b \in SignedF}
FloatCasts == {CastTo(t, a) : t \in FoldTypes \cup {UCharT, FloatT}, a \in FloatLits \cup SignedF}
CallOf(op, args, t) == [k |-> "call", op |-> op, args |-> args, t |-> t]
SomeConsts(t) == {ConstOf(t, n) : n \in EdgesOf(t) \ {2, 3, 256, 300, -2}}
Overflows == UNION {{CallOf(op, <<a, b, c>>, IntegerT) : op \in {"add_overflow_p", "sub_overflow_p", "mul_overflow_p"},
               a \in SomeConsts(s), b \in SomeConsts(u), c \in {ConstOf(t, 0) : t \in FoldTypes \cup {UCharT}}} : s \in {UIntT, LongT}, u \in {IntegerT, LongT, I128T}}
BitFns == UNION {{CallOf(op, <<a>>, IF op = "bswap" THEN t ELSE IntegerT) : op \in {"clz", "ctz", "popcount", "parity", "bswap"}, a \in ConstsOf(t)} : t \in {UIntT, ULongT}}
    \cup UNION {{CallOf(op, <<a>>, IF op = "abs" THEN t ELSE IntegerT) : op \in {"ffs", "clrsb", "abs"}, a \in ConstsOf(t)} : t \in {IntegerT, LongT}}
FloatFns == {CallOf(op, <<a, b>>, IntegerT) : op \in {"isunordered", "isless", "islessequal", "isgreater", "isgreaterequal", "islessgreater"}, a \in SignedF, b \in SignedF}
    \cup {CallOf(op, <<a>>, IntegerT) : op \in {"isnan", "isinf", "isinf_sign", "isfinite", "signbit"}, a \in SignedF}
\* Operands that are not evaluated, some of them undefined.
Undefined == BinaryOf("/", ConstOf(IntegerT, 1), ConstOf(IntegerT, 0), IntegerT)
CondOf(c, b, d, t) == [k |-> "cond", a |-> c, b |-> b, c |-> d, t |-> t, elvis |-> FALSE]
LazyLeaves == {ConstOf(IntegerT, 0), ConstOf(IntegerT, 3), Undefined, ConstOf(IntegerT, -32)}
PairExprs == {BinaryOf(op, a, b, IntegerT) : op \in {"+", "*", "&&", "||", "<", "<<"}, a \in LazyLeaves, b \in LazyLeaves}
LazyExprs == {BinaryOf(op, a, b, IntegerT) : op \in {"&&", "||", "+", "/"}, a \in PairExprs \cup LazyLeaves, b \in LazyLeaves \cup PairExprs}
   \cup {CondOf(a, b, c, IntegerT) : a \in LazyLeaves \cup PairExprs, b \in LazyLeaves, c \in LazyLeaves}
   \cup {[CondOf(a, a, c, IntegerT) EXCEPT !.elvis = TRUE] : a \in LazyLeaves, c \in LazyLeaves}
\* Addresses of members and elements, of static and automatic objects and of null.
FoldInner == [k |-> "struct", size |-> 7, members |-> <<[name |-> "p", off |-> 0, t |-> LongT, bits |-> FALSE], [name |-> "q", off |-> 4, t |-> IntegerT, bits |-> FALSE]>>]
FoldRec == [k |-> "struct", size |-> 19, members |-> <<[name |-> "a", off |-> 0, t |-> IntegerT, bits |-> FALSE], [name |-> "f", off |-> 1, t |-> IntegerT, bits |-> TRUE],
          [name |-> "", off |-> 3, t |-> FoldInner, bits |-> FALSE], [name |-> "v", off |-> 10, t |-> ArrT(IntegerT, 3), bits |-> FALSE]>>]
VarOf(n, t, s) == [k |-> "ident", t |-> t, sym |-> [name |-> n, kind |-> "var", static |-> s, init |-> <<>>]]
Decay(a) == [k |-> "cast", implicit |-> TRUE, a |-> a, t |-> PtrT(a.t.base)]
IndexOf(a, b, t) == [k |-> "index", op |-> "+", a |-> a, b |-> b, t |-> t]
MemberOf(a, n, t, ar) == [k |-> "member", a |-> a, name |-> n, t |-> t, arrow |-> ar]
NullOf(t) == CastTo(PtrT(t), ConstOf(IntegerT, 0))
MemberType == [n \in {"a", "f", "p", "q"} |-> IF n = "p" THEN LongT ELSE IntegerT]
AddressOf(a) == UnaryOf("&", a, PtrT(a.t))
PlaceExprs == {MemberOf(b, n, MemberType[n], FALSE) : b \in {VarOf("s", FoldRec, TRUE), VarOf("l", FoldRec, FALSE)}, n \in {"a", "q"}}
   \cup {MemberOf(NullOf(FoldRec), n, MemberType[n], TRUE) : n \in {"a", "p", "q"}}
   \cup {IndexOf(Decay(MemberOf(b, "v", ArrT(IntegerT, 3), FALSE)), ConstOf(IntegerT, j), IntegerT) : b \in {VarOf("s", FoldRec, TRUE), VarOf("l", FoldRec, FALSE)}, j \in {0, 2}}
   \cup {IndexOf(Decay(MemberOf(NullOf(FoldRec), "v", ArrT(IntegerT, 3), TRUE)), ConstOf(IntegerT, j), IntegerT) : j \in {0, 2}}
   \cup {IndexOf(Decay(VarOf("g", ArrT(IntegerT, 3), TRUE)), ConstOf(IntegerT, j), IntegerT) : j \in {0, 2}}
   \cup {IndexOf(ConstOf(IntegerT, 1), Decay(VarOf("g", ArrT(IntegerT, 3), TRUE)), IntegerT)}
   \cup {VarOf("h", IntegerT, TRUE), VarOf("l", IntegerT, FALSE)}
BeforePlaces == {IndexOf(Decay(MemberOf(VarOf("s", FoldRec, TRUE), "v", ArrT(IntegerT, 3), FALSE)), ConstOf(IntegerT, -1), IntegerT)}
PtrExprs == {AddressOf(p) : p \in PlaceExprs} \cup {Decay(VarOf("g", ArrT(IntegerT, 3), TRUE))}
IntPtrs == {p \in PtrExprs : p.t.base = IntegerT}
AddrExprs == PtrExprs \cup {AddressOf(p) : p \in BeforePlaces} \cup {BinaryOf(op, p, ConstOf(IntegerT, j), p.t) : op \in {"+", "-"}, p \in PtrExprs, j \in {0, 1, 2, -1}}
   \cup {BinaryOf("+", ConstOf(IntegerT, 1), p, p.t) : p \in PtrExprs}
   \cup {BinaryOf("-", p, q, LongT) : p \in IntPtrs, q \in IntPtrs}
   \cup {CastTo(t, p) : p \in PtrExprs, t \in {ULongT, IntegerT}}
   \cup {CallOf("object_size", <<q, ConstOf(IntegerT, mo)>>, ULongT) :
         q \in {BinaryOf("+", p, ConstOf(IntegerT, j), p.t) : p \in PtrExprs, j \in 0..2} \cup {BinaryOf("-", p, ConstOf(IntegerT, j), p.t) : p \in PtrExprs, j \in {0, -1}}, mo \in 0..3}
   \cup {[k |-> "offsetof", t |-> ULongT, a |-> a] : a \in {MemberOf([k |-> "offsetof_base", t |-> FoldRec], n, MemberType[n], FALSE) : n \in {"a", "f", "p", "q"}}
          \cup {IndexOf(Decay(MemberOf([k |-> "offsetof_base", t |-> FoldRec], "v", ArrT(IntegerT, 3), FALSE)), ConstOf(IntegerT, j), IntegerT) : j \in 0..3}}

Modes == {"ICE", "ARITH", "ADDR", "FOLD"}
Request(es, ms, whole) == [op : {"const"}, e : es, m : ms, whole : {whole}]
ByteEdges == {0, 1, 127, 128, 255}
Doubled == ByteEdges \X ByteEdges
\* x - INT_MIN, which is folded as x + INT_MIN, is left out.
FoldInputs ==
  \/ \E e \in BinaryExprs : ~(e.op = "-" /\ IsMin(e.b)) /\ x = [op |-> "const", e |-> e, m |-> "ICE", whole |-> TRUE]
  \/ x \in Request(ShiftExprs, {"ICE"}, TRUE)
  \/ x \in Request(UnaryExprs, {"ICE"}, TRUE)
  \/ x \in Request(CastExprs, {"ARITH"}, TRUE)
  \/ x \in Request(FloatLits, Modes, FALSE)
  \/ x \in Request(FloatOps, {"ARITH", "ICE"}, FALSE)
  \/ x \in Request(FloatCasts, {"ARITH", "ICE"}, FALSE)
  \/ x \in Request(Overflows, {"ICE"}, TRUE)
  \/ x \in Request(BitFns, {"ICE"}, TRUE)
  \/ x \in Request(FloatFns, {"ICE"}, FALSE)
  \/ x \in Request(LazyExprs, {"ICE", "FOLD"}, TRUE)
  \/ x \in Request(AddrExprs, Modes, FALSE)
  \/ x \in [op : {"udivti3", "umodti3", "divti3", "modti3"}, a : Doubled, b : Doubled \ {<<0, 0>>}]
  \/ x \in [op : {"multi3"}, a : Doubled, b : Doubled]
  \/ x \in [op : {"ashlti3", "lshrti3", "ashrti3"}, a : Doubled, b : {0} \X (0..15)]
  \/ x \in [op : {"popcountdi2", "clzdi2", "ctzdi2"}, a : {0} \X (1..255), b : {<<0, 0>>}]

---------------------------------------------------------------------------
(* Records: members of each size and alignment, packed, tuned and as bit-  *)
(* fields, on the three targets.  Left out are an eightbyte of a record    *)
(* that holds nothing but padding or that a packed bit-field crosses, and  *)
(* a homogeneous record padded by its own alignment: there the classes are *)
(* not those of the ABI.                                                   *)

UMAX == 1000000
Calling == INSTANCE CallAbi
Ini == INSTANCE Initializers WITH RELOCS <- 2, STORE_MAX <- 8, ZERO_TAIL_MIN <- 4

Basic(k) == [kind |-> k, ov |-> 0, exact |-> FALSE]
ArrayOf(t, n) == [kind |-> "array", ov |-> 0, exact |-> FALSE, base |-> t, has_size |-> n > 0, size |-> n]
Field(name, t) == [name |-> name, type |-> t, bf |-> FALSE, width |-> 0, packed |-> FALSE, pack |-> 0, ov |-> 0]
BitField(name, t, w, packed) == [Field(name, t) EXCEPT !.bf = TRUE, !.width = w, !.packed = packed]
Record(k, ms, align, rev) == [kind |-> k, ov |-> 0, exact |-> FALSE, ov_tag |-> align, members |-> ms, rev |-> rev]
Struct(ms) == Record("struct", ms, 0, FALSE)
Of(k) == Field("m", Basic(k))
Targets == {Calling!X86, Calling!ArmLinux, Calling!ArmMacos}

PlainMembers ==
  {Of(k) : k \in {"char", "int", "long", "float", "double"}}
  \cup {Field("m", t) : t \in {ArrayOf(Basic("char"), 3), ArrayOf(Basic("float"), 2), Struct(<<Of("char"), Of("int")>>),
                               Struct(<<Of("float"), Of("float")>>)}}
WideMembers == {Of("ldouble"), Of("float128"), Of("int128")}
TunedMembers ==
  {[Of("int") EXCEPT !.packed = TRUE], [Of("short") EXCEPT !.ov = 8], [Of("double") EXCEPT !.pack = 2],
   Field("m", [Basic("int") EXCEPT !.ov = 16])}
BitMembers ==
  {BitField("m", Basic("int"), 3, FALSE), BitField("m", Basic("char"), 7, FALSE), BitField("m", Basic("int"), 25, FALSE),
   BitField("m", Basic("long"), 40, FALSE), BitField("m", Basic("int"), 20, TRUE),
   [BitField("m", Basic("short"), 9, FALSE) EXCEPT !.ov = 4], BitField("", Basic("int"), 5, FALSE),
   BitField("", Basic("int"), 0, FALSE), BitField("", Basic("long"), 0, FALSE)}
Members == PlainMembers \cup WideMembers \cup TunedMembers
MemberLists ==
  {<<m>> : m \in Members} \cup (Members \X Members) \cup ((PlainMembers \cup TunedMembers) \X BitMembers)
  \cup (BitMembers \X (PlainMembers \cup WideMembers))
  \cup (({Of("char"), Of("float"), Of("long")} \cup BitMembers) \X BitMembers \X (BitMembers \cup PlainMembers))
Layouts == {[tg |-> tg, t |-> Record(k, l, a, FALSE)] : tg \in Targets, k \in Calling!Records, l \in MemberLists, a \in {0, 8}}
PaddingOnly(r, ss) ==
  \E k \in 0..(((r.size + 7) \div 8) - 1) : \A s \in ss : ~(s.from \div 8 <= k /\ k <= s.to \div 8)
Straddles(ms, r) ==
  \E j \in DOMAIN ms : /\ ms[j].packed /\ ms[j].bf /\ r.at[j].offset < 8
                       /\ Calling!EndBit(ms[j], r.at[j], 0) > 64
Classified(c, r, ss) ==
  IF c.tg = Calling!X86 THEN r.size <= 16 => ~PaddingOnly(r, ss) /\ ~Straddles(c.t.members, r)
  ELSE c.t.ov_tag # 0 => \E s \in ss : s.kind \notin Calling!Floats

---------------------------------------------------------------------------
(* Calls: enough integers and doubles to fill the banks exactly, to leave  *)
(* one register or to overflow, then records of every class, the last      *)
(* arguments perhaps variable.  Left out are records after a bank has      *)
(* overflowed, and variable arguments on AArch64 Linux after a record      *)
(* that did not fit into the rest of its bank.                             *)

Aggregates ==
  {Struct(<<Of("long")>>), Struct(<<Of("long"), Of("int")>>), Struct(<<Of("long"), Of("double")>>),
   Struct(<<Of("double"), Of("double")>>), Struct(<<Field("m", ArrayOf(Basic("float"), 3))>>),
   Struct(<<Field("m", ArrayOf(Basic("long"), 3))>>), Struct(<<Of("ldouble")>>),
   Struct(<<[Of("long") EXCEPT !.ov = 16], Of("long")>>)}
BigRecord == Struct(<<Field("m", ArrayOf(Basic("long"), 3))>>)
Repeated(k, n) == [j \in 1..n |-> Basic(k)]
Fills == {<<0, 0>>, <<5, 7>>, <<6, 5>>, <<7, 0>>, <<8, 7>>, <<2, 8>>}
NamedTails == {<<>>} \cup {<<t>> : t \in Aggregates \cup {Basic("int128"), Basic("char")}}
VariableTails ==
  {<<>>} \cup {<<t>> : t \in Aggregates \cup {Basic("int128"), Basic("double"), Basic("ldouble")}}
  \cup (Aggregates \X {Basic("long"), Basic("double")})
CallInputs ==
  {[tg |-> tg, ret |-> ret, args |-> Repeated("int", f[1]) \o Repeated("double", f[2]) \o n \o a, named |-> f[1] + f[2] + Len(n)] :
     tg \in Targets, ret \in {Basic("void"), BigRecord}, f \in Fills, n \in NamedTails, a \in VariableTails}
\* The bank after the first n arguments, and where they are.
Prepared(c, ret, args, n) == Calling!lower_call(c.tg, ret, SubSeq(args, 1, n), c.named)
PastBank(c, ret, args) ==
  \E j \in c.named - 1..(Len(c.args) - 1) :
    /\ j >= 0 /\ Calling!lower_is_aggregate(c.args[j + 1])
    /\ Calling!With(Prepared(c, ret, args, j).b, LAMBDA b : b.gp > (IF c.tg = Calling!X86 THEN 6 ELSE 8) \/ b.fp > 8)
Crossed(c, ret, args) ==
  /\ c.tg = Calling!ArmLinux
  /\ \E j \in (c.named + 1)..(Len(c.args) - 1) :
       Calling!With(Prepared(c, ret, args, j - 1), LAMBDA s : Calling!With(Prepared(c, ret, args, j), LAMBDA r :
         r.places[j][1][1] = "st" /\ (s.b.gp < r.b.gp \/ s.b.fp < r.b.fp)))

---------------------------------------------------------------------------
(* Bit-fields: units of 1 to 16 bytes, packed or not, in either storage    *)
(* order, at every kind of boundary; memory and values in three patterns.  *)

BitLvalue(u, s, w, signed, packed, rev) ==
  [addr |-> 1, unit |-> u, bf |-> w > 0, shift |-> s, width |-> w, signed |-> signed, packed |-> packed, rev |-> rev, wide |-> u = 16 /\ w > 0]
BitInputs ==
  \E u \in {1, 2, 4, 8, 16}, rev \in BOOLEAN, v \in 1..3, m \in 1..3 :
    \/ x = [lv |-> BitLvalue(u, 0, 0, FALSE, FALSE, rev), v |-> v, m |-> m]
    \/ \E signed, packed \in BOOLEAN, s \in 0..(8 * u - 1), w \in 1..(8 * u) :
         /\ IF packed THEN s < 8 ELSE s + w <= 8 * u
         /\ s < 8 \/ s % 13 = 0
         /\ w < 8 \/ w % 8 \in {0, 7}
         /\ x = [lv |-> BitLvalue(u, s, w, signed, packed, rev), v |-> v, m |-> m]
ValuePattern(n, v) ==
  {i \in 0..(n - 1) : CASE v = 1 -> TRUE [] v = 2 -> i % 3 = 0 [] OTHER -> i % 5 \in {1, 2, 4}}
MemoryPattern(m) == {i \in 0..175 : CASE m = 1 -> FALSE [] m = 2 -> TRUE [] OTHER -> i % 4 < 2}

---------------------------------------------------------------------------
(* Initializers: objects of small types with up to three items of every    *)
(* kind, static and automatic.  Left out is an item that takes its place   *)
(* from a range designator before it, a designator of a member of an       *)
(* anonymous record, and braces around a flexible array already written.   *)

Ch == Basic("char")
In == Basic("int")
Sh == Basic("short")
Pt == Basic("ptr")
PairRec == Struct(<<Field("a", Ch), Field("b", In)>>)
FlagsRec == Struct(<<BitField("x", In, 3, FALSE), BitField("", In, 2, FALSE), BitField("y", In, 7, FALSE), Field("z", Ch)>>)
TightRec == Struct(<<Field("a", Ch), BitField("x", In, 5, TRUE), BitField("y", In, 11, TRUE)>>)
SwappedRec == Record("struct", <<Field("a", Sh), BitField("x", In, 5, FALSE), BitField("y", In, 6, FALSE), Field("c", ArrayOf(Sh, 2))>>, 0, TRUE)
ChoiceRec == Record("union", <<Field("a", Ch), Field("p", Pt), Field("s", PairRec)>>, 0, FALSE)
MixedRec == Struct(<<Field("u", ChoiceRec), Field("t", Ch)>>)
TextRec == Struct(<<Field("s", ArrayOf(Ch, 3)), Field("p", Pt)>>)
NestedRec == Struct(<<Field("h", PairRec), Field("g", ArrayOf(PairRec, 2))>>)
AnonRec == Struct(<<Field("a", Ch), Field("", Struct(<<Field("b", Ch), Field("c", Sh)>>)), Field("d", Ch)>>)
FlexRec == Struct(<<Field("n", Sh), Field("d", ArrayOf(Ch, 0))>>)
BackedRec == Struct(<<Field("k", Ch), Field("u", Record("union", <<Field("f", Struct(<<Field("n", Ch), Field("d", ArrayOf(Ch, 0))>>)), Field("raw", ArrayOf(Ch, 4))>>, 0, FALSE))>>)

Dot(f) == [field |-> f, lo |-> 0, hi |-> -1]
Sub(n) == [field |-> "", lo |-> n, hi |-> -1]
Span(a, b) == [field |-> "", lo |-> a, hi |-> b]
IntItem(ds, v) == [k |-> "int", ds |-> ds, v |-> v]
AddrItem(ds, s) == [k |-> "addr", ds |-> ds, sym |-> s]
StrItem(ds, b) == [k |-> "str", ds |-> ds, bytes |-> b]
RunItem(ds, v) == [k |-> "rt", ds |-> ds, v |-> v, id |-> 0]
ListItem(ds, items) == [k |-> "list", ds |-> ds, items |-> items]
AggItem(ds, t, bits) == [k |-> "agg", ds |-> ds, type |-> t, bits |-> bits, id |-> 0]
LitItem(ds, t, e) == [k |-> "clit", ds |-> ds, type |-> t, init |-> e]
Sized(t) == Ini!Laid(Ini!X86, t)
SizedPair == Sized(PairRec)
SizedChoice == Sized(ChoiceRec)
CastItem(ds, of, e) == [k |-> "ucast", ds |-> ds, type |-> SizedChoice, of |-> of, lhs |-> e]
ItemPool(name) ==
  CASE name = "Ints" -> {IntItem(<<>>, 4660), RunItem(<<>>, 300), IntItem(<<Sub(1)>>, 7), RunItem(<<Span(0, 1)>>, 9), ListItem(<<Sub(2)>>, <<IntItem(<<>>, 5)>>)}
    [] name = "Grid" -> {IntItem(<<>>, 4660), RunItem(<<Sub(1)>>, 300), ListItem(<<>>, <<IntItem(<<>>, 2), RunItem(<<>>, 3)>>), ListItem(<<Sub(0)>>, <<IntItem(<<Sub(1)>>, 6)>>),
                         RunItem(<<Span(0, 1), Span(0, 1)>>, 8), IntItem(<<Sub(1), Sub(1)>>, 77)}
    [] name = "Pair" -> {IntItem(<<>>, 4660), RunItem(<<>>, 4660), IntItem(<<Dot("b")>>, 200), RunItem(<<Dot("a")>>, 300), ListItem(<<Dot("b")>>, <<IntItem(<<>>, 5)>>)}
    [] name = "Pairs" -> {IntItem(<<>>, 4660), RunItem(<<>>, 300), ListItem(<<>>, <<IntItem(<<>>, 5), IntItem(<<>>, 6)>>), ListItem(<<Sub(0)>>, <<IntItem(<<Dot("b")>>, 1)>>),
                          IntItem(<<Sub(1), Dot("b")>>, 4), AggItem(<<>>, SizedPair, {1, 33}), LitItem(<<Sub(1)>>, SizedPair, ListItem(<<>>, <<IntItem(<<>>, 9)>>)), RunItem(<<Span(0, 1), Dot("a")>>, 4)}
    [] name = "Flags" -> {IntItem(<<>>, 5), RunItem(<<>>, 13), IntItem(<<Dot("x")>>, -2), RunItem(<<Dot("y")>>, -5), IntItem(<<Dot("z")>>, 300)}
    [] name = "Swapped" -> {IntItem(<<>>, 4660), RunItem(<<>>, 4660), IntItem(<<Dot("x")>>, 9), RunItem(<<Dot("y")>>, 21), RunItem(<<Dot("c"), Sub(1)>>, 515), IntItem(<<Dot("c")>>, 258)}
    [] name = "Mixed" -> {IntItem(<<>>, 4660), AddrItem(<<Dot("u"), Dot("p")>>, "f"), IntItem(<<Dot("u"), Dot("a")>>, 3), RunItem(<<Dot("u"), Dot("s"), Dot("b")>>, 5), ListItem(<<Dot("u")>>, <<AddrItem(<<Dot("p")>>, "g")>>),
                          IntItem(<<Dot("u"), Dot("s"), Dot("b")>>, 6), RunItem(<<Dot("t")>>, 2)}
    [] name = "Casts" -> {CastItem(<<>>, Sized(Ch), IntItem(<<>>, 3)), CastItem(<<Sub(1)>>, Sized(Pt), AddrItem(<<>>, "f")), AddrItem(<<Sub(0), Dot("p")>>, "g"), ListItem(<<>>, <<IntItem(<<>>, 9)>>)}
    [] name = "Tight" -> {IntItem(<<>>, 5), RunItem(<<>>, 13), IntItem(<<Dot("x")>>, -2), RunItem(<<Dot("y")>>, -5), RunItem(<<Dot("a")>>, 300)}
    [] name = "Chars" -> {IntItem(<<>>, 300), StrItem(<<>>, <<97, 98>>), RunItem(<<Sub(2)>>, 5), IntItem(<<Sub(1)>>, 66)}
    [] name = "Text" -> {StrItem(<<>>, <<97, 98>>), StrItem(<<Dot("s")>>, <<97, 98, 99>>), IntItem(<<>>, 120), AddrItem(<<>>, "f"), StrItem(<<Dot("p")>>, <<97>>), IntItem(<<Dot("s"), Sub(1)>>, 122), RunItem(<<Dot("s"), Span(1, 2)>>, 121)}
    [] name = "Nested" -> {IntItem(<<>>, 4660), RunItem(<<>>, 300), ListItem(<<>>, <<IntItem(<<>>, 5)>>), AggItem(<<>>, SizedPair, {1, 33}), IntItem(<<Dot("g"), Sub(1), Dot("a")>>, 7), ListItem(<<Dot("g")>>, <<RunItem(<<Span(0, 1), Dot("b")>>, 3)>>)}
    [] name = "Anon" -> {IntItem(<<>>, 4660), RunItem(<<>>, 300), ListItem(<<>>, <<IntItem(<<>>, 5)>>), IntItem(<<Dot("d")>>, 3)}
    [] name = "Ptrs" -> {AddrItem(<<>>, "f"), AddrItem(<<Sub(2)>>, "g"), IntItem(<<>>, 0), StrItem(<<>>, <<97>>), AddrItem(<<Span(0, 1)>>, "h")}
    [] name = "Open" -> {IntItem(<<>>, 4660), ListItem(<<>>, <<IntItem(<<>>, 5)>>), IntItem(<<Sub(2), Dot("b")>>, 6), RunItem(<<Span(1, 2), Dot("a")>>, 4)}
    [] name = "Flex" -> {IntItem(<<>>, 5), StrItem(<<>>, <<97, 98>>), ListItem(<<Dot("d")>>, <<IntItem(<<>>, 5), IntItem(<<Sub(2)>>, 6)>>), IntItem(<<Dot("d"), Sub(1)>>, 3)}
    [] name = "Backed" -> {IntItem(<<Dot("k")>>, 5), ListItem(<<>>, <<ListItem(<<>>, <<IntItem(<<>>, 2), ListItem(<<>>, <<IntItem(<<>>, 7), IntItem(<<Sub(2)>>, 6)>>)>>)>>), ListItem(<<Dot("u"), Dot("f")>>, <<IntItem(<<>>, 2), StrItem(<<>>, <<97, 98>>)>>),
                           IntItem(<<Dot("u"), Dot("raw"), Sub(3)>>, 3)}
ObjectType(name) ==
  Sized(CASE name = "Ints" -> ArrayOf(In, 3) [] name = "Grid" -> ArrayOf(ArrayOf(Ch, 2), 2) [] name = "Pair" -> PairRec [] name = "Pairs" -> ArrayOf(PairRec, 2)
      [] name = "Flags" -> FlagsRec [] name = "Swapped" -> SwappedRec [] name = "Mixed" -> MixedRec [] name = "Tight" -> TightRec [] name = "Chars" -> ArrayOf(Ch, 4) [] name = "Casts" -> ArrayOf(ChoiceRec, 2) [] name = "Text" -> TextRec
      [] name = "Nested" -> NestedRec [] name = "Anon" -> AnonRec [] name = "Ptrs" -> ArrayOf(Pt, 4) [] name = "Open" -> ArrayOf(PairRec, 0) [] name = "Flex" -> FlexRec [] name = "Backed" -> BackedRec)
ObjectNames == {"Casts", "Tight", "Chars", "Ints", "Grid", "Pair", "Pairs", "Flags", "Swapped", "Mixed", "Text", "Nested", "Anon", "Ptrs", "Open", "Flex", "Backed"}

\* Number the run-time values in source order.
RECURSIVE Numbered(_, _, _)
Numbered(e, n, step) == CASE e.k \in {"rt", "agg"} -> [e EXCEPT !.id = n]
                    [] e.k = "list" -> [e EXCEPT !.items = [j \in DOMAIN @ |-> Numbered(@[j], n + j * step, step \div 8)]]
                    [] OTHER -> e
Listed(items) == ListItem(<<>>, [j \in DOMAIN items |-> Numbered(items[j], j * 64, 8)])

\* Valid C: every item has a subobject of a kind it can initialize, and no
\* run-time aggregate is overridden in part.
Suits(t, w) ==
  /\ w.path # Ini!Nothing
  /\ Ini!With(Ini!At(t, w.path).t, LAMBDA s :
       CASE w.e.k = "clear" -> TRUE
         [] w.e.k \in {"int", "rt"} -> s.kind \in {"char", "short", "int"} \/ (s.kind = "ptr" /\ w.e.k = "int" /\ w.e.v = 0)
         [] w.e.k = "addr" -> s.kind = "ptr"
         [] w.e.k = "str" -> s.kind = "ptr" \/ Ini!WholeOf(s, w.e)
         [] OTHER -> Ini!WholeOf(s, w.e))
ValidInit(t, e) ==
  Ini!With(Ini!Writes(t, <<>>, e), LAMBDA w :
    /\ \A i \in DOMAIN w : Suits(t, w[i])
    /\ Ini!With(Ini!Open(t), LAMBDA f : f \in {Ini!Nothing, <<>>} \/ \A i, j \in DOMAIN w :
          i < j /\ w[j].path = f => ~(Len(w[i].path) >= Len(f) /\ Ini!Prefix(w[i].path, Len(f)) = f))
    /\ \A i, j \in DOMAIN w : i < j /\ w[i].e.k \in {"agg", "clit"} /\ Len(w[j].path) > Len(w[i].path) => Ini!Prefix(w[j].path, Len(w[i].path)) # w[i].path)
\* No item takes its place from a range before it.
RECURSIVE AfterRange(_)
AfterRange(e) == e.k = "list" /\ \E j \in DOMAIN e.items :
   \/ AfterRange(e.items[j])
   \/ j > 1 /\ e.items[j].ds = <<>> /\ \E i \in DOMAIN e.items[j - 1].ds : e.items[j - 1].ds[i].hi # -1

InitInputs ==
  \E name \in ObjectNames : \E a, b, c \in ItemPool(name) : \E st \in BOOLEAN :
    x \in {[name |-> name, static |-> st, e |-> Listed(l)] : l \in {<<a>>, <<a, b>>, <<a, b, c>>}}

---------------------------------------------------------------------------
(* Redeclarations: one to three declarations of one identifier, of objects *)
(* at file and block scope, of types whose parts complete one another, of  *)
(* functions with and without prototypes, and of inline functions.  No     *)
(* old-style definition has a transparent union for a parameter: after a   *)
(* prototype it is refused, before one it is not.                          *)

Decls == INSTANCE Declarations

IntType == Decls!Plain("int")
EnumType == [Decls!Plain("enum") EXCEPT !.tag = "e"]
ArrayType(b, n) == [Decls!Plain("array") EXCEPT !.base = <<b>>, !.n = n]
PtrType(b) == [Decls!Plain("ptr") EXCEPT !.base = <<b>>]
UnionType == [Decls!Plain("tunion") EXCEPT !.tag = "u", !.base = <<PtrType(IntType)>>]
AlignedType(n, exact) == [IntType EXCEPT !.ov = n, !.ex = exact]
ProtoType(ps, v) == [Decls!Plain("func") EXCEPT !.base = <<IntType>>, !.proto = TRUE, !.params = ps, !.var = v]
OldType == [Decls!Plain("func") EXCEPT !.base = <<IntType>>]
ListType(ps) == [OldType EXCEPT !.old = TRUE, !.kr = TRUE, !.oldp = ps]
Declaration(at, t, storage, def, inline, gnu) ==
  [at |-> at, type |-> t, storage |-> storage, def |-> def, inline |-> inline, gnu |-> gnu, elems |-> 2]

Storages == {{}, {"static"}, {"extern"}}
ObjectTypes == {IntType, [IntType EXCEPT !.q = TRUE], ArrayType(IntType, -1), ArrayType(IntType, 2), ArrayType(IntType, 3)}
ObjectDecls ==
  {Declaration("file", t, s, d, FALSE, FALSE) : t \in ObjectTypes, s \in Storages, d \in BOOLEAN}
  \cup {Declaration("block", t, s, FALSE, FALSE, FALSE) : t \in ObjectTypes, s \in {{}, {"extern"}}}
ShapeDecls ==
  {Declaration("file", t, {}, FALSE, FALSE, FALSE) :
     t \in {PtrType(ArrayType(IntType, n)) : n \in {-1, 2, 3}}
           \cup {ArrayType(ArrayType(IntType, 2), -1), ArrayType(ArrayType(IntType, 3), -1), ArrayType(ArrayType(IntType, 2), 2)}
           \cup {AlignedType(8, FALSE), AlignedType(2, TRUE), AlignedType(1, TRUE), IntType}}
Protos ==
  {ProtoType(ps, FALSE) :
     ps \in {<<>>, <<IntType>>, <<Decls!Plain("char")>>, <<[IntType EXCEPT !.q = TRUE]>>, <<UnionType>>, <<PtrType(IntType)>>,
             <<Decls!Plain("double")>>, <<IntType, IntType>>, <<PtrType(ArrayType(IntType, 2))>>}}
  \cup {ProtoType(<<IntType>>, TRUE)}
Lists == {ListType(ps) : ps \in {<<IntType>>, <<Decls!Plain("char")>>, <<Decls!Plain("float")>>, <<IntType, IntType>>, <<EnumType>>}}
FunctionDecls ==
  {Declaration("file", t, {}, FALSE, FALSE, FALSE) : t \in Protos \cup {OldType}}
  \cup {Declaration("block", t, {"extern"}, FALSE, FALSE, FALSE) : t \in {ProtoType(<<IntType>>, FALSE), OldType}}
  \cup {Declaration("file", t, {}, TRUE, FALSE, FALSE) : t \in Protos \cup Lists \cup {[OldType EXCEPT !.old = TRUE]}}
InlineDecls ==
  {Declaration("file", ProtoType(<<IntType>>, FALSE), s, d, i, g) : s \in Storages, d \in BOOLEAN, i \in BOOLEAN, g \in BOOLEAN}
  \cup {Declaration("block", ProtoType(<<IntType>>, FALSE), s, FALSE, FALSE, FALSE) : s \in {{}, {"extern"}}}
DeclInputs ==
  \E pool \in {ObjectDecls, ShapeDecls, FunctionDecls, InlineDecls} : \E a, b \in pool, common \in {FALSE} \cup {pool = ObjectDecls} :
    x \in {[ds |-> ds, common |-> common] : ds \in {<<a>>, <<a, b>>} \cup {<<a, b, c>> : c \in pool}}

---------------------------------------------------------------------------
Init ==
  /\ part \in Parts
  /\ y = <<>>
  /\ \/ part = "text" /\ x \in Modules
     \/ part = "float" /\ FloatInputs
     \/ part = "fold" /\ FoldInputs
     \/ part = "layout" /\ x \in Layouts
     \/ part = "call" /\ x \in CallInputs
     \/ part = "bits" /\ BitInputs
     \/ part = "init" /\ InitInputs
     \/ part = "decl" /\ DeclInputs

(* print.c and parse.c: the module as it is printed, its asm table in      *)
(* order, and what comes back.                                             *)
PrintAndParse ==
  /\ part = "text" /\ y = <<>>
  /\ x' = ir_module_canonicalize_asms(x)
  /\ y' = <<SelfCheck(x')>>
  /\ UNCHANGED part
(* softfp.c, constexpr.c and the runtime's own numeric helpers.            *)
Calculate == part = "float" /\ y = <<>> /\ y' = <<Numbers!Answer(x)>> /\ UNCHANGED <<part, x>>
Evaluate == part = "fold" /\ y = <<>> /\ y' = <<Numbers!Compute(x)>> /\ UNCHANGED <<part, x>>
(* sema/init.c, then constexpr.c or lower/init.c: the initializer checked  *)
(* and typed, then turned into an image or into code, which is executed.   *)
CheckInit ==
  /\ part = "init" /\ y = <<>>
  /\ ~AfterRange(x.e)
  /\ \E c \in {d \in {[t |-> ObjectType(x.name), e |-> x.e, static |-> x.static]} : ValidInit(d.t, d.e) /\ Ini!Applies(d)} :
        y' = <<c, Ini!sema_init_expr(c.t, c.e, c.static)>>
  /\ UNCHANGED <<part, x>>
EmitInit == part = "init" /\ Len(y) = 2 /\ ~y[2].err /\ y' = Append(y, Ini!Emit(y[1], y[2])) /\ UNCHANGED <<part, x>>
(* layout.c, abi.c and decl.c: their properties compare two whole          *)
(* computations, so the step only says that it is time to.                 *)
Examine == part \in {"layout", "call", "bits", "decl"} /\ y = <<>> /\ y' = <<TRUE>> /\ UNCHANGED <<part, x>>

Next == PrintAndParse \/ Calculate \/ Evaluate \/ CheckInit \/ EmitInit \/ Examine
Spec == Init /\ [][Next]_vars

---------------------------------------------------------------------------
Answered(p) == part = p /\ y # <<>>

(* ir_print_module_buf, ir_parse_module: a module that is printed and read *)
(* back is the module it was, and prints the same text: names, forward     *)
(* references, fixups, annotations, attributes and the asm table survive.  *)
TextRoundTrips == Answered("text") => y[1]

(* round_pack, sf_add, sf_mul, sf_div, sf_from_decimal, the conversions    *)
(* and the runtime's binary128 helpers: every result is the exact one,     *)
(* rounded once, to nearest even, into its format.                         *)
FloatsExact == Answered("float") => Numbers!Correct(x, y[1])

(* constexpr_eval: a constant expression has the value C gives it in each  *)
(* mode, is refused exactly when C has none, and the runtime's 128-bit     *)
(* helpers agree with arithmetic.                                          *)
ConstantsExact == Answered("fold") => Numbers!ComputedRight(x, y[1])

(* layout_of, layout_classify_sysv, layout_is_hfa: members do not overlap, *)
(* are aligned and inside, each at the first place the ABI allows, and the *)
(* class of each eightbyte is that of the scalars in it.                   *)
LayoutExact ==
  Answered("layout") =>
    Calling!With(Calling!layout_of(x.tg, x.t), LAMBDA r : Calling!With(Calling!Scalars(x.tg, x.t, 0), LAMBDA ss :
      Classified(x, r, ss) => Calling!LayoutExact(x, r, ss)))

(* lower_call against bind_params and lower_va_arg: the callee finds every *)
(* argument where the caller put it, named or variable, and no two are in  *)
(* one place.                                                              *)
CallsAgree ==
  Answered("call") =>
    Calling!With(Calling!abi_classify_ret(x.tg, x.ret), LAMBDA ret : Calling!With(Calling!TypedAll(x.tg, x.args), LAMBDA args :
      ~PastBank(x, ret, args) /\ ~Crossed(x, ret, args) => Calling!CallsAgree(x, ret, args)))

(* lower_bitfield_load, packed_bitfield_store: what is stored in a bit-    *)
(* field is read back, as wide and as signed as the field, and no bit      *)
(* outside it changes.                                                     *)
BitFieldsExact ==
  Answered("bits") =>
    Ini!BitFieldsExact([lv |-> x.lv, v |-> ValuePattern(8 * x.lv.unit, x.v), mem |-> MemoryPattern(x.m)])

(* constexpr_eval_initializer, lower_local_init: the static image, the     *)
(* relocations and the run-time stores of an initializer give the object   *)
(* that C says, however designators override earlier items.                *)
InitializersAgree ==
  Answered("init") => IF Len(y) = 2 THEN Ini!Accepted(y[1], y[2]) ELSE Ini!InitializersAgree(y[1], y[2], y[3])

(* merge_redeclaration, type_composite, finish_one_symbol: declarations    *)
(* that C accepts are accepted in any order, their type says all they say, *)
(* and an identifier is emitted once, from its definition.                 *)
DeclarationsAgree == Answered("decl") => Decls!DeclarationsAgree(x)
=============================================================================
