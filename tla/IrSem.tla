------------------------------- MODULE IrSem --------------------------------
(***************************************************************************)
(* What a module of the intermediate representation means, and what makes  *)
(* it well formed. The meaning is a reference interpreter, written from    *)
(* the comments of src/ir/ir.h, against which lowering and every           *)
(* optimization are judged; the verifier at the end is src/ir/verify.c.    *)
(*                                                                         *)
(* A value is a SET of machine words: what the program may observe there.  *)
(* undef is the set of all words, and every read of a set chooses anew     *)
(* ("undef has per-use freedom").  Division by zero and an access outside  *)
(* an object are undefined behaviour; a signed operation that overflows    *)
(* under NSW yields undef.                                                 *)
(*                                                                         *)
(* Behaviours: the finite traces of observable events (external calls with *)
(* their arguments and the memory they can see, volatile accesses) and how *)
(* the execution ends.  An execution is cut after MaxEvents events, and    *)
(* after MaxJumps branches it counts as running on silently.               *)
(***************************************************************************)
EXTENDS Ir

CONSTANTS MaxEvents, MaxJumps

Words(t) == 0..(IntMask(t) - 1)
FullSet(t) == IF t = "ptr" THEN {0} ELSE Words(t)

\* Results of one integer operation on words x and y of type t; {} is undefined
\* behaviour.
BinResults(op, x, y, t, fl) ==
  LET m == IntMask(t)
      sx == Signed(x, t)
      sy == Signed(y, t)
      arith(r) == IF "nsw" \in fl /\ (r < -(m \div 2) \/ r >= m \div 2)
                  THEN Words(t) ELSE {r % m}
  IN With((IF sx < 0 THEN -sx ELSE sx) \div (IF sy < 0 THEN -sy ELSE sy), LAMBDA quot :
  With(IF (sx < 0) = (sy < 0) THEN quot ELSE -quot, LAMBDA q :
    CASE op = "iadd" -> IF "nsw" \in fl THEN arith(sx + sy) ELSE {(x + y) % m}
      [] op = "isub" -> IF "nsw" \in fl THEN arith(sx - sy) ELSE {(x - y) % m}
      [] op = "imul" -> IF "nsw" \in fl THEN arith(sx * sy) ELSE {(x * y) % m}
      [] op = "udiv" -> IF y = 0 THEN {} ELSE {x \div y}
      [] op = "urem" -> IF y = 0 THEN {} ELSE {x % y}
      [] op = "sdiv" -> IF y = 0 \/ q = m \div 2 THEN {} ELSE {q % m}
      [] op = "srem" -> IF y = 0 \/ q = m \div 2 THEN {} ELSE {(sx - q * sy) % m}
      [] op = "and" -> {x & y}
      [] op = "or" -> {x | y}
      [] op = "xor" -> {x ^^ y}
      [] op = "shl" -> IF y >= type_bits(t) THEN Words(t) ELSE {(x * 2 ^ y) % m}
      [] op = "lshr" -> IF y >= type_bits(t) THEN Words(t) ELSE {x \div 2 ^ y}
      [] op = "ashr" -> IF y >= type_bits(t) THEN Words(t) ELSE {(sx \div 2 ^ y) % m}))

IcmpHolds(pred, x, y, t) ==
  LET sx == IF t = "ptr" THEN x ELSE Signed(x, t)
      sy == IF t = "ptr" THEN y ELSE Signed(y, t)
  IN CASE pred = "eq" -> x = y
       [] pred = "ne" -> x # y
       [] pred = "slt" -> sx < sy
       [] pred = "sle" -> sx <= sy
       [] pred = "sgt" -> sx > sy
       [] pred = "sge" -> sx >= sy
       [] pred = "ult" -> x < y
       [] pred = "ule" -> x <= y
       [] pred = "ugt" -> x > y
       [] pred = "uge" -> x >= y

\* The set of words an operand may read.
Read(env, o) ==
  CASE o[1] = "v" -> env[o[2]]
    [] o[1] = "u" -> FullSet(o[3])
    [] OTHER -> {o[2]}

ConvResults(op, x, from, to) ==
  CASE op = "sext" -> {Signed(x, from) % IntMask(to)}
    [] op = "zext" -> {x}
    [] op = "trunc" -> {x % IntMask(to)}

\* Memory: an object is a sequence of cells, each a set of words; `mem` maps object
\* numbers to objects.  Objects 1..Len(globals) are the module's globals.
ObjOf(a) == a \div ObjSize
CellOf(a) == (a % ObjSize) + 1
ValidAddr(mem, a) == ObjOf(a) \in DOMAIN mem /\ CellOf(a) \in DOMAIN mem[ObjOf(a)]

\* The objects an external call can see: globals, the pointers it is given, and what
\* those cells point to.
RECURSIVE VisibleFrom(_, _)
VisibleFrom(mem, objs) ==
  LET ptrs == UNION {UNION {mem[o][i] : i \in DOMAIN mem[o]} : o \in objs}
      more == {ObjOf(p) : p \in {q \in ptrs : q >= ObjSize /\ ObjOf(q) \in DOMAIN mem}}
  IN IF more \subseteq objs THEN objs ELSE VisibleFrom(mem, objs \cup more)

(***************************************************************************)
(* The machine: [fn, b, i, env, mem, tr, jumps, stk, end].  stk is the     *)
(* stack of callers' frames [fn, b, i, env].                               *)
(***************************************************************************)
Outcome(tr, end) == [tr |-> tr, end |-> end]

Bind(ids, sets, env) ==
  Evaluated([v \in DOMAIN env |-> IF \E i \in DOMAIN ids : ids[i] = v
                                  THEN sets[CHOOSE i \in DOMAIN ids : ids[i] = v] ELSE env[v]])

EnterFn(m, s, fn, args) ==
  LET f == m.funcs[fn]
      blank == [v \in 1..Len(f.vals) |-> {}]
  IN [s EXCEPT !.fn = fn, !.b = 1, !.i = 1, !.env = Bind(f.params, args, blank)]

\* Following edge e: the block parameters are assigned in parallel.
Jump(m, s, e) ==
  LET blk == m.funcs[s.fn].blocks[e.to]
  IN [s EXCEPT !.b = e.to, !.i = 1, !.jumps = @ + 1,
               !.env = Bind(blk.params, [j \in DOMAIN e.args |-> Read(s.env, e.args[j])], @)]

\* One way to pick a word from each set of a sequence.
RECURSIVE Picks(_)
Picks(sets) == IF sets = <<>> THEN {<<>>}
               ELSE {<<x>> \o r : x \in Head(sets), r \in Picks(Tail(sets))}

\* The content of the visible objects, pointers hidden (an address is not
\* observable), as a sequence of sets.
Observed(mem, objs) ==
  LET order == Sorted(objs, LAMBDA x, y : x < y)
      hide(cell) == {IF w >= ObjSize THEN ObjSize ELSE w : w \in cell}
  IN Fold(LAMBDA acc, o : acc \o [i \in DOMAIN mem[o] |-> hide(mem[o][i])], <<>>, order)

\* An external call changes every word it can see, and returns a word that depends
\* on how many events came before it.
Clobber(mem, objs) ==
  Evaluated([o \in DOMAIN mem |-> IF o \notin objs THEN mem[o]
     ELSE Evaluated([i \in DOMAIN mem[o] |->
             {IF w >= ObjSize THEN w ELSE (w + 1) % IntMask("i8") : w \in mem[o][i]}])])

\* A machine stops with how it ended in `end`; only its trace matters then.
Halt(s, tr, end) ==
  {[s EXCEPT !.tr = tr, !.end = end, !.env = <<>>, !.mem = <<>>, !.stk = <<>>, !.b = 0, !.i = 0, !.jumps = 0]}

\* Continue with the result set r for the instruction's value.
SetResult(s, in, r) ==
  IF r = {} THEN Halt(s, s.tr, "ub")
  ELSE {[s EXCEPT !.i = @ + 1, !.env = IF in.res = 0 THEN @ ELSE [@ EXCEPT ![in.res] = r]]}

\* Record event ev, then continue.
Emit(s, in, ev, r) ==
  LET tr == Append(s.tr, ev)
  IN IF Len(tr) >= MaxEvents THEN Halt(s, tr, "cut")
     ELSE SetResult([s EXCEPT !.tr = tr], in, r)

ExecLoad(m, s, in) ==
  LET addrs == Read(s.env, in.ops[1])
  IN IF \E a \in addrs : ~ValidAddr(s.mem, a) THEN Halt(s, s.tr, "ub")
     ELSE LET words == UNION {s.mem[ObjOf(a)][CellOf(a)] : a \in addrs}
              t == m.funcs[s.fn].vals[in.res]
              r == IF t = "ptr" THEN words ELSE {w % IntMask(t) : w \in words}
          IN IF "vol" \in in.fl
             THEN UNION {Emit(s, in, <<"vload", a % ObjSize>>, r) : a \in addrs}
             ELSE SetResult(s, in, r)

ExecStore(s, in) ==          \* ops: value, address
  LET addrs == Read(s.env, in.ops[2])
      val == Read(s.env, in.ops[1])
      put(a) == [s EXCEPT !.mem[ObjOf(a)][CellOf(a)] = val]
  IN IF \E a \in addrs : ~ValidAddr(s.mem, a) THEN Halt(s, s.tr, "ub")
     ELSE UNION {IF "vol" \in in.fl
                 THEN UNION {Emit(put(a), in, <<"vstore", a % ObjSize, w>>, {0}) : w \in val}
                 ELSE SetResult(put(a), in, {0}) : a \in addrs}

\* memset: destination, byte, count; memcpy: destination, source, count.
ExecBlockOp(s, in) ==
  LET n == in.ops[3][2]
      dst == Read(s.env, in.ops[1])
      src == Read(s.env, in.ops[2])
      fill(j, q) == IF in.op = "memset" THEN src ELSE s.mem[ObjOf(q)][CellOf(q) + j]
      put(a, q) == [s EXCEPT !.mem[ObjOf(a)] = Evaluated([c \in DOMAIN @ |->
                      IF c \in CellOf(a)..(CellOf(a) + n - 1) THEN fill(c - CellOf(a), q) ELSE @[c]])]
      bad(a) == ~ValidAddr(s.mem, a) \/ (n > 0 /\ ~ValidAddr(s.mem, a + n - 1))
  IN IF (\E a \in dst : bad(a)) \/ (in.op = "memcpy" /\ \E a \in src : bad(a))
     THEN Halt(s, s.tr, "ub")
     ELSE UNION {SetResult(put(a, q), in, {0})
                   : a \in dst, q \in IF in.op = "memset" THEN {0} ELSE src}

ExecCall(m, s, in) ==
  LET args == [j \in DOMAIN in.ops |-> Read(s.env, in.ops[j])]
  IN IF in.sub \in DOMAIN m.funcs
     THEN {[EnterFn(m, s, in.sub, args) EXCEPT
              !.jumps = @ + 1,
              !.stk = <<[fn |-> s.fn, b |-> s.b, i |-> s.i, env |-> s.env]>> \o @]}
     ELSE LET passed == {ObjOf(p) : p \in {q \in UNION {args[j] : j \in DOMAIN args} : q >= ObjSize}}
          IN With(VisibleFrom(s.mem, (1..Len(m.globals)) \cup (passed \cap DOMAIN s.mem)), LAMBDA seen :
          LET after == [s EXCEPT !.mem = Clobber(@, seen)]
              shown == [j \in DOMAIN args |-> {IF w >= ObjSize THEN ObjSize ELSE w : w \in args[j]}]
              ret == {Len(s.tr) % IntMask("i8")}
          IN UNION {IF "noret" \in in.fl THEN Halt(s, Append(s.tr, <<in.sub, p>>), "exit")
                    ELSE Emit(after, in, <<in.sub, p>>, ret)
                      : p \in Picks(shown \o Observed(s.mem, seen))})

ExecTerm(m, s, in) ==
  CASE in.op = "br" -> {Jump(m, s, in.edges[1])}
    [] in.op = "condbr" ->
         LET c == Read(s.env, in.ops[1])
         IN {Jump(m, s, in.edges[e]) : e \in {i \in 1..2 : IF i = 1 THEN c # {0} ELSE 0 \in c}}
    [] in.op = "switch" ->
         LET hit(w) == LET hs == {e \in 2..Len(in.edges) : in.edges[e].case = w}
                       IN IF hs = {} THEN 1 ELSE Min(hs)
         IN {Jump(m, s, in.edges[e]) : e \in {hit(w) : w \in Read(s.env, in.ops[1])}}
    [] in.op = "unreachable" -> Halt(s, s.tr, "ub")
    [] in.op = "ret" ->
         LET r == IF in.ops = <<>> THEN {0} ELSE Read(s.env, in.ops[1])
         IN IF s.stk = <<>>
            THEN UNION {Halt(s, Append(s.tr, <<"ret", p>>), "ret")
                          : p \in Picks(<<r>> \o Observed(s.mem, 1..Len(m.globals)))}
            ELSE LET fr == Head(s.stk)
                     call == m.funcs[fr.fn].blocks[fr.b].insts[fr.i]
                 IN SetResult([s EXCEPT !.fn = fr.fn, !.b = fr.b, !.i = fr.i, !.env = fr.env,
                                        !.stk = Tail(@)], call, r)

\* One instruction.
Exec(m, s) ==
  LET in == m.funcs[s.fn].blocks[s.b].insts[s.i]
      rd(j) == Read(s.env, in.ops[j])
  IN IF s.jumps > MaxJumps THEN Halt(s, s.tr, "run")
     ELSE CASE in.op \in Terminators -> ExecTerm(m, s, in)
       [] in.op \in BinOps ->
            With({BinResults(in.op, x, y, TypeOf(in.ops[1]), in.fl) : x \in rd(1), y \in rd(2)}, LAMBDA rs :
              SetResult(s, in, IF {} \in rs THEN {} ELSE UNION rs))
       [] in.op = "icmp" ->
            SetResult(s, in, {IF IcmpHolds(in.sub, x, y, TypeOf(in.ops[1])) THEN 1 ELSE 0
                                : x \in rd(1), y \in rd(2)})
       [] in.op \in {"sext", "zext", "trunc"} ->
            SetResult(s, in, UNION {ConvResults(in.op, x, TypeOf(in.ops[1]), m.funcs[s.fn].vals[in.res])
                                      : x \in rd(1)})
       [] in.op = "select" ->
            SetResult(s, in, (IF rd(1) # {0} THEN rd(2) ELSE {})
                               \cup (IF 0 \in rd(1) THEN rd(3) ELSE {}))
       [] in.op = "alloca" ->
            LET o == 1 + Max({0} \cup DOMAIN s.mem)
                n == in.ops[1][2]
            IN SetResult([s EXCEPT !.mem = Evaluated([x \in DOMAIN @ \cup {o} |->
                   IF x = o THEN Evaluated([i \in 1..n |-> Words("i32")]) ELSE @[x]])], in, {ObjSize * o})
       [] in.op = "ptradd" -> SetResult(s, in, {p + Signed(k, TypeOf(in.ops[2])) : p \in rd(1), k \in rd(2)})
       [] in.op = "load" -> ExecLoad(m, s, in)
       [] in.op = "store" -> ExecStore(s, in)
       [] in.op \in {"memset", "memcpy"} -> ExecBlockOp(s, in)
       [] in.op = "call" -> ExecCall(m, s, in)

\* 2^k steps of every machine of ss that still runs.
RECURSIVE ExecAll(_, _, _)
ExecAll(m, ss, k) ==
  IF \A s \in ss : s.end # "" THEN ss
  ELSE IF k = 0 THEN UNION {IF s.end = "" THEN Exec(m, s) ELSE {s} : s \in ss}
  ELSE UNION {ExecAll(m, half, k - 1) : half \in {ExecAll(m, ss, k - 1)}}

\* All behaviours of the first function of module m on the argument words args.
Behaviours(m, args) ==
  LET s0 == [fn |-> "main", b |-> 1, i |-> 1, env |-> <<>>, mem |-> m.globals, tr |-> <<>>,
             jumps |-> 0, stk |-> <<>>, end |-> ""]
  IN With(EnterFn(m, s0, "main", [j \in DOMAIN args |-> {args[j]}]), LAMBDA s1 :
    {Outcome(s.tr, s.end) : s \in ExecAll(m, {s1}, 12)})

\* after implements before: each of its behaviours is one of before's, or follows a
\* prefix after which before has undefined behaviour.
Implements(after, before) ==
  \A o \in after :
    \/ o \in before
    \/ \E u \in before : u.end = "ub" /\ IsPrefix(u.tr, o.tr)

(***************************************************************************)
(* The IR verifier (src/ir/verify.c): what every function must satisfy     *)
(* after lowering and after each optimization pass.  The numbers are the   *)
(* verifier's own; its checks of alignment, ABI annotations and vectors    *)
(* (parts of 4, 7, 8, 9) concern data the model abstracts.                 *)
(***************************************************************************)
\* Check 1: a value is used only where its definition dominates.
check_use(f, idom, o, b, pos) ==
  IsV(o) =>
    /\ o[2] \in 1..Len(f.vals)
    /\ With(DefOf(f, o[2]), LAMBDA d :
         CASE d[1] = "param" -> TRUE
           [] d[1] = "none" -> FALSE
           [] d[2] = b -> d[1] = "bparam" \/ d[3] < pos
           [] OTHER -> ir_dominates(idom, d[2], b))

\* Check 2: an edge passes one argument of the right type per parameter of its target.
CheckEdge(f, e) ==
  /\ e.to \in BlockIds(f)
  /\ LET ps == f.blocks[e.to].params
     IN Len(e.args) = Len(ps) /\ \A i \in DOMAIN ps : TypeOf(e.args[i]) = f.vals[ps[i]]

\* Check 3: exactly one terminator, last.
CheckTerminated(blk) ==
  blk.insts # <<>> /\ \A i \in DOMAIN blk.insts :
                        is_terminator(blk.insts[i].op) <=> i = Len(blk.insts)

\* Check 5: the entry has neither parameters nor predecessors.
CheckEntry(f) == f.blocks[1].params = <<>> /\ Preds(f, 1) = {}

\* Check 4: operand and result types per opcode.
ResType(f, in) == IF in.res = 0 THEN "void" ELSE f.vals[in.res]

check_binop_types(f, in) ==
  LET r == ResType(f, in)
  IN r \in IntTypes /\ Len(in.ops) = 2 /\ TypeOf(in.ops[1]) = r /\ TypeOf(in.ops[2]) = r

CheckConversion(f, in) ==
  LET from == TypeOf(in.ops[1])
      to == ResType(f, in)
  IN /\ {from, to} \subseteq IntTypes
     /\ IF in.op = "trunc" THEN type_bits(from) > type_bits(to) ELSE type_bits(from) < type_bits(to)

check_inst_types(f, in) ==
  LET t(i) == TypeOf(in.ops[i])
      r == ResType(f, in)
  IN CASE in.op \in BinOps -> check_binop_types(f, in)
       [] in.op = "icmp" -> r = "i32" /\ t(1) = t(2)
       [] in.op \in {"sext", "zext", "trunc"} -> CheckConversion(f, in)
       [] in.op = "select" -> t(1) = "i32" /\ t(2) = r /\ t(3) = r
       [] in.op = "alloca" -> r = "ptr" /\ t(1) = "i64"
       [] in.op = "ptradd" -> t(1) = "ptr" /\ t(2) = "i64" /\ r = "ptr"
       [] in.op = "load" -> t(1) = "ptr" /\ r # "void"
       [] in.op = "store" -> t(2) = "ptr"
       [] in.op = "memset" -> t(1) = "ptr" /\ t(2) = "i32" /\ t(3) = "i64"
       [] in.op = "memcpy" -> t(1) = "ptr" /\ t(2) = "ptr" /\ t(3) = "i64"
       [] in.op = "condbr" -> t(1) = "i32"
       [] in.op = "switch" -> t(1) \in IntTypes
       [] in.op = "ret" -> IF f.ret = "void" THEN in.ops = <<>> ELSE Len(in.ops) = 1 /\ t(1) = f.ret
       [] OTHER -> TRUE

\* Check 7: flags only where they mean something.  Check 9: an internal call passes
\* what its callee declares.
FlagHome(fl) ==
  CASE fl = "vol" -> {"load", "store", "memcpy", "memset"}
    [] fl = "noret" -> {"call"}
    [] fl = "self" -> {"load"}
    [] fl = "nsw" -> {"iadd", "isub", "imul"}
    [] fl = "flow" -> {"ret", "br", "condbr", "switch"}

CheckInternalCall(m, f, in) ==
  LET cf == m.funcs[in.sub]
  IN /\ Len(in.ops) = Len(cf.params)
     /\ \A i \in DOMAIN in.ops : TypeOf(in.ops[i]) = cf.vals[cf.params[i]]
     /\ ResType(f, in) = cf.ret

check_inst_misc(m, f, in) ==
  /\ \A fl \in in.fl : in.op \in FlagHome(fl)
  /\ in.op = "call" /\ in.sub \in DOMAIN m.funcs => CheckInternalCall(m, f, in)

verify_func(m, f) ==
  With(ir_domtree_build(f), LAMBDA idom :
    /\ CheckEntry(f)
    /\ Reachable(f) = BlockIds(f)                                    \* check 6
    /\ \A b \in BlockIds(f) :
         /\ CheckTerminated(f.blocks[b])
         /\ \A i \in DOMAIN f.blocks[b].insts :
              LET in == f.blocks[b].insts[i]
              IN /\ \A o \in OpsOf(in) : check_use(f, idom, o, b, i)
                 /\ \A e \in DOMAIN in.edges : CheckEdge(f, in.edges[e])
                 /\ check_inst_types(f, in)
                 /\ check_inst_misc(m, f, in))

ir_verify(m) == \A k \in DOMAIN m.funcs : verify_func(m, m.funcs[k])
=============================================================================
