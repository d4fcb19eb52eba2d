----------------------------- MODULE ConstFold ------------------------------
(***************************************************************************)
(* The constant-expression evaluator (src/sema/constexpr.c) over typed     *)
(* expression trees, and the run-time 128-bit helpers (src/rt/int128.c)    *)
(* that compute at run time what it computes at compile time.  A word has  *)
(* LimbBits bits; a 128-bit value is a pair of words <<hi, lo>>.  A value  *)
(* is an integer (two words), a float, an address constant or an error     *)
(* that remembers whether it was reported.                                 *)
(***************************************************************************)
EXTENDS SoftFloat, Bitwise

CONSTANTS
  TY_INT,                       \* the type int
  ByteBits,                     \* 8
  PtrBits                       \* the width of a pointer relocation

Top == Word \div 2
Ones == Word - 1
Not_(w) == Ones - w
i64(w) == IF w >= Top THEN w - Word ELSE w
u64(n) == n % Word

conv_int_bits(t) == IF t.k = "int" THEN t.w ELSE 0
conv_is_signed(t) == t.k = "int" /\ t.signed
type_is_int128(t) == t.k = "int" /\ t.w = 2 * LimbBits
BitSet(w, n) == (w \div 2 ^ n) % 2 = 1

cv_error == [k |-> "error", said |-> FALSE]
cv_int_wide(t, u) == [k |-> "int", t |-> t, u |-> u]
cv_int(t, bits) ==
  LET w == conv_int_bits(t)
  IN cv_int_wide(t, <<IF conv_is_signed(t) /\ w \in 1..LimbBits /\ BitSet(bits, w - 1) THEN Ones ELSE 0, bits>>)
cv_float(t, f) == [k |-> "float", t |-> t, f |-> f]
cv_special_float(t, cls) == cv_float(t, Sf(cls, 0, <<0, 0>>, 0))
cv_addr(t, sym, anon) == [k |-> "addr", t |-> t, sym |-> sym, anon |-> anon, addend |-> 0]
Truth(t, b) == cv_int(t, Bool01(b))

fit(t, bits) ==
  LET w == conv_int_bits(t)
  IN IF w = 0 \/ w >= LimbBits THEN bits
     ELSE With(bits % 2 ^ w, LAMBDA b : IF conv_is_signed(t) /\ BitSet(b, w - 1) THEN b + Word - 2 ^ w ELSE b)

is_required(m) == m \notin {"FOLD", "VLA"}
ce_error(m) == [k |-> "error", said |-> is_required(m)]
Rejected(vs) == [k |-> "error", said |-> \E j \in DOMAIN vs : vs[j].k = "error" /\ vs[j].said]

-----------------------------------------------------------------------------
\* Narrow arithmetic: what overflows.
SignsDiffer(a, b, w) == BitSet(a, w - 1) # BitSet(b, w - 1)
add_overflows(t, a, b, r) ==
  LET w == conv_int_bits(t)
  IN conv_is_signed(t) /\ w \in 1..LimbBits /\ SignsDiffer(a, r, w) /\ SignsDiffer(b, r, w)

MutSignedMinimum(t, bits) ==
  LET w == conv_int_bits(t) IN conv_is_signed(t) /\ w \in 1..LimbBits /\ bits = 2 ^ (w - 1)
signed_minimum_value(t, bits) ==
  LET w == conv_int_bits(t) IN conv_is_signed(t) /\ w \in 1..LimbBits /\ bits = fit(t, 2 ^ (w - 1))

multiply_overflows(t, a, b) ==
  LET w == conv_int_bits(t)
      mag(x) == IF BitSet(x, w - 1) THEN u64(-x) ELSE x
      limit == IF SignsDiffer(a, b, w) THEN 2 ^ (w - 1) ELSE 2 ^ (w - 1) - 1
  IN conv_is_signed(t) /\ w \in 1..LimbBits /\ mag(b) # 0 /\ mag(a) > limit \div mag(b)

-----------------------------------------------------------------------------
\* Two-word arithmetic of the evaluator.
ce_wide_is_zero(v) == v = <<0, 0>>
ce_int_truth(v) == v.u # <<0, 0>>
Negative(v) == v[1] >= Top
ce_wide_cmp_unsigned(a, b) ==
  CASE a[1] # b[1] -> IF a[1] < b[1] THEN -1 ELSE 1
    [] a[2] # b[2] -> IF a[2] < b[2] THEN -1 ELSE 1
    [] OTHER -> 0
ce_wide_cmp_signed(a, b) ==
  IF Negative(a) # Negative(b) THEN (IF Negative(a) THEN -1 ELSE 1) ELSE ce_wide_cmp_unsigned(a, b)
ce_wide_add(a, b) == With(u64(a[2] + b[2]), LAMBDA lo : <<u64(a[1] + b[1] + Bool01(lo < a[2])), lo>>)
ce_wide_sub(a, b) == <<u64(a[1] - b[1] - Bool01(a[2] < b[2])), u64(a[2] - b[2])>>
ce_wide_neg(v) == With(u64(Not_(v[2]) + 1), LAMBDA lo : <<u64(Not_(v[1]) + Bool01(lo = 0)), lo>>)
ce_wide_shl1(v) == <<u64(v[1] * 2) + (v[2] \div Top), u64(v[2] * 2)>>
ce_wide_bit(v, n) == IF n >= LimbBits THEN Bool01(BitSet(v[1], n - LimbBits)) ELSE Bool01(BitSet(v[2], n))
ce_wide_set_bit(v, n) == IF n >= LimbBits THEN <<v[1] + 2 ^ (n - LimbBits), v[2]>> ELSE <<v[1], v[2] + 2 ^ n>>

\* One bit of restoring division; a bit shifted out of the remainder counts.
DivStep(num, den, n, s) ==
  With(ce_wide_shl1(s.r), LAMBDA t :
  With(<<t[1], t[2] + ce_wide_bit(num, n)>>, LAMBDA r :
    IF Negative(s.r) \/ ce_wide_cmp_unsigned(r, den) >= 0
    THEN [q |-> ce_wide_set_bit(s.q, n), r |-> ce_wide_sub(r, den)]
    ELSE [s EXCEPT !.r = r]))

ce_wide_udiv(num, den) ==
  IF num[1] = 0 /\ den[1] = 0 THEN [q |-> <<0, num[2] \div den[2]>>, r |-> <<0, num[2] % den[2]>>]
  ELSE Repeat(2 * LimbBits, LAMBDA j, s : DivStep(num, den, 2 * LimbBits - 1 - j, s),
              [q |-> <<0, 0>>, r |-> <<0, 0>>])

\* The product of two words from four half-word products.
ce_wide_mul64(a, b) ==
  LET a0 == a % Half
      a1 == a \div Half
      b0 == b % Half
      b1 == b \div Half
  IN With(u64(a1 * b0 + ((a0 * b0) \div Half)), LAMBDA p :
     With(u64(a0 * b1 + (p % Half)), LAMBDA q :
       <<u64(a1 * b1 + (p \div Half) + (q \div Half)), u64(q * Half + ((a0 * b0) % Half))>>))
ce_wide_mul(a, b) == With(ce_wide_mul64(a[2], b[2]), LAMBDA r : <<u64(r[1] + a[1] * b[2] + a[2] * b[1]), r[2]>>)

ce_wide_shl(v, n) ==
  CASE n = 0 -> v
    [] n < LimbBits -> <<u64(v[1] * 2 ^ n) + (v[2] \div 2 ^ (LimbBits - n)), u64(v[2] * 2 ^ n)>>
    [] OTHER -> <<u64(v[2] * 2 ^ (n - LimbBits)), 0>>
ce_wide_shr(v, n, arithmetic) ==
  LET fill == IF arithmetic /\ Negative(v) THEN Ones ELSE 0
  IN CASE n = 0 -> v
       [] n < LimbBits -> <<(v[1] \div 2 ^ n) + u64(fill * 2 ^ (LimbBits - n)),
                            (v[2] \div 2 ^ n) + u64(v[1] * 2 ^ (LimbBits - n))>>
       [] n = LimbBits -> <<fill, v[1]>>
       [] OTHER -> <<fill, (v[1] \div 2 ^ (n - LimbBits)) + u64(fill * 2 ^ (2 * LimbBits - n))>>

ce_wide_signed_minimum(v) == v = <<Top, 0>>
ce_wide_add_overflows(a, b, r) == Negative(a) # Negative(r) /\ Negative(b) # Negative(r)
ce_wide_sub_overflows(a, b, r) == Negative(a) # Negative(b) /\ Negative(a) # Negative(r)
WideMagnitude(v) == IF Negative(v) THEN ce_wide_neg(v) ELSE v
ce_wide_mul_overflows(a, b) ==
  LET limit == IF Negative(a) # Negative(b) THEN <<Top, 0>> ELSE <<Ones \div 2, Ones>>
  IN ~ce_wide_is_zero(b) /\ ce_wide_cmp_unsigned(WideMagnitude(a), ce_wide_udiv(limit, WideMagnitude(b)).q) > 0

Compares(op, c) ==
  CASE op = "<" -> c < 0 [] op = ">" -> c > 0 [] op = "<=" -> c <= 0 [] op = ">=" -> c >= 0
    [] op = "==" -> c = 0 [] op = "!=" -> c # 0
Relations == {"<", ">", "<=", ">=", "==", "!="}

WideQuotient(op, signed, l, r) ==
  IF ~signed THEN With(ce_wide_udiv(l, r), LAMBDA d : IF op = "%" THEN d.r ELSE d.q)
  ELSE With(ce_wide_udiv(WideMagnitude(l), WideMagnitude(r)), LAMBDA d :
         IF op = "%" THEN (IF Negative(l) THEN ce_wide_neg(d.r) ELSE d.r)
         ELSE IF Negative(l) # Negative(r) THEN ce_wide_neg(d.q) ELSE d.q)

eval_binary_wide(e, m, left, right) ==
  LET l == left.u
      r == right.u
      signed == conv_is_signed(e.a.t)
      result(u) == cv_int_wide(e.t, u)
      unless(overflow, u) == IF signed /\ overflow THEN ce_error(m) ELSE result(u)
  IN CASE e.op = "+" -> With(ce_wide_add(l, r), LAMBDA u : unless(ce_wide_add_overflows(l, r, u), u))
       [] e.op = "-" -> With(ce_wide_sub(l, r), LAMBDA u : unless(ce_wide_sub_overflows(l, r, u), u))
       [] e.op = "*" -> unless(ce_wide_mul_overflows(l, r), ce_wide_mul(l, r))
       [] e.op \in {"/", "%"} ->
            (IF ce_wide_is_zero(r) THEN ce_error(m)
             ELSE unless(ce_wide_signed_minimum(l) /\ r = <<Ones, Ones>>, WideQuotient(e.op, signed, l, r)))
       [] e.op \in {"<<", ">>"} ->
            (IF r[1] # 0 \/ r[2] >= 2 * LimbBits THEN ce_error(m)
             ELSE result(IF e.op = "<<" THEN ce_wide_shl(l, r[2]) ELSE ce_wide_shr(l, r[2], signed)))
       [] e.op = "&" -> result(<<l[1] & r[1], l[2] & r[2]>>)
       [] e.op = "|" -> result(<<l[1] | r[1], l[2] | r[2]>>)
       [] e.op = "^" -> result(<<l[1] ^^ r[1], l[2] ^^ r[2]>>)
       [] e.op \in Relations ->
            Truth(TY_INT, Compares(e.op, IF signed THEN ce_wide_cmp_signed(l, r) ELSE ce_wide_cmp_unsigned(l, r)))
       [] e.op = "&&" -> Truth(TY_INT, ~ce_wide_is_zero(l) /\ ~ce_wide_is_zero(r))
       [] e.op = "||" -> Truth(TY_INT, ~ce_wide_is_zero(l) \/ ~ce_wide_is_zero(r))
       [] OTHER -> ce_error(m)

-----------------------------------------------------------------------------
\* The overflow predicates compute on sign and magnitude.
ce_overflow_integer(v) ==
  LET w == conv_int_bits(v.t)
  IN IF w > LimbBits
     THEN With(conv_is_signed(v.t) /\ Negative(v.u), LAMBDA neg :
            [neg |-> neg, mag |-> IF neg THEN ce_wide_neg(v.u) ELSE v.u])
     ELSE With(conv_is_signed(v.t) /\ w > 0 /\ BitSet(v.u[2], w - 1), LAMBDA neg :
            [neg |-> neg, mag |-> <<0, IF neg THEN u64(-v.u[2]) ELSE v.u[2]>>])

ce_overflow_limit(t, neg) ==
  LET w == conv_int_bits(t)
  IN IF conv_is_signed(t) THEN (IF neg THEN 2 ^ (w - 1) ELSE 2 ^ (w - 1) - 1)
     ELSE IF neg THEN 0 ELSE 2 ^ w - 1

ce_overflow_wide_limit(t, neg) ==
  LET w == conv_int_bits(t)
      high == 2 ^ (w - LimbBits - 1)
  IN CASE w <= LimbBits -> <<0, ce_overflow_limit(t, neg)>>
       [] w > LimbBits /\ conv_is_signed(t) -> IF neg THEN <<high, 0>> ELSE <<high - 1, Ones>>
       [] OTHER -> IF neg THEN <<0, 0>> ELSE <<2 * high - 1, Ones>>

ce_addsub_overflow_wide_p(l, rt, t, subtract) ==
  LET r == IF subtract /\ ~ce_wide_is_zero(rt.mag) THEN [rt EXCEPT !.neg = ~@] ELSE rt
      past(mag, neg) == ce_wide_cmp_unsigned(mag, ce_overflow_wide_limit(t, neg)) > 0
  IN IF l.neg = r.neg
     THEN With(ce_wide_add(l.mag, r.mag), LAMBDA u : ce_wide_cmp_unsigned(u, l.mag) < 0 \/ past(u, l.neg))
     ELSE IF ce_wide_cmp_unsigned(l.mag, r.mag) >= 0
     THEN With(ce_wide_sub(l.mag, r.mag), LAMBDA u : past(u, ~ce_wide_is_zero(u) /\ l.neg))
     ELSE past(ce_wide_sub(r.mag, l.mag), r.neg)

ce_mul_overflow_p(l, r, t) ==
  LET neg == ~ce_wide_is_zero(l.mag) /\ ~ce_wide_is_zero(r.mag) /\ l.neg # r.neg
  IN /\ ~ce_wide_is_zero(l.mag)
     /\ ce_wide_cmp_unsigned(r.mag, ce_wide_udiv(ce_overflow_wide_limit(t, neg), l.mag).q) > 0

-----------------------------------------------------------------------------
\* Objects and types an address constant may name.
NoSym == ""
NULL == <<>>
complete_for_size(t) == t.k \notin {"void", "func"}
Fields(t) == {t.members[j] : j \in DOMAIN t.members}

RECURSIVE find_member_named(_, _)
find_member_named(t, name) ==
  \E f \in Fields(t) : f.name = name \/ (f.name = "" /\ f.t.k = "struct" /\ find_member_named(f.t, name))

\* The offset of a member, through the anonymous members around it; -1 for a bit-field.
RECURSIVE member_byte_offset(_, _)
member_byte_offset(t, name) ==
  LET hit(f) == f.name = name \/ (f.name = "" /\ f.t.k = "struct" /\ find_member_named(f.t, name))
      first == CHOOSE j \in DOMAIN t.members :
                 hit(t.members[j]) /\ \A i \in DOMAIN t.members : i < j => ~hit(t.members[i])
  IN IF t.k # "struct" \/ ~\E f \in Fields(t) : hit(f) THEN -1
     ELSE With(t.members[first], LAMBDA f :
            IF f.name = name THEN (IF f.bits THEN -1 ELSE f.off)
            ELSE With(member_byte_offset(f.t, name), LAMBDA inner : IF inner = -1 THEN -1 ELSE f.off + inner))

is_null_pointer_value(v) == v.k = "int" /\ v.u[2] = 0 /\ v.t.k = "ptr"
same_anonymous_object(a, b) ==
  \/ a = b
  \/ /\ a # NULL /\ b # NULL /\ a[1].k = "string" /\ b[1].k = "string"
     /\ a[1].fname = b[1].fname /\ a[1].enc = b[1].enc /\ a[1].bytes = b[1].bytes
same_address_origin(a, b) == a.sym = b.sym /\ (a.sym # NoSym \/ same_anonymous_object(a.anon, b.anon))
null_address(t) == cv_addr(t, NoSym, NULL)
Typed(v, t) == [v EXCEPT !.t = t]

\* A displacement: of the relocation, or of an absolute address.
address_add_bytes(v, n) ==
  CASE v.k = "addr" -> [v EXCEPT !.addend = @ + n]
    [] v.k = "int" -> [v EXCEPT !.u[2] = u64(@ + n)]

Addresses(m) == m \in {"ADDR", "FOLD"}
RECURSIVE Core(_)
Core(e) == IF e.k = "cast" /\ e.implicit THEN Core(e.a) ELSE e

-----------------------------------------------------------------------------
\* The spelling of a floating constant: digits before and after the point, and the
\* exponent, of ten or of two.
constexpr_parse_float(sp, f) ==
  IF sp.hex THEN sf_from_hex(sp.whole \o sp.frac, sp.e - 4 * Len(sp.frac), f)
  ELSE sf_from_decimal(sp.whole \o sp.frac, sp.e - Len(sp.frac), f)

RECURSIVE eval(_, _)

\* The address of a member or subscript, without loading it; null tells whether it is
\* reckoned from a null pointer.
RECURSIVE eval_lvalue_address(_, _)
eval_lvalue_address(e0, m) ==
  LET at(v, null) == [v |-> v, null |-> null]
      rebase(v) == IF is_null_pointer_value(v) THEN at(null_address(v.t), TRUE) ELSE at(v, FALSE)
      moved(b, n, t) == IF b.v.k \in {"addr", "int"} /\ n # -1 THEN [b EXCEPT !.v = Typed(address_add_bytes(b.v, n), t)]
                        ELSE at(ce_error(m), FALSE)
      static(v) == IF Addresses(m) THEN at(v, FALSE) ELSE at(ce_error(m), FALSE)
  IN With(Core(e0), LAMBDA e :
     CASE e.k = "member" ->
            With(IF e.arrow THEN rebase(eval(e.a, m)) ELSE eval_lvalue_address(e.a, m), LAMBDA b :
              IF b.v.k = "error" THEN b
              ELSE moved(b, member_byte_offset(IF e.arrow THEN e.a.t.base ELSE e.a.t, e.name), e.t))
       [] e.k = "index" ->
            With(IF e.a.t.k # "ptr" /\ e.b.t.k = "ptr" THEN <<e.b, e.a>> ELSE <<e.a, e.b>>, LAMBDA ab :
            With(eval_lvalue_address(ab[1], m), LAMBDA b :
            With(eval(ab[2], IF m = "FOLD" THEN "FOLD" ELSE "ICE"), LAMBDA idx :
              CASE b.v.k = "error" \/ idx.k = "error" -> at(Rejected(<<b.v, idx>>), FALSE)
                [] idx.k # "int" \/ ab[1].t.k \notin {"ptr", "array"} -> at(ce_error(m), FALSE)
                [] OTHER -> IF b.v.k \in {"addr", "int"}
                            THEN [b EXCEPT !.v = Typed(address_add_bytes(b.v, i64(idx.u[2]) * ab[1].t.base.size), e.t)]
                            ELSE at(ce_error(m), FALSE))))
       [] e.k = "ident" /\ e.sym.kind = "var" ->
            IF e.sym.static THEN static(cv_addr(e.t, e.sym.name, NULL)) ELSE at(ce_error(m), FALSE)
       [] e.k = "compound" -> IF e.static THEN static(cv_addr(e.t, NoSym, <<e>>)) ELSE at(ce_error(m), FALSE)
       [] OTHER -> rebase(eval(e, m)))

\* Pointer subtraction within one object, in elements.
PointerDifference(e, m, la, ra) ==
  LET scale == IF complete_for_size(e.a.t.base) THEN e.a.t.base.size ELSE 1
      bytes == la.addend - ra.addend
  IN IF scale = 0 \/ bytes % scale # 0 THEN ce_error(m)
     ELSE cv_int(e.t, fit(e.t, u64(IF bytes < 0 THEN -((-bytes) \div scale) ELSE bytes \div scale)))

\* An address plus or minus an integer.
AddressSum(e, m, addr, off) ==
  LET scale == IF addr.t.k = "ptr" /\ complete_for_size(addr.t.base) THEN addr.t.base.size ELSE 1
  IN IF \/ ~Addresses(m) /\ ~(m = "ARITH" /\ addr.t.k = "int")
        \/ off.k # "int" \/ e.op \notin {"+", "-"}
     THEN ce_error(m)
     ELSE [addr EXCEPT !.addend = @ + (IF e.op = "-" THEN -i64(off.u[2]) ELSE i64(off.u[2])) * scale, !.t = e.t]

FloatBinary(e, m, left, right) ==
  LET f == IF e.t.k = "float" THEN e.t.f ELSE BINARY64
      carrier(v) == IF v.k = "int" THEN sf_from_int(v.u[2], FALSE, f).v ELSE v.f
  IN With(carrier(left), LAMBDA l :
  With(carrier(right), LAMBDA r :
    CASE m = "ICE" -> ce_error(m)
      [] e.op = "+" -> cv_float(e.t, sf_add(l, r, f).v)
      [] e.op = "-" -> cv_float(e.t, sf_sub(l, r, f).v)
      [] e.op = "*" -> cv_float(e.t, sf_mul(l, r, f).v)
      [] e.op = "/" -> cv_float(e.t, sf_div(l, r, f).v)
      [] e.op \in Relations ->
           With(sf_cmp(l, r), LAMBDA c : Truth(TY_INT, IF c.un THEN e.op = "!=" ELSE Compares(e.op, c.c)))
      [] OTHER -> ce_error(m)))

\* C's quotient: truncated toward zero.
Trunc(a, b) == (IF (a < 0) # (b < 0) THEN -1 ELSE 1) * (Magnitude(a) \div Magnitude(b))

NarrowBinary(e, m, l, r) ==
  LET signed == conv_is_signed(e.t)
      lsigned == conv_is_signed(e.a.t)
      result(x) == cv_int(e.t, fit(e.t, u64(x)))
      unless(bad, x) == IF bad THEN ce_error(m) ELSE result(x)
      w == conv_int_bits(e.a.t)
  IN CASE e.op = "+" -> unless(add_overflows(e.t, l, r, u64(l + r)), l + r)
       [] e.op = "-" -> unless(add_overflows(e.t, l, u64(-r), u64(l - r)), l - r)
       [] e.op = "*" -> unless(multiply_overflows(e.t, l, r), l * r)
       [] e.op \in {"/", "%"} ->
            (IF r = 0 \/ (signed_minimum_value(e.t, l) /\ r = Ones) THEN ce_error(m)
             ELSE With(IF signed THEN <<i64(l), i64(r)>> ELSE <<l, r>>, LAMBDA p :
                  result(IF e.op = "/" THEN Trunc(p[1], p[2]) ELSE p[1] - p[2] * Trunc(p[1], p[2]))))
       [] e.op \in {"<<", ">>"} ->
            (IF i64(r) < 0 \/ (w # 0 /\ r >= w) THEN ce_error(m)
             ELSE result(IF e.op = "<<" THEN l * 2 ^ r ELSE (IF lsigned THEN i64(l) ELSE l) \div 2 ^ r))
       [] e.op = "&" -> result(l & r)
       [] e.op = "|" -> result(l | r)
       [] e.op = "^" -> result(l ^^ r)
       [] e.op \in Relations -> Truth(TY_INT, Compares(e.op, IF lsigned THEN i64(l) - i64(r) ELSE l - r))
       [] e.op = "&&" -> Truth(TY_INT, l # 0 /\ r # 0)
       [] e.op = "||" -> Truth(TY_INT, l # 0 \/ r # 0)
       [] OTHER -> ce_error(m)

\* && and || do not evaluate a right side that cannot matter.
eval_binary(e, m) ==
  LET difference == e.op = "-" /\ e.a.t.k = "ptr" /\ e.b.t.k = "ptr"
      mode == IF difference /\ m = "ARITH" THEN "ADDR" ELSE m
      origin(v) == IF is_null_pointer_value(v) THEN null_address(v.t) ELSE v
      apart(l, r) == l.k = "addr" /\ r.k = "addr" /\ same_address_origin(l, r)
      both(l, r) ==
        CASE r.k = "error" -> r
          [] r.k # "error" /\ difference /\ apart(origin(l), origin(r)) -> PointerDifference(e, m, origin(l), origin(r))
          [] l.k = "addr" -> AddressSum(e, m, l, r)
          [] l.k # "addr" /\ r.k = "addr" -> AddressSum(e, m, r, l)
          [] l.k = "float" \/ r.k = "float" -> FloatBinary(e, m, l, r)
          [] type_is_int128(e.a.t) \/ type_is_int128(e.b.t) \/ type_is_int128(e.t) -> eval_binary_wide(e, m, l, r)
          [] OTHER -> NarrowBinary(e, m, l.u[2], r.u[2])
  IN With(eval(e.a, mode), LAMBDA l :
       CASE l.k = "error" -> l
         [] e.op = "&&" /\ l.k = "int" /\ ~ce_int_truth(l) -> cv_int(TY_INT, 0)
         [] e.op = "||" /\ l.k = "int" /\ ce_int_truth(l) -> cv_int(TY_INT, 1)
         [] OTHER -> With(eval(e.b, mode), LAMBDA r : both(l, r)))

\* & of a designator.
AddressOf(e, m) ==
  CASE e.a.k \in {"member", "index"} ->
         With(eval_lvalue_address(e.a, m), LAMBDA b :
           CASE b.v.k = "error" -> b.v
             [] ~b.null /\ ~Addresses(m) -> ce_error(m)
             [] OTHER -> Typed(b.v, e.t))
    [] ~Addresses(m) -> ce_error(m)
    [] e.a.k = "ident" -> IF e.a.sym.kind = "var" /\ ~e.a.sym.static THEN ce_error(m) ELSE cv_addr(e.t, e.a.sym.name, NULL)
    [] e.a.k = "compound" -> IF e.a.static THEN cv_addr(e.t, NoSym, <<e.a>>) ELSE ce_error(m)
    [] OTHER -> ce_error(m)

Unary(e, m, o) ==
  LET bits == o.u[2]
      result(x) == cv_int(e.t, fit(e.t, u64(x)))
      isWide == type_is_int128(e.a.t) \/ type_is_int128(e.t)
  IN CASE o.k = "error" -> o
       [] e.postfix -> ce_error(m)
       [] o.k = "float" -> (CASE e.op = "+" -> o
                              [] e.op = "-" -> [o EXCEPT !.f = sf_neg(o.f)]
                              [] e.op = "!" -> Truth(TY_INT, sf_is_zero(o.f))
                              [] OTHER -> ce_error(m))
       [] o.k # "int" -> cv_error
       [] isWide -> (CASE e.op = "+" -> cv_int_wide(e.t, o.u)
                       [] e.op = "-" -> IF conv_is_signed(e.t) /\ ce_wide_signed_minimum(o.u) THEN ce_error(m)
                                        ELSE cv_int_wide(e.t, ce_wide_neg(o.u))
                       [] e.op = "~" -> cv_int_wide(e.t, <<Not_(o.u[1]), Not_(o.u[2])>>)
                       [] e.op = "!" -> Truth(TY_INT, ce_wide_is_zero(o.u))
                       [] OTHER -> ce_error(m))
       [] e.op = "+" -> result(bits)
       [] e.op = "-" -> IF signed_minimum_value(e.t, bits) THEN ce_error(m) ELSE result(-bits)
       [] e.op = "~" -> result(Not_(bits))
       [] e.op = "!" -> Truth(TY_INT, bits = 0)
       [] OTHER -> ce_error(m)

\* The value o, of whatever kind, converted to the type of the cast.
FloatToInteger(t, m, f) ==
  IF type_is_int128(t)
  THEN With(sf_to_int128(f, ~t.signed), LAMBDA r : IF "invalid" \in r.st THEN ce_error(m) ELSE cv_int_wide(t, r.n))
  ELSE With(sf_to_int(f, t.w, ~t.signed), LAMBDA r :
         IF "invalid" \in r.st THEN ce_error(m) ELSE cv_int(t, fit(t, u64(r.n))))

ToFloat(t, o) ==
  CASE o.k = "float" -> sf_convert(o.f, t.f).v
    [] type_is_int128(o.t) ->
         With(o.t.signed /\ Negative(o.u), LAMBDA neg :
           sf_from_int128(IF neg THEN ce_wide_neg(o.u) ELSE o.u, neg, t.f).v)
    [] OTHER ->
         With(conv_is_signed(o.t) /\ i64(o.u[2]) < 0, LAMBDA neg :
           sf_from_int(IF neg THEN u64(-o.u[2]) ELSE o.u[2], neg, t.f).v)

Cast(e, m, o) ==
  CASE o.k = "error" -> o
    [] o.k = "addr" -> IF e.t.k = "int" /\ e.t.w # PtrBits THEN ce_error(m) ELSE Typed(o, e.t)
    [] e.t.k = "int" /\ o.k = "float" -> FloatToInteger(e.t, m, o.f)
    [] e.t.k = "int" -> IF type_is_int128(e.t) THEN cv_int_wide(e.t, o.u) ELSE cv_int(e.t, fit(e.t, o.u[2]))
    [] e.t.k = "float" -> cv_float(e.t, ToFloat(e.t, o))
    [] e.t.k = "ptr" -> IF o.k = "int" THEN cv_int(e.t, o.u[2]) ELSE Typed(o, e.t)
    [] OTHER -> ce_error(m)

EvalCast(e, m) ==
  LET mode == IF m = "ARITH" /\ e.a.t.k = "ptr" /\ e.t.k = "int" THEN "ADDR"
              ELSE IF m = "ICE" THEN "ARITH" ELSE m
  IN IF e.implicit /\ e.a.t.k = "array" /\ e.t.k = "ptr" THEN Cast(e, m, eval_lvalue_address(e.a, mode).v)
     ELSE Cast(e, m, eval(e.a, mode))

Ident(e, m) ==
  LET designator ==
        IF e.sym.kind = "func" \/ (e.sym.kind = "var" /\ e.sym.static /\ e.t.k = "array")
        THEN (IF Addresses(m) THEN cv_addr(e.t, e.sym.name, NULL) ELSE ce_error(m))
        ELSE ce_error(m)
  IN IF e.sym.kind = "enum" THEN (IF type_is_int128(e.t) THEN cv_int_wide(e.t, e.sym.value) ELSE cv_int(e.t, e.sym.value[2]))
     ELSE IF e.sym.kind = "var" /\ e.sym.init # NULL /\ m \notin {"ICE", "VLA"}
     THEN With(eval(e.sym.init[1], "FOLD"), LAMBDA v : IF v.k # "error" THEN Typed(v, e.t) ELSE designator)
     ELSE designator

\* The designator chain of __builtin_offsetof, to bytes.
RECURSIVE offsetof_walk(_, _)
offsetof_walk(e0, m) ==
  With(Core(e0), LAMBDA e :
    CASE e.k = "offsetof_base" -> 0
      [] e.k = "member" ->
           With(offsetof_walk(e.a, m), LAMBDA base :
           With(member_byte_offset(e.a.t, e.name), LAMBDA off : IF base = -1 \/ off = -1 THEN -1 ELSE base + off))
      [] e.k = "index" ->
           With(offsetof_walk(e.a, m), LAMBDA base :
           With(eval(e.b, m), LAMBDA idx :
             IF base = -1 \/ idx.k # "int" THEN -1 ELSE base + i64(idx.u[2]) * e.a.t.base.size))
      [] OTHER -> -1)

\* A string literal counts as known, and so does an element of one when optimizing.
constant_p_string_form(e0, optimize) ==
  With(Core(e0), LAMBDA e :
    \/ e.k = "string"
    \/ /\ optimize /\ e.k = "index"
       /\ With(IF e.a.t.k # "ptr" /\ e.b.t.k = "ptr" THEN <<e.b, e.a>> ELSE <<e.a, e.b>>, LAMBDA ab :
          With(Core(ab[1]), LAMBDA base :
            base.k = "string" /\ With(eval(ab[2], "FOLD"), LAMBDA idx :
              idx.k = "int" /\ i64(idx.u[2]) >= 0 /\ idx.u[2] <= Len(base.bytes)))))

constant_p_known(e, optimize) ==
  constant_p_string_form(e, optimize) \/ eval(e, "FOLD").k \in {"int", "float"}

\* The bits of an operand, counted in its width.
Leading(bits, w) == CHOOSE n \in 0..w - 1 : BitSet(bits, w - 1 - n) /\ \A j \in 0..n - 1 : ~BitSet(bits, w - 1 - j)
Trailing(bits, w) == CHOOSE n \in 0..w - 1 : BitSet(bits, n) /\ \A j \in 0..n - 1 : ~BitSet(bits, j)
Redundant(bits, w) ==
  CHOOSE n \in 0..w - 1 : /\ \A j \in 1..n : BitSet(bits, w - 1 - j) = BitSet(bits, w - 1)
                          /\ n = w - 1 \/ BitSet(bits, w - 2 - n) # BitSet(bits, w - 1)
Population(bits, w) == Repeat(w, LAMBDA j, n : n + Bool01(BitSet(bits, j)), 0)
cgf_bswap(v, bytes) ==
  Repeat(bytes, LAMBDA j, r : r * 2 ^ ByteBits + ((v \div 2 ^ (ByteBits * j)) % 2 ^ ByteBits), 0)

-----------------------------------------------------------------------------
\* __builtin_object_size: the bytes from a pointer to the end of its object (max) and of
\* the member it points into (sub); NULL when the object is not known.
Extent(max, sub) == <<[max |-> max, sub |-> sub]>>
object_extent_subtract(x, n) ==
  LET less(a) == IF n < a THEN a - n ELSE 0 IN Extent(less(x[1].max), less(x[1].sub))

RECURSIVE object_member_type(_, _)
object_member_type(t, name) ==
  With(CHOOSE f \in Fields(t) : f.name = name \/ (f.name = "" /\ f.t.k = "struct" /\ find_member_named(f.t, name)),
       LAMBDA f : IF f.name = name THEN f.t ELSE object_member_type(f.t, name))

\* Past a constant, nonnegative number of elements.
Advanced(x, idx, t, neg) ==
  With(IF idx.k = "int" /\ neg THEN -i64(idx.u[2]) ELSE IF idx.k = "int" THEN i64(idx.u[2]) ELSE -1, LAMBDA n :
    IF x = NULL \/ ~complete_for_size(t) \/ n < 0 THEN NULL ELSE object_extent_subtract(x, n * t.size))

\* The extent at an lvalue (lv) or at what a pointer points to.
RECURSIVE object_extent(_, _)
object_extent(e, lv) ==
  CASE lv /\ (e.k \in {"string", "compound"} \/ (e.k = "ident" /\ e.sym.kind = "var")) -> Extent(e.t.size, e.t.size)
    [] lv /\ e.k = "member" /\ ~e.arrow ->
         With(object_extent(e.a, TRUE), LAMBDA x :
         With(member_byte_offset(e.a.t, e.name), LAMBDA off :
           IF x = NULL \/ off = -1 THEN NULL
           ELSE [object_extent_subtract(x, off) EXCEPT ![1].sub = object_member_type(e.a.t, e.name).size]))
    [] lv /\ e.k = "index" ->
         With(IF e.a.t.k # "ptr" THEN <<e.b, e.a>> ELSE <<e.a, e.b>>, LAMBDA ab :
           IF ab[1].t.k # "ptr" THEN NULL
           ELSE Advanced(object_extent(ab[1], FALSE), eval(ab[2], "FOLD"), ab[1].t.base, FALSE))
    [] lv /\ e.k = "unary" /\ e.op = "*" -> object_extent(e.a, FALSE)
    [] ~lv /\ e.k = "cast" /\ e.implicit -> object_extent(e.a, e.a.t.k = "array")
    [] ~lv /\ e.k = "unary" /\ e.op = "&" -> object_extent(e.a, TRUE)
    [] ~lv /\ e.k = "binary" /\ e.op = "," -> object_extent(e.b, FALSE)
    [] ~lv /\ e.k = "binary" /\ e.op \in {"+", "-"} ->
         With(IF e.a.t.k # "ptr" /\ e.op = "+" THEN <<e.b, e.a>> ELSE <<e.a, e.b>>, LAMBDA ab :
           IF ab[1].t.k # "ptr" THEN NULL
           ELSE Advanced(object_extent(ab[1], FALSE), eval(ab[2], "FOLD"), ab[1].t.base, e.op = "-"))
    [] OTHER -> NULL

sema_builtin_object_size(e, mode) ==
  With(object_extent(e, FALSE), LAMBDA x :
    IF mode > 3 \/ x = NULL THEN (IF mode < 2 THEN Ones ELSE 0) ELSE IF mode % 2 = 1 THEN x[1].sub ELSE x[1].max)

-----------------------------------------------------------------------------
\* The compiler's own functions; the arguments are evaluated in order.
BitCall(op, bits, w) ==
  CASE op = "clz" -> IF bits = 0 THEN w ELSE Leading(bits, w)
    [] op = "ctz" -> IF bits = 0 THEN w ELSE Trailing(bits, w)
    [] op = "ffs" -> IF bits = 0 THEN 0 ELSE Trailing(bits, w) + 1
    [] op = "clrsb" -> Redundant(bits, w)
    [] op = "popcount" -> Population(bits, w)
    [] op = "parity" -> Population(bits, w) % 2
    [] op = "bswap" -> cgf_bswap(bits, w \div ByteBits)

Ordered(op, c) ==
  CASE op = "isunordered" -> c.un
    [] op = "isless" -> ~c.un /\ c.c < 0
    [] op = "islessequal" -> ~c.un /\ c.c <= 0
    [] op = "isgreater" -> ~c.un /\ c.c > 0
    [] op = "isgreaterequal" -> ~c.un /\ c.c >= 0
    [] op = "islessgreater" -> ~c.un /\ c.c # 0

Classified(op, f) ==
  CASE op = "isnan" -> Bool01(f.cls = "nan")
    [] op = "isinf" -> Bool01(f.cls = "inf")
    [] op = "isinf_sign" -> IF f.cls # "inf" THEN 0 ELSE IF f.sign = 1 THEN Ones ELSE 1
    [] op = "isfinite" -> Bool01(f.cls \notin {"inf", "nan"})
    [] op = "signbit" -> f.sign

OverflowCalls == {"add_overflow_p", "sub_overflow_p", "mul_overflow_p"}
BitCalls == {"clz", "ctz", "ffs", "clrsb", "popcount", "parity", "bswap"}
OrderCalls == {"isunordered", "isless", "islessequal", "isgreater", "isgreaterequal", "islessgreater"}
ClassCalls == {"isnan", "isinf", "isinf_sign", "isfinite", "signbit"}

Applied(e, m, v) ==
  LET all(k) == \A j \in DOMAIN v : v[j].k = k
  IN CASE e.op \in OverflowCalls \cup BitCalls \cup {"abs"} /\ ~all("int") -> Rejected(v)
       [] e.op \in OrderCalls \cup ClassCalls \cup {"fabs", "copysign"} /\ ~all("float") -> Rejected(v)
       [] e.op = "mul_overflow_p" ->
            Truth(e.t, ce_mul_overflow_p(ce_overflow_integer(v[1]), ce_overflow_integer(v[2]), e.args[3].t))
       [] e.op \in OverflowCalls ->
            Truth(e.t, ce_addsub_overflow_wide_p(ce_overflow_integer(v[1]), ce_overflow_integer(v[2]), e.args[3].t,
                                                 e.op = "sub_overflow_p"))
       [] e.op \in BitCalls -> cv_int(e.t, BitCall(e.op, v[1].u[2] % 2 ^ e.args[1].t.w, e.args[1].t.w))
       [] e.op = "abs" ->
            With(v[1].u[2], LAMBDA bits :
              IF signed_minimum_value(e.t, bits) THEN ce_error(m)
              ELSE cv_int(e.t, IF BitSet(bits, e.t.w - 1) THEN fit(e.t, u64(-bits)) ELSE bits))
       [] e.op \in OrderCalls -> Truth(e.t, Ordered(e.op, sf_cmp(v[1].f, v[2].f)))
       [] e.op \in ClassCalls -> cv_int(e.t, Classified(e.op, v[1].f))
       [] e.op = "fabs" -> [v[1] EXCEPT !.f.sign = 0, !.t = e.t]
       [] e.op = "copysign" -> [v[1] EXCEPT !.f.sign = v[2].f.sign, !.t = e.t]

Call(e, m) ==
  LET floats == e.op \in OrderCalls \cup ClassCalls \cup {"fabs", "copysign"}
      mode == IF floats /\ is_required(m) THEN "ARITH" ELSE m
  IN CASE e.op = "constant_p" -> Truth(e.t, constant_p_known(e.args[1], e.optimize))
       [] e.op = "object_size" ->
            With(eval(e.args[2], "ICE"), LAMBDA mv :
              IF mv.k # "int" \/ mv.u[2] > 3 THEN Rejected(<<mv>>)
              ELSE cv_int(e.t, sema_builtin_object_size(e.args[1], mv.u[2])))
       [] e.op \in {"inf", "nan"} -> IF m = "ICE" THEN ce_error(m) ELSE cv_special_float(e.t, e.op)
       [] e.op = "other" -> ce_error(m)
       [] OTHER -> Applied(e, m, [j \in DOMAIN e.args |-> eval(e.args[j], mode)])

\* Only the branch that is taken is evaluated; a ?: b has no middle.
Conditional(e, m) ==
  With(eval(e.a, m), LAMBDA c :
    IF c.k = "error" THEN c
    ELSE IF (IF c.k = "float" THEN ~sf_is_zero(c.f) ELSE IF c.k = "int" THEN ce_int_truth(c) ELSE FALSE)
    THEN (IF e.elvis THEN c ELSE eval(e.b, m))
    ELSE eval(e.c, m))

SizeofExpr(e) == IF complete_for_size(e.of) THEN cv_int(e.t, e.of.size) ELSE cv_int(e.t, 1)

eval(e, m) ==
  CASE e.k = "lit" -> cv_int(e.t, e.v)
    [] e.k = "float" -> IF m = "ICE" THEN ce_error(m) ELSE cv_float(e.t, constexpr_parse_float(e.sp, e.t.f).v)
    [] e.k = "string" -> IF Addresses(m) THEN cv_addr(e.t, NoSym, <<e>>) ELSE ce_error(m)
    [] e.k = "compound" ->
         IF e.t.k = "array" /\ e.static /\ Addresses(m) THEN cv_addr(e.t, NoSym, <<e>>) ELSE ce_error(m)
    [] e.k = "choose" -> eval(IF e.taken THEN e.b ELSE e.c, m)
    [] e.k = "ident" -> Ident(e, m)
    [] e.k = "unary" /\ e.op = "&" -> AddressOf(e, m)
    [] e.k = "unary" /\ e.op # "&" -> Unary(e, m, eval(e.a, m))
    [] e.k = "binary" -> eval_binary(e, m)
    [] e.k = "cond" -> Conditional(e, m)
    [] e.k = "cast" -> EvalCast(e, m)
    [] e.k = "sizeof" -> SizeofExpr(e)
    [] e.k = "offsetof" ->
         With(offsetof_walk(e.a, m), LAMBDA off : IF off = -1 THEN ce_error(m) ELSE cv_int(e.t, off))
    [] e.k = "call" -> Call(e, m)
    [] OTHER -> ce_error(m)

-----------------------------------------------------------------------------
\* The run-time helpers.
pair_cmp(a, b) ==
  CASE a[1] # b[1] -> IF a[1] < b[1] THEN -1 ELSE 1 [] a[2] < b[2] -> -1 [] a[2] > b[2] -> 1 [] OTHER -> 0
pair_sub(a, b) == <<u64(a[1] - b[1] - Bool01(a[2] < b[2])), u64(a[2] - b[2])>>
pair_neg(a) == With(u64(Not_(a[2]) + 1), LAMBDA lo : <<u64(Not_(a[1]) + Bool01(lo = 0)), lo>>)
pair_shl1(a) == <<u64(a[1] * 2) + (a[2] \div Top), u64(a[2] * 2)>>
pair_bit(a, n) == Bool01(IF n >= LimbBits THEN BitSet(a[1], n - LimbBits) ELSE BitSet(a[2], n))
pair_set_bit(a, n) == IF n >= LimbBits THEN <<a[1] + 2 ^ (n - LimbBits), a[2]>> ELSE <<a[1], a[2] + 2 ^ n>>

udiv128(n, d) ==
  IF n[1] = 0 /\ d[1] = 0 THEN [q |-> <<0, n[2] \div d[2]>>, r |-> <<0, n[2] % d[2]>>]
  ELSE Repeat(2 * LimbBits, LAMBDA j, s :
         With(pair_shl1(s.r), LAMBDA t :
         With(<<t[1], t[2] + pair_bit(n, 2 * LimbBits - 1 - j)>>, LAMBDA r :
           IF s.r[1] >= Top \/ pair_cmp(r, d) >= 0
           THEN [q |-> pair_set_bit(s.q, 2 * LimbBits - 1 - j), r |-> pair_sub(r, d)]
           ELSE [s EXCEPT !.r = r])),
         [q |-> <<0, 0>>, r |-> <<0, 0>>])

udivti3(a, b) == udiv128(a, b).q
umodti3(a, b) == udiv128(a, b).r
PairMagnitude(a) == IF a[1] >= Top THEN pair_neg(a) ELSE a
divti3(a, b) ==
  With(udiv128(PairMagnitude(a), PairMagnitude(b)).q, LAMBDA q : IF (a[1] >= Top) # (b[1] >= Top) THEN pair_neg(q) ELSE q)
modti3(a, b) ==
  With(udiv128(PairMagnitude(a), PairMagnitude(b)).r, LAMBDA r : IF a[1] >= Top THEN pair_neg(r) ELSE r)

mul64(a, b) ==
  LET a0 == a % Half
      b0 == b % Half
  IN With(u64((a \div Half) * b0 + ((a0 * b0) \div Half)), LAMBDA t :
     With(u64(a0 * (b \div Half) + (t % Half)), LAMBDA s :
       <<u64((a \div Half) * (b \div Half) + (t \div Half) + (s \div Half)), u64(s * Half + ((a0 * b0) % Half))>>))
multi3(a, b) == With(mul64(a[2], b[2]), LAMBDA r : <<u64(r[1] + a[1] * b[2] + a[2] * b[1]), r[2]>>)

ashlti3(a, n) ==
  CASE n <= 0 -> a
    [] n < LimbBits -> <<u64(a[1] * 2 ^ n) + (a[2] \div 2 ^ (LimbBits - n)), u64(a[2] * 2 ^ n)>>
    [] n < 2 * LimbBits -> <<u64(a[2] * 2 ^ (n - LimbBits)), 0>>
    [] OTHER -> <<0, 0>>
lshrti3(a, n) ==
  CASE n <= 0 -> a
    [] n < LimbBits -> <<a[1] \div 2 ^ n, (a[2] \div 2 ^ n) + u64(a[1] * 2 ^ (LimbBits - n))>>
    [] n < 2 * LimbBits -> <<0, a[1] \div 2 ^ (n - LimbBits)>>
    [] OTHER -> <<0, 0>>
ashrti3(a, n) ==
  LET fill == IF a[1] >= Top THEN Ones ELSE 0
  IN CASE n <= 0 -> a
       [] n < LimbBits -> <<(a[1] \div 2 ^ n) + u64(fill * 2 ^ (LimbBits - n)),
                            (a[2] \div 2 ^ n) + u64(a[1] * 2 ^ (LimbBits - n))>>
       [] n = LimbBits -> <<fill, a[1]>>
       [] n < 2 * LimbBits -> <<fill, (a[1] \div 2 ^ (n - LimbBits)) + u64(fill * 2 ^ (2 * LimbBits - n))>>
       [] OTHER -> <<fill, fill>>

\* Each step clears the lowest bit set.
popcountdi2(a) == Repeat(LimbBits, LAMBDA j, s : IF s.a = 0 THEN s ELSE [a |-> s.a & (s.a - 1), n |-> s.n + 1], [a |-> a, n |-> 0]).n
clzdi2(a) == Repeat(LimbBits, LAMBDA j, s : IF s.a >= Top THEN s ELSE [a |-> u64(s.a * 2), n |-> s.n + 1], [a |-> a, n |-> 0]).n
ctzdi2(a) == Repeat(LimbBits, LAMBDA j, s : IF s.a % 2 = 1 THEN s ELSE [a |-> s.a \div 2, n |-> s.n + 1], [a |-> a, n |-> 0]).n

Helper(op, a, b) ==
  CASE op = "udivti3" -> udivti3(a, b) [] op = "umodti3" -> umodti3(a, b)
    [] op = "divti3" -> divti3(a, b) [] op = "modti3" -> modti3(a, b) [] op = "multi3" -> multi3(a, b)
    [] op = "ashlti3" -> ashlti3(a, b[2]) [] op = "lshrti3" -> lshrti3(a, b[2]) [] op = "ashrti3" -> ashrti3(a, b[2])
    [] op = "popcountdi2" -> <<0, popcountdi2(a[2])>> [] op = "clzdi2" -> <<0, clzdi2(a[2])>>
    [] op = "ctzdi2" -> <<0, ctzdi2(a[2])>>

\* What a request computes: a folded expression, or a call of a helper.
Compute(c) == IF c.op = "const" THEN eval(c.e, c.m) ELSE Helper(c.op, c.a, c.b)

-----------------------------------------------------------------------------
\* What C says: integers are mathematical integers, a signed result out of range and a
\* division by zero have no value; conversions, unsigned arithmetic and (as GNU C defines
\* them) left shifts are modulo 2^w.
\* An expression means an integer, a float image, a place in an object, "undef" when C
\* gives it no value, or "any" when the implementation chooses.
Means(n) == [k |-> "int", n |-> n]
Undef == [k |-> "undef"]
Whichever == [k |-> "any"]
Place(obj, size, off) == [k |-> "addr", obj |-> obj, size |-> size, off |-> off]
Least_(t) == IF t.signed THEN -(2 ^ (t.w - 1)) ELSE 0
Most(t) == IF t.signed THEN 2 ^ (t.w - 1) - 1 ELSE 2 ^ t.w - 1
Wrapped(t, n) == With(n % 2 ^ t.w, LAMBDA r : IF t.signed /\ r >= 2 ^ (t.w - 1) THEN r - 2 ^ t.w ELSE r)
InType(t, n) == IF n \in Least_(t) .. Most(t) THEN Means(n) ELSE IF t.signed THEN Undef ELSE Means(Wrapped(t, n))
Shifted(t, a, n) == Repeat(n, LAMBDA j, x : (x * 2) % 2 ^ t.w, a)
\* A product modulo 2^w, within the integers at hand.
TimesMod(t, a, b) == (a * (b % Word) + Word * ((a * (b \div Word)) % 2 ^ (t.w - Least(t.w, LimbBits)))) % 2 ^ t.w

CInt(op, t, ta, a, b) ==
  CASE op = "+" -> InType(t, a + b)
    [] op = "-" -> InType(t, a - b)
    [] op = "*" -> IF t.signed THEN InType(t, a * b) ELSE Means(TimesMod(t, a, b))
    [] op = "/" -> IF b = 0 THEN Undef ELSE InType(t, Trunc(a, b))
    [] op = "%" -> IF b = 0 \/ Trunc(a, b) > Most(t) THEN Undef ELSE Means(a - b * Trunc(a, b))
    [] op = "<<" -> IF b \notin 0..ta.w - 1 THEN Undef
                    ELSE Means(Wrapped(ta, Shifted(ta, a % 2 ^ ta.w, b)))
    [] op = ">>" -> IF b \notin 0..ta.w - 1 THEN Undef ELSE Means(a \div 2 ^ b)
    [] op = "&" -> Means(Wrapped(t, (a % 2 ^ t.w) & (b % 2 ^ t.w)))
    [] op = "|" -> Means(Wrapped(t, (a % 2 ^ t.w) | (b % 2 ^ t.w)))
    [] op = "^" -> Means(Wrapped(t, (a % 2 ^ t.w) ^^ (b % 2 ^ t.w)))
    [] op \in Relations -> Means(Bool01(Compares(op, a - b)))
    [] op \in {"&&", "||"} -> Means(Bool01(IF op = "&&" THEN a # 0 /\ b # 0 ELSE a # 0 \/ b # 0))

Floating(img) == [k |-> "float", img |-> img]
FloatLiteral(sp, f) ==
  With(sp.e - Len(sp.frac) * (IF sp.hex THEN 4 ELSE 1), LAMBDA e :
  With(Digits(sp.whole \o sp.frac, IF sp.hex THEN 16 ELSE 10), LAMBDA n :
    IF sp.hex THEN NearestInt(f, 0, n, 1, e).img
    ELSE NearestInt(f, 0, n * 10 ^ (IF e > 0 THEN e ELSE 0), 10 ^ (IF e < 0 THEN -e ELSE 0), 0).img))

Converted(img, f, to) ==
  With(Decoded(img, f), LAMBDA v :
    CASE v.cls = "nan" -> AnyNaN
      [] v.cls = "inf" -> Infinity(to, v.sign)
      [] v.cls = "zero" -> SignedZero(to, v.sign)
      [] OTHER -> Nearest(to, v.sign, v.sig, 1, v.exp).img)

CCast(t, from, c) ==
  CASE c.k \in {"undef", "any"} -> c
    [] t.k = "int" /\ c.k = "int" -> Means(IF t.w = 1 THEN Bool01(c.n # 0) ELSE Wrapped(t, c.n))
    [] t.k = "int" /\ c.k = "float" ->
         With(IF c.img = AnyNaN THEN [cls |-> "nan"] ELSE Decoded(c.img, from.f), LAMBDA v :
           IF v.cls # "nan" /\ t.w = 1 THEN Means(Bool01(v.cls # "zero"))
           ELSE IF InRange(v, t.w, ~t.signed) THEN Means(Whole(v)) ELSE Undef)
    [] t.k = "float" /\ c.k = "int" -> Floating(NearestInt(t.f, Bool01(c.n < 0), Magnitude(c.n), 1, 0).img)
    [] t.k = "float" /\ c.k = "float" -> IF c.img = AnyNaN THEN c ELSE Floating(Converted(c.img, from.f, t.f))
    [] OTHER -> c

CCompare(op, f, a, b) ==
  With(IF a.img = AnyNaN \/ b.img = AnyNaN THEN "unordered" ELSE Ordering(f, a.img, b.img), LAMBDA o :
    Bool01(CASE op \in {"<", "isless"} -> o = "less"
             [] op \in {">", "isgreater"} -> o = "greater"
             [] op \in {"<=", "islessequal"} -> o \in {"less", "equal"}
             [] op \in {">=", "isgreaterequal"} -> o \in {"greater", "equal"}
             [] op = "==" -> o = "equal"
             [] op = "!=" -> o # "equal"
             [] op = "isunordered" -> o = "unordered"
             [] op = "islessgreater" -> o \in {"less", "greater"}))

IsZero(c, t) == IF c.k = "int" THEN c.n = 0 ELSE IF c.k = "float" THEN Decoded(c.img, t.f).cls = "zero" ELSE FALSE

CBinary(e, a, b) ==
  CASE a.k = "undef" \/ b.k = "undef" -> Undef
    [] a.k = "any" \/ b.k = "any" -> Whichever
    [] a.k = "int" /\ b.k = "int" -> CInt(e.op, e.t, e.a.t, a.n, b.n)
    [] a.k = "addr" /\ b.k = "addr" ->
         IF a.obj = b.obj /\ e.op = "-" THEN Means(Trunc(a.off - b.off, e.a.t.base.size)) ELSE Whichever
    [] a.k = "addr" -> Place(a.obj, a.size, a.off + (IF e.op = "-" THEN -b.n ELSE b.n) * e.a.t.base.size)
    [] b.k = "addr" -> Place(b.obj, b.size, b.off + a.n * e.b.t.base.size)
    [] e.op \in Relations -> Means(CCompare(e.op, e.a.t.f, a, b))
    [] OTHER -> Floating(IF a.img = AnyNaN \/ b.img = AnyNaN THEN AnyNaN ELSE Ieee(e.op, e.t.f, a.img, b.img).img)

CUnary(e, a) ==
  CASE a.k \in {"undef", "any"} -> a
    [] e.op = "!" -> Means(Bool01(IsZero(a, e.a.t)))
    [] e.op = "+" -> a
    [] a.k = "int" -> IF e.op = "-" THEN InType(e.t, -a.n) ELSE Means(Wrapped(e.t, -a.n - 1))
    [] OTHER -> Floating(IF a.img = AnyNaN THEN a.img ELSE Ieee("*", e.t.f, a.img, Ieee("-", e.t.f, 0, Nearest(e.t.f, 0, 1, 1, 0).img).img).img)

\* The bit functions, from the bits of the operand.
CBits(op, n, w) ==
  LET on == {j \in 0..w - 1 : BitSet(n % 2 ^ w, j)}
      top == CHOOSE j \in on : \A i \in on : i <= j
      low == CHOOSE j \in on : \A i \in on : j <= i
      size == Population(n % 2 ^ w, w)
  IN CASE op \in {"clz", "ctz"} -> IF on = {} THEN Whichever ELSE Means(IF op = "clz" THEN w - 1 - top ELSE low)
       [] op = "ffs" -> Means(IF on = {} THEN 0 ELSE low + 1)
       [] op = "clrsb" -> Means(CHOOSE c \in 0..w - 1 :
                                  /\ \A j \in 0..c : ((w - 1 - j) \in on) = ((w - 1) \in on)
                                  /\ c = w - 1 \/ ((w - 2 - c) \in on) # ((w - 1) \in on))
       [] op = "popcount" -> Means(size)
       [] op = "parity" -> Means(size % 2)
       [] op = "bswap" -> Means(Repeat(w, LAMBDA j, x :
                            x + (IF j \in on THEN 2 ^ (w - ByteBits * ((j \div ByteBits) + 1) + (j % ByteBits)) ELSE 0), 0))

CCall(e, a) ==
  LET f == e.args[1].t.f
  IN With(IF a[1].img = AnyNaN THEN [cls |-> "nan", sign |-> 0] ELSE Decoded(a[1].img, f), LAMBDA v :
  LET exact == CASE e.op = "add_overflow_p" -> a[1].n + a[2].n
                 [] e.op = "sub_overflow_p" -> a[1].n - a[2].n
                 [] e.op = "mul_overflow_p" -> a[1].n * a[2].n
  IN CASE \E j \in DOMAIN a : a[j].k \in {"undef", "any"} -> Whichever
       [] e.op \in OverflowCalls -> Means(Bool01(exact \notin Least_(e.args[3].t) .. Most(e.args[3].t)))
       [] e.op \in BitCalls -> CBits(e.op, a[1].n, e.args[1].t.w)
       [] e.op = "abs" -> InType(e.t, Magnitude(a[1].n))
       [] e.op \in OrderCalls -> Means(CCompare(e.op, f, a[1], a[2]))
       [] e.op = "isnan" -> Means(Bool01(v.cls = "nan"))
       [] e.op = "isinf" -> Means(Bool01(v.cls = "inf"))
       [] e.op = "isinf_sign" -> Means(IF v.cls # "inf" THEN 0 ELSE 1 - 2 * v.sign)
       [] e.op = "isfinite" -> Means(Bool01(v.cls \in {"zero", "normal"}))
       [] e.op = "signbit" -> IF v.cls = "nan" THEN Whichever ELSE Means(v.sign)
       [] e.op = "inf" -> Floating(Infinity(e.t.f, 0))
       [] e.op = "nan" -> Floating(AnyNaN)
       [] e.op = "object_size" /\ a[2].n \in {0, 2} ->
            IF a[1].obj = <<>> THEN Whichever ELSE Means(IF a[1].off < a[1].size THEN a[1].size - a[1].off ELSE 0)
       [] OTHER -> Whichever)

\* The meaning of an expression, and (place) of an lvalue.
RECURSIVE Meaning(_, _)
Meaning(e, place) ==
  CASE e.k = "lit" -> Means(IF e.t.signed THEN i64(e.v) ELSE e.v)
    [] e.k = "float" -> Floating(FloatLiteral(e.sp, e.t.f))
    [] e.k = "string" \/ e.k = "compound" -> Place(IF e.k = "string" THEN <<e.enc, e.bytes>> ELSE <<e.id>>, e.t.size, 0)
    [] e.k = "choose" -> Meaning(IF e.taken THEN e.b ELSE e.c, FALSE)
    [] e.k = "ident" /\ e.sym.kind = "enum" -> Means(Signed(e.sym.value[1] * Word + e.sym.value[2], 2 * LimbBits, ~e.t.signed))
    [] e.k = "ident" /\ ~place /\ e.sym.kind = "var" /\ e.sym.init # NULL -> Meaning(e.sym.init[1], FALSE)
    [] e.k = "ident" -> Place(<<e.sym.name>>, e.t.size, 0)
    [] e.k = "member" -> With(Meaning(e.a, ~e.arrow), LAMBDA b :
                           Place(b.obj, b.size, b.off + member_byte_offset(IF e.arrow THEN e.a.t.base ELSE e.a.t, e.name)))
    [] e.k = "index" -> CBinary(e, Meaning(e.a, FALSE), Meaning(e.b, FALSE))
    [] e.k = "unary" /\ e.op = "&" -> Meaning(e.a, TRUE)
    [] e.k = "unary" -> CUnary(e, Meaning(e.a, FALSE))
    [] e.k = "binary" /\ e.op \in {"&&", "||"} ->
         With(Meaning(e.a, FALSE), LAMBDA a :
           IF a.k = "int" /\ (a.n = 0) = (e.op = "&&") THEN Means(Bool01(e.op = "||"))
           ELSE CBinary(e, a, Meaning(e.b, FALSE)))
    [] e.k = "binary" -> CBinary(e, Meaning(e.a, FALSE), Meaning(e.b, FALSE))
    [] e.k = "cond" -> With(Meaning(e.a, FALSE), LAMBDA a :
                         IF a.k \in {"undef", "any"} THEN a
                         ELSE IF IsZero(a, e.a.t) THEN Meaning(e.c, FALSE) ELSE IF e.elvis THEN a ELSE Meaning(e.b, FALSE))
    [] e.k = "cast" -> IF e.t.k = "ptr" /\ e.a.k = "lit" THEN Place(<<>>, 0, e.a.v)
                       ELSE CCast(e.t, e.a.t, Meaning(e.a, e.implicit))
    [] e.k = "sizeof" -> Means(e.of.size)
    [] e.k = "offsetof" -> Means(Meaning(e.a, TRUE).off)
    [] e.k = "offsetof_base" -> Place(<<>>, 0, 0)
    [] e.k = "call" -> CCall(e, [j \in DOMAIN e.args |-> Meaning(e.args[j], FALSE)])

\* The integer a value stands for, all of its bits counted.
MathValue(v) == Signed(v.u[1] * Word + v.u[2], 2 * LimbBits, ~conv_is_signed(v.t))

\* A folded integer is the one C gives, whatever the context; what has no value is
\* rejected, and reported where a constant is required; integers always fold.
FoldedRight(c, v) ==
  With(Meaning(c.e, FALSE), LAMBDA want :
    /\ v.k = "error" /\ is_required(c.m) => v.said
    /\ want.k = "undef" => v.k = "error"
    /\ v.k = "int" /\ v.t.k = "int" => want.k \in {"int", "any"} /\ (want.k = "int" => MathValue(v) = want.n)
    /\ v.k = "float" => want.k = "float" /\ Agrees(sf_to_bits(v.f, v.t.f), v.t.f, [img |-> want.img, exact |-> FALSE])
    /\ v.k = "addr" => want.k = "addr" /\ v.addend = want.off /\ (v.sym # NoSym => want.obj = <<v.sym>>)
    /\ want.k = "int" /\ c.whole => v.k = "int")

\* The same numbers from the run-time library.
HelperRight(c, r) ==
  LET a == c.a[1] * Word + c.a[2]
      b == c.b[1] * Word + c.b[2]
      sa == Signed(a, 2 * LimbBits, FALSE)
      sb == Signed(b, 2 * LimbBits, FALSE)
      U == [k |-> "int", w |-> 2 * LimbBits, signed |-> FALSE]
      n == r[1] * Word + r[2]
  IN With(CASE c.op = "udivti3" -> a \div b
            [] c.op = "umodti3" -> a % b
            [] c.op = "divti3" -> Trunc(sa, sb)
            [] c.op = "modti3" -> sa - sb * Trunc(sa, sb)
            [] c.op = "multi3" -> TimesMod(U, a, b)
            [] c.op = "ashlti3" -> Shifted(U, a, b)
            [] c.op = "lshrti3" -> a \div 2 ^ b
            [] c.op = "ashrti3" -> sa \div 2 ^ b
            [] c.op = "popcountdi2" -> Population(a, LimbBits)
            [] c.op = "clzdi2" -> Leading(a, LimbBits)
            [] c.op = "ctzdi2" -> Trailing(a, LimbBits), LAMBDA right :
    n = right % 2 ^ (2 * LimbBits))

ComputedRight(c, v) == IF c.op = "const" THEN FoldedRight(c, v) ELSE HelperRight(c, v)
=============================================================================
