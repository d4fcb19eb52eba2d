----------------------------- MODULE SoftFloat ------------------------------
(***************************************************************************)
(* Compile-time floating point (src/util/softfp.c), the big integers of    *)
(* its decimal conversion (src/util/bigint.c) and the run-time binary128   *)
(* and 128-bit conversion entry points (src/rt/fp128.c).  A word has       *)
(* LimbBits bits and a significand two words; a value is                   *)
(* (-1)^sign * u * 2^exp with an integer significand u.  Bit images are    *)
(* integers.  An operation returns its value v and the status flags st it  *)
(* raises.                                                                 *)
(***************************************************************************)
EXTENDS Integers, Sequences

CONSTANTS
  LimbBits,                     \* 64
  BIGINT_WORDS,                 \* 768
  DivBits,                      \* 120: the width both operands of a division get
  Chunk,                        \* 9: the power of ten multiplied by at once
  BINARY32, BINARY64, X87, BINARY128

Word == 2 ^ LimbBits
HalfBits == LimbBits \div 2
Half == 2 ^ HalfBits

With(x, op(_)) == op(x)
Repeat(n, step(_, _), x) ==
  LET RECURSIVE loop(_, _)
      loop(i, s) == IF i >= n THEN s ELSE CHOOSE r \in {loop(i + 1, t) : t \in {step(i, s)}} : TRUE
  IN loop(0, x)
Least(a, b) == IF a < b THEN a ELSE b
Bool01(b) == IF b THEN 1 ELSE 0
\* The bits of a word, up to its top one.
WordBits(w) == CHOOSE n \in 0..LimbBits : w < 2 ^ n /\ (n > 0 => 2 ^ (n - 1) <= w)

-----------------------------------------------------------------------------
\* Two words <<hi, lo>>.
u128_shl(u, n) ==
  CASE n <= 0 -> u
    [] n >= 2 * LimbBits -> <<0, 0>>
    [] n >= LimbBits -> <<(u[2] * 2 ^ (n - LimbBits)) % Word, 0>>
    [] OTHER -> <<((u[1] * 2 ^ n) % Word) + (u[2] \div 2 ^ (LimbBits - n)), (u[2] * 2 ^ n) % Word>>

\* One bit at a time; every 1 that falls out is sticky.
u128_shr_sticky(u, n) ==
  IF n >= 2 * LimbBits THEN [u |-> <<0, 0>>, sticky |-> u # <<0, 0>>]
  ELSE Repeat(n, LAMBDA i, s :
                   [u |-> <<s.u[1] \div 2, (s.u[2] \div 2) + ((s.u[1] * 2 ^ (LimbBits - 1)) % Word)>>,
                    sticky |-> s.sticky \/ s.u[2] % 2 = 1],
              [u |-> u, sticky |-> FALSE])

u128_bitlen(u) == IF u[1] # 0 THEN WordBits(u[1]) + LimbBits ELSE WordBits(u[2])

u128_add(u, a) ==
  With((u[2] + a[2]) % Word, LAMBDA lo : <<(u[1] + a[1] + Bool01(lo < u[2])) % Word, lo>>)

u128_cmp(a, b) ==
  CASE a[1] # b[1] -> (IF a[1] < b[1] THEN -1 ELSE 1)
    [] a[2] # b[2] -> (IF a[2] < b[2] THEN -1 ELSE 1)
    [] OTHER -> 0

u128_sub(u, b) == <<(u[1] - b[1] - Bool01(u[2] < b[2])) % Word, (u[2] - b[2]) % Word>>

BitOf(u, n) == IF n < LimbBits THEN (u[2] \div 2 ^ n) % 2 ELSE (u[1] \div 2 ^ (n - LimbBits)) % 2

-----------------------------------------------------------------------------
\* A format: exponent bits, stored fraction bits, whether the leading 1 is stored.
prec_of(f) == IF f.explicit THEN f.frac ELSE f.frac + 1
emax_of(f) == 2 ^ (f.exp - 1) - 1
emin_of(f) == 1 - emax_of(f)

Sf(cls, sign, u, exp) == [cls |-> cls, sign |-> sign, u |-> u, exp |-> exp]
Zero(sign) == Sf("zero", sign, <<0, 0>>, 0)
Inf(sign) == Sf("inf", sign, <<0, 0>>, 0)
NaN == Sf("nan", 0, <<0, 0>>, 0)
Out(v, st) == [v |-> v, st |-> st]

\* Drops the low `shift` bits: the highest of them is the round bit, the others are
\* sticky.
Dropped(r, shift) ==
  With(u128_shr_sticky(r.u, shift - 1), LAMBDA s :
    [u |-> u128_shr_sticky(s.u, 1).u, exp |-> r.exp + shift,
     round |-> BitOf(r.u, shift - 1) = 1, sticky |-> r.sticky \/ s.sticky])

\* Exactly prec bits.
Normalized(r, prec) ==
  With(u128_bitlen(r.u), LAMBDA bits :
    IF bits > prec THEN Dropped(r, bits - prec)
    ELSE [r EXCEPT !.u = u128_shl(r.u, prec - bits), !.exp = r.exp - (prec - bits)])

\* Below the least exponent, precision is lost instead.
MutSubnormal(r, least) == Dropped(r, least - r.exp)
Subnormal(r, least) == Dropped([r EXCEPT !.sticky = r.sticky \/ r.round], least - r.exp)

\* To nearest, ties to even; a carry out of the top widens by one bit.
Rounded(r, prec) ==
  IF ~(r.round /\ (r.sticky \/ r.u[2] % 2 = 1)) THEN r
  ELSE With(u128_add(r.u, <<0, 1>>), LAMBDA u :
         IF u128_bitlen(u) > prec THEN [r EXCEPT !.u = u128_shr_sticky(u, 1).u, !.exp = r.exp + 1]
         ELSE [r EXCEPT !.u = u])

Packed(sign, r, under, f) ==
  LET inexact == IF r.round \/ r.sticky THEN {"inexact"} ELSE {}
  IN CASE r.exp + prec_of(f) - 1 > emax_of(f) ->
            Out(Inf(IF r.u = <<0, 0>> THEN 0 ELSE sign), {"overflow", "inexact"} \cup under)
       [] r.u = <<0, 0>> -> Out(Zero(0), inexact \cup under)
       [] OTHER -> Out(Sf("normal", sign, r.u, r.exp), inexact \cup under)

round_pack(sign, u, exp, sticky, f) ==
  LET least == emin_of(f) - (prec_of(f) - 1)
  IN IF u = <<0, 0>> /\ ~sticky THEN Out(Zero(0), {})
     ELSE With(Normalized([u |-> u, exp |-> exp, round |-> FALSE, sticky |-> sticky], prec_of(f)), LAMBDA r :
       IF least - r.exp >= 2 * LimbBits THEN Out(Zero(sign), {"underflow", "inexact"})
       ELSE With(IF r.exp < least THEN Subnormal(r, least) ELSE r, LAMBDA s :
              Packed(sign, Rounded(s, prec_of(f)), IF r.exp < least THEN {"underflow"} ELSE {}, f)))

-----------------------------------------------------------------------------
\* Big integers: the words, least significant first, none of them a leading zero.
Big(w) == [w |-> w, overflow |-> FALSE]
bigint_set_u64(v) == Big(IF v = 0 THEN <<>> ELSE <<v>>)
trim(b) == [b EXCEPT !.w = SubSeq(b.w, 1, CHOOSE n \in 0..Len(b.w) : /\ n = 0 \/ b.w[n] # 0
                                                                     /\ \A i \in n + 1 .. Len(b.w) : b.w[i] = 0)]
bigint_bitlen(b) == IF b.w = <<>> THEN 0 ELSE (Len(b.w) - 1) * LimbBits + WordBits(b.w[Len(b.w)])

bigint_cmp(a, b) ==
  IF Len(a.w) # Len(b.w) THEN (IF Len(a.w) < Len(b.w) THEN -1 ELSE 1)
  ELSE LET differ == {i \in DOMAIN a.w : a.w[i] # b.w[i]}
           top == CHOOSE i \in differ : \A j \in differ : j <= i
       IN IF differ = {} THEN 0 ELSE IF a.w[top] < b.w[top] THEN -1 ELSE 1

bigint_test_bit(b, bit) ==
  bit \div LimbBits < Len(b.w) /\ (b.w[bit \div LimbBits + 1] \div 2 ^ (bit % LimbBits)) % 2 = 1

\* The words after a pass from the lowest up, and the carry out of the top one; step
\* takes a word and the carry into it to <<word, carry>>.
Carried(w, step(_, _), carry) ==
  Repeat(Len(w), LAMBDA i, s : With(step(w[i + 1], s.carry), LAMBDA r :
                                    [w |-> Append(s.w, r[1]), carry |-> r[2]]),
         [w |-> <<>>, carry |-> carry])

bigint_shl(b, bits) ==
  LET words == bits \div LimbBits
      rem == bits % LimbBits
      shifted == Carried(b.w, LAMBDA v, c : <<((v * 2 ^ rem) % Word) + c, v \div 2 ^ (LimbBits - rem)>>, 0)
  IN CASE b.w = <<>> \/ bits = 0 -> b
       [] Len(b.w) + words + 1 > BIGINT_WORDS -> [b EXCEPT !.overflow = TRUE]
       [] OTHER -> [b EXCEPT !.w = [i \in 1..words |-> 0] \o
                      (IF rem = 0 THEN b.w
                       ELSE With(shifted, LAMBDA s : IF s.carry = 0 THEN s.w ELSE Append(s.w, s.carry)))]

\* The carry becomes a word of its own, unless there is none left.
Topped(b, s) ==
  CASE s.carry = 0 -> [b EXCEPT !.w = s.w]
    [] Len(s.w) >= BIGINT_WORDS -> [b EXCEPT !.w = s.w, !.overflow = TRUE]
    [] OTHER -> [b EXCEPT !.w = Append(s.w, s.carry)]

\* By halves, so that no product is wider than a word.
MulWord(v, carry, m) ==
  LET lo == (v % Half) * m + (carry % Half)
      hi == (v \div Half) * m + (lo \div Half) + (carry \div Half)
  IN <<(lo % Half) + ((hi * Half) % Word), hi \div Half>>

bigint_mul_small(b, m) ==
  CASE b.w = <<>> \/ m = 1 -> b
    [] m = 0 -> [b EXCEPT !.w = <<>>]
    [] OTHER -> Topped(b, Carried(b.w, LAMBDA v, c : MulWord(v, c, m), 0))

\* A word a carry of 0 reaches stays as it is.
bigint_add_small(b, v) ==
  IF b.overflow \/ v = 0 THEN b
  ELSE Topped(b, Carried(b.w, LAMBDA x, c : <<(x + c) % Word, Bool01((x + c) % Word < x)>>, v))

bigint_mul_pow10(b, e) ==
  With(Repeat(e \div Chunk, LAMBDA i, x : IF x.overflow THEN x ELSE bigint_mul_small(x, 10 ^ Chunk), b), LAMBDA x :
    IF e % Chunk > 0 /\ ~x.overflow THEN bigint_mul_small(x, 10 ^ (e % Chunk)) ELSE x)

\* The words of a, borrowing.
bigint_sub(a, b) ==
  LET at(i) == IF i <= Len(b.w) THEN b.w[i] ELSE 0
  IN With(Repeat(Len(a.w), LAMBDA i, s :
            [w |-> Append(s.w, (a.w[i + 1] - at(i + 1) - s.carry) % Word),
             carry |-> Bool01(a.w[i + 1] < (at(i + 1) + s.carry) % Word \/ (at(i + 1) + s.carry) % Word < at(i + 1))],
          [w |-> <<>>, carry |-> 0]), LAMBDA pass :
    trim([a EXCEPT !.w = pass.w]))

\* Long division: each bit of the dividend is shifted into the remainder.
bigint_divide_bits(num, den) ==
  LET nb == bigint_bitlen(num)
      low(r, i) == IF ~bigint_test_bit(num, i) THEN r
                   ELSE IF r.w = <<>> THEN Big(<<1>>) ELSE [r EXCEPT !.w[1] = @ - (@ % 2) + 1]
      step(i, s) == With(low(bigint_shl(s.rem, 1), nb - 1 - i), LAMBDA r :
                      IF bigint_cmp(r, den) >= 0
                      THEN [rem |-> bigint_sub(r, den), q |-> u128_add(u128_shl(s.q, 1), <<0, 1>>)]
                      ELSE [rem |-> r, q |-> u128_shl(s.q, 1)])
  IN Repeat(nb, step, [rem |-> Big(<<>>), q |-> <<0, 0>>])

-----------------------------------------------------------------------------
\* digits * 10^dec_exp as a quotient of prec + 2 bits or one more; what remains is
\* sticky.  A big integer that does not fit makes the constant out of range.
Quotient(num, den, f) ==
  LET shift == prec_of(f) + 2 - (bigint_bitlen(num) - bigint_bitlen(den))
  IN With(IF shift > 0 THEN bigint_shl(num, shift) ELSE num, LAMBDA n :
     With(IF shift < 0 THEN bigint_shl(den, -shift) ELSE den, LAMBDA d :
       IF n.overflow \/ d.overflow THEN Out(Inf(0), {"overflow"})
       ELSE With(bigint_divide_bits(n, d), LAMBDA q : round_pack(0, q.q, -shift, q.rem.w # <<>>, f))))

sf_from_decimal(digits, dec_exp, f) ==
  LET digit(i, b) == bigint_add_small(bigint_mul_small(b, 10), digits[i + 1])
  IN IF \A i \in DOMAIN digits : digits[i] = 0 THEN Out(Zero(0), {})
     ELSE With(Repeat(Len(digits), digit, bigint_set_u64(0)), LAMBDA n :
          With(IF dec_exp > 0 THEN bigint_mul_pow10(n, dec_exp) ELSE n, LAMBDA num :
          With(IF dec_exp < 0 THEN bigint_mul_pow10(bigint_set_u64(1), -dec_exp) ELSE bigint_set_u64(1), LAMBDA den :
            IF num.overflow \/ den.overflow THEN Out(Inf(0), {"overflow", "inexact"})
            ELSE Quotient(num, den, f))))

\* Digits past a full significand are only sticky.
sf_from_hex(digits, bin_exp, f) ==
  With(Repeat(Len(digits), LAMBDA i, s :
         IF u128_bitlen(s.u) + 4 > 2 * LimbBits - 2
         THEN [s EXCEPT !.sticky = @ \/ digits[i + 1] # 0, !.exp = @ + 4]
         ELSE [s EXCEPT !.u = u128_add(u128_shl(@, 4), <<0, digits[i + 1]>>)],
       [u |-> <<0, 0>>, sticky |-> FALSE, exp |-> bin_exp]), LAMBDA s :
    IF s.u = <<0, 0>> /\ ~s.sticky THEN Out(Zero(0), {}) ELSE round_pack(0, s.u, s.exp, s.sticky, f))

sf_from_int128(u, neg, f) ==
  IF u = <<0, 0>> THEN Out(Zero(Bool01(neg)), {}) ELSE round_pack(Bool01(neg), u, 0, FALSE, f)
sf_from_int(v, neg, f) ==
  IF v = 0 THEN Out(Zero(Bool01(neg)), {}) ELSE round_pack(Bool01(neg), <<0, v>>, 0, FALSE, f)

-----------------------------------------------------------------------------
sf_neg(a) == [a EXCEPT !.sign = 1 - @]
sf_is_zero(a) == a.cls = "zero"
make_nan == Out(NaN, {"invalid"})

\* The larger exponent is a's.  It gets headroom; the bits b loses are sticky, and a
\* borrow against them leaves the difference one too high.
Aligned(a, b, f) ==
  LET head == 2 * LimbBits - 2 - u128_bitlen(a.u)
      up == IF head > 0 THEN Least(head, a.exp - b.exp) ELSE 0
  IN With(u128_shl(a.u, up), LAMBDA big :
     With(u128_shr_sticky(b.u, a.exp - up - b.exp), LAMBDA small :
     With(CASE a.sign = b.sign -> <<a.sign, u128_add(big, small.u)>>
            [] a.sign # b.sign /\ u128_cmp(big, small.u) >= 0 ->
                 <<a.sign, u128_sub(u128_sub(big, small.u), <<0, Bool01(small.sticky)>>)>>
            [] OTHER -> <<b.sign, u128_sub(small.u, big)>>, LAMBDA r :
       round_pack(r[1], r[2], a.exp - up, small.sticky, f))))

sf_add(a, b, f) ==
  CASE a.cls = "nan" \/ b.cls = "nan" -> Out(NaN, {})
    [] a.cls = "inf" /\ b.cls = "inf" /\ a.sign # b.sign -> make_nan
    [] a.cls = "inf" \/ b.cls = "inf" -> Out(IF a.cls = "inf" THEN a ELSE b, {})
    [] a.cls = "zero" /\ b.cls = "zero" -> Out(Zero(Least(a.sign, b.sign)), {})
    [] a.cls = "zero" \/ b.cls = "zero" ->
         With(IF a.cls = "zero" THEN b ELSE a, LAMBDA x : round_pack(x.sign, x.u, x.exp, FALSE, f))
    [] OTHER -> IF a.exp < b.exp THEN Aligned(b, a, f) ELSE Aligned(a, b, f)

sf_sub(a, b, f) == sf_add(a, sf_neg(b), f)

\* The exact product of two significands, four words, the lowest first, from half words.
mul_256(a, b) ==
  LET halves(u) == <<u[2] % Half, u[2] \div Half, u[1] % Half, u[1] \div Half>>
      row(x, y, i, acc) ==
        With(Repeat(4, LAMBDA j, s :
                     With(s.acc[i + j + 1] + x * y[j + 1] + s.carry, LAMBDA cur :
                       [acc |-> [s.acc EXCEPT ![i + j + 1] = cur % Half], carry |-> cur \div Half]),
                    [acc |-> acc, carry |-> 0]), LAMBDA s :
          [s.acc EXCEPT ![i + 5] = @ + s.carry])
  IN With(halves(a), LAMBDA x : With(halves(b), LAMBDA y :
     With(Repeat(4, LAMBDA i, acc : row(x[i + 1], y, i, acc), [k \in 1..8 |-> 0]), LAMBDA acc :
       [k \in 1..4 |-> acc[2 * k - 1] + acc[2 * k] * Half])))

bitlen_256(p) ==
  LET used == {i \in 1..4 : p[i] # 0}
  IN IF used = {} THEN 0
     ELSE With(CHOOSE i \in used : \A j \in used : j <= i, LAMBDA i : (i - 1) * LimbBits + WordBits(p[i]))

low_bits_set_256(p, d) ==
  \/ \E i \in 1..Least(d \div LimbBits, 4) : p[i] # 0
  \/ d % LimbBits # 0 /\ d \div LimbBits < 4 /\ p[d \div LimbBits + 1] % (2 ^ (d % LimbBits)) # 0

shr_256(p, d) ==
  LET w == d \div LimbBits
      b == d % LimbBits
      at(i) == IF i + w <= 4 THEN p[i + w] ELSE 0
  IN [i \in 1..4 |-> IF b = 0 THEN at(i)
                     ELSE (at(i) \div 2 ^ b) + (IF i < 4 THEN (at(i + 1) * 2 ^ (LimbBits - b)) % Word ELSE 0)]

Product(sign, a, b, f) ==
  With(mul_256(a.u, b.u), LAMBDA p :
  With(bitlen_256(p) - 2 * LimbBits, LAMBDA drop :
    IF drop <= 0 THEN round_pack(sign, <<p[2], p[1]>>, a.exp + b.exp, FALSE, f)
    ELSE With(shr_256(p, drop), LAMBDA q :
           round_pack(sign, <<q[2], q[1]>>, a.exp + b.exp + drop, low_bits_set_256(p, drop), f))))

sf_mul(a, b, f) ==
  LET sign == (a.sign + b.sign) % 2
      one(cls) == a.cls = cls \/ b.cls = cls
  IN CASE one("nan") -> Out(NaN, {})
       [] one("inf") -> IF one("zero") THEN make_nan ELSE Out(Inf(sign), {})
       [] one("zero") -> Out(Zero(sign), {})
       [] OTHER -> Product(sign, a, b, f)

\* Restoring division of two significands of the same width, to prec + 2 bits.
Divided(sign, a, b, f) ==
  LET qbits == prec_of(f) + 2
      ka == DivBits - u128_bitlen(a.u)
      kb == DivBits - u128_bitlen(b.u)
      wide(u, k) == IF k < 0 THEN u128_shr_sticky(u, -k).u ELSE u128_shl(u, k)
      step(d, i, s) ==
        LET fits == u128_cmp(s.r, d) >= 0
            left == IF fits THEN u128_sub(s.r, d) ELSE s.r
        IN [q |-> u128_add(u128_shl(s.q, 1), <<0, Bool01(fits)>>),
            r |-> IF i + 1 < qbits THEN u128_shl(left, 1) ELSE left]
  IN With(wide(b.u, kb), LAMBDA d :
     With(Repeat(qbits, LAMBDA i, s : step(d, i, s), [q |-> <<0, 0>>, r |-> wide(a.u, ka)]), LAMBDA s :
       round_pack(sign, s.q, (a.exp - ka) - (b.exp - kb) - (qbits - 1), s.r # <<0, 0>>, f)))

sf_div(a, b, f) ==
  LET sign == (a.sign + b.sign) % 2
  IN CASE a.cls = "nan" \/ b.cls = "nan" -> Out(NaN, {})
       [] a.cls = b.cls /\ a.cls \in {"inf", "zero"} -> make_nan
       [] a.cls # "zero" /\ b.cls = "zero" -> Out(Inf(sign), {"invalid"})
       [] a.cls = "zero" \/ b.cls = "inf" -> Out(Zero(sign), {})
       [] a.cls = "inf" -> Out(Inf(sign), {})
       [] OTHER -> Divided(sign, a, b, f)

sf_convert(a, to) == IF a.cls # "normal" THEN Out(a, {}) ELSE round_pack(a.sign, a.u, a.exp, FALSE, to)

\* Magnitudes of one width are compared at a common exponent.
CmpNormal(a, b) ==
  LET abits == u128_bitlen(a.u) + a.exp
      bbits == u128_bitlen(b.u) + b.exp
  IN IF abits # bbits THEN (IF abits < bbits THEN -1 ELSE 1)
     ELSE u128_cmp(u128_shl(a.u, a.exp - b.exp), u128_shl(b.u, b.exp - a.exp))

\* The answer and whether the operands are unordered.
sf_cmp(a, b) ==
  LET less == [c |-> -1, un |-> FALSE]
      equal == [c |-> 0, un |-> FALSE]
      more == [c |-> 1, un |-> FALSE]
  IN CASE a.cls = "nan" \/ b.cls = "nan" -> [c |-> 0, un |-> TRUE]
       [] a.cls = "zero" /\ b.cls = "zero" -> equal
       [] a.sign # b.sign -> IF a.sign = 1 THEN less ELSE more
       [] a.cls = "inf" /\ b.cls = "inf" -> equal
       [] a.cls = "inf" \/ b.cls = "zero" -> IF a.sign = 1 THEN less ELSE more
       [] b.cls = "inf" \/ a.cls = "zero" -> IF b.sign = 1 THEN more ELSE less
       [] OTHER -> [c |-> CmpNormal(a, b) * (1 - 2 * a.sign), un |-> FALSE]

-----------------------------------------------------------------------------
\* To an integer of `width` bits, toward zero; [n, st] with n its two's complement.
ToInt(n, st) == [n |-> n, st |-> st]
Invalid == ToInt(0, {"invalid"})
Truncated(a) ==
  IF a.exp >= 0 THEN [u |-> u128_shl(a.u, a.exp), sticky |-> FALSE] ELSE u128_shr_sticky(a.u, -a.exp)

sf_to_int(a, width, is_unsigned) ==
  IF width \notin 1..LimbBits \/ a.cls \in {"inf", "nan"} THEN Invalid
  ELSE IF a.cls = "zero" THEN ToInt(0, {})
  ELSE IF a.exp > 0 /\ u128_bitlen(a.u) + a.exp > LimbBits THEN Invalid
  ELSE With(Truncated(a), LAMBDA t :
         LET lo == t.u[2]
             neg == a.sign = 1
             inexact == IF t.sticky THEN {"inexact"} ELSE {}
             out == IF is_unsigned THEN (neg /\ lo # 0) \/ lo > 2 ^ width - 1
                    ELSE (~neg /\ lo >= 2 ^ (width - 1)) \/ (neg /\ lo > 2 ^ (width - 1))
         IN IF t.u[1] # 0 \/ out THEN ToInt(0, inexact \cup {"invalid"})
            ELSE ToInt(IF neg THEN (-lo) % (2 ^ width) ELSE lo, inexact))

sf_to_int128(a, is_unsigned) ==
  LET top == 2 ^ (LimbBits - 1)
      negated(u) == With((Word - u[2]) % Word, LAMBDA lo : <<(Word - 1 - u[1] + Bool01(lo = 0)) % Word, lo>>)
  IN IF a.cls = "zero" THEN ToInt(<<0, 0>>, {})
     ELSE IF a.cls # "normal" \/ (a.exp > 0 /\ u128_bitlen(a.u) + a.exp > 2 * LimbBits)
          THEN ToInt(<<0, 0>>, {"invalid"})
     ELSE With(Truncated(a), LAMBDA t :
            LET neg == a.sign = 1
                inexact == IF t.sticky THEN {"inexact"} ELSE {}
                out == IF is_unsigned THEN neg /\ t.u # <<0, 0>>
                       ELSE (~neg /\ t.u[1] >= top) \/ (neg /\ (t.u[1] > top \/ (t.u[1] = top /\ t.u[2] # 0)))
            IN IF out THEN ToInt(<<0, 0>>, inexact \cup {"invalid"})
               ELSE ToInt(IF neg THEN negated(t.u) ELSE t.u, inexact))

-----------------------------------------------------------------------------
\* Bit images: fraction, exponent field, sign.
Image(f, sign, biased, u) == u[1] * Word + u[2] + biased * 2 ^ f.frac + sign * 2 ^ (f.frac + f.exp)
MaxExp(f) == 2 ^ f.exp - 1
TopFrac(f) == LET b == 2 ^ (f.frac - 1) IN <<b \div Word, b % Word>>

\* The exponent comes from the significand's own width: a subnormal has fewer bits.
NormalImage(a, f) ==
  LET msb == u128_bitlen(a.u)
      unbiased == a.exp + msb - 1
      least == emin_of(f) - (prec_of(f) - 1)
      moved(k) == IF k >= 0 THEN u128_shl(a.u, k) ELSE u128_shr_sticky(a.u, -k).u
      implicit(u) == IF f.explicit THEN u
                     ELSE IF prec_of(f) - 1 >= LimbBits THEN <<u[1] % (2 ^ (prec_of(f) - 1 - LimbBits)), u[2]>>
                     ELSE <<u[1], u[2] % (2 ^ (prec_of(f) - 1))>>
  IN IF unbiased < emin_of(f) THEN Image(f, a.sign, 0, moved(a.exp - least))
     ELSE Image(f, a.sign, unbiased + emax_of(f), implicit(moved(prec_of(f) - msb)))

sf_to_bits(a, f) ==
  CASE a.cls = "zero" -> Image(f, a.sign, 0, <<0, 0>>)
    [] a.cls = "inf" -> Image(f, a.sign, MaxExp(f), IF f.explicit THEN TopFrac(f) ELSE <<0, 0>>)
    [] a.cls = "nan" ->
         Image(f, a.sign, MaxExp(f), IF f.explicit THEN u128_add(TopFrac(f), <<0, 2 ^ (f.frac - 2)>>) ELSE TopFrac(f))
    [] OTHER -> NormalImage(a, f)

sf_from_bits(bits, f) ==
  LET frac == bits % (2 ^ f.frac)
      u == <<frac \div Word, frac % Word>>
      biased == (bits \div 2 ^ f.frac) % (2 ^ f.exp)
      sign == bits \div 2 ^ (f.frac + f.exp)
      hidden == IF f.explicit THEN <<0, 0>> ELSE TopFrac([f EXCEPT !.frac = @ + 1])
      nan == [NaN EXCEPT !.sign = sign]
  IN CASE biased = MaxExp(f) ->
            (IF u = (IF f.explicit THEN TopFrac(f) ELSE <<0, 0>>) THEN Inf(sign) ELSE nan)
       [] biased = 0 -> IF frac = 0 THEN Zero(sign) ELSE Sf("normal", sign, u, emin_of(f) - (prec_of(f) - 1))
       [] OTHER -> IF f.explicit /\ frac < 2 ^ (f.frac - 1) THEN nan
                   ELSE Sf("normal", sign, u128_add(u, hidden), biased - emax_of(f) - (prec_of(f) - 1))

-----------------------------------------------------------------------------
\* The run-time entry points, on images.
tf_in(a) == sf_from_bits(a, BINARY128)
tf_out(v) == sf_to_bits(v, BINARY128)
SignBit == 2 ^ (BINARY128.frac + BINARY128.exp)
QuietBit == 2 ^ (BINARY128.frac - 1)

bits_are_nan(b) == (b % SignBit) \div 2 ^ BINARY128.frac = MaxExp(BINARY128) /\ b % (2 ^ BINARY128.frac) # 0
tf_default_nan == SignBit - 1
quieted(b) == IF (b \div QuietBit) % 2 = 1 THEN b ELSE b + QuietBit

\* A NaN operand is passed on, quieted; an invalid operation makes a fresh one.
finish(v, a, b) ==
  CASE bits_are_nan(a) -> quieted(a)
    [] ~bits_are_nan(a) /\ bits_are_nan(b) -> quieted(b)
    [] OTHER -> IF v.cls = "nan" THEN tf_default_nan ELSE tf_out(v)

addtf3(a, b) == finish(sf_add(tf_in(a), tf_in(b), BINARY128).v, a, b)
subtf3(a, b) == finish(sf_sub(tf_in(a), tf_in(b), BINARY128).v, a, b)
multf3(a, b) == finish(sf_mul(tf_in(a), tf_in(b), BINARY128).v, a, b)
divtf3(a, b) == finish(sf_div(tf_in(a), tf_in(b), BINARY128).v, a, b)
negtf2(a) == IF a >= SignBit THEN a - SignBit ELSE a + SignBit
cgf_abstf(a) == a % SignBit
cgf_signbittf(a) == a \div SignBit

\* Each entry point answers an unordered pair so that its own comparison is false.
cmp3(a, b, unordered_result) ==
  With(sf_cmp(tf_in(a), tf_in(b)), LAMBDA r : IF r.un THEN unordered_result ELSE r.c)
eqtf2(a, b) == cmp3(a, b, 1)
lttf2(a, b) == cmp3(a, b, 1)
letf2(a, b) == cmp3(a, b, 1)
gttf2(a, b) == cmp3(a, b, -1)
getf2(a, b) == cmp3(a, b, -1)
unordtf2(a, b) == Bool01(sf_cmp(tf_in(a), tf_in(b)).un)

\* Widening and narrowing between formats.
extendtf2(a, from) == tf_out(sf_convert(sf_from_bits(a, from), BINARY128).v)
trunctf2(a, to) == sf_to_bits(sf_convert(tf_in(a), to).v, to)

\* Out of range, libgcc saturates.
fix_saturating(a, width, is_unsigned) ==
  With(tf_in(a), LAMBDA v :
  LET low == v.sign = 1 /\ v.cls # "nan"
  IN With(sf_to_int(v, width, is_unsigned), LAMBDA r :
       CASE "invalid" \notin r.st -> r.n
         [] "invalid" \in r.st /\ low -> IF is_unsigned THEN 0 ELSE 2 ^ (width - 1)
         [] OTHER -> IF is_unsigned THEN 2 ^ width - 1 ELSE 2 ^ (width - 1) - 1))

fix_ti(v, is_unsigned) ==
  LET low == v.sign = 1 /\ v.cls # "nan"
  IN With(sf_to_int128(v, is_unsigned), LAMBDA r :
       CASE "invalid" \notin r.st -> r.n
         [] "invalid" \in r.st /\ low -> IF is_unsigned THEN <<0, 0>> ELSE <<2 ^ (LimbBits - 1), 0>>
         [] OTHER -> <<IF is_unsigned THEN Word - 1 ELSE 2 ^ (LimbBits - 1) - 1, Word - 1>>)

ti_neg(a) == With((Word - a[2]) % Word, LAMBDA lo : <<(Word - 1 - a[1] + Bool01(lo = 0)) % Word, lo>>)
from_ti(a, is_unsigned, f) ==
  LET negative == ~is_unsigned /\ a[1] >= 2 ^ (LimbBits - 1)
  IN sf_to_bits(sf_from_int128(IF negative THEN ti_neg(a) ELSE a, negative, f).v, f)
from_signed(n) == tf_out(sf_from_int(IF n < 0 THEN -n ELSE n, n < 0, BINARY128).v)

-----------------------------------------------------------------------------
\* What IEEE 754 asks: the exact result, rounded once to the nearest value, ties to
\* even.  Exact results are rationals num / den * 2^e.
Decoded(img, f) ==
  LET frac == img % (2 ^ f.frac)
      biased == (img \div 2 ^ f.frac) % (2 ^ f.exp)
      lead == IF f.explicit \/ biased = 0 THEN 0 ELSE 2 ^ f.frac
      infinite == frac = (IF f.explicit THEN 2 ^ (f.frac - 1) ELSE 0)
      unnormal == f.explicit /\ biased > 0 /\ frac < 2 ^ (f.frac - 1)
  IN [sign |-> img \div 2 ^ (f.frac + f.exp), sig |-> frac + lead,
      exp |-> (IF biased = 0 THEN 1 ELSE biased) - emax_of(f) - (prec_of(f) - 1),
      cls |-> CASE biased = MaxExp(f) -> (IF infinite THEN "inf" ELSE "nan")
                [] biased # MaxExp(f) /\ unnormal -> "nan"
                [] OTHER -> IF frac + lead = 0 THEN "zero" ELSE "normal"]

BitLength(n) == CHOOSE k \in 1..31 : n \div 2 ^ (k - 1) = 1
Infinity(f, sign) == (sign * 2 ^ f.exp + MaxExp(f)) * 2 ^ f.frac + (IF f.explicit THEN 2 ^ (f.frac - 1) ELSE 0)
SignedZero(f, sign) == sign * 2 ^ (f.exp + f.frac)
Pow2(k) == IF k > 0 THEN 2 ^ k ELSE 1

\* The image of the value nearest to num / den * 2^e, and whether it is that value.
Nearest(f, sign, num, den, e) ==
  LET guess == BitLength(num) - BitLength(den)
      log == IF num * Pow2(-guess) >= den * Pow2(guess) THEN guess ELSE guess - 1
  IN With(IF log + e < emin_of(f) THEN emin_of(f) ELSE log + e, LAMBDA exponent :
  LET unit == exponent - (prec_of(f) - 1) - e
      n == num * Pow2(-unit)
      d == den * Pow2(unit)
      down == n \div d
  IN With(2 * (n % d) > d \/ (2 * (n % d) = d /\ down % 2 = 1), LAMBDA up :
  LET q == down + Bool01(up)
      carry == q = 2 ^ prec_of(f)
      top == exponent + Bool01(carry)
  IN With(IF carry THEN q \div 2 ELSE q, LAMBDA sig :
  LET lead == 2 ^ (prec_of(f) - 1)
      frac == IF f.explicit \/ sig < lead THEN sig ELSE sig - lead
  IN IF top > emax_of(f) THEN [img |-> Infinity(f, sign), exact |-> FALSE]
     ELSE [img |-> sign * 2 ^ (f.exp + f.frac) + (IF sig < lead THEN 0 ELSE top + emax_of(f)) * 2 ^ f.frac + frac,
           exact |-> n % d = 0])))

Exactly(img) == [img |-> img, exact |-> TRUE]
AnyNaN == -1
Invalidly == [img |-> AnyNaN, exact |-> TRUE]

IeeeSum(f, a, b) ==
  LET low == Least(a.exp, b.exp)
      term(x) == (1 - 2 * x.sign) * x.sig * 2 ^ (x.exp - low)
      sum == term(a) + term(b)
  IN CASE a.cls = "inf" /\ b.cls = "inf" -> IF a.sign = b.sign THEN Exactly(Infinity(f, a.sign)) ELSE Invalidly
       [] a.cls = "inf" /\ b.cls # "inf" -> Exactly(Infinity(f, a.sign))
       [] a.cls # "inf" /\ b.cls = "inf" -> Exactly(Infinity(f, b.sign))
       [] OTHER -> IF sum = 0 THEN Exactly(SignedZero(f, IF a.cls = "zero" THEN Least(a.sign, b.sign) ELSE 0))
                   ELSE Nearest(f, Bool01(sum < 0), IF sum < 0 THEN -sum ELSE sum, 1, low)

IeeeProduct(f, a, b) ==
  LET sign == (a.sign + b.sign) % 2
      one(cls) == a.cls = cls \/ b.cls = cls
  IN IF one("inf") THEN (IF one("zero") THEN Invalidly ELSE Exactly(Infinity(f, sign)))
     ELSE IF one("zero") THEN Exactly(SignedZero(f, sign))
     ELSE Nearest(f, sign, a.sig * b.sig, 1, a.exp + b.exp)

IeeeQuotient(f, a, b) ==
  LET sign == (a.sign + b.sign) % 2
  IN CASE a.cls = b.cls /\ a.cls # "normal" -> Invalidly
       [] a.cls # b.cls /\ (a.cls = "inf" \/ b.cls = "zero") -> Exactly(Infinity(f, sign))
       [] a.cls # b.cls /\ (a.cls = "zero" \/ b.cls = "inf") -> Exactly(SignedZero(f, sign))
       [] OTHER -> Nearest(f, sign, a.sig, b.sig, a.exp - b.exp)

Ieee(op, f, x, y) ==
  With(Decoded(x, f), LAMBDA a :
  With(Decoded(y, f), LAMBDA b :
  LET minus == [b EXCEPT !.sign = 1 - @]
  IN IF a.cls = "nan" \/ b.cls = "nan" THEN Invalidly
     ELSE CASE op = "+" -> IeeeSum(f, a, b)
            [] op = "-" -> IeeeSum(f, a, minus)
            [] op = "*" -> IeeeProduct(f, a, b)
            [] op = "/" -> IeeeQuotient(f, a, b)))

\* Numbers scaled to a common exponent: the order IEEE 754 asks for.
Ordering(f, x, y) ==
  With(Decoded(x, f), LAMBDA a :
  With(Decoded(y, f), LAMBDA b :
  LET low == Least(a.exp, b.exp)
      val(v) == (1 - 2 * v.sign) * (IF v.cls = "inf" THEN 2 ^ 30 ELSE v.sig * 2 ^ (v.exp - low))
  IN CASE a.cls = "nan" \/ b.cls = "nan" -> "unordered"
       [] OTHER -> IF val(a) < val(b) THEN "less" ELSE IF val(a) = val(b) THEN "equal" ELSE "greater"))

-----------------------------------------------------------------------------
\* One request c.op of the folder or of the run-time library, and its answer.
Folded(op, f, a, b) ==
  CASE op = "+" -> sf_add(a, b, f)
    [] op = "-" -> sf_sub(a, b, f)
    [] op = "*" -> sf_mul(a, b, f)
    [] op = "/" -> sf_div(a, b, f)
Called(op, a, b) ==
  CASE op = "+" -> addtf3(a, b)
    [] op = "-" -> subtf3(a, b)
    [] op = "*" -> multf3(a, b)
    [] op = "/" -> divtf3(a, b)
Bits(r, f) == [img |-> sf_to_bits(r.v, f), st |-> r.st]

Answer(c) ==
  CASE c.op = "fold" -> Bits(Folded(c.on, c.f, sf_from_bits(c.a, c.f), sf_from_bits(c.b, c.f)), c.f)
    [] c.op = "call" -> Called(c.on, c.a, c.b)
    [] c.op = "sign" -> <<negtf2(c.a), cgf_abstf(c.a), cgf_signbittf(c.a)>>
    [] c.op = "compare" -> <<eqtf2(c.a, c.b) = 0, lttf2(c.a, c.b) < 0, letf2(c.a, c.b) <= 0,
                             gttf2(c.a, c.b) > 0, getf2(c.a, c.b) >= 0, unordtf2(c.a, c.b) # 0>>
    [] c.op = "decimal" -> Bits(sf_from_decimal(c.digits, c.e, c.f), c.f)
    [] c.op = "hex" -> Bits(sf_from_hex(c.digits, c.e, c.f), c.f)
    [] c.op = "convert" -> IF c.to = BINARY128 THEN extendtf2(c.a, c.f) ELSE trunctf2(c.a, c.to)
    [] c.op = "to_int" -> With(sf_from_bits(c.a, c.f), LAMBDA v :
                               <<sf_to_int(v, c.w, c.uns), fix_saturating(c.a, c.w, c.uns)>>)
    [] c.op = "to_ti" -> With(sf_from_bits(c.a, c.f), LAMBDA v :
                              With(fix_ti(v, c.uns), LAMBDA n : n[1] * Word + n[2]))
    [] c.op = "from_int" -> from_signed(c.a)
    [] c.op = "from_ti" -> from_ti(<<c.a \div Word, c.a % Word>>, c.uns, c.f)

\* The value of digits in a base.
Digits(digits, base) == Repeat(Len(digits), LAMBDA i, n : n * base + digits[i + 1], 0)
NearestInt(f, sign, n, den, e) == IF n = 0 THEN Exactly(0) ELSE Nearest(f, sign, n, den, e)

\* A nonzero result that rounds to zero may lose its sign.
Agrees(img, f, r) ==
  CASE r.img = AnyNaN -> Decoded(img, f).cls = "nan"
    [] r.img # AnyNaN /\ r.img = SignedZero(f, 1) /\ ~r.exact -> img \in {r.img, 0}
    [] OTHER -> img = r.img
AgreesExactly(ans, f, r) == Agrees(ans.img, f, r) /\ ("inexact" \in ans.st) = ~r.exact

\* The integer an image truncates to; Decoded(img, f).cls is zero or normal.
Whole(v) == (1 - 2 * v.sign) * (IF v.exp >= 0 THEN v.sig * 2 ^ v.exp ELSE v.sig \div 2 ^ (-v.exp))
Lowest(w, uns) == IF uns THEN 0 ELSE -(2 ^ (w - 1))
Highest(w, uns) == IF uns THEN 2 ^ w - 1 ELSE 2 ^ (w - 1) - 1
InRange(v, w, uns) == v.cls \in {"zero", "normal"} /\ Whole(v) \in Lowest(w, uns) .. Highest(w, uns)
Saturated(v, w, uns) ==
  (CASE InRange(v, w, uns) -> Whole(v)
     [] ~InRange(v, w, uns) /\ v.sign = 1 /\ v.cls # "nan" -> Lowest(w, uns)
     [] OTHER -> Highest(w, uns)) % (2 ^ w)
Signed(a, w, uns) == IF ~uns /\ a >= 2 ^ (w - 1) THEN a - 2 ^ w ELSE a
Magnitude(n) == IF n < 0 THEN -n ELSE n

CallAgrees(c, ans) ==
  CASE bits_are_nan(c.a) -> ans = quieted(c.a)
    [] ~bits_are_nan(c.a) /\ bits_are_nan(c.b) -> ans = quieted(c.b)
    [] OTHER -> Agrees(ans, BINARY128, Ieee(c.on, BINARY128, c.a, c.b))

\* The answer IEEE 754 and C's conversion rules give.
Correct(c, ans) ==
  CASE c.op = "fold" -> AgreesExactly(ans, c.f, Ieee(c.on, c.f, c.a, c.b))
    [] c.op = "call" -> CallAgrees(c, ans)
    [] c.op = "sign" -> With(Decoded(c.a, BINARY128), LAMBDA v :
                        With(Decoded(ans[1], BINARY128), LAMBDA neg :
                          /\ neg = [v EXCEPT !.sign = 1 - @]
                          /\ ans[2] = (IF v.sign = 1 THEN ans[1] ELSE c.a)
                          /\ ans[3] = v.sign))
    [] c.op = "compare" -> With(Ordering(BINARY128, c.a, c.b), LAMBDA o :
                             ans = <<o = "equal", o = "less", o \in {"less", "equal"},
                                     o = "greater", o \in {"greater", "equal"}, o = "unordered">>)
    [] c.op = "decimal" ->
         AgreesExactly(ans, c.f, NearestInt(c.f, 0, Digits(c.digits, 10) * 10 ^ (IF c.e > 0 THEN c.e ELSE 0),
                                            10 ^ (IF c.e < 0 THEN -c.e ELSE 0), 0))
    [] c.op = "hex" -> AgreesExactly(ans, c.f, NearestInt(c.f, 0, Digits(c.digits, 16), 1, c.e))
    [] c.op = "convert" ->
         With(Decoded(c.a, c.f), LAMBDA v :
           Agrees(ans, c.to, CASE v.cls = "nan" -> Invalidly
                               [] v.cls = "inf" -> Exactly(Infinity(c.to, v.sign))
                               [] v.cls = "zero" -> Exactly(SignedZero(c.to, v.sign))
                               [] OTHER -> Nearest(c.to, v.sign, v.sig, 1, v.exp)))
    [] c.op = "to_int" ->
         With(Decoded(c.a, c.f), LAMBDA v :
           /\ ("invalid" \in ans[1].st) = ~InRange(v, c.w, c.uns)
           /\ InRange(v, c.w, c.uns) => ans[1].n = Whole(v) % (2 ^ c.w)
           /\ ans[2] = Saturated(v, c.w, c.uns))
    [] c.op = "to_ti" -> ans = Saturated(Decoded(c.a, c.f), 2 * LimbBits, c.uns)
    [] c.op = "from_int" -> Agrees(ans, BINARY128, NearestInt(BINARY128, Bool01(c.a < 0), Magnitude(c.a), 1, 0))
    [] c.op = "from_ti" ->
         LET n == Signed(c.a, 2 * LimbBits, c.uns)
         IN Agrees(ans, c.f, NearestInt(c.f, Bool01(n < 0), Magnitude(n), 1, 0))
=============================================================================
