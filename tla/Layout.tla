---------------------------- MODULE Layout ----------------------------
(* Object layout, and the System V and AAPCS64 classification of aggregates
   (sema/layout.c), with what C and the two psABIs ask of them; then the
   loads and stores of the bit-fields a layout places (lower/expr.c).

   A type is [kind, ov, exact] plus base, has_size, size for an array and
   members, ov_tag for a record; a member is [name, type, bf, width, packed,
   pack, ov].  Types whose size is known only at run time are left out. *)
EXTENDS Integers, Sequences, FiniteSets, SequencesExt

CONSTANT UMAX   \* UINT64_MAX: record positions saturate there

\* A value and what is made of it; in Strictly the value is evaluated first.
With(x, op(_)) == op(x)
Strictly(x, op(_)) == CHOOSE r \in {op(v) : v \in {x}} : TRUE
\* The left fold of a sequence, halved so that evaluation stays shallow.
Fold(op(_, _), base, seq) ==
  LET RECURSIVE over(_, _, _)
      over(lo, hi, acc) ==
        IF lo > hi THEN acc
        ELSE IF lo = hi THEN op(acc, seq[lo])
        ELSE LET mid == (lo + hi) \div 2
             IN CHOOSE r \in {over(mid + 1, hi, x) : x \in {over(lo, mid, acc)}} : TRUE
  IN over(1, Len(seq), base)
Larger(a, b) == IF a >= b THEN a ELSE b
Smaller(a, b) == IF a <= b THEN a ELSE b
Records == {"struct", "union"}
X86 == "x86_64"
ArmLinux == "arm64_linux"
ArmMacos == "arm64_macos"
ldbl_kind(tg) == IF tg = X86 THEN "x87" ELSE IF tg = ArmLinux THEN "ieee128" ELSE "double"

---------------------------------------------------------------------------
\* Sizes.

Saturating(v, n) == IF v > UMAX - n THEN UMAX ELSE v + n
align_up(v, a) == IF a = 0 \/ v % a = 0 THEN v ELSE Saturating(v, a - (v % a))

RECURSIVE layout_is_complete_for_size(_)
layout_is_complete_for_size(t) ==
  /\ t.kind \notin {"void", "func"}
  /\ t.kind = "array" => t.has_size /\ layout_is_complete_for_size(t.base)

basic_layout(tg, k) ==
  LET bytes == CASE k \in {"bool", "char"} -> 1
                 [] k = "short" -> 2
                 [] k \in {"int", "float"} -> 4
                 [] k \in {"long", "ptr", "double"} -> 8
                 [] k \in {"int128", "float128"} -> 16
                 [] k = "ldouble" -> IF tg = ArmMacos THEN 8 ELSE 16
                 [] OTHER -> 1
  IN [size |-> bytes, align |-> bytes]

member_uses_packed_bits(m) == m.packed \/ m.pack # 0
member_effective_align(m, natural) ==
  With(Larger(m.ov, IF m.packed THEN 1 ELSE natural), LAMBDA a : IF m.pack # 0 THEN Smaller(a, m.pack) ELSE a)

\* A position is an exact byte and a bit within it.
position_add_bytes(p, n) == [p EXCEPT !.byte = Saturating(@, n)]
position_add_bits(p, n) ==
  With(position_add_bytes(p, n \div 8), LAMBDA q :
    [byte |-> (IF p.bit + (n % 8) >= 8 THEN position_add_bytes(q, 1) ELSE q).byte, bit |-> (p.bit + n) % 8])
position_ceil_byte(p) == IF p.bit # 0 THEN position_add_bytes(p, 1).byte ELSE p.byte
MutPositionAlign(p, a) == [byte |-> align_up(p.byte, a), bit |-> 0]
position_align_bytes(p, a) == [byte |-> align_up(position_ceil_byte(p), a), bit |-> 0]

\* One bit-field: where it goes, and what the record's alignment becomes.
PlacedBits(tg, s, m, ml) ==
  LET malign == member_effective_align(m, ml.align)
      bitAlign == IF m.pack # 0 THEN Smaller(m.ov, m.pack) ELSE m.ov
      barrier == position_align_bytes(s.pos, Larger(ml.size, m.ov))
      asked == IF m.ov # 0 THEN position_align_bytes(s.pos, bitAlign) ELSE s.pos
      straddles == ~member_uses_packed_bits(m) /\ (asked.byte % ml.size) * 8 + asked.bit + m.width > ml.size * 8
      start == IF straddles THEN position_align_bytes(asked, ml.size) ELSE asked
      raise(by) == IF by THEN Larger(s.align, malign) ELSE s.align
  IN IF m.width = 0
     THEN [pos |-> barrier, at |-> barrier,
           align |-> IF tg = ArmLinux THEN Larger(s.align, Larger(ml.align, m.ov)) ELSE s.align]
     ELSE [pos |-> position_add_bits(start, m.width), at |-> start, align |-> raise(m.name # "" \/ tg = ArmLinux)]

RECURSIVE layout_of(_, _)

layout_struct(tg, t) ==
  LET at(p, size) == [offset |-> p.byte, shift |-> p.bit, cont |-> size]
      place(s, m) ==
        IF ~layout_is_complete_for_size(m.type)
        THEN [s EXCEPT !.at = Append(@, at([byte |-> position_ceil_byte(s.pos), bit |-> 0], 0))]
        ELSE With(layout_of(tg, m.type), LAMBDA ml :
               IF m.bf
               THEN With(PlacedBits(tg, s, m, ml), LAMBDA b :
                      [s EXCEPT !.pos = b.pos, !.align = b.align, !.at = Append(@, at(b.at, ml.size))])
               ELSE With(position_align_bytes(s.pos, member_effective_align(m, ml.align)), LAMBDA p :
                      [pos |-> position_add_bytes(p, ml.size), at |-> Append(s.at, at(p, ml.size)),
                       align |-> Larger(s.align, member_effective_align(m, ml.align)), zero |-> s.zero \/ ml.size = 0]))
  IN With(Fold(place, [pos |-> [byte |-> 0, bit |-> 0], at |-> <<>>, align |-> 1, zero |-> FALSE], t.members),
       LAMBDA s : With(align_up(position_ceil_byte(s.pos), Larger(s.align, t.ov_tag)), LAMBDA size :
         [size |-> IF size = 0 /\ ~s.zero THEN Larger(s.align, t.ov_tag) ELSE size,
          align |-> Larger(s.align, t.ov_tag), natural |-> s.align, at |-> s.at]))

layout_union(tg, t) ==
  LET where(size) == [offset |-> 0, shift |-> 0, cont |-> size]
      join(s, m) ==
        IF ~layout_is_complete_for_size(m.type) THEN [s EXCEPT !.at = Append(@, where(0))]
        ELSE With(layout_of(tg, m.type), LAMBDA ml :
          LET ma == member_effective_align(m, ml.align)
              zero == IF m.width = 0 /\ tg = ArmLinux THEN Larger(ml.align, m.ov) ELSE 1
              raised == IF m.name # "" \/ (m.width # 0 /\ tg = ArmLinux) THEN ma ELSE 1
              at == Append(s.at, where(ml.size))
          IN IF m.bf
             THEN [s EXCEPT !.size = Larger(@, (m.width + 7) \div 8), !.align = Larger(@, Larger(zero, raised)), !.at = at]
             ELSE [size |-> Larger(s.size, ml.size), align |-> Larger(s.align, ma), zero |-> s.zero \/ ml.size = 0, at |-> at])
  IN With(Fold(join, [size |-> 0, align |-> 1, zero |-> FALSE, at |-> <<>>], t.members), LAMBDA s :
       With(align_up(s.size, Larger(s.align, t.ov_tag)), LAMBDA size :
         [size |-> IF size = 0 /\ ~s.zero THEN Larger(s.align, t.ov_tag) ELSE size,
          align |-> Larger(s.align, t.ov_tag), natural |-> s.align, at |-> s.at]))

layout_record(tg, t) == IF t.kind = "union" THEN layout_union(tg, t) ELSE layout_struct(tg, t)

\* Size and alignment; for a record also what its tag memoizes, the members'
\* positions and the alignment before the tag's own attribute.
layout_of(tg, t) ==
  LET own == CASE t.kind = "array" ->
                    With(layout_of(tg, t.base), LAMBDA el :
                      [size |-> el.size * (IF t.has_size THEN t.size ELSE 0), align |-> el.align])
               [] t.kind \in Records -> layout_record(tg, t)
               [] OTHER -> basic_layout(tg, t.kind)
  IN With(own, LAMBDA r : IF t.ov # 0 /\ (t.exact \/ t.ov > r.align) THEN [r EXCEPT !.align = t.ov] ELSE r)

---------------------------------------------------------------------------
\* System V classification.

merge(a, b) ==
  CASE a = b -> a
    [] a = "NO" -> b
    [] b = "NO" -> a
    [] "MEMORY" \in {a, b} -> "MEMORY"
    [] "INTEGER" \in {a, b} -> "INTEGER"
    [] {"X87", "X87UP"} \cap {a, b} # {} -> "MEMORY"
    [] OTHER -> "SSE"

\* The class a scalar puts in its own eightbyte and in the one after it.
ScalarClasses(tg, t, cls0) ==
  CASE t.kind = "ldouble" /\ ldbl_kind(tg) = "x87" -> <<"X87", "X87UP">>
    [] t.kind = "float128" -> <<"SSE", "SSEUP">>
    [] t.kind \in {"float", "double", "ldouble"} -> <<"SSE", "NO">>
    [] OTHER -> <<"INTEGER", IF basic_layout(tg, t.kind).size > 8 THEN merge(cls0, "INTEGER") ELSE "NO">>

\* What a walk over an object asks the layout of.
Part(t) == IF t.kind = "array" THEN t.base ELSE t

RECURSIVE classify_into(_, _, _, _, _)
classify_into(tg, t, off, cls, n) ==
  With(layout_of(tg, Part(t)), LAMBDA l :
    CASE t.kind \in Records ->
           Fold(LAMBDA c, j :
                      IF ~layout_is_complete_for_size(t.members[j].type)
                         \/ (t.kind = "struct" /\ t.members[j].bf /\ t.members[j].width = 0)
                      THEN c ELSE classify_into(tg, t.members[j].type, off + l.at[j].offset, c, n),
                    cls, [j \in DOMAIN t.members |-> j])
      [] t.kind = "array" ->
           IF l.size = 0 THEN cls
           ELSE Fold(LAMBDA c, j : classify_into(tg, t.base, off + (j - 1) * l.size, c, n), cls, [j \in 1..t.size |-> j])
      [] OTHER ->
           With(off \div 8 + 1, LAMBDA idx :
             IF idx > n THEN cls
             ELSE With(ScalarClasses(tg, t, cls[idx]), LAMBDA sc :
                    [j \in 1..2 |-> IF j = idx THEN merge(cls[j], sc[1])
                                    ELSE IF j = idx + 1 /\ j <= n THEN merge(cls[j], sc[2]) ELSE cls[j]])))

RECURSIVE has_unaligned_field(_, _, _)
has_unaligned_field(tg, t, off) ==
  /\ layout_is_complete_for_size(t) /\ t.kind \in Records \cup {"array"}
  /\ With(layout_of(tg, Part(t)), LAMBDA l :
       IF t.kind = "array" THEN off % l.align # 0 \/ (t.size # 0 /\ has_unaligned_field(tg, t.base, off))
       ELSE \E j \in DOMAIN t.members :
              With(t.members[j], LAMBDA m :
                /\ layout_is_complete_for_size(m.type)
                /\ \/ ~m.bf /\ (off + l.at[j].offset) % layout_of(tg, m.type).align # 0
                   \/ has_unaligned_field(tg, m.type, off + l.at[j].offset)))

Memory == <<>>   \* the classifier's -1

layout_classify_sysv(tg, t) ==
  With(layout_of(tg, t).size, LAMBDA size :
    IF size > 16 \/ has_unaligned_field(tg, t, 0) THEN Memory
    ELSE With(IF size > 8 THEN 2 ELSE 1, LAMBDA n : With(classify_into(tg, t, 0, <<"NO", "NO">>, n), LAMBDA c :
           IF "MEMORY" \in {c[1], c[n]} \/ (n = 2 /\ c[2] = "X87UP" /\ c[1] # "X87") THEN Memory
           ELSE [j \in 1..n |-> IF c[j] = "NO" THEN "INTEGER"
                                ELSE IF j = 2 /\ c[2] = "SSEUP" /\ c[1] \notin {"SSE", "SSEUP"} THEN "SSE" ELSE c[j]])))

---------------------------------------------------------------------------
\* AAPCS64 homogeneous floating aggregates.

NoBase == "none"
Floats == {"float", "double", "ldouble", "float128"}
NotHfa == [ok |-> FALSE, base |-> NoBase, n |-> 0]

RECURSIVE hfa_walk(_, _, _, _)
hfa_walk(tg, t, base, n) ==
  LET each(s, m) == IF ~s.ok \/ m.bf \/ m.ov # 0 THEN NotHfa ELSE hfa_walk(tg, m.type, s.base, s.n)
      overlay(s, m) ==
        IF ~s.ok \/ m.bf \/ m.ov # 0 THEN NotHfa
        ELSE With(hfa_walk(tg, m.type, s.base, n), LAMBDA r : IF r.ok THEN [r EXCEPT !.n = Larger(@, s.n)] ELSE NotHfa)
      start == [ok |-> TRUE, base |-> base, n |-> n]
  IN CASE t.ov # 0 /\ layout_of(tg, t).align > layout_of(tg, [t EXCEPT !.ov = 0, !.exact = FALSE]).align -> NotHfa
       [] t.kind \in Floats -> IF base \notin {NoBase, t.kind} \/ n + 1 > 4 THEN NotHfa ELSE [ok |-> TRUE, base |-> t.kind, n |-> n + 1]
       [] t.kind = "array" ->
            IF ~t.has_size THEN NotHfa
            ELSE Fold(LAMBDA s, j : IF s.ok THEN hfa_walk(tg, t.base, s.base, s.n) ELSE s, start, [j \in 1..t.size |-> j])
       [] t.kind = "struct" -> IF t.members = <<>> THEN NotHfa ELSE Fold(each, start, t.members)
       [] t.kind = "union" -> IF t.members = <<>> THEN NotHfa ELSE Fold(overlay, start, t.members)
       [] OTHER -> NotHfa

layout_is_hfa(tg, t) ==
  IF t.kind \notin Records \cup {"array"} THEN NotHfa
  ELSE With(hfa_walk(tg, t, NoBase, 0), LAMBDA r : IF r.ok /\ r.n \in 1..4 THEN r ELSE NotHfa)

---------------------------------------------------------------------------
\* What C and the psABIs ask of a record.

StartBit(p) == 8 * p.offset + p.shift
EndBit(m, p, size) == StartBit(p) + (IF m.bf THEN m.width ELSE 8 * size)

\* The bit positions at which member m, of layout ml, may start.
Admits(m, ml, b) ==
  CASE ~m.bf -> b % (8 * member_effective_align(m, ml.align)) = 0
    [] m.bf /\ m.width = 0 -> b % (8 * Larger(ml.size, m.ov)) = 0
    [] OTHER -> /\ m.ov # 0 => b % (8 * (IF m.pack # 0 THEN Smaller(m.ov, m.pack) ELSE m.ov)) = 0
                /\ ~member_uses_packed_bits(m) => b \div (8 * ml.size) = (b + m.width - 1) \div (8 * ml.size)

\* Every member starts at the first position after its predecessor that its
\* type and its attributes admit.
MembersPacked(ms, at, mls) ==
  \A j \in DOMAIN ms :
    With(IF j = 1 THEN 0 ELSE EndBit(ms[j - 1], at[j - 1], mls[j - 1].size), LAMBDA e :
      /\ StartBit(at[j]) >= e
      /\ \A b \in e..StartBit(at[j]) : Admits(ms[j], mls[j], b) <=> b = StartBit(at[j]))

\* The bytes a named bit-field is read and written through.
Container(m, p) == With((p.offset \div p.cont) * p.cont, LAMBDA b : b..(b + p.cont - 1))

RecordSound(t, r, mls) ==
  With([j \in DOMAIN t.members |-> EndBit(t.members[j], r.at[j], mls[j].size)], LAMBDA ends :
    /\ t.kind = "struct" => MembersPacked(t.members, r.at, mls)
    /\ r.size % r.align = 0
    /\ \A j \in DOMAIN t.members : With(t.members[j], LAMBDA m :
         /\ ends[j] <= 8 * r.size
         /\ ~m.bf => r.align % member_effective_align(m, mls[j].align) = 0
         /\ m.bf /\ m.name # "" /\ ~member_uses_packed_bits(m) => \A b \in Container(m, r.at[j]) : b < r.size)
    /\ \E j \in DOMAIN t.members : r.size - (ends[j] \div 8) <= r.align)

\* The scalars inside an object: their kind, first and last byte.
RECURSIVE Scalars(_, _, _)
Scalars(tg, t, off) ==
  With(layout_of(tg, Part(t)), LAMBDA l :
    CASE t.kind = "array" -> UNION {Scalars(tg, t.base, off + j * l.size) : j \in 0..(t.size - 1)}
      [] t.kind \in Records ->
           UNION {With(t.members[j], LAMBDA m :
                    IF ~m.bf THEN Scalars(tg, m.type, off + l.at[j].offset)
                    ELSE IF m.width = 0 /\ t.kind = "struct" THEN {}
                    ELSE {[kind |-> "bits", from |-> off + l.at[j].offset,
                           to |-> off + (Larger(EndBit(m, l.at[j], 0) - 1, 0) \div 8), align |-> 1]}) : j \in DOMAIN t.members}
      [] OTHER -> {[kind |-> t.kind, from |-> off, to |-> off + l.size - 1, align |-> l.align]})

\* psABI 3.2.3: an eightbyte has the class of what it holds, integers win,
\* and a long double shares its eightbytes with nothing of another class.
Eightbyte(ss, k) ==
  With({s.kind : s \in {s \in ss : s.from \div 8 <= k /\ k <= s.to \div 8}}, LAMBDA kinds :
    CASE kinds \ {"float", "double", "float128", "ldouble"} # {} -> "INTEGER"
      [] "ldouble" \in kinds -> IF kinds = {"ldouble"} THEN "X87" ELSE "MEMORY"
      [] OTHER -> IF k = 1 /\ kinds = {"float128"} THEN "SSEUP" ELSE "SSE")

PsabiClasses(size, ss) ==
  With([k \in 1..((size + 7) \div 8) |-> Eightbyte(ss, k - 1)], LAMBDA c :
    CASE size > 16 \/ (\E s \in ss : s.from % s.align # 0) \/ (\E k \in DOMAIN c : c[k] = "MEMORY") -> Memory
      [] c = <<"X87", "X87">> -> <<"X87", "X87UP">>
      [] \E k \in DOMAIN c : c[k] = "X87" -> Memory
      [] c = <<"INTEGER", "SSEUP">> -> <<"INTEGER", "SSE">>
      [] OTHER -> c)

\* AAPCS64 5.9.5: one floating kind, at most four members once overlaid, and
\* nothing between them.
Homogeneous(tg, t, size, ss) ==
  t.kind \in Records /\ With(Cardinality({s.from : s \in ss}), LAMBDA n :
    /\ \A j \in DOMAIN t.members : ~t.members[j].bf
    /\ n \in 1..4
    /\ \E k \in Floats : (\A s \in ss : s.kind = k) /\ size = n * basic_layout(tg, k).size)

\* layout_record places every member at the first position that C, its type's
\* alignment and its attributes admit, makes the record just large enough for
\* its members and for an array of it, keeps the storage unit of each named
\* bit-field inside the object, and the two classifiers see exactly the
\* scalars that the layout put into each eightbyte.
LayoutExact(c, r, ss) ==
  /\ RecordSound(c.t, r, [j \in DOMAIN c.t.members |-> layout_of(c.tg, c.t.members[j].type)])
  /\ c.tg = X86 => layout_classify_sysv(c.tg, c.t) = PsabiClasses(r.size, ss)
  /\ c.tg # X86 => (layout_is_hfa(c.tg, c.t).ok <=> Homogeneous(c.tg, c.t, r.size, ss))

---------------------------------------------------------------------------
(* Loads and stores of bit-fields and of scalars in reverse storage order,
   executed on memory.

   An integer value is the set of its one bits; memory is the set of the
   one bits of the object, bit k of byte a being 8 * a + k.  A WideInt is
   [lo, hi], two sets within 0..63.  An lvalue is [addr, unit, bf, shift,
   width, signed, packed, rev, wide]: unit is its size in bytes. *)

Low(n) == 0..(n - 1)
Shl(v, n, w) == {i + n : i \in v} \cap Low(w)
Lshr(v, n) == {i - n : i \in {k \in v : k >= n}}
Ashr(v, n, w) == Lshr(v, n) \cup (IF w - 1 \in v THEN (w - n)..(w - 1) ELSE {})
LoadBytes(mem, a, n) == {i \in Low(8 * n) : 8 * a + i \in mem}
StoreBytes(mem, a, n, v) == (mem \ ((8 * a)..(8 * (a + n) - 1))) \cup {8 * a + i : i \in v \cap Low(8 * n)}

---------------------------------------------------------------------------
\* Shift pairs.

bitfield_extract(v, unit, shift, width, signed) ==
  With(IF unit < 4 THEN 32 ELSE 8 * unit, LAMBDA work :
    With(Shl(v, work - shift - width, work), LAMBDA hi :
      (IF signed THEN Ashr(hi, work - width, work) ELSE Lshr(hi, work - width)) \cap Low(8 * unit)))

packed_bitfield_result(lv, bits) == bitfield_extract(bits, 8, 0, lv.width, lv.signed) \cap Low(8 * lv.unit)

---------------------------------------------------------------------------
\* Byte fragments of the field: [at, within, take, done] is the fragment of
\* take bits at bit within of byte at, after done bits of the field.

RECURSIVE Fragments(_, _, _)
Fragments(pos, done, remaining) ==
  IF remaining = 0 THEN <<>>
  ELSE With(Smaller(8 - (pos % 8), remaining), LAMBDA take :
         <<[at |-> pos \div 8, within |-> pos % 8, take |-> take, done |-> done, left |-> remaining - take]>>
           \o Fragments(pos + take, done + take, remaining - take))
FieldFragments(lv) == Fragments(lv.shift, 0, lv.width)

reverse_bitfield_load(mem, lv) ==
  LET gather(bits, f) ==
        bits \cup Shl(Lshr(LoadBytes(mem, lv.addr + f.at, 1), 8 - f.within - f.take) \cap Low(f.take), f.left, 64)
  IN packed_bitfield_result(lv, Fold(gather, {}, FieldFragments(lv)))

reverse_bitfield_store(mem, lv, v) ==
  LET scatter(m, f) ==
        With(8 - f.within - f.take, LAMBDA dest : With(Shl(Low(f.take), dest, 8), LAMBDA mask :
          StoreBytes(m, lv.addr + f.at, 1,
            (LoadBytes(m, lv.addr + f.at, 1) \ mask) \cup (Shl(Lshr(v, f.left), dest, 64) \cap mask))))
  IN [mem |-> Fold(scatter, mem, FieldFragments(lv)), result |-> packed_bitfield_result(lv, v)]

packed_bitfield_load(mem, lv) ==
  LET gather(bits, f) ==
        bits \cup Shl(Lshr(LoadBytes(mem, lv.addr + f.at, 1), f.within) \cap Low(f.take), f.done, 64)
  IN packed_bitfield_result(lv, Fold(gather, {}, FieldFragments(lv)))

MutPackedStore(mem, lv, v) ==
  LET scatter(m, f) ==
        With(Shl(Low(f.take), f.within, 8), LAMBDA mask :
          StoreBytes(m, lv.addr + f.at, 1,
            (LoadBytes(m, lv.addr + f.at, 1) \ Low(8)) \cup (Shl(Lshr(v, f.done), f.within, 64) \cap mask)))
  IN [mem |-> Fold(scatter, mem, FieldFragments(lv)), result |-> packed_bitfield_result(lv, v)]

packed_bitfield_store(mem, lv, v) ==
  LET scatter(m, f) ==
        With(Shl(Low(f.take), f.within, 8), LAMBDA mask :
          StoreBytes(m, lv.addr + f.at, 1,
            (LoadBytes(m, lv.addr + f.at, 1) \ mask) \cup (Shl(Lshr(v, f.done), f.within, 64) \cap mask)))
  IN [mem |-> Fold(scatter, mem, FieldFragments(lv)), result |-> packed_bitfield_result(lv, v)]

---------------------------------------------------------------------------
\* 128-bit fields, in two limbs.

wide_bitfield_fit(v, width, signed) ==
  CASE width >= 128 -> v
    [] width <= 64 ->
         With(bitfield_extract(v.lo, 8, 0, width, signed), LAMBDA lo :
           [lo |-> lo, hi |-> IF signed THEN Ashr(lo, 63, 64) ELSE {}])
    [] OTHER -> [v EXCEPT !.hi = bitfield_extract(@, 8, 0, width - 64, signed)]

wide_bitfield_append(v, piece, bit, width) ==
  IF bit < 64
  THEN [lo |-> v.lo \cup Shl(piece, bit, 64), hi |-> v.hi \cup (IF bit + width > 64 THEN Lshr(piece, 64 - bit) ELSE {})]
  ELSE [v EXCEPT !.hi = @ \cup Shl(piece, bit - 64, 64)]

wide_bitfield_piece(v, bit, width) ==
  (IF bit < 64 THEN Lshr(v.lo, bit) \cup (IF bit + width > 64 THEN Shl(v.hi, 64 - bit, 64) ELSE {})
   ELSE Lshr(v.hi, bit - 64)) \cap Low(width)

wide_bitfield_gather(mem, lv) ==
  LET gather(v, f) ==
        wide_bitfield_append(v,
          Lshr(LoadBytes(mem, lv.addr + f.at, 1), IF lv.rev THEN 8 - f.within - f.take ELSE f.within) \cap Low(f.take),
          IF lv.rev THEN f.left ELSE f.done, f.take)
  IN wide_bitfield_fit(Fold(gather, [lo |-> {}, hi |-> {}], FieldFragments(lv)), lv.width, lv.signed)

wide_bitfield_store(mem, lv, v) ==
  With(wide_bitfield_fit(v, lv.width, lv.signed), LAMBDA r :
    LET scatter(m, f) ==
          With(IF lv.rev THEN 8 - f.within - f.take ELSE f.within, LAMBDA dest : With(Shl(Low(f.take), dest, 8), LAMBDA mask :
            StoreBytes(m, lv.addr + f.at, 1,
              (LoadBytes(m, lv.addr + f.at, 1) \ mask)
                \cup (Shl(wide_bitfield_piece(r, IF lv.rev THEN f.left ELSE f.done, f.take), dest, 64) \cap mask))))
    IN [mem |-> Fold(scatter, mem, FieldFragments(lv)), result |-> r])

---------------------------------------------------------------------------
\* Scalars in reverse order.

reverse_integer_bytes(v, n) ==
  UNION {Shl(Lshr(v, 8 * i) \cap Low(8), 8 * (n - 1 - i), 8 * n) : i \in Low(n)}

\* A binary128 value is reversed as two eightbytes that change places.
reverse_scalar_bytes(v, n) ==
  IF n = 16
  THEN With(reverse_integer_bytes(Lshr(v, 64), 8), LAMBDA low : low \cup Shl(reverse_integer_bytes(v \cap Low(64), 8), 64, 128))
  ELSE reverse_integer_bytes(v, n)

---------------------------------------------------------------------------
\* Every access.  The int128 scalar accesses and the atomic ones are not here.

Joined(v) == v.lo \cup {i + 64 : i \in v.hi}
Halves(v) == [lo |-> v \cap Low(64), hi |-> Lshr(v, 64)]

lower_load(mem, lv) ==
  CASE lv.bf /\ lv.wide -> Joined(wide_bitfield_gather(mem, lv))
    [] lv.bf /\ ~lv.wide /\ lv.rev -> reverse_bitfield_load(mem, lv)
    [] lv.bf /\ ~lv.wide /\ ~lv.rev /\ lv.packed -> packed_bitfield_load(mem, lv)
    [] ~lv.bf -> With(LoadBytes(mem, lv.addr, lv.unit), LAMBDA raw : IF lv.rev THEN reverse_scalar_bytes(raw, lv.unit) ELSE raw)
    [] OTHER -> bitfield_extract(LoadBytes(mem, lv.addr, lv.unit), lv.unit, lv.shift, lv.width, lv.signed)

lower_store(mem, lv, v) ==
  CASE lv.bf /\ lv.wide ->
         With(wide_bitfield_store(mem, lv, Halves(v)), LAMBDA s : [mem |-> s.mem, result |-> Joined(s.result)])
    [] lv.bf /\ ~lv.wide /\ lv.rev -> reverse_bitfield_store(mem, lv, v)
    [] lv.bf /\ ~lv.wide /\ ~lv.rev /\ lv.packed -> packed_bitfield_store(mem, lv, v)
    [] ~lv.bf -> [mem |-> StoreBytes(mem, lv.addr, lv.unit, IF lv.rev THEN reverse_scalar_bytes(v, lv.unit) ELSE v),
                  result |-> v]
    [] OTHER ->
         With(v \cap Low(lv.width), LAMBDA nv :
           [mem |-> StoreBytes(mem, lv.addr, lv.unit,
                      (LoadBytes(mem, lv.addr, lv.unit) \ Shl(Low(lv.width), lv.shift, 8 * lv.unit))
                        \cup Shl(nv, lv.shift, 8 * lv.unit)),
            result |-> bitfield_extract(nv, lv.unit, 0, lv.width, lv.signed)])

---------------------------------------------------------------------------
\* What C asks: bit b of the field lives in one bit of memory.

\* Reverse order numbers the bits of every byte from the top and puts the
\* most significant bit of the value first.
Home(lv, b) ==
  CASE lv.bf /\ lv.rev ->
         With(lv.shift + lv.width - 1 - b, LAMBDA k : 8 * (lv.addr + (k \div 8)) + 7 - (k % 8))
    [] lv.bf /\ ~lv.rev -> 8 * lv.addr + lv.shift + b
    [] ~lv.bf /\ lv.rev -> 8 * (lv.addr + lv.unit - 1 - (b \div 8)) + (b % 8)
    [] OTHER -> 8 * lv.addr + b
Width(lv) == IF lv.bf THEN lv.width ELSE 8 * lv.unit
Homes(lv) == {Home(lv, b) : b \in Low(Width(lv))}

\* The value of the field's type: its low bits, extended to the unit.
Narrowed(lv, v) ==
  (v \cap Low(Width(lv))) \cup (IF lv.bf /\ lv.signed /\ lv.width - 1 \in v THEN lv.width..(8 * lv.unit - 1) ELSE {})

\* A store through any lvalue puts every bit of the value in the bit of
\* memory that is its home and changes no other bit (a neighbour in the same
\* byte or storage unit keeps its value); what the assignment yields, and
\* what a later load reads back, is the value cut down to the field and
\* extended by its sign.
BitFieldsExact(c) ==
  With(lower_store(c.mem, c.lv, c.v), LAMBDA s :
    /\ \A b \in Low(Width(c.lv)) : Home(c.lv, b) \in s.mem <=> b \in c.v
    /\ s.mem \ Homes(c.lv) = c.mem \ Homes(c.lv)
    /\ s.result = Narrowed(c.lv, c.v)
    /\ lower_load(s.mem, c.lv) = Narrowed(c.lv, c.v))

=============================================================================
