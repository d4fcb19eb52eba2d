-------------------------- MODULE Initializers --------------------------
(* Initializers: typing with the current-object cursor (sema/decl.c), the
   image of a static object (sema/constexpr.c), and the plan, constant part
   and run-time stores of an automatic one (lower/init.c), against the C
   rule that names the subobject each initializer is for.

   An initializer e has e.k and e.ds, its designators:
     list  items            int   v, constant      addr  sym, constant
     str   bytes            rt    id, v            agg   id, type, bits
     clit  type, init       ucast type, of, lhs
   rt and agg are run-time values; id numbers them in source order.  A
   designator is [field, lo, hi], field = "" for an index, hi = -1 without a
   range.  A type carries its layout (Laid), records also rev, their storage
   order.  Cursor depth (128 or 256 frames) is above every checked type. *)
EXTENDS Layout, TLC

CONSTANTS RELOCS,          \* relocations a plan can hold: 32
          STORE_MAX,       \* LOWER_INIT_STORE_MAX, 32 bytes
          ZERO_TAIL_MIN    \* LOWER_INIT_ZERO_TAIL_MIN, 16 bytes

RECURSIVE Laid(_, _)
Laid(tg, t) ==
  ("lay" :> layout_of(tg, t)) @@
  (CASE t.kind = "array" -> [t EXCEPT !.base = Laid(tg, @)]
     [] t.kind \in Records -> [t EXCEPT !.members = [j \in DOMAIN @ |-> [@[j] EXCEPT !.type = Laid(tg, @)]]]
     [] OTHER -> t)

NoType == [kind |-> "none"]
SizeOf(t) == t.lay.size
Indices(s) == [j \in DOMAIN s |-> j]
\* The members an initializer can name or reach, as indices.
Slots(t) == SelectSeq(Indices(t.members), LAMBDA j : ~(t.members[j].bf /\ t.members[j].name = ""))

RECURSIVE type_compatible(_, _)
type_compatible(a, b) ==
  IF a.kind = "array" /\ b.kind = "array"
  THEN type_compatible(a.base, b.base) /\ (a.has_size /\ b.has_size => a.size = b.size)
  ELSE a = b

type_string_initializer_compatible(t, e) == t.kind = "array" /\ e.k = "str" /\ t.base.kind = "char"
type_array_initializer_compatible(t, s) == t.kind = "array" /\ s.kind = "array" /\ type_compatible(t, s)

\* The member a GNU cast to a union type selects, 0 for none.
type_union_cast_member(t, of) ==
  With({j \in DOMAIN t.members : ~t.members[j].bf /\ t.members[j].type.kind = of.kind /\ type_compatible(t.members[j].type, of)},
    LAMBDA js : IF js = {} THEN 0 ELSE CHOOSE j \in js : \A i \in js : j <= i)

\* A converted value: the carrier of every checked constant is 16 bits wide,
\* so only a char target cuts one down.
Fit(t, v) == IF t.kind = "char" THEN ((v + 128) % 256) - 128 ELSE v
Bits(v, w) == {i \in Low(w) : IF i < 16 THEN (v \div (2 ^ i)) % 2 = 1 ELSE v < 0}

---------------------------------------------------------------------------
\* sema/decl.c: the cursor.

init_is_aggregate(t) == t.kind \in {"array"} \cup Records

init_child_type(t, pos) ==
  CASE t.kind = "array" -> IF t.has_size /\ pos >= t.size THEN NoType ELSE t.base
    [] t.kind \in Records -> With(Slots(t), LAMBDA s : IF pos < Len(s) THEN t.members[s[pos + 1]].type ELSE NoType)
    [] OTHER -> NoType

\* The position of a member among the slots, -1 for none.
init_member_position(t, name) ==
  With(Slots(t), LAMBDA s : With({j \in DOMAIN s : t.members[s[j]].name = name}, LAMBDA js :
    IF js = {} THEN -1 ELSE (CHOOSE j \in js : TRUE) - 1))

init_find_member(t, name) ==
  With({j \in DOMAIN t.members : t.members[j].name = name}, LAMBDA js :
    IF t.kind \notin Records \/ js = {} THEN NoType ELSE t.members[CHOOSE j \in js : TRUE].type)

init_cursor_start(root) ==
  IF init_is_aggregate(root) THEN [fr |-> <<[agg |-> root, pos |-> 0]>>, cur |-> init_child_type(root, 0)]
  ELSE [fr |-> <<>>, cur |-> root]

init_cursor_descend(q) ==
  IF init_is_aggregate(q.cur) THEN [fr |-> Append(q.fr, [agg |-> q.cur, pos |-> 0]), cur |-> init_child_type(q.cur, 0)] ELSE q

RECURSIVE init_cursor_advance(_)
init_cursor_advance(q) ==
  IF q.fr = <<>> THEN [q EXCEPT !.cur = NoType]
  ELSE With(Last(q.fr), LAMBDA f : With(init_child_type(f.agg, f.pos + 1), LAMBDA next :
         IF f.agg.kind # "union" /\ next # NoType
         THEN [fr |-> Append(Front(q.fr), [f EXCEPT !.pos = @ + 1]), cur |-> next]
         ELSE init_cursor_advance([q EXCEPT !.fr = Front(@)])))

init_designator_bounds(d) == d.lo >= 0 /\ (d.hi # -1 => d.hi >= d.lo)

\* [ok, q, err]: err when a range leaves the array, which is diagnosed.
init_cursor_designate(root, ds) ==
  LET last(i) == i = Len(ds)
      select(s, i) ==
        IF ~s.ok \/ s.q.fr = <<>> THEN [s EXCEPT !.ok = FALSE]
        ELSE With(ds[i], LAMBDA d : With(Last(s.q.fr).agg, LAMBDA agg :
          LET pos == IF d.field # "" THEN init_member_position(agg, d.field) ELSE d.lo
              fits == IF d.field # "" THEN agg.kind \in Records ELSE agg.kind = "array" /\ init_designator_bounds(d)
              beyond == fits /\ d.hi # -1 /\ agg.has_size /\ d.hi >= agg.size
          IN IF ~fits \/ beyond \/ pos = -1 THEN [s EXCEPT !.ok = FALSE, !.err = @ \/ beyond \/ (d.field = "" /\ ~init_designator_bounds(d))]
             ELSE With(init_child_type(agg, pos), LAMBDA cur :
                    LET at == Append(Front(s.q.fr), [agg |-> agg, pos |-> pos])
                    IN [s EXCEPT !.ok = cur # NoType /\ (last(i) \/ init_is_aggregate(cur)),
                                 !.q = [fr |-> IF last(i) THEN at ELSE Append(at, [agg |-> cur, pos |-> 0]), cur |-> cur]])))
  IN Fold(select, [ok |-> TRUE, q |-> init_cursor_start(root), err |-> FALSE], Indices(ds))

init_designated_type(root, ds) ==
  Fold(LAMBDA t, d : CASE t = NoType -> NoType
                           [] d.field # "" -> init_find_member(t, d.field)
                           [] t.kind = "array" -> t.base
                           [] OTHER -> NoType, root, ds)

---------------------------------------------------------------------------
\* sema/decl.c: ranges.

RECURSIVE init_expand_combinations(_)
init_expand_combinations(ds) ==
  IF ds = <<>> THEN << <<>> >>
  ELSE With(init_expand_combinations(Tail(ds)), LAMBDA rest :
         LET under(d) == [j \in DOMAIN rest |-> <<d>> \o rest[j]]
         IN IF ds[1].hi = -1 THEN under(ds[1])
            ELSE FlattenSeq([i \in 1..(ds[1].hi - ds[1].lo + 1) |-> under([ds[1] EXCEPT !.lo = @ + i - 1, !.hi = -1])]))

init_item_ranges_valid(ds) == \A j \in DOMAIN ds : ds[j].hi # -1 => init_designator_bounds(ds[j])

init_expand_ranges(items) ==
  FlattenSeq([j \in DOMAIN items |->
    IF ~init_item_ranges_valid(items[j].ds) THEN <<items[j]>>
    ELSE With(init_expand_combinations(items[j].ds), LAMBDA all : [i \in DOMAIN all |-> [items[j] EXCEPT !.ds = all[i]]])])

---------------------------------------------------------------------------
\* sema/decl.c: typing.

init_expr_initializes_whole(t, e) ==
  CASE t.kind = "array" /\ e.k = "str" -> type_string_initializer_compatible(t, e)
    [] t.kind = "array" /\ e.k = "clit" -> type_array_initializer_compatible(t, e.type)
    [] e.k \in {"agg", "clit", "ucast"} -> type_compatible(t, e.type)
    [] OTHER -> FALSE

RECURSIVE InitElided(_, _)
InitElided(q, e) ==
  IF init_is_aggregate(q.cur) /\ ~init_expr_initializes_whole(q.cur, e) THEN InitElided(init_cursor_descend(q), e) ELSE q

\* The assignment conversion to the selected subobject.  A string or an array
\* literal that does not initialize an array decays to its address.
sema_init_assign_typed(t, e) ==
  CASE t = NoType \/ type_string_initializer_compatible(t, e) -> e
    [] t # NoType /\ t.kind = "array" /\ e.k = "clit" /\ type_array_initializer_compatible(t, e.type) -> e
    [] e.k = "str" /\ t.kind = "ptr" -> [k |-> "addr", sym |-> "string", ds |-> e.ds]
    [] e.k \in {"int", "rt"} -> [e EXCEPT !.v = Fit(t, @)]
    [] OTHER -> e

BracedString(t, e) ==
  /\ t.kind = "array" /\ e.k = "list" /\ Len(e.items) = 1
  /\ e.items[1].ds = <<>> /\ type_string_initializer_compatible(t, e.items[1])

RECURSIVE sema_init_value(_, _)
\* [e, err]: the typed initializer, and whether it was diagnosed.
sema_init_value(t, e) ==
  LET one(s, item) ==
        LET d == IF item.ds = <<>> THEN [ok |-> TRUE, q |-> s.q, err |-> FALSE] ELSE init_cursor_designate(t, item.ds)
            lost == sema_init_value(init_designated_type(t, item.ds), item)
            kept(r, q) == [q |-> q, items |-> Append(s.items, r.e), err |-> s.err \/ d.err \/ r.err]
            inner == InitElided(d.q, item)
        IN CASE ~d.ok -> kept(lost, d.q)
             [] d.ok /\ d.q.cur = NoType -> kept(sema_init_value(NoType, item), d.q)
             [] d.ok /\ d.q.cur # NoType /\ item.k = "list" -> kept(sema_init_value(d.q.cur, item), init_cursor_advance(d.q))
             [] OTHER -> kept([e |-> sema_init_assign_typed(inner.cur, item), err |-> FALSE], init_cursor_advance(inner))
      first(s, j) ==
        With(sema_init_value(IF j = 1 THEN t ELSE NoType, e.items[j]), LAMBDA r :
          [s EXCEPT !.items = Append(@, r.e), !.err = @ \/ r.err])
      none == [q |-> [fr |-> <<>>, cur |-> NoType], items |-> <<>>, err |-> FALSE]
  IN CASE BracedString(t, e) -> [e |-> e.items[1], err |-> FALSE]
       [] e.k # "list" -> [e |-> sema_init_assign_typed(t, e), err |-> FALSE]
       [] e.k = "list" /\ init_is_aggregate(t) ->
            With(Fold(one, [none EXCEPT !.q = init_cursor_start(t)], e.items), LAMBDA s :
              [e |-> [e EXCEPT !.items = init_expand_ranges(s.items)], err |-> s.err])
       [] OTHER -> With(Fold(first, none, Indices(e.items)), LAMBDA s : [e |-> [e EXCEPT !.items = s.items], err |-> s.err])

---------------------------------------------------------------------------
\* sema/decl.c: bounds that the initializer supplies.

\* One item of a list that the walks below only look at: the cursor before it
\* (designated), the cursor at the subobject it initializes, and after it.
Reached(root, q, item) ==
  With(IF item.ds = <<>> THEN [ok |-> TRUE, q |-> q] ELSE init_cursor_designate(root, item.ds), LAMBDA d :
    With(IF item.k = "list" THEN d.q ELSE InitElided(d.q, item), LAMBDA at :
      [skip |-> ~d.ok \/ d.q.cur = NoType, from |-> d.q, at |-> at,
       after |-> IF ~d.ok \/ d.q.cur = NoType THEN d.q ELSE init_cursor_advance(at)]))

array_size_from_init(t, e) ==
  LET one(s, item) ==
        With(Reached(t, s.q, item), LAMBDA r :
          [q |-> r.after, high |-> IF r.skip THEN s.high ELSE Larger(s.high, r.from.fr[1].pos + 1)])
  IN CASE e.k = "clit" -> e.type.size
       [] type_string_initializer_compatible(t, e) -> Len(e.bytes) + 1
       [] BracedString(t, e) -> Len(e.items[1].bytes) + 1
       [] OTHER -> Fold(one, [q |-> init_cursor_start(t), high |-> 0], e.items).high

sema_array_complete_from_init(t, e) ==
  IF t.kind # "array" \/ t.has_size \/ e.k \notin {"list", "str", "clit"} THEN t
  ELSE With(array_size_from_init(t, e), LAMBDA n :
         [t EXCEPT !.has_size = TRUE, !.size = n, !.lay = [@ EXCEPT !.size = n * SizeOf(t.base)]])

Incomplete(t) == t.kind = "array" /\ ~t.has_size
flexible_array_member(t) ==
  With({j \in DOMAIN t.members : Incomplete(t.members[j].type)}, LAMBDA js :
    IF t.kind # "struct" \/ js = {} THEN 0 ELSE CHOOSE j \in js : TRUE)

RECURSIVE type_contains_fam(_)
type_contains_fam(t) ==
  CASE t.kind \in Records -> \E j \in DOMAIN t.members : Incomplete(t.members[j].type) \/ type_contains_fam(t.members[j].type)
    [] t.kind = "array" -> type_contains_fam(t.base)
    [] OTHER -> FALSE

fam_note_cursor(q, fam, high) ==
  Fold(LAMBDA h, f : IF f.agg = fam THEN Larger(h, f.pos + 1) ELSE h, high, q.fr)

\* Elements the initializer gives the record's flexible array, -1 for none.
fam_size_from_init(t, e) ==
  IF t.kind \notin Records \/ e.k # "list" THEN -1
  ELSE With(flexible_array_member(t), LAMBDA j : IF j = 0 THEN -1 ELSE
    With(t.members[j].type, LAMBDA fam :
      LET whole(q, item) == q.cur = fam /\ (item.k = "list" \/ init_expr_initializes_whole(fam, item))
          one(s, item) ==
            With(Reached(t, s.q, item), LAMBDA r :
              [q |-> r.after,
               high |-> IF r.skip THEN s.high
                        ELSE With(fam_note_cursor(r.from, fam, s.high), LAMBDA h :
                               IF whole(r.from, item) THEN Larger(Larger(h, 0), array_size_from_init(fam, item))
                               ELSE fam_note_cursor(r.at, fam, h))])
      IN Fold(one, [q |-> init_cursor_start(t), high |-> -1], e.items).high))

fam_init_fits_storage(t, e, storage) ==
  With(fam_size_from_init(t, e), LAMBDA n : n # -1 /\ With(flexible_array_member(t), LAMBDA j :
    /\ t.lay.at[j].offset <= storage
    /\ n <= (storage - t.lay.at[j].offset) \div SizeOf(t.members[j].type.base)))

cursor_reaches_nested_fam(q, root, declared) ==
  \E i \in DOMAIN q.fr :
    /\ Incomplete(q.fr[i].agg)
    /\ ~(declared /\ root.kind = "struct" /\ i = 2 /\ q.fr[1].agg = root /\ flexible_array_member(root) # 0)

RECURSIVE nested_fam_initialized(_, _, _)
nested_fam_initialized(t, e, declared) ==
  LET direct(q) == declared /\ t.kind = "struct" /\ Len(q.fr) = 1 /\ Incomplete(q.cur)
      one(s, item) ==
        With(Reached(t, s.q, item), LAMBDA r :
          [q |-> r.after,
           yes |-> \/ s.yes
                   \/ ~r.skip /\ \/ cursor_reaches_nested_fam(r.at, t, declared)
                                 \/ item.k = "list" /\ ~direct(r.from) /\ nested_fam_initialized(r.from.cur, item, FALSE)])
  IN e.k = "list" /\ init_is_aggregate(t)
       /\ \/ ~declared /\ fam_size_from_init(t, e) # -1
          \/ Fold(one, [q |-> init_cursor_start(t), yes |-> FALSE], e.items).yes

RECURSIVE scan_fam_backing(_, _, _, _, _)
scan_fam_backing(t, e, backing, nested, scan) ==
  LET one(s, item) ==
        With(Reached(t, s.q, item), LAMBDA r :
          [q |-> r.after,
           scan |-> CASE r.skip -> s.scan
                      [] ~r.skip /\ item.k = "list" ->
                           With(Last(r.from.fr).agg, LAMBDA parent :
                             scan_fam_backing(r.from.cur, item, IF parent.kind = "union" THEN SizeOf(parent) ELSE 0, TRUE, s.scan))
                      [] OTHER -> [s.scan EXCEPT !.invalid = @ \/ cursor_reaches_nested_fam(r.at, t, TRUE)]])
  IN CASE e.k # "list" \/ scan.invalid \/ ~init_is_aggregate(t) -> scan
       [] nested /\ fam_size_from_init(t, e) # -1 ->
            [found |-> TRUE, invalid |-> backing = 0 \/ ~fam_init_fits_storage(t, e, backing)]
       [] OTHER -> Fold(one, [q |-> init_cursor_start(t), scan |-> scan], e.items).scan

\* The typed initializer, the completed type, the storage of the object, and
\* whether the initializer was diagnosed.
sema_init_expr(t, e, static) ==
  With(sema_init_value(t, e), LAMBDA r : With(fam_size_from_init(t, r.e), LAMBDA n :
    With(sema_array_complete_from_init(t, r.e), LAMBDA done :
      LET nested == type_contains_fam(t) /\ nested_fam_initialized(t, r.e, TRUE)
          backed == static /\ With(scan_fam_backing(t, r.e, 0, FALSE, [found |-> FALSE, invalid |-> FALSE]),
                                  LAMBDA scan : scan.found /\ ~scan.invalid)
      IN [e |-> r.e, t |-> done, err |-> r.err \/ (nested /\ ~backed) \/ (n # -1 /\ ~static),
          storage |-> SizeOf(done) + (IF n = -1 THEN 0 ELSE n * SizeOf(t.members[flexible_array_member(t)].type.base))])))

---------------------------------------------------------------------------
\* sema/constexpr.c: the image of a static object.
\* c = [size, bits, relocs, semantic, fam_end, rev, ok, unions].

BytesOf(off, n) == (8 * off)..(8 * (off + n) - 1)
img_zero(c, off, n) == IF off + n <= c.size THEN [c EXCEPT !.bits = @ \ BytesOf(off, n)] ELSE c
img_put_int(c, off, v, n) ==
  [c EXCEPT !.bits = (@ \ BytesOf(off, n)) \cup ({8 * off + i : i \in Bits(v, 8 * n)} \cap Low(8 * c.size))]
img_reverse_scalar(c, t, off) ==
  With(SizeOf(t), LAMBDA n :
    IF init_is_aggregate(t) \/ t.kind = "ptr" \/ n <= 1 \/ off + n > c.size THEN c
    ELSE [c EXCEPT !.bits = StoreBytes(@, off, n, reverse_integer_bytes(LoadBytes(@, off, n), n))])
img_clear_relocs(c, off, n) == [c EXCEPT !.relocs = SelectSeq(@, LAMBDA r : ~(r.off < off + n /\ off < r.off + 8))]
img_reloc(c, off, sym) ==
  With(img_clear_relocs(c, off, 8), LAMBDA d :
    [d EXCEPT !.relocs = SelectSeq(@, LAMBDA r : r.off < off) \o <<[off |-> off, sym |-> sym]>> \o SelectSeq(@, LAMBDA r : r.off >= off)])

fill_scalar(c, t, e, off) ==
  IF init_is_aggregate(t) THEN [c EXCEPT !.ok = FALSE]
  ELSE With(img_clear_relocs(c, off, SizeOf(t)), LAMBDA d :
         CASE e.k = "int" -> img_put_int(d, off, e.v, SizeOf(t))
           [] e.k = "addr" -> img_reloc(img_zero(d, off, SizeOf(t)), off, e.sym)
           [] OTHER -> [d EXCEPT !.ok = FALSE])

\* Where the bytes of a string of chars go, at most cap of them.
StringBits(e, off, cap) == UNION {{8 * (off + i - 1) + b : b \in Bits(e.bytes[i], 8)} : i \in 1..Smaller(cap, Len(e.bytes))}

fill_string(c, t, e, off) ==
  With(CASE t.has_size -> t.size
         [] ~t.has_size /\ c.fam_end > off -> (c.fam_end - off) \div SizeOf(t.base)
         [] OTHER -> (c.size - c.semantic) \div SizeOf(t.base), LAMBDA cap :
    With(img_zero(img_clear_relocs(c, off, cap), off, cap), LAMBDA d :
      [d EXCEPT !.bits = @ \cup (StringBits(e, off, cap) \cap Low(8 * c.size))]))

NoMember == [bf |-> FALSE, name |-> "", type |-> NoType]
fill_is_aggregate(t) == t.kind \in {"array"} \cup Records

\* A frame is [agg, off, pos, rev].  cur = NoType when nothing is selected.
fill_cursor_select(c, q) ==
  LET none == [q EXCEPT !.cur = NoType, !.mem = NoMember, !.rev = FALSE]
      f == Last(q.fr)
      element == With(SizeOf(f.agg.base), LAMBDA n :
        IF \/ f.agg.has_size /\ f.pos >= f.agg.size
           \/ ~f.agg.has_size /\ c.fam_end # 0 /\ (n = 0 \/ f.off >= c.fam_end \/ f.pos >= (c.fam_end - f.off) \div n)
        THEN none
        ELSE [q EXCEPT !.cur = f.agg.base, !.mem = NoMember, !.off = f.off + f.pos * n, !.rev = f.rev])
      member == With(Slots(f.agg), LAMBDA s :
        IF f.pos >= Len(s) THEN none
        ELSE With(f.agg.members[s[f.pos + 1]], LAMBDA m :
               [q EXCEPT !.cur = m.type, !.mem = m @@ ("at" :> f.agg.lay.at[s[f.pos + 1]]),
                         !.off = IF m.bf THEN f.off ELSE f.off + f.agg.lay.at[s[f.pos + 1]].offset,
                         !.rev = f.agg.rev]))
  IN IF q.fr = <<>> THEN none ELSE IF f.agg.kind = "array" THEN element ELSE member

FillFrame(t, off, rev) == [agg |-> t, off |-> off, pos |-> 0, rev |-> t.kind = "array" /\ rev]
fill_cursor_start(c, root, off) ==
  fill_cursor_select(c, [fr |-> <<FillFrame(root, off, c.rev)>>, cur |-> NoType, mem |-> NoMember, off |-> 0, rev |-> FALSE])
fill_cursor_descend(c, q) == fill_cursor_select(c, [q EXCEPT !.fr = Append(@, FillFrame(q.cur, q.off, q.rev))])
Positioned(q, pos) == [q EXCEPT !.fr = Append(Front(@), [Last(@) EXCEPT !.pos = pos])]

RECURSIVE fill_cursor_advance(_, _)
fill_cursor_advance(c, q) ==
  IF q.fr = <<>> THEN [q EXCEPT !.cur = NoType, !.mem = NoMember]
  ELSE With(fill_cursor_select(c, Positioned(q, Last(q.fr).pos + 1)), LAMBDA next :
         IF Last(q.fr).agg.kind # "union" /\ next.cur # NoType THEN next
         ELSE fill_cursor_advance(c, [q EXCEPT !.fr = Front(@)]))

fill_member_position(t, name) ==
  With(Slots(t), LAMBDA s : With({j \in DOMAIN s : t.members[s[j]].name = name}, LAMBDA js :
    IF js = {} THEN -1 ELSE (CHOOSE j \in js : TRUE) - 1))

fill_cursor_designate(c, root, off, ds) ==
  LET select(s, i) ==
        IF ~s.ok THEN s
        ELSE With(Last(s.q.fr).agg, LAMBDA agg :
          LET pos == IF ds[i].field # "" THEN fill_member_position(agg, ds[i].field) ELSE ds[i].lo
              fits == (IF ds[i].field # "" THEN agg.kind \in Records ELSE agg.kind = "array") /\ pos >= 0
          IN IF ~fits THEN [s EXCEPT !.ok = FALSE]
             ELSE With(fill_cursor_select(c, Positioned(s.q, pos)), LAMBDA q :
                    IF i = Len(ds) \/ ~fill_is_aggregate(q.cur)
                    THEN [ok |-> q.cur # NoType /\ i = Len(ds), q |-> q]
                    ELSE [ok |-> TRUE, q |-> [q EXCEPT !.fr = Append(@, FillFrame(q.cur, q.off, q.rev))]]))
  IN Fold(select, [ok |-> TRUE, q |-> fill_cursor_start(c, root, off)], Indices(ds))

fill_expr_initializes_whole(t, e) ==
  IF t.kind = "array" /\ e.k = "str" THEN type_string_initializer_compatible(t, e)
  ELSE e.k \in {"agg", "clit", "ucast"} /\ type_compatible(t, e.type)

fill_activate_union(c, t, off, member) ==
  With({j \in DOMAIN c.unions : c.unions[j].type = t /\ c.unions[j].off = off}, LAMBDA js :
    IF js = {} THEN [c EXCEPT !.unions = Append(@, [type |-> t, off |-> off, member |-> member])]
    ELSE With(CHOOSE j \in js : TRUE, LAMBDA j :
           IF c.unions[j].member = member THEN c
           ELSE [img_zero(img_clear_relocs(c, off, SizeOf(t)), off, SizeOf(t)) EXCEPT !.unions[j].member = member]))

fill_activate_cursor_unions(c, q) ==
  Fold(LAMBDA d, f : IF f.agg.kind = "union" THEN fill_activate_union(d, f.agg, f.off, f.pos) ELSE d, c, q.fr)

\* The memory bit that holds bit b of bit-field m of a record at off.
FieldBit(off, m, rev, b) ==
  With((m.at.offset \div m.at.cont) * m.at.cont, LAMBDA unit :
    LET packed == member_uses_packed_bits(m)
        start == IF packed THEN m.at.shift ELSE (m.at.offset - unit) * 8 + m.at.shift
        logical == IF rev THEN start + m.width - 1 - b ELSE m.at.shift + b
        byte == off + (IF rev /\ ~packed THEN unit ELSE m.at.offset) + (logical \div 8)
    IN 8 * byte + (IF rev THEN 7 - (logical % 8) ELSE logical % 8))
FieldImage(bits, off, m, rev, v) ==
  (bits \ {FieldBit(off, m, rev, b) : b \in Low(m.width)}) \cup {FieldBit(off, m, rev, b) : b \in Bits(v, m.width)}

fill_bitfield(c, q, e) ==
  IF e.k # "int" THEN c
  ELSE [img_clear_relocs(c, q.off + q.mem.at.offset, (q.mem.at.shift + q.mem.width - 1) \div 8 + 1)
          EXCEPT !.bits = FieldImage(@, q.off, q.mem, q.rev, e.v)]

RECURSIVE fill(_, _, _, _)
fill_cursor_value(c, q, e) ==
  IF q.cur = NoType THEN [c EXCEPT !.ok = FALSE]
  ELSE LET enclosing == SelectSeq(q.fr, LAMBDA f : f.agg.kind = "union")
           within == IF enclosing = <<>> THEN c ELSE [c EXCEPT !.fam_end = Last(enclosing).off + SizeOf(Last(enclosing).agg)]
           active == fill_activate_cursor_unions(within, q)
           clean == IF fill_is_aggregate(q.cur) /\ (e.k = "list" \/ fill_expr_initializes_whole(q.cur, e))
                    THEN img_zero(img_clear_relocs(active, q.off, SizeOf(q.cur)), q.off, SizeOf(q.cur)) ELSE active
           filled == fill([clean EXCEPT !.rev = q.rev], q.cur, e, q.off)
           done == IF q.mem.bf THEN fill_bitfield(clean, q, e)
                   ELSE IF q.rev THEN img_reverse_scalar(filled, q.cur, q.off) ELSE filled
       IN [done EXCEPT !.rev = c.rev, !.fam_end = c.fam_end]

RECURSIVE FillElided(_, _, _)
FillElided(c, q, e) ==
  IF fill_is_aggregate(q.cur) /\ ~fill_expr_initializes_whole(q.cur, e) THEN FillElided(c, fill_cursor_descend(c, q), e) ELSE q

fill_aggregate_list(c, t, e, off) ==
  LET one(s, item) ==
        With(IF item.ds = <<>> THEN [ok |-> TRUE, q |-> s.q] ELSE fill_cursor_designate(s.c, t, off, item.ds), LAMBDA d :
          IF ~d.ok \/ d.q.cur = NoType THEN [c |-> [s.c EXCEPT !.ok = FALSE], q |-> d.q]
          ELSE With(IF item.k = "list" THEN d.q ELSE FillElided(s.c, d.q, item), LAMBDA at :
                 [c |-> fill_cursor_value(s.c, at, item), q |-> fill_cursor_advance(s.c, at)]))
  IN Fold(one, [c |-> c, q |-> fill_cursor_start(c, t, off)], e.items).c

fill_array(c, t, e, off) ==
  CASE type_string_initializer_compatible(t, e) -> fill_string(c, t, e, off)
    [] e.k = "list" -> fill_aggregate_list(c, t, e, off)
    [] OTHER -> [c EXCEPT !.ok = FALSE]
fill_record(c, t, e, off) ==
  IF e.k = "list" THEN fill_aggregate_list(c, t, e, off) ELSE [c EXCEPT !.ok = FALSE]

\* The member's position among the slots for a cast to the union.
CastCursor(c, t, e, off) ==
  With(type_union_cast_member(t, e.of), LAMBDA j :
    fill_cursor_select(c, Positioned(fill_cursor_start(c, t, off), Cardinality({i \in 1..(j - 1) : j > 0 /\ i \in Range(Slots(t))}))))

fill(c, t, e0, off) ==
  With(IF e0.k = "clit" /\ fill_is_aggregate(t) /\ type_compatible(t, e0.type) THEN e0.init ELSE e0, LAMBDA e :
    CASE t.kind = "union" /\ e.k = "ucast" /\ type_compatible(t, e.type) /\ type_union_cast_member(t, e.of) # 0 ->
           fill_cursor_value(c, CastCursor(c, t, e, off), e.lhs)
      [] t.kind = "array" -> fill_array(c, t, e, off)
      [] t.kind \in Records /\ e.k # "ucast" -> fill_record(c, t, e, off)
      [] ~fill_is_aggregate(t) /\ e.k = "list" -> IF e.items = <<>> THEN c ELSE fill_scalar(c, t, e.items[1], off)
      [] OTHER -> fill_scalar(c, t, e, off))

constexpr_eval_initializer_sized(t, e, storage) ==
  fill([size |-> storage, bits |-> {}, relocs |-> <<>>, semantic |-> SizeOf(t), fam_end |-> 0, rev |-> FALSE, ok |-> TRUE,
        unions |-> <<>>], t, e, 0)

---------------------------------------------------------------------------
\* lower/init.c: the plan of an automatic object.
\* p = [size, bits, relocs, rts, rev, unions]; a run-time store is
\* [off, t, e, bf, mem, rev, active].

plan_rt(p, off, t, e, mem, rev) ==
  [p EXCEPT !.rts = Append(@, [off |-> off, t |-> t, e |-> e, mem |-> mem, active |-> TRUE,
                               rev |-> rev /\ (mem.bf \/ t.kind \notin {"array", "ptr"} \cup Records)])]
plan_put_int(p, off, v, n) ==
  [p EXCEPT !.bits = (@ \ BytesOf(off, n)) \cup ({8 * off + i : i \in Bits(v, 8 * n)} \cap Low(8 * p.size))]
plan_reverse_scalar(p, t, off) ==
  With(SizeOf(t), LAMBDA n :
    IF init_is_aggregate(t) \/ t.kind = "ptr" \/ n <= 1 \/ off + n > p.size THEN p
    ELSE [p EXCEPT !.bits = StoreBytes(@, off, n, reverse_integer_bytes(LoadBytes(@, off, n), n))])
plan_zero(p, off, n) == IF off + n <= p.size THEN [p EXCEPT !.bits = @ \ BytesOf(off, n)] ELSE p
plan_clear_relocs(p, off, n) == [p EXCEPT !.relocs = SelectSeq(@, LAMBDA r : ~(r.off < off + n /\ off < r.off + 8))]
plan_ranges_overlap(a, an, b, bn) == an # 0 /\ bn # 0 /\ a < b + bn /\ b < a + an

plan_clear_rt_bits(p, from, n) ==
  LET first(r) == IF r.mem.bf THEN (r.off + r.mem.at.offset) * 8 + r.mem.at.shift ELSE r.off * 8
      width(r) == IF r.mem.bf THEN r.mem.width ELSE 8 * SizeOf(r.t)
  IN [p EXCEPT !.rts = [j \in DOMAIN @ |-> [@[j] EXCEPT !.active = @ /\ ~plan_ranges_overlap(from, n, first(p.rts[j]), width(p.rts[j]))]]]
plan_clear_bytes(p, off, n) == plan_clear_rt_bits(plan_clear_relocs(p, off, n), off * 8, n * 8)
PlanReset(p, off, n) == plan_zero(plan_clear_bytes(p, off, n), off, n)

\* [ok, p]: a full table refuses.
plan_reloc(p, off, sym) ==
  With(plan_clear_relocs(p, off, 8), LAMBDA d :
    IF Len(d.relocs) = RELOCS THEN [ok |-> FALSE, p |-> d]
    ELSE [ok |-> TRUE,
          p |-> [d EXCEPT !.relocs = SelectSeq(@, LAMBDA r : r.off < off) \o <<[off |-> off, sym |-> sym]>>
                                       \o SelectSeq(@, LAMBDA r : r.off >= off)]])

plan_scalar(p, t, e, off) ==
  With(PlanReset(p, off, SizeOf(t)), LAMBDA d :
    CASE e.k = "int" -> plan_put_int(d, off, e.v, SizeOf(t))
      [] e.k = "addr" -> With(plan_reloc(d, off, e.sym), LAMBDA r : IF r.ok THEN r.p ELSE plan_rt(r.p, off, t, e, NoMember, d.rev))
      [] OTHER -> plan_rt(d, off, t, e, NoMember, d.rev))

plan_is_aggregate(t) == t.kind \in {"array"} \cup Records

plan_cursor_select(q) ==
  LET none == [q EXCEPT !.cur = NoType, !.mem = NoMember, !.rev = FALSE]
      f == Last(q.fr)
      element ==
        IF f.agg.has_size /\ f.pos >= f.agg.size THEN none
        ELSE [q EXCEPT !.cur = f.agg.base, !.mem = NoMember, !.off = f.off + f.pos * SizeOf(f.agg.base), !.rev = f.rev]
      member == With(Slots(f.agg), LAMBDA s :
        IF f.pos >= Len(s) THEN none
        ELSE With(f.agg.members[s[f.pos + 1]], LAMBDA m :
               [q EXCEPT !.cur = m.type, !.mem = m @@ ("at" :> f.agg.lay.at[s[f.pos + 1]]),
                         !.off = IF m.bf THEN f.off ELSE f.off + f.agg.lay.at[s[f.pos + 1]].offset,
                         !.rev = f.agg.rev]))
  IN IF q.fr = <<>> THEN none ELSE IF f.agg.kind = "array" THEN element ELSE member

PlanFrame(t, off, rev) == [agg |-> t, off |-> off, pos |-> 0, rev |-> t.kind = "array" /\ rev]
plan_cursor_start(p, root, off) ==
  plan_cursor_select([fr |-> <<PlanFrame(root, off, p.rev)>>, cur |-> NoType, mem |-> NoMember, off |-> 0, rev |-> FALSE])
plan_cursor_descend(q) == plan_cursor_select([q EXCEPT !.fr = Append(@, PlanFrame(q.cur, q.off, q.rev))])

RECURSIVE plan_cursor_advance(_)
plan_cursor_advance(q) ==
  IF q.fr = <<>> THEN [q EXCEPT !.cur = NoType, !.mem = NoMember]
  ELSE With(plan_cursor_select(Positioned(q, Last(q.fr).pos + 1)), LAMBDA next :
         IF Last(q.fr).agg.kind # "union" /\ next.cur # NoType THEN next
         ELSE plan_cursor_advance([q EXCEPT !.fr = Front(@)]))

\* Positions down to a member, through anonymous records; <<>> for none.
RECURSIVE plan_member_path(_, _)
plan_member_path(t, name) ==
  With(Slots(t), LAMBDA s :
    LET path(j) == With(t.members[s[j]], LAMBDA m :
          CASE m.name = name -> <<j - 1>>
            [] m.name = "" /\ m.type.kind \in Records ->
                 With(plan_member_path(m.type, name), LAMBDA inner : IF inner = <<>> THEN <<>> ELSE <<j - 1>> \o inner)
            [] OTHER -> <<>>)
        found == {j \in DOMAIN s : path(j) # <<>>}
    IN IF found = {} THEN <<>> ELSE path(CHOOSE j \in found : \A i \in found : j <= i))

plan_cursor_designate(p, root, off, ds) ==
  LET enter(q) == [q EXCEPT !.fr = Append(@, PlanFrame(q.cur, q.off, q.rev))]
      \* the positions one designator selects in turn
      hop(s, pos) == With(plan_cursor_select(Positioned(IF s.enter THEN enter(s.q) ELSE s.q, pos)), LAMBDA q :
                       [ok |-> s.ok /\ q.cur # NoType, q |-> q, enter |-> TRUE])
      select(s, i) ==
        IF ~s.ok \/ (s.enter /\ ~plan_is_aggregate(s.q.cur)) THEN [s EXCEPT !.ok = FALSE]
        ELSE With(IF s.enter THEN s.q.cur ELSE root, LAMBDA agg :
          With(CASE ds[i].field # "" /\ agg.kind \in Records -> plan_member_path(agg, ds[i].field)
                 [] ds[i].field = "" /\ agg.kind = "array" /\ ds[i].lo >= 0 -> <<ds[i].lo>>
                 [] OTHER -> <<>>, LAMBDA path :
            IF path = <<>> THEN [s EXCEPT !.ok = FALSE] ELSE Fold(hop, s, path)))
  IN Fold(select, [ok |-> TRUE, q |-> plan_cursor_start(p, root, off), enter |-> FALSE], Indices(ds))

plan_expr_initializes_whole(t, e) ==
  IF t.kind = "array" /\ e.k = "str" THEN type_string_initializer_compatible(t, e)
  ELSE e.k \in {"agg", "clit", "ucast"} /\ type_compatible(t, e.type)

MutActivateUnion(p, t, off, member) == p
plan_activate_union(p, t, off, member) ==
  With({j \in DOMAIN p.unions : p.unions[j].type = t /\ p.unions[j].off = off}, LAMBDA js :
    IF js = {} THEN [p EXCEPT !.unions = Append(@, [type |-> t, off |-> off, member |-> member])]
    ELSE With(CHOOSE j \in js : TRUE, LAMBDA j :
           IF p.unions[j].member = member THEN p
           ELSE [PlanReset(p, off, SizeOf(t)) EXCEPT !.unions[j].member = member]))
plan_activate_cursor_unions(p, q) ==
  Fold(LAMBDA d, f : IF f.agg.kind = "union" THEN plan_activate_union(d, f.agg, f.off, f.pos) ELSE d, p, q.fr)

\* A bit-field: its own bits are cleared, then set or left to a run-time store.
PlanField(p, q, e) ==
  LET first == q.off + q.mem.at.offset
      cleared == plan_clear_rt_bits(
                   plan_clear_relocs(p, first, (first * 8 + q.mem.at.shift + q.mem.width - 1) \div 8 - first + 1),
                   first * 8 + q.mem.at.shift, q.mem.width)
      packed == [cleared EXCEPT !.bits = FieldImage(@, q.off, q.mem, q.rev, IF e.k = "int" THEN e.v ELSE 0)]
  IN IF e.k = "int" THEN packed ELSE plan_rt(packed, q.off, q.mem.type, e, q.mem, q.rev)

RECURSIVE plan_walk(_, _, _, _)
plan_cursor_value(p, q, e) ==
  IF q.cur = NoType THEN p
  ELSE With(plan_activate_cursor_unions(p, q), LAMBDA a :
         With(IF plan_is_aggregate(q.cur) /\ (e.k = "list" \/ plan_expr_initializes_whole(q.cur, e))
              THEN PlanReset(a, q.off, SizeOf(q.cur)) ELSE a, LAMBDA clean :
           IF q.mem.bf THEN PlanField(clean, q, e)
           ELSE With(plan_walk([clean EXCEPT !.rev = q.rev], q.cur, e, q.off), LAMBDA w :
                  [(IF q.rev THEN plan_reverse_scalar(w, q.cur, q.off) ELSE w) EXCEPT !.rev = p.rev])))

RECURSIVE PlanElided(_, _)
PlanElided(q, e) ==
  IF plan_is_aggregate(q.cur) /\ ~plan_expr_initializes_whole(q.cur, e) THEN PlanElided(plan_cursor_descend(q), e) ELSE q

plan_aggregate_list(p, t, e, off) ==
  LET one(s, item) ==
        With(IF item.ds = <<>> THEN [ok |-> TRUE, q |-> s.q] ELSE plan_cursor_designate(s.p, t, off, item.ds), LAMBDA d :
          IF ~d.ok \/ d.q.cur = NoType THEN [s EXCEPT !.q = d.q]
          ELSE With(IF item.k = "list" THEN d.q ELSE PlanElided(d.q, item), LAMBDA at :
                 [p |-> plan_cursor_value(s.p, at, item), q |-> plan_cursor_advance(at)]))
  IN Fold(one, [p |-> p, q |-> plan_cursor_start(p, t, off)], e.items).p

plan_array(p, t, e, off) ==
  CASE e.k = "str" -> With(PlanReset(p, off, t.size), LAMBDA d : [d EXCEPT !.bits = @ \cup (StringBits(e, off, t.size) \cap Low(8 * p.size))])
    [] e.k = "list" -> plan_aggregate_list(p, t, e, off)
    [] OTHER -> plan_walk(p, t.base, e, off)
plan_record(p, t, e, off) ==
  IF e.k = "list" THEN plan_aggregate_list(p, t, e, off) ELSE plan_rt(p, off, t, e, NoMember, p.rev)
plan_walk(p, t, e, off) ==
  CASE t.kind = "array" -> plan_array(p, t, e, off)
    [] t.kind \in Records -> plan_record(p, t, e, off)
    [] ~plan_is_aggregate(t) /\ e.k = "list" -> IF e.items = <<>> THEN p ELSE plan_scalar(p, t, e.items[1], off)
    [] OTHER -> plan_scalar(p, t, e, off)

---------------------------------------------------------------------------
\* lower/init.c: emission, executed.  Memory is [bits, ptrs], ptrs the
\* addresses it holds as [off, sym]; bits of an address are 0.

PutBytes(mem, off, n, v) ==
  [bits |-> StoreBytes(mem.bits, off, n, v), ptrs |-> {r \in mem.ptrs : ~plan_ranges_overlap(r.off, 8, off, n)}]
PutAddress(mem, off, sym) ==
  With(PutBytes(mem, off, 8, {}), LAMBDA m : [m EXCEPT !.ptrs = @ \cup {[off |-> off, sym |-> sym]}])
CopyBytes(mem, off, n, from) ==
  With(PutBytes(mem, off, n, from.bits), LAMBDA m :
    [m EXCEPT !.ptrs = @ \cup {[r EXCEPT !.off = @ + off] : r \in from.ptrs}])

store_chunk(mem, off, n, v) == PutBytes(mem, off, n, v)
read_le(bits, off, n) == LoadBytes(bits, off, n)

RECURSIVE EmitFrom(_, _, _, _)
EmitFrom(p, mem, off, r) ==
  IF off >= p.size THEN mem
  ELSE With(IF r <= Len(p.relocs) THEN p.relocs[r].off ELSE p.size, LAMBDA next :
         IF off = next THEN EmitFrom(p, PutAddress(mem, off, p.relocs[r].sym), off + 8, r + 1)
         ELSE With(CASE next - off >= 8 -> 8 [] next - off \in 4..7 -> 4 [] next - off \in 2..3 -> 2 [] OTHER -> 1, LAMBDA chunk :
                EmitFrom(p, store_chunk(mem, off, chunk, read_le(p.bits, off, chunk)), off + chunk, r)))
emit_stores(p, mem) == EmitFrom(p, mem, 0, 1)

\* [pool, at]: content-keyed, one tag byte and the bytes.
pool_intern(pool, tag, bits, n) ==
  With({j \in DOMAIN pool : pool[j].tag = tag /\ pool[j].size = n /\ pool[j].bits = bits}, LAMBDA js :
    IF js # {} THEN [pool |-> pool, at |-> CHOOSE j \in js : TRUE]
    ELSE [pool |-> Append(pool, [tag |-> tag, size |-> n, bits |-> bits, ptrs |-> {}]), at |-> Len(pool) + 1])

\* A template with addresses is unique: it never enters the pool's key.
emit_template_global(pool, p, n) ==
  IF p.relocs = <<>> THEN pool_intern(pool, "const", p.bits \cap Low(8 * n), n)
  ELSE [pool |-> Append(pool, [tag |-> "own", size |-> n, bits |-> p.bits \cap Low(8 * n), ptrs |-> Range(p.relocs)]),
        at |-> Len(pool) + 1]

\* Zero bytes at the end of the image that hold no address.
Trailing(p) ==
  With(CHOOSE z \in 0..p.size : /\ p.bits \cap BytesOf(p.size - z, z) = {}
                                /\ z = p.size \/ p.bits \cap BytesOf(p.size - z - 1, 1) # {}, LAMBDA z :
    IF p.relocs = <<>> THEN z ELSE Smaller(z, p.size - (Last(p.relocs).off + 8)))

\* [mem, pool] after the constant part.
emit_const_part(p, mem, pool) ==
  With(Trailing(p), LAMBDA z :
    LET copy(m, n) == With(emit_template_global(pool, p, n), LAMBDA g :
                        [mem |-> CopyBytes(m, 0, n, [bits |-> g.pool[g.at].bits, ptrs |-> g.pool[g.at].ptrs]), pool |-> g.pool])
        head == p.size - z
        split == IF head <= STORE_MAX THEN [mem |-> emit_stores([p EXCEPT !.size = head], mem), pool |-> pool] ELSE copy(mem, head)
    IN CASE z = p.size /\ p.relocs = <<>> -> [mem |-> PutBytes(mem, 0, p.size, {}), pool |-> pool]
         [] p.size <= STORE_MAX -> [mem |-> emit_stores(p, mem), pool |-> pool]
         [] p.size > STORE_MAX /\ z > ZERO_TAIL_MIN -> [split EXCEPT !.mem = PutBytes(@, head, z, {})]
         [] OTHER -> copy(mem, p.size))

\* The expression behind a run-time store, evaluated once for all the copies
\* a range made of it.
materialize_rt_value(log, e) ==
  IF e.k \notin {"rt", "agg"} \/ e.id \in Range(log) THEN log ELSE Append(log, e.id)

RtField(r) ==
  With((r.mem.at.offset \div r.mem.at.cont) * r.mem.at.cont, LAMBDA unit : With(member_uses_packed_bits(r.mem), LAMBDA packed :
    [addr |-> r.off + (IF packed THEN r.mem.at.offset ELSE unit), unit |-> r.mem.at.cont, bf |-> TRUE,
     shift |-> IF packed THEN r.mem.at.shift ELSE (r.mem.at.offset - unit) * 8 + r.mem.at.shift,
     width |-> r.mem.width, signed |-> TRUE, packed |-> packed, rev |-> r.rev, wide |-> FALSE]))
RtScalar(r) == [addr |-> r.off, unit |-> SizeOf(r.t), bf |-> FALSE, shift |-> 0, width |-> 0, signed |-> TRUE, packed |-> FALSE,
                rev |-> r.rev, wide |-> FALSE]

RECURSIVE lower_local_init(_, _, _, _)
\* What a run-time aggregate holds; a compound literal is an object of its own.
Source(e) == IF e.k = "agg" THEN [bits |-> e.bits, ptrs |-> {}] ELSE lower_local_init(<<>>, e.type, e.init, 0).mem

emit_rt_store(s, r) ==
  LET stored(lv) == [bits |-> lower_store(s.mem.bits, lv, Bits(r.e.v, 8 * lv.unit)).mem,
                     ptrs |-> {a \in s.mem.ptrs : BytesOf(a.off, 8) \cap Homes(lv) = {}}]
      mem == CASE ~r.mem.bf /\ init_is_aggregate(r.t) -> CopyBytes(s.mem, r.off, SizeOf(r.t), Source(r.e))
               [] ~r.mem.bf /\ r.e.k = "addr" -> PutAddress(s.mem, r.off, r.e.sym)
               [] OTHER -> stored(IF r.mem.bf THEN RtField(r) ELSE RtScalar(r))
  IN [s EXCEPT !.mem = mem, !.log = materialize_rt_value(@, r.e)]

\* Every bit of the object and of guard bytes behind it starts as one.
Junk(n, guard) == [bits |-> Low(8 * (n + guard)), ptrs |-> {}]
NoPlan(n) == [size |-> n, bits |-> {}, relocs |-> <<>>, rts |-> <<>>, rev |-> FALSE, unions |-> <<>>]

lower_local_init(pool, t, e, guard) ==
  LET junk == Junk(SizeOf(t), guard)
      done(mem, log) == [mem |-> mem, log |-> log, pool |-> pool]
      value(x) == emit_rt_store([mem |-> junk, log |-> <<>>], [off |-> 0, t |-> t, e |-> x, mem |-> NoMember, rev |-> FALSE])
  IN CASE ~init_is_aggregate(t) /\ e.k = "list" /\ e.items = <<>> -> done(junk, <<>>)
       [] e.k \notin {"list", "str"} \/ (~init_is_aggregate(t) /\ e.k = "list" /\ e.items # <<>>) ->
            With(value(IF e.k = "list" THEN e.items[1] ELSE e), LAMBDA s : done(s.mem, s.log))
       [] OTHER -> With(plan_walk(NoPlan(SizeOf(t)), t, e, 0), LAMBDA plan : With(emit_const_part(plan, junk, pool), LAMBDA const :
            With(Fold(emit_rt_store, [mem |-> const.mem, log |-> <<>>], SelectSeq(plan.rts, LAMBDA r : r.active)), LAMBDA s :
              [mem |-> s.mem, log |-> s.log, pool |-> const.pool])))

---------------------------------------------------------------------------
\* C 6.7.9: each initializer has a subobject, named by the path of child
\* numbers that leads to it.

\* The k-th child of t that can be initialized, as [t, off, m]; no child
\* gives NoType.
Kid(t, k) ==
  CASE t.kind = "array" /\ (~t.has_size \/ k < t.size) -> [t |-> t.base, off |-> k * SizeOf(t.base), m |-> NoMember]
    [] t.kind \in Records ->
         With({j \in DOMAIN t.members : /\ ~(t.members[j].bf /\ t.members[j].name = "")
                                        /\ Cardinality({i \in 1..(j - 1) : ~(t.members[i].bf /\ t.members[i].name = "")}) = k},
           LAMBDA js : IF js = {} THEN [t |-> NoType, off |-> 0, m |-> NoMember]
                       ELSE With(CHOOSE j \in js : TRUE, LAMBDA j :
                              [t |-> t.members[j].type, off |-> IF t.members[j].bf THEN 0 ELSE t.lay.at[j].offset,
                               m |-> t.members[j] @@ ("at" :> t.lay.at[j])]))
    [] OTHER -> [t |-> NoType, off |-> 0, m |-> NoMember]

\* The subobject at a path: its type, byte offset, member and byte order.
At(t, path) ==
  Fold(LAMBDA s, k : With(Kid(s.t, k), LAMBDA kid :
             [t |-> kid.t, off |-> s.off + kid.off, m |-> kid.m, rev |-> IF s.t.kind \in Records THEN s.t.rev ELSE s.rev]),
           [t |-> t, off |-> 0, m |-> NoMember, rev |-> FALSE], path)

Prefix(p, n) == SubSeq(p, 1, n)
\* The path after p in the object at root: the next sibling of the innermost
\* subobject on p that has one; only one member of a union is initialized.
Nothing == <<-1>>
After(t, root, p) ==
  With({n \in (Len(root) + 1)..Len(p) :
          At(t, Prefix(p, n - 1)).t.kind # "union" /\ Kid(At(t, Prefix(p, n - 1)).t, p[n] + 1).t # NoType}, LAMBDA ns :
    IF ns = {} THEN Nothing ELSE With(CHOOSE n \in ns : \A i \in ns : i <= n, LAMBDA n : Append(Prefix(p, n - 1), p[n] + 1)))

\* The path of a named member, through anonymous records.
RECURSIVE NamePath(_, _)
NamePath(t, name) ==
  With({k \in 0..(Len(t.members) - 1) : Kid(t, k).t # NoType /\ (Kid(t, k).m.name = name
          \/ (Kid(t, k).m.name = "" /\ Kid(t, k).t.kind \in Records /\ NamePath(Kid(t, k).t, name) # Nothing))}, LAMBDA ks :
    IF ks = {} THEN Nothing
    ELSE With(CHOOSE k \in ks : TRUE, LAMBDA k : IF Kid(t, k).m.name = name THEN <<k>> ELSE <<k>> \o NamePath(Kid(t, k).t, name)))

\* The paths a designator list selects, in order.
RECURSIVE Designated(_, _, _)
Designated(t, path, ds) ==
  IF ds = <<>> THEN <<path>>
  ELSE IF ds[1].field # "" THEN Designated(t, path \o NamePath(At(t, path).t, ds[1].field), Tail(ds))
  ELSE FlattenSeq([i \in 1..(Larger(ds[1].hi, ds[1].lo) - ds[1].lo + 1) |-> Designated(t, Append(path, ds[1].lo + i - 1), Tail(ds))])

\* The subobject at or below a path that an expression initializes.
WholeOf(t, e) == IF e.k = "str" THEN t.kind = "array" /\ t.base.kind = "char" ELSE e.k \in {"agg", "clit", "ucast"} /\ e.type = t
RECURSIVE Leaf(_, _, _)
Leaf(t, path, e) ==
  With(At(t, path).t, LAMBDA sub :
    IF init_is_aggregate(sub) /\ ~WholeOf(sub, e) THEN Leaf(t, Append(path, 0), e) ELSE path)

\* Every write [path, e] in source order; a brace first clears its subobject.
RECURSIVE Writes(_, _, _)
Writes(t, root, e) ==
  LET put(path, item) ==
        IF item.k = "list" THEN <<[path |-> path, e |-> [k |-> "clear"]]>> \o Writes(t, path, item)
        ELSE <<[path |-> Leaf(t, path, item), e |-> item]>>
      one(s, item) ==
        Strictly(IF item.ds = <<>> THEN <<s.next>> ELSE Designated(t, root, item.ds), LAMBDA paths :
          IF paths[1] = Nothing THEN [s EXCEPT !.w = Append(@, [path |-> Nothing, e |-> [k |-> "clear"]])]
          ELSE [w |-> Fold(LAMBDA ws, path : ws \o put(path, item), s.w, paths),
                next |-> After(t, root, IF item.k = "list" THEN Last(paths) ELSE Leaf(t, Last(paths), item))])
      sub == At(t, root).t
  IN CASE BracedString(sub, e) -> <<[path |-> root, e |-> e.items[1]]>>
       [] ~init_is_aggregate(sub) -> <<[path |-> root, e |-> IF e.k = "list" THEN e.items[1] ELSE e]>>
       [] init_is_aggregate(sub) /\ e.k # "list" -> <<[path |-> root, e |-> e]>>
       [] OTHER -> Fold(one, [w |-> <<>>, next |-> Append(root, 0)], e.items).w

\* A later write of the same subobject, of one around it, or of another
\* member of a union it is in, replaces a write.
Replaces(t, q, p) ==
  \/ Len(q) <= Len(p) /\ Prefix(p, Len(q)) = q
  \/ \E n \in 1..Smaller(Len(p), Len(q)) :
       Prefix(p, n - 1) = Prefix(q, n - 1) /\ p[n] # q[n] /\ At(t, Prefix(p, n - 1)).t.kind = "union"
Surviving(t, w) == SelectSeq(Indices(w), LAMBDA i : ~\E j \in (i + 1)..Len(w) : Replaces(t, w[j].path, w[i].path))

RECURSIVE Meaning(_, _)
\* What one write leaves in memory.
Apply(t, mem, w) ==
  With(At(t, w.path), LAMBDA s :
    LET n == SizeOf(s.t)
        v == Bits(Fit(s.t, w.e.v), 8 * n)
    IN CASE w.e.k = "clear" -> mem
         [] w.e.k = "str" /\ s.t.kind = "array" -> PutBytes(mem, s.off, IF s.t.has_size THEN n ELSE Len(w.e.bytes) + 1,
              StringBits(w.e, 0, IF s.t.has_size THEN n ELSE Len(w.e.bytes)))
         [] w.e.k \in {"addr", "str"} /\ s.t.kind = "ptr" -> PutAddress(mem, s.off, IF w.e.k = "str" THEN "string" ELSE w.e.sym)
         [] w.e.k = "agg" -> PutBytes(mem, s.off, n, w.e.bits)
         [] w.e.k = "clit" -> CopyBytes(mem, s.off, n, Meaning(w.e.type, w.e.init))
         [] w.e.k = "ucast" -> CopyBytes(mem, s.off, n, Meaning(w.e.type,
              [k |-> "list", ds |-> <<>>, items |-> <<[w.e.lhs EXCEPT !.ds = <<[field |-> s.t.members[type_union_cast_member(s.t, w.e.of)].name, lo |-> 0, hi |-> -1]>>]>>]))
         [] w.e.k \in {"int", "rt"} /\ s.m.bf -> [mem EXCEPT !.bits = FieldImage(@, s.off, s.m, s.rev, Fit(s.t, w.e.v))]
         [] OTHER -> PutBytes(mem, s.off, n, IF s.rev THEN reverse_integer_bytes(v, n) ELSE v))

\* The object that C defines: zero where nothing is written.
Meaning(t, e) ==
  Strictly(Writes(t, <<>>, e), LAMBDA w :
    Fold(LAMBDA mem, i : Apply(t, mem, w[i]), [bits |-> {}, ptrs |-> {}], Surviving(t, w)))

Evaluated(t, e) ==
  Strictly(Writes(t, <<>>, e), LAMBDA w : {w[i].e.id : i \in {i \in Range(Surviving(t, w)) : w[i].e.k \in {"rt", "agg"}}})
\* Elements of the incomplete array at a path that the writes need.
Needed(t, e, fam) ==
  Strictly(Writes(t, <<>>, e), LAMBDA w :
    Cardinality({k \in 0..15 : \E i \in DOMAIN w :
      With(w[i], LAMBDA x :
        \/ Len(x.path) > Len(fam) /\ Prefix(x.path, Len(fam)) = fam /\ x.path[Len(fam) + 1] >= k
        \/ x.path = fam /\ x.e.k = "str" /\ Len(x.e.bytes) >= k)}))

\* Whether a write reaches a flexible array, which only a static object has
\* room for.
IntoTail(t, e) ==
  Strictly(Writes(t, <<>>, e), LAMBDA w :
    \E i \in DOMAIN w : \E n \in 1..Len(w[i].path) : Incomplete(At(t, Prefix(w[i].path, n)).t))

RECURSIVE Constant(_)
Constant(e) ==
  CASE e.k = "list" -> \A j \in DOMAIN e.items : Constant(e.items[j])
    [] e.k = "clit" -> Constant(e.init)
    [] OTHER -> e.k \notin {"rt", "agg"}

RECURSIVE Casts(_)
Casts(e) == IF e.k = "list" THEN \E j \in DOMAIN e.items : Casts(e.items[j]) ELSE e.k = "ucast"

\* The path of the array that the initializer completes, Nothing for none.
Open(t) == IF Incomplete(t) THEN <<>>
           ELSE IF t.kind = "struct" /\ flexible_array_member(t) # 0 THEN <<flexible_array_member(t) - 1>> ELSE Nothing
OpenSize(t, e) ==
  With(Open(t), LAMBDA path : IF path = Nothing THEN SizeOf(t) ELSE SizeOf(t) + Needed(t, e, path) * SizeOf(At(t, path).t.base))

\* The image that constexpr_eval_initializer_sized makes of a constant
\* initializer, and the memory that the code of lower_local_init leaves where
\* the object was filled with ones before, both hold what C says: each
\* initializer, wherever designators, ranges, elided braces, union members
\* and overriding send it, in its own subobject with the value of that
\* subobject's type; zeros elsewhere, padding included.  Relocations are in
\* the order of their offsets, the object is as large as its initializer
\* needs (a flexible array or a cast to a union is static only: the rest of
\* an automatic union is unspecified), no byte behind it changes, a template
\* without addresses is made once and found again in the pool, and the
\* run-time initializers that survive are each evaluated once, in source
\* order.
Applies(c) == IF c.static THEN Constant(c.e) ELSE ~IntoTail(c.t, c.e) /\ ~Casts(c.e)
\* What becomes of the typed initializer s of c: an image, or the effect of
\* the code for it, emitted twice.
Emit(c, s) ==
  IF c.static THEN constexpr_eval_initializer_sized(s.t, s.e, s.storage)
  ELSE Fold(LAMBDA r, i : lower_local_init(r.pool, s.t, s.e, 8), [pool |-> <<>>], <<1, 2>>)
Accepted(c, s) == ~s.err /\ (c.static => s.storage = OpenSize(c.t, c.e))
InitializersAgree(c, s, r) ==
  Strictly(Meaning(c.t, c.e), LAMBDA m :
    IF c.static
    THEN /\ r.ok /\ r.bits = m.bits /\ Range(r.relocs) = m.ptrs
         /\ \A j \in 2..Len(r.relocs) : r.relocs[j - 1].off + 8 <= r.relocs[j].off
    ELSE /\ r.mem.bits = m.bits \cup BytesOf(SizeOf(s.t), 8)
         /\ r.mem.ptrs = m.ptrs
         /\ Range(r.log) = Evaluated(c.t, c.e)
         /\ \A j \in 2..Len(r.log) : r.log[j - 1] < r.log[j]
         /\ Len(r.pool) > 1 => m.ptrs # {})

=============================================================================
