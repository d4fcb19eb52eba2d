---------------------------- MODULE Declarations ----------------------------
(* The declarations of one identifier in a translation unit: which types are
   compatible and what two declarations say together (sema/types.c), linkage,
   redeclaration and the end of the unit (sema/decl.c), and what is then
   emitted (lower/lower.c).

   A type is [k, q, base, n, proto, params, var, old, kr, oldp, tag, ov, ex]:
   its kind, whether it is const, its base in a sequence of at most one, an
   array's length (-1: unknown), a function's prototype and old-style parts,
   a tag, and an alignment with whether it is exact.  A transparent union is
   a "tunion", its first member in base.

   A declaration is [at, type, storage, def, inline, gnu, elems]: at is "file"
   or "block" (adjacent ones share a block), storage a subset of {"static",
   "extern"}, def whether it has an initializer (of elems elements) or a body.

   Left out: vectors, extended integers, enumerations with a mode, storage
   order views, may_alias, typedef names, thread storage,
   aliases, always_inline and argument packs.  In a unit with an error the
   types after it are not those of the code, which recovers. *)
EXTENDS Integers, Sequences, FiniteSets, SequencesExt

Of(x, op(_)) == op(x)
Plain(k) == [k |-> k, q |-> FALSE, base |-> <<>>, n |-> -1, proto |-> FALSE, params |-> <<>>, var |-> FALSE,
             old |-> FALSE, kr |-> FALSE, oldp |-> <<>>, tag |-> "", ov |-> 0, ex |-> FALSE]
Unqualified(t) == [t EXCEPT !.q = FALSE]

---------------------------------------------------------------------------
\* sema/types.c

type_enum_underlying(t) == Plain("int")
survives_default_arg_promotions(t) == t.k \notin {"char", "short", "float"}
type_transparent_union_first_member(t) == IF t.k = "tunion" THEN t.base ELSE <<>>

default_promoted_param(p) ==
  Of(IF type_transparent_union_first_member(p) # <<>> THEN p.base[1] ELSE p, LAMBDA t :
    CASE t.k \in {"char", "short"} -> Plain("int")
      [] t.k = "float" -> Plain("double")
      [] t.k = "enum" -> type_enum_underlying(t)
      [] OTHER -> t)

RECURSIVE type_compatible(_, _)
type_transparent_union_param_compatible(a, b) ==
  LET fa == type_transparent_union_first_member(a)
      fb == type_transparent_union_first_member(b)
  IN (fa = <<>>) # (fb = <<>>) /\ type_compatible(Unqualified((fa \o fb)[1]), Unqualified(IF fa # <<>> THEN b ELSE a))

ParamsAgree(ps, qs) ==
  \A i \in DOMAIN ps : Of(Unqualified(ps[i]), LAMBDA p : Of(Unqualified(qs[i]), LAMBDA q :
    type_compatible(p, q) \/ type_transparent_union_param_compatible(p, q)))

old_style_definition_matches(old, proto) ==
  /\ ~proto.var
  /\ IF ~old.kr THEN proto.params = <<>>
     ELSE /\ Len(old.oldp) = Len(proto.params)
          /\ ParamsAgree([i \in DOMAIN old.oldp |-> default_promoted_param(old.oldp[i])], proto.params)

params_compatible(a, b) ==
  CASE ~a.proto /\ ~b.proto -> TRUE
    [] a.proto /\ b.proto -> Len(a.params) = Len(b.params) /\ a.var = b.var /\ ParamsAgree(a.params, b.params)
    [] OTHER -> Of(IF a.proto THEN <<a, b>> ELSE <<b, a>>, LAMBDA s :
         IF s[2].old THEN old_style_definition_matches(s[2], s[1])
         ELSE ~s[1].var /\ \A i \in DOMAIN s[1].params : survives_default_arg_promotions(s[1].params[i]))

type_compatible(a, b) ==
  \/ a = b
  \/ /\ a.q = b.q
     /\ CASE a.k = "enum" /\ b.k # "enum" -> type_enum_underlying(a).k = b.k
          [] b.k = "enum" /\ a.k # "enum" -> type_enum_underlying(b).k = a.k
          [] a.k # b.k /\ "enum" \notin {a.k, b.k} -> FALSE
          [] a.k = b.k /\ a.k = "ptr" -> type_compatible(a.base[1], b.base[1])
          [] a.k = b.k /\ a.k = "array" -> type_compatible(a.base[1], b.base[1]) /\ (a.n # -1 /\ b.n # -1 => a.n = b.n)
          [] a.k = b.k /\ a.k = "func" -> type_compatible(a.base[1], b.base[1]) /\ params_compatible(a, b)
          [] a.k = b.k /\ a.k \in {"struct", "tunion", "enum"} -> a.tag = b.tag
          [] OTHER -> TRUE

composite_alignment(t, a, b) ==
  Of(IF a.ov > b.ov THEN a.ov ELSE b.ov, LAMBDA n : [t EXCEPT !.ov = n, !.ex = n # 0 /\ a.ex /\ b.ex])

RECURSIVE type_composite(_, _)
\* Mutant: what the first declaration says is kept, and only a prototype is taken from the second.
MutComposite(a, b) == composite_alignment(IF a.k = "func" /\ b.proto /\ ~a.proto THEN b ELSE a, a, b)
type_composite(a, b) ==
  LET derived == [a EXCEPT !.base = <<type_composite(a.base[1], b.base[1])>>]
      proto == IF a.proto THEN a ELSE b
      def == IF a.old THEN a ELSE b
      merged == [i \in DOMAIN proto.params |-> IF a.proto /\ b.proto THEN type_composite(a.params[i], b.params[i]) ELSE proto.params[i]]
  IN CASE type_transparent_union_param_compatible(a, b) -> IF type_transparent_union_first_member(a) # <<>> THEN a ELSE b
       [] ~type_transparent_union_param_compatible(a, b) /\ a.k # b.k -> a
       [] a.k = b.k /\ a.k = "array" -> composite_alignment([derived EXCEPT !.n = IF @ # -1 THEN @ ELSE b.n], a, b)
       [] a.k = b.k /\ a.k = "func" -> composite_alignment(
            [derived EXCEPT !.proto = proto.proto, !.params = merged, !.var = proto.var,
                            !.old = ~proto.proto /\ def.old, !.kr = ~proto.proto /\ def.kr,
                            !.oldp = IF proto.proto THEN <<>> ELSE def.oldp], a, b)
       [] OTHER -> composite_alignment(IF a.k = "ptr" THEN derived ELSE a, a, b)

---------------------------------------------------------------------------
\* sema/decl.c.  A symbol is [kind, link, def, tent, type, inline, all_inline,
\* any_extern, gnu, body], body the definition to lower in a sequence of at
\* most one.

linkage_for(prev, d) ==
  CASE d.at = "file" /\ "static" \in d.storage -> "internal"
    [] "extern" \in d.storage -> IF prev # <<>> /\ prev[1].link # "none" THEN prev[1].link ELSE "external"
    [] d.at = "file" \/ d.type.k = "func" -> "external"
    [] OTHER -> "none"

\* A K&R list is resolved only when its function's scope is entered.
Unresolved(t) == IF t.kr THEN [t EXCEPT !.oldp = <<>>] ELSE t

\* [err, prev]
merge_redeclaration(prev, cur, replace) ==
  LET apart == (prev.link = "none" /\ cur.link = "none") \/ (prev.link = "none") # (cur.link = "none")
      tightens == prev.link # cur.link /\ cur.link = "internal"
      clash == /\ ~type_compatible(prev.type, cur.type)
               /\ ~(/\ prev.type.k = "func" /\ cur.type.k = "func" /\ prev.type.proto /\ cur.type.kr
                    /\ type_compatible(prev.type.base[1], cur.type.base[1]))
      linked == [prev EXCEPT !.link = IF tightens THEN cur.link ELSE @]
  IN CASE apart \/ (tightens /\ ~replace) -> [err |-> TRUE, prev |-> prev]
       [] ~apart /\ ~(tightens /\ ~replace) /\ (clash \/ (prev.def /\ cur.def /\ ~replace)) -> [err |-> TRUE, prev |-> linked]
       [] OTHER -> [err |-> FALSE,
                    prev |-> [linked EXCEPT !.type = type_composite(prev.type, cur.type), !.def = @ \/ cur.def,
                                            !.tent = ~cur.def /\ (@ \/ cur.tent)]]

\* [err, type]
composite_visible_extern(visible, cur, d) ==
  IF visible = <<>> \/ "extern" \notin d.storage \/ cur.link = "none" THEN [err |-> FALSE, type |-> cur.type]
  ELSE Of(visible[1], LAMBDA v :
         CASE v.link = "none" \/ v.link # cur.link -> [err |-> FALSE, type |-> cur.type]
           [] v.link = cur.link /\ (v.kind # cur.kind \/ ~type_compatible(v.type, cur.type)) -> [err |-> TRUE, type |-> cur.type]
           [] OTHER -> [err |-> FALSE, type |-> type_composite(v.type, cur.type)])

conv_promote_type(t) == IF t.k = "tunion" THEN t ELSE default_promoted_param(t)

\* The parameters of an old-style definition, against an earlier prototype.
\* [err, sym]
declare_kr_params(sym, d) ==
  IF ~(d.def /\ d.type.kr) THEN [err |-> FALSE, sym |-> sym]
  ELSE IF ~sym.type.proto THEN [err |-> FALSE, sym |-> [sym EXCEPT !.type.old = TRUE, !.type.kr = TRUE, !.type.oldp = d.type.oldp]]
  ELSE [sym |-> sym,
        err |-> \/ Len(sym.type.params) # Len(d.type.oldp)
                \/ \E i \in DOMAIN sym.type.params :
                     Of(Unqualified(sym.type.params[i]), LAMBDA want :
                       /\ ~type_compatible(Unqualified(conv_promote_type(d.type.oldp[i])), want)
                       /\ ~type_compatible(Unqualified(d.type.oldp[i]), want))]

sema_array_complete_from_init(t, d) == IF t.k = "array" /\ t.n = -1 THEN [t EXCEPT !.n = d.elems] ELSE t
finish_array_completion(sym, d) == IF d.def THEN [sym EXCEPT !.type = sema_array_complete_from_init(@, d)] ELSE sym

\* s = [file, block, errs]: the symbol at file scope and the one of the open
\* block, each in a sequence of at most one.
scope_lookup_local(s, d) == IF d.at = "file" THEN s.file ELSE s.block
scope_lookup(s, d) == Of(scope_lookup_local(s, d), LAMBDA l : IF l # <<>> THEN l ELSE s.file)

\* gnu_inline means something on an inline declaration only.
Gnu(d) == d.gnu /\ d.inline

\* The symbol of one declaration by itself.
FreshSymbol(s, d) ==
  LET func == d.type.k = "func"
  IN [kind |-> IF func THEN "func" ELSE "var", link |-> linkage_for(scope_lookup(s, d), d), def |-> d.def,
      tent |-> d.at = "file" /\ ~func /\ ~d.def /\ "extern" \notin d.storage, type |-> Unresolved(d.type),
      inline |-> d.inline, all_inline |-> d.inline, any_extern |-> "extern" \in d.storage, gnu |-> Gnu(d),
      body |-> IF func /\ d.def THEN <<d>> ELSE <<>>]

\* The first declaration in its scope, and a later one.  [err, sym]
FirstInScope(s, fresh, d) ==
  Of(composite_visible_extern(scope_lookup(s, d), fresh, d), LAMBDA seen :
    [err |-> seen.err \/ (fresh.link = "none" /\ ~d.def /\ d.type.k = "array" /\ d.type.n = -1),
     sym |-> [fresh EXCEPT !.type = seen.type]])
Redeclared(p, fresh, d) ==
  LET extern_inline(b) == b.inline /\ "extern" \in b.storage
      replace == /\ fresh.kind = "func" /\ p.def /\ d.def /\ p.gnu /\ p.body # <<>> /\ extern_inline(p.body[1])
                 /\ ~(Gnu(d) /\ extern_inline(d))
      grown == [p EXCEPT !.inline = @ \/ d.inline, !.all_inline = @ /\ d.inline,
                         !.any_extern = @ \/ "extern" \in d.storage, !.gnu = @ \/ Gnu(d)]
      m == merge_redeclaration(grown, fresh, replace)
  IN [err |-> m.err \/ (fresh.kind = "func" /\ d.inline /\ p.inline /\ p.gnu # Gnu(d)),
      sym |-> [m.prev EXCEPT !.body = IF replace \/ @ = <<>> THEN fresh.body ELSE @]]

declare_one(s, d) ==
  LET prev == scope_lookup_local(s, d)
      fresh == FreshSymbol(s, d)
  IN Of(IF prev = <<>> THEN FirstInScope(s, fresh, d) ELSE Redeclared(prev[1], fresh, d), LAMBDA r :
       Of(declare_kr_params(finish_array_completion(r.sym, d), d), LAMBDA k :
         [file |-> IF d.at = "file" THEN <<k.sym>> ELSE s.file, block |-> IF d.at = "file" THEN <<>> ELSE <<k.sym>>,
          errs |-> s.errs \/ r.err \/ k.err]))

\* [err, type, kind]
finish_one_symbol(sym, common) ==
  LET open == sym.type.k = "array" /\ sym.type.n = -1
      none == [err |-> FALSE, type |-> sym.type, kind |-> "none"]
      body == sym.body # <<>> /\ sym.body[1].inline
      out == CASE ~sym.inline -> "none"
               [] sym.inline /\ sym.link = "internal" -> "static"
               [] sym.inline /\ sym.link # "internal" /\ sym.gnu /\ body ->
                    IF "extern" \in sym.body[1].storage THEN "inline_def" ELSE "extern_inline"
               [] OTHER -> IF ~sym.all_inline \/ sym.any_extern THEN "extern_inline" ELSE IF sym.def THEN "inline_def" ELSE "none"
  IN CASE sym.kind = "func" -> [none EXCEPT !.kind = out]
       [] sym.kind # "func" /\ sym.def -> [none EXCEPT !.kind = "init"]
       [] sym.kind # "func" /\ ~sym.def /\ ~sym.tent -> none
       [] sym.kind # "func" /\ ~sym.def /\ sym.tent /\ open /\ sym.link # "external" -> [none EXCEPT !.err = TRUE]
       [] OTHER -> [err |-> FALSE, type |-> IF open THEN [sym.type EXCEPT !.n = 1] ELSE sym.type,
                    kind |-> IF sym.link = "external" /\ common THEN "common" ELSE "zero"]

\* The declarations analysed one after another, and the end of the unit.
sema_run(ds, common) ==
  Of(FoldLeft(declare_one, [file |-> <<>>, block |-> <<>>, errs |-> FALSE], ds), LAMBDA s :
    IF s.file = <<>> THEN [errs |-> s.errs, file |-> <<>>]
    ELSE Of(finish_one_symbol(s.file[1], common), LAMBDA f :
           [errs |-> s.errs \/ f.err, file |-> <<[s.file[1] EXCEPT !.type = f.type]>>, kind |-> f.kind]))

---------------------------------------------------------------------------
\* lower/lower.c: what the unit defines, as [kind, by], by the index of the
\* declaration with the initializer or the body, 0 for zeros.

find_initializing_decl(ds) ==
  Of({i \in DOMAIN ds : ds[i].at = "file" /\ ds[i].def}, LAMBDA is : IF is = {} THEN 0 ELSE CHOOSE i \in is : \A j \in is : i <= j)
lower_global_var(ds, r) ==
  CASE r.kind = "none" -> {}
    [] r.kind = "init" -> {[kind |-> r.file[1].link, by |-> find_initializing_decl(ds)]}
    [] OTHER -> {[kind |-> IF r.kind = "common" THEN "common" ELSE r.file[1].link, by |-> 0]}
lower_function(ds, r) ==
  {[kind |-> r.file[1].link, by |-> i] :
     i \in {i \in DOMAIN ds : ds[i].at = "file" /\ ds[i].def /\ <<ds[i]>> = r.file[1].body /\ r.kind # "inline_def"}}
lower_translation_unit_impl(ds, r) ==
  CASE r.file = <<>> -> {} [] r.file # <<>> /\ r.file[1].kind = "var" -> lower_global_var(ds, r) [] OTHER -> lower_function(ds, r)

---------------------------------------------------------------------------
\* C 6.2.2, 6.2.7, 6.7.4 and 6.9.2.

Files(ds) == {i \in DOMAIN ds : ds[i].at = "file"}
Blocks(ds, i) == {j \in 1..(i - 1) : \A k \in j..i : ds[k].at = "block"}
Defs(ds) == {i \in Files(ds) : ds[i].def}
Internal(ds) == \E i \in Files(ds) : "static" \in ds[i].storage /\ \A j \in Files(ds) : i <= j
IsFunc(ds) == ds[1].type.k = "func"
\* An initializer completes an array no earlier declaration has sized.
Said(ds, i) == IF ds[i].def /\ \A j \in 1..(i - 1) : j \in Files(ds) => ds[j].type.n = -1 THEN sema_array_complete_from_init(ds[i].type, ds[i])
               ELSE ds[i].type
GnuExtern(d) == d.gnu /\ d.inline /\ "extern" \in d.storage

\* A unit that C accepts: one definition, types that agree in pairs, static
\* from the first declaration on or never.
Legal(ds) ==
  /\ Cardinality(Defs(ds)) <= 1
  /\ \A i, j \in Files(ds) : i < j => /\ type_compatible(Said(ds, i), Said(ds, j))
                                      /\ "static" \in ds[j].storage => "static" \in ds[i].storage
                                      /\ "static" \in ds[i].storage => IsFunc(ds) \/ ds[j].storage # {}
                                      /\ ds[i].inline /\ ds[j].inline => ds[i].gnu = ds[j].gnu
  /\ \A i \in DOMAIN ds \ Files(ds) :
       /\ \A j \in 1..(i - 1) : j \in Files(ds) \cup Blocks(ds, i) => type_compatible(ds[i].type, Said(ds, j))
       /\ "extern" \notin ds[i].storage /\ ~IsFunc(ds) => Blocks(ds, i) = {} /\ ds[i].type.n # -1
       /\ \A j \in Blocks(ds, i) : ds[i].storage = ds[j].storage
  /\ Internal(ds) => \E i \in Files(ds) : Said(ds, i).k = "array" => Said(ds, i).n # -1

\* An old-style definition behind a prototype may differ from it by its
\* promotions only.
Narrow(d) == d.def /\ d.type.kr

\* Whatever order they come in, the declarations of an identifier that C
\* accepts are accepted.  When a unit is accepted, the symbol's type agrees
\* with every declaration and says all they say: a length or a prototype any
\* of them gives, the strongest alignment, exact only if all are.  Exactly
\* one thing is emitted for a defined object: the initializer, wherever it
\* stands among tentative definitions, or zeros (common if asked); for a
\* function its one body, unless it is an inline definition, whose external
\* definition is elsewhere.  It is internal when the first declaration is
\* static.
DeclarationsAgree(c) ==
  Of(sema_run(c.ds, c.common), LAMBDA r :
    LET ds == c.ds
        fs == Files(ds)
        sym == r.file[1]
        emitted == lower_translation_unit_impl(ds, r)
        link == IF Internal(ds) THEN "internal" ELSE "external"
        tentative == \E i \in fs : ~IsFunc(ds) /\ "extern" \notin ds[i].storage
        inline_only(i) == IF ds[i].gnu /\ ds[i].inline THEN GnuExtern(ds[i]) ELSE \A j \in fs : ds[j].inline /\ "extern" \notin ds[j].storage
        real == {i \in Defs(ds) : ~(GnuExtern(ds[i]) /\ Cardinality(Defs(ds)) > 1)}
        tight == IF \E i \in fs : "static" \in ds[i].storage THEN "internal" ELSE "external"
    IN /\ Legal(ds) => ~r.errs
       /\ (~r.errs /\ fs # {}) =>
            /\ \A i \in fs : /\ type_compatible(sym.type, ds[i].type) \/ Narrow(ds[i])
                             /\ ds[i].type.n # -1 => sym.type.n = ds[i].type.n
                             /\ ds[i].type.proto => sym.type.proto
                             /\ ds[i].type.ov <= sym.type.ov
            /\ sym.type.ex => \A i \in fs : ds[i].type.ex
            /\ IF ~IsFunc(ds)
               THEN emitted = (IF Defs(ds) # {} THEN {[kind |-> link, by |-> i] : i \in Defs(ds)}
                               ELSE IF tentative THEN {[kind |-> IF c.common /\ ~Internal(ds) THEN "common" ELSE link, by |-> 0]}
                               ELSE {})
               ELSE emitted = {[kind |-> tight, by |-> i] : i \in {i \in real : tight = "internal" \/ ~inline_only(i)}})

=============================================================================
