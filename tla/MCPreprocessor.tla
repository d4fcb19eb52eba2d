--------------------------- MODULE MCPreprocessor ---------------------------
(* Four parts side by side, one of them in each behaviour: the directive   *)
(* engine on headers of at most NCond lines of conditionals and of at most *)
(* NIncl lines of includes and guards; the same engine with and without    *)
(* its fast path on headers of at most NGuard lines; the search for a      *)
(* header through two directories, one of them with two names, and a name  *)
(* of nothing; and macro expansion with small tables whose names refer to  *)
(* one another, on every input of less than MaxLen tokens, those of MaxLen *)
(* that begin with a macro, and those of one more that begin with a call.  *)
EXTENDS Directives, FiniteSets

CONSTANTS NCond, NIncl, NGuard, BareDirectives, Parts, MaxLen, Letters

VARIABLES part,
  frames0, conds0, macros0, once0, fcache0, out0, errs0, fatal0, visits0,
  opts, has, stack, ice,
  table, input, ahead, pending, expanded, reported

controlVars == <<frames0, conds0, macros0, once0, fcache0, out0, errs0, fatal0, visits0>>
searchVars == <<opts, has, stack, ice>>
macroVars == <<table, input, ahead, pending, expanded, reported>>
mcVars == <<part, vars, controlVars, searchVars, macroVars>>

(* Small sets of files for the directive engine: a main file that includes *)
(* a header h twice, the second time perhaps through a link to it, with or  *)
(* without a change of the macros in between.                               *)
MCName == {"main", "h", "link", "inner", "gone"}
MCIno == [n \in MCName |-> IF n = "link" THEN "h" ELSE n]
MCMacro == {"G", "M"}
Ln(k, m) == [k |-> k, m |-> m]

(* At most n lines: what is left of n when the blank ones are dropped.     *)
Written(l) == l.k # "blank"
LinesUpTo(n, alphabet) ==
  {SelectSeq(ls, Written) : ls \in [1..n -> alphabet \cup {Ln("blank", "")}]}

Twice(changes, paths) ==
  {<<Ln("include", "h")>> \o mid \o <<Ln("include", again), Ln("text", "")>> :
     mid \in changes, again \in paths}
Changes == {<<>>, <<Ln("undef", "G")>>}

Assign(main, inner, h) ==
  [n \in MCName |-> CASE n = "main" -> main [] n = "inner" -> inner
                      [] n = "gone" -> <<>> [] OTHER -> h]
Assignments(mains, inners, headers) ==
  {Assign(m, i, h) : m \in mains, i \in inners, h \in headers}

(* Conditionals in every order. *)
Conditionals ==
  {Ln("ifndef", "G"), Ln("elif", "M"), Ln("else", ""), Ln("endif", ""),
   Ln("text", ""), Ln("define", "M")}

(* Includes, of itself and of a file that is not there too. *)
Includes ==
  {Ln("ifnot", "G"), Ln("define", "G"), Ln("undef", "G"), Ln("once", ""),
   Ln("ifdef", "M"), Ln("include", "h"), Ln("include", "link"), Ln("include", "gone"),
   Ln("include", "inner"), Ln("error", ""), Ln("text", ""), Ln("endif", "")}

(* What a guarded header is made of. *)
Guards ==
  {Ln("ifndef", "G"), Ln("define", "G"), Ln("undef", "G"), Ln("endif", ""),
   Ln("else", ""), Ln("text", ""), Ln("include", "inner")}

Inner == <<Ln("undef", "G"), Ln("text", ""), Ln("endif", "")>>

(* The conditionals open before each line. *)
OpenBefore(ls) ==
  LET d[i \in 1 .. Len(ls) + 1] ==
        IF i = 1 THEN 0
        ELSE LET before == d[i - 1]
             IN CASE ls[i - 1].k \in {"ifndef", "ifdef"}    -> before + 1
                  [] ls[i - 1].k = "endif" /\ before > 0 -> before - 1
                  [] OTHER                               -> before
  IN d

(* Does a header have a directive that is not a conditional outside every  *)
(* conditional?                                                            *)
HasBareDirective(ls) ==
  \E i \in DOMAIN ls :
    ls[i].k \in {"define", "undef", "include"} /\ OpenBefore(ls)[i] = 0

ConditionalHeaders == LinesUpTo(NCond, Conditionals)
IncludeHeaders == LinesUpTo(NIncl, Includes)
GuardHeaders ==
  {h \in LinesUpTo(NGuard, Guards) : HasBareDirective(h) => BareDirectives}
MCContents ==
  Assignments(Twice(Changes, {"h", "link"}), {Inner},
              ConditionalHeaders \cup IncludeHeaders \cup GuardHeaders)

ConditionalFiles == Assignments(Twice({<<>>}, {"h"}), {Inner}, ConditionalHeaders)
IncludeFiles == Assignments(Twice(Changes, {"h", "link"}), {Inner}, IncludeHeaders)
GuardFiles ==
  Assignments(Twice(Changes, {"h"}) \cup Twice({<<>>}, {"link"}), {Inner}, GuardHeaders)
EmptyHeader == Assignments(Twice({<<>>}, {"h"}), {Inner}, {<<>>})

MCDir == {"a", "alias", "b", "nowhere"}
MCId == [d \in MCDir |-> CASE d = "b" -> 2 [] d = "nowhere" -> 0 [] OTHER -> 1]

(* The include-guard fast path against its control: the same files once    *)
(* with it (the default) and once with CGF_PP_GUARD_FASTPATH=0.  The two   *)
(* share nothing but the files, so one runs after the other.               *)
Slow == INSTANCE Directives WITH
  Contents <- GuardFiles, FastPath <- FALSE,
  frames <- frames0, conds <- conds0, macros <- macros0, once <- once0, fcache <- fcache0,
  out <- out0, errs <- errs0, fatal <- fatal0, visits <- visits0
Search == INSTANCE IncludeSearch WITH
  Dir <- MCDir, Id <- MCId, frames <- stack, MaxFrames <- 4,
  MaxOpts <- [iquote |-> 1, include |-> 2, system |-> 1]

(* Macro tables. *)
MCGlue(a, b) == IF a = "f" /\ b = "g" THEN "fg" ELSE "?"

Obj(body) == [fn |-> FALSE, n |-> 0, va |-> FALSE, body |-> body]
Fun(n, body) == [fn |-> TRUE, n |-> n, va |-> FALSE, body |-> body]
Var(n, body) == [fn |-> TRUE, n |-> n, va |-> TRUE, body |-> body]
T(s) == <<"tok", s>>
Arg(i) == <<"param", i>>
Str(i) == <<"str", i>>
PP == <<"paste", "##">>

Recursive ==
  [f |-> Fun(1, <<Arg(1), T("g")>>), g |-> Obj(<<T("f"), T("(")>>)]
Mutual ==
  [f |-> Fun(1, <<T("g"), T("("), Arg(1), T(")")>>),
   g |-> Fun(1, <<T("f"), T("x"), Arg(1)>>),
   x |-> Obj(<<T("f")>>)]
Pasting ==
  [f |-> Obj(<<T("g"), PP, T("x")>>), g |-> Fun(2, <<Arg(1), PP, Arg(2), Arg(1)>>),
   fg |-> Obj(<<T("f"), PP, T("g"), T("x")>>)]
Tails ==
  [f |-> Var(1, <<T("x"), T(","), PP, Arg(2)>>), g |-> Fun(1, <<Str(1), Arg(1)>>),
   x |-> Obj(<<>>)]

MCTables == {Recursive, Mutual, Pasting, Tails}
Calls == {t \in [1..(MaxLen + 1) -> Letters] : t[1] \in {"f", "g"} /\ t[2] = "("}
Short == UNION {[1..n -> Letters] : n \in 0..MaxLen}
MCInputs == {t \in Short : Len(t) = MaxLen => t[1] \in {"f", "g", "x"}} \cup Calls
Macros == INSTANCE MacroExpansion WITH
  Tables <- MCTables, Inputs <- MCInputs, Glue <- MCGlue, out <- expanded, errs <- reported

None == "none"
NoControl ==
  /\ frames0 = None /\ conds0 = None /\ macros0 = None /\ once0 = None /\ fcache0 = None
  /\ out0 = None /\ errs0 = None /\ fatal0 = None /\ visits0 = None
NoSearch == opts = None /\ has = None /\ stack = None /\ ice = None
NoMacros ==
  /\ table = None /\ input = None /\ ahead = None /\ pending = None /\ expanded = None
  /\ reported = None

MCInit ==
  /\ part \in Parts
  /\ \/ part = "engine" /\ (files \in ConditionalFiles \/ files \in IncludeFiles)
     \/ part = "guard" /\ files \in GuardFiles
     \/ part \in {"search", "macros"} /\ files \in EmptyHeader
  /\ Begin
  /\ IF part = "guard" THEN Slow!Begin ELSE NoControl
  /\ IF part = "search" THEN Search!Init ELSE NoSearch
  /\ IF part = "macros" THEN Macros!Init ELSE NoMacros

EngineStep == part = "engine" /\ Next /\ UNCHANGED <<part, controlVars, searchVars, macroVars>>
FastStep == part = "guard" /\ Next /\ UNCHANGED <<part, controlVars, searchVars, macroVars>>
SlowStep == part = "guard" /\ Done /\ Slow!Next /\ UNCHANGED <<part, vars, searchVars, macroVars>>
SearchStep == part = "search" /\ Search!Next /\ UNCHANGED <<part, vars, controlVars, macroVars>>
MacroStep == part = "macros" /\ Macros!Next /\ UNCHANGED <<part, vars, controlVars, searchVars>>
MCNext == EngineStep \/ FastStep \/ SlowStep \/ SearchStep \/ MacroStep

(* pp_next is called until it returns the end of the file.                 *)
MCSpec == MCInit /\ [][MCNext]_mcVars /\ WF_mcVars(EngineStep \/ MacroStep)
-----------------------------------------------------------------------------
(* pp_next: preprocessing ends, whatever includes whatever, and so does    *)
(* expansion: hide sets stop every recursion of the macros.                *)
Terminates == <>((part = "engine" => Done) /\ (part = "macros" => Macros!Done))

(* pp_next and pp_expand_list, the two expanders, agree on inputs without  *)
(* errors, hide sets included, and a token that names an object-like macro *)
(* is returned only when it stands in the macro's own replacement.         *)
ExpansionExact ==
  part = "macros" => Macros!NothingLeftToExpand /\ Macros!StreamAgreesWithList

(* What the rest of the compiler sees: the tokens, by file and line.       *)
Tokens(o) == [i \in DOMAIN o |-> <<MCIno[o[i][2]], o[i][3]>>]

(* fcache_guard: the include-guard fast path changes nothing.  With it and *)
(* without it preprocessing outputs the same tokens, leaves the same       *)
(* macros defined and fails on the same inputs (pp_init: "the permanent    *)
(* differential control proving it changes nothing").                      *)
FastPathChangesNothing ==
  (part = "guard" /\ Done /\ Slow!Done) =>
    /\ Tokens(out) = Tokens(out0)
    /\ macros = macros0
    /\ fatal = fatal0
    /\ errs = {} <=> errs0 = {}

(* build_chain, include_next_start: merging the aliases of a directory     *)
(* changes neither what is found nor what is a system header, the origin   *)
(* of a file is always found again, and #include_next never returns to a   *)
(* directory.                                                              *)
SearchExact ==
  part = "search" => /\ Search!TypeOK
                     /\ Search!OriginAlwaysFound /\ Search!NextNeverReturns
                     /\ Search!MergingKeepsTheSearch /\ Search!SystemExact
=============================================================================
