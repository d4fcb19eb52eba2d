----------------------------- MODULE Directives -----------------------------
(***************************************************************************)
(* The directive engine of the preprocessor (pp/directive.c): the stack of *)
(* include frames under one token stream, the stack of conditionals, the   *)
(* #pragma once set, the detector of include guards and the cache that     *)
(* lets a guarded header be skipped without being read again.              *)
(*                                                                         *)
(* A file is a sequence of lines.  A text line is one opaque token (macro  *)
(* expansion is another component); a condition is whether a macro is      *)
(* defined.  A header name is its path: the search of the directories is   *)
(* IncludeSearch's subject.                                                *)
(***************************************************************************)
EXTENDS Naturals, Sequences, SequencesExt

CONSTANTS
  Name,        \* the paths #include may name
  Main,        \* the main file
  Ino,         \* the (st_dev, st_ino) a path opens, named by one of its paths
  Absent,      \* the paths that open no file
  Macro,       \* macro names
  Contents,    \* the assignments of lines to paths explored
  MaxDepth,    \* PP_INCLUDE_DEPTH_MAX
  FastPath     \* guard_fastpath: CGF_PP_GUARD_FASTPATH is not 0

VARIABLES
  files,     \* the contents: a sequence of lines for every path
  frames,    \* pp->frames: the include stack
  conds,     \* pp->conds: the open conditionals of all frames
  macros,    \* the names pp_macro_lookup finds
  once,      \* pp->once
  fcache,    \* pp->fcache: guarded files seen to their end
  out,       \* the tokens pp_next returned: <<visit, path, line>>
  errs,      \* the <<path, line>> an error was reported at
  fatal,     \* pp->fatal
  visits     \* how many frames were pushed so far (it only names visits)

vars == <<files, frames, conds, macros, once, fcache, out, errs, fatal, visits>>

NoGuard == "-"
Openers == {"ifdef", "ifndef", "if", "ifnot"}   \* "ifnot": #if !defined X
Separators == {"elif", "else"}
LineKind == Openers \cup Separators \cup
  {"endif", "text", "define", "undef", "include", "once", "error"}
GuardState == {"expect_ifndef", "expect_define", "in_body", "after_endif",
               "disqualified"}

(* What the files hold: conditions and definitions name macros, #include   *)
(* names paths.                                                            *)
InputsOK(fs) ==
  /\ MaxDepth \in Nat \ {0} /\ Main \in Name \ Absent /\ Ino \in [Name -> Name]
  /\ fs \in [Name -> Seq([k : LineKind, m : Macro \cup Name \cup {""}])]
  /\ \A n \in Name : \A i \in DOMAIN fs[n] :
       /\ fs[n][i].k \in Openers \cup {"elif", "define", "undef"} => fs[n][i].m \in Macro
       /\ fs[n][i].k = "include" => fs[n][i].m \in Name
ASSUME InputsAssumption == \A fs \in Contents : InputsOK(fs)

Top == Last(frames)
Lines == files[Top.path]
Line == Lines[Top.pos]
AtEof == Top.pos > Len(Lines)
Live == IF conds = <<>> THEN TRUE ELSE Last(conds).live
Defined(m) == m \in macros

NewFrame(path, nconds, visit) ==
  [path |-> path, pos |-> 1, base |-> nconds, gs |-> "expect_ifndef",
   gm |-> NoGuard, gc |-> 0, visit |-> visit]

(* A frame after the directive at its position, with guard state gs.       *)
MutPast(f, gs) == [f EXCEPT !.gs = gs]
Past(f, gs) == [f EXCEPT !.pos = @ + 1, !.gs = gs]
SetTop(f) == frames' = Front(frames) \o <<f>>
Error == errs' = errs \cup {<<Top.path, Top.pos>>}

-----------------------------------------------------------------------------
(* The shape of an include guard: #ifndef X, #define X, ..., #endif and    *)
(* nothing else.                                                           *)
Disqualify(gs, from) == IF gs \in from THEN "disqualified" ELSE gs

(* guard_saw_text *)
GuardSawText(gs) ==
  Disqualify(gs, {"expect_ifndef", "expect_define", "after_endif"})

(* The #if family, live or not. *)
GuardSawIf(f, l) ==
  LET opens == f.gs = "expect_ifndef" /\ l.k \in {"ifndef", "ifnot"}
  IN [f EXCEPT !.pos = @ + 1,
               !.gs = IF opens THEN "expect_define"
                      ELSE Disqualify(@, {"expect_ifndef", "expect_define",
                                          "after_endif"}),
               !.gm = IF opens THEN l.m ELSE @,
               !.gc = IF opens THEN Len(conds) ELSE @]

(* #elif and #else disqualify when they belong to the guard's conditional. *)
MutGuardSawElse(f) == f.gs
GuardSawElse(f) ==
  IF f.gm # NoGuard /\ Len(conds) - 1 = f.gc THEN "disqualified" ELSE f.gs

(* #endif, with the conditional already popped. *)
GuardSawEndif(f) ==
  IF f.gs = "in_body" /\ Len(conds) - 1 = f.gc THEN "after_endif" ELSE f.gs

(* A live #define. *)
GuardSawDefine(f, m) ==
  CASE f.gs = "expect_define" -> IF m = f.gm THEN "in_body" ELSE "disqualified"
    [] f.gs = "after_endif"   -> "disqualified"
    [] OTHER                  -> f.gs

-----------------------------------------------------------------------------
(* Conditionals. *)
(* pp_begin, with nothing predefined. *)
Begin ==
  /\ frames = <<NewFrame(Main, 0, 1)>>
  /\ conds = <<>>
  /\ macros = {}
  /\ once = {}
  /\ fcache = <<>>
  /\ out = <<>>
  /\ errs = {}
  /\ fatal = FALSE
  /\ visits = 1

Init == files \in Contents /\ Begin

Running == frames # <<>> /\ ~fatal
Reading(kinds) == Running /\ ~AtEof /\ Line.k \in kinds

(* The condition of the #if or #elif at hand; evaluated only when live.    *)
Holds(l) == IF l.k \in {"ifndef", "ifnot"} THEN ~Defined(l.m) ELSE Defined(l.m)

PushCond ==
  LET taken == Live /\ Holds(Line)
  IN conds' = Append(conds, [path |-> Top.path, line |-> Top.pos,
                             parent |-> Live, live |-> taken,
                             taken |-> taken, else |-> FALSE])

If ==
  /\ Reading(Openers)
  /\ SetTop(GuardSawIf(Top, Line))
  /\ PushCond
  /\ UNCHANGED <<files, macros, once, fcache, out, errs, fatal, visits>>

MutStray == conds = <<>>
Stray == Len(conds) <= Top.base

(* #elif, #else or #endif with no conditional open in this file.           *)
StrayConditional ==
  /\ Reading(Separators \cup {"endif"})
  /\ Stray
  /\ Error
  /\ SetTop(Past(Top, Top.gs))
  /\ UNCHANGED <<files, conds, macros, once, fcache, out, fatal, visits>>

(* The conditional c after an #elif whose condition is h, and an #else.    *)
ElifGroup(c, h) ==
  IF c.parent /\ ~c.taken THEN [c EXCEPT !.live = h, !.taken = h]
                          ELSE [c EXCEPT !.live = FALSE]
ElseGroup(c) ==
  [c EXCEPT !.else = TRUE, !.live = c.parent /\ ~c.taken, !.taken = TRUE]

ElifElse ==
  /\ Reading(Separators)
  /\ ~Stray
  /\ LET c == Last(conds)
     IN IF c.else
        THEN Error /\ UNCHANGED conds
        ELSE /\ conds' = Front(conds) \o
                  <<IF Line.k = "else" THEN ElseGroup(c)
                                       ELSE ElifGroup(c, Holds(Line))>>
             /\ UNCHANGED errs
  /\ SetTop(Past(Top, GuardSawElse(Top)))
  /\ UNCHANGED <<files, macros, once, fcache, out, fatal, visits>>

Endif ==
  /\ Reading({"endif"})
  /\ ~Stray
  /\ conds' = Front(conds)
  /\ SetTop(Past(Top, GuardSawEndif(Top)))
  /\ UNCHANGED <<files, macros, once, fcache, out, errs, fatal, visits>>

-----------------------------------------------------------------------------
(* Everything else is looked at only in a live region. *)
SkippedDirective ==
  /\ Reading({"define", "undef", "include", "once", "error"})
  /\ ~Live
  /\ SetTop(Past(Top, Top.gs))
  /\ UNCHANGED <<files, conds, macros, once, fcache, out, errs, fatal, visits>>

Text ==
  /\ Reading({"text"})
  /\ SetTop(Past(Top, GuardSawText(Top.gs)))
  /\ out' = IF Live THEN Append(out, <<Top.visit, Top.path, Top.pos>>) ELSE out
  /\ UNCHANGED <<files, conds, macros, once, fcache, errs, fatal, visits>>

Define ==
  /\ Reading({"define"})
  /\ Live
  /\ SetTop(Past(Top, GuardSawDefine(Top, Line.m)))
  /\ macros' = macros \cup {Line.m}
  /\ UNCHANGED <<files, conds, once, fcache, out, errs, fatal, visits>>

Undef ==
  /\ Reading({"undef"})
  /\ Live
  /\ SetTop(Past(Top, Top.gs))
  /\ macros' = macros \ {Line.m}
  /\ UNCHANGED <<files, conds, once, fcache, out, errs, fatal, visits>>

OnceKey(path) == Ino[path]

PragmaOnce ==
  /\ Reading({"once"})
  /\ Live
  /\ SetTop(Past(Top, Top.gs))
  /\ once' = once \cup {OnceKey(Top.path)}
  /\ UNCHANGED <<files, conds, macros, fcache, out, errs, fatal, visits>>

ErrorDirective ==
  /\ Reading({"error"})
  /\ Live
  /\ Error
  /\ SetTop(Past(Top, Top.gs))
  /\ UNCHANGED <<files, conds, macros, once, fcache, out, fatal, visits>>

(* The guard fcache_guard_by_path or fcache_guard finds is still defined.  *)
GuardStillDefined(path) ==
  \E i \in DOMAIN fcache :
     /\ fcache[i].path = path \/ fcache[i].ino = Ino[path]
     /\ Defined(fcache[i].guard)

(* try_open: the path cache is consulted before the file is opened.        *)
Opens(path) ==
  CASE FastPath /\ GuardStillDefined(path) -> "skip"
    [] path \in Absent                     -> "absent"
    [] OnceKey(path) \in once              -> "skip"
    [] OTHER                               -> "enter"

DepthExceeded == Len(frames) >= MaxDepth

Include ==
  /\ Reading({"include"})
  /\ Live
  /\ LET here == Past(Top, Top.gs)
         opened == Opens(Line.m)
         fails == DepthExceeded \/ opened = "absent"
         enters == ~fails /\ opened = "enter"
     IN /\ fatal' = fails
        /\ errs' = IF fails THEN errs \cup {<<Top.path, Top.pos>>} ELSE errs
        /\ frames' = Front(frames) \o <<here>> \o
             (IF enters THEN <<NewFrame(Line.m, Len(conds), visits + 1)>>
                        ELSE <<>>)
        /\ visits' = IF enters THEN visits + 1 ELSE visits
  /\ UNCHANGED <<files, conds, macros, once, fcache, out>>

(* fcache_record: the first entry of a file stays.                         *)
Recorded(f) ==
  IF f.gs = "after_endif" /\ \A i \in DOMAIN fcache : fcache[i].ino # Ino[f.path]
  THEN Append(fcache, [ino |-> Ino[f.path], guard |-> f.gm, path |-> f.path])
  ELSE fcache

(* pop_frame, at the end of a file and, for every frame, once fatal.       *)
UnterminatedIn(f) ==
  {<<conds[i].path, conds[i].line>> : i \in f.base + 1 .. Len(conds)}
PopFrame ==
  /\ frames # <<>>
  /\ fatal \/ AtEof
  /\ errs' = errs \cup UnterminatedIn(Top)
  /\ conds' = SubSeq(conds, 1, Top.base)
  /\ fcache' = Recorded(Top)
  /\ frames' = Front(frames)
  /\ UNCHANGED <<files, macros, once, out, fatal, visits>>

Done == frames = <<>>

Next ==
  \/ If \/ ElifElse \/ Endif \/ StrayConditional
  \/ SkippedDirective \/ Text \/ Define \/ Undef \/ PragmaOnce
  \/ ErrorDirective \/ Include \/ PopFrame

Spec == Init /\ [][Next]_vars /\ WF_vars(Next)

-----------------------------------------------------------------------------
(* Every variable keeps its type, and the include stack its bound: at most *)
(* PP_INCLUDE_DEPTH_MAX frames.                                            *)
TypeOK ==
  /\ Len(frames) <= MaxDepth
  /\ \A i \in DOMAIN frames :
       /\ frames[i].path \in Name \ Absent
       /\ frames[i].pos \in 1 .. Len(files[frames[i].path]) + 1
       /\ frames[i].gs \in GuardState
       /\ frames[i].gm \in Macro \cup {NoGuard}
       /\ frames[i].base \in Nat
  /\ \A i \in DOMAIN conds :
       conds[i] \in [path : Name, line : Nat \ {0}, parent : BOOLEAN,
                     live : BOOLEAN, taken : BOOLEAN, else : BOOLEAN]
  /\ macros \subseteq Macro
  /\ once \subseteq Name
  /\ \A i \in DOMAIN fcache : fcache[i].guard \in Macro
  /\ errs \subseteq Name \X (Nat \ {0})
  /\ fatal \in BOOLEAN

(* How many conditionals are open after each line of a file, an #endif     *)
(* with nothing to close counting for nothing.                             *)
Depth(ls) ==
  LET d[i \in 0 .. Len(ls)] ==
        IF i = 0 THEN 0
        ELSE IF ls[i].k \in Openers THEN d[i - 1] + 1
        ELSE IF ls[i].k = "endif" /\ d[i - 1] > 0 THEN d[i - 1] - 1
        ELSE d[i - 1]
  IN d

(* The stack is the text: the conditionals above a frame's base are those  *)
(* the lines it has read leave open, so a conditional never crosses the    *)
(* boundary of a file (pop_frame: "may not straddle include boundaries").  *)
CondsAreTheFilesOwn ==
  \A i \in DOMAIN frames :
    LET f == frames[i]
        top == IF i = Len(frames) THEN Len(conds) ELSE frames[i + 1].base
    IN top - f.base = Depth(files[f.path])[f.pos - 1]

(* Of the groups of one conditional at most one is processed in one visit  *)
(* of its file: two tokens are never both output when an #elif or #else    *)
(* that was not itself in error separates them inside the same #if.        *)
OneGroupPerConditional ==
  \A i, j \in DOMAIN out :
    (i < j /\ out[i][1] = out[j][1]) =>
      LET ls == files[out[i][2]]
          d == Depth(ls)
          p == out[i][3]
          q == out[j][3]
      IN ~ \E s \in p .. q :
             /\ ls[s].k \in Separators
             /\ d[s] > 0
             /\ <<out[i][2], s>> \notin errs
             /\ \A k \in p .. q : d[k] >= d[s]

(* When preprocessing ends, no conditional is left open, and a file that   *)
(* was entered and whose conditionals do not balance was diagnosed.        *)
ImbalanceIsDiagnosed ==
  Done =>
    /\ conds = <<>>
    /\ \A i \in DOMAIN out :
         LET ls == files[out[i][2]]
         IN (~fatal /\ Depth(ls)[Len(ls)] > 0) => \E l \in DOMAIN ls : <<out[i][2], l>> \in errs

(* Once a visit has passed a #pragma once of its file, no later visit of   *)
(* that file outputs anything, whichever path leads to it (once_seen       *)
(* compares identities, not names).                                        *)
OnceIsForEver ==
  \A a, b \in DOMAIN out :
    (a < b /\ out[a][1] < out[b][1] /\ Ino[out[a][2]] = Ino[out[b][2]]) =>
      LET ls == files[out[a][2]]
      IN ~ \E s \in 1 .. out[a][3] : ls[s].k = "once" /\ Depth(ls)[s] = 0

(* Conditionals and #pragma once do what the text of each file says.       *)
ConditionalsExact ==
  /\ TypeOK
  /\ CondsAreTheFilesOwn
  /\ OneGroupPerConditional
  /\ ImbalanceIsDiagnosed
  /\ OnceIsForEver
=============================================================================
