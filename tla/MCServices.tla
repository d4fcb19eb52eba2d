----------------------------- MODULE MCServices -----------------------------
(***************************************************************************)
(* What surrounds the compiler proper, one part in each behaviour: the     *)
(* driver on command lines of at most MaxInputs inputs; the fix-its of one *)
(* compilation, and of two in one tree; the mapping of a source file back  *)
(* to its bytes; the warning options, up to MaxOptions over nine rows of   *)
(* warnings.def that differ in groups, default and level; and up to        *)
(* MaxEvents pragmas over two of those rows, behind at most one option.    *)
(*                                                                         *)
(* The files of the fix-its have two spellings of one file and a second    *)
(* file; the edits overlap, touch, insert, delete and lie apart.           *)
(***************************************************************************)
EXTENDS Driver, WarnControl

CONSTANTS Parts, c1, c2, Idle, MaxLen, MaxInputs

VARIABLES
  part,
  files, step, fixits, errors, stops, mode, work, at, acceptAll, report, temp, dest,
  trigraphs, original, i, contents, nulAt, editable, from, ready

fixVars == <<files, step, fixits, errors, stops, mode, work, at, acceptAll, report, temp, dest>>
mapVars == <<trigraphs, original, i, contents, nulAt, editable, from, ready>>
mcVars == <<part, vars, fixVars, mapVars, warnVars>>

-----------------------------------------------------------------------------
InputLists == UNION {[1..n -> {"c", "h", "s", "S", "o", "ir"}] : n \in 1..MaxInputs}
MCCommands == [mode : {"E", "S", "c", "link", "check"}, inputs : InputLists, werror : BOOLEAN,
               deps : BOOLEAN, fixits : BOOLEAN]

-----------------------------------------------------------------------------
F(path, ident, text, ok) == [path |-> path, ident |-> ident, text |-> text, editable |-> ok]
E(file, start, end, insert, mach, macro) ==
    [file |-> file, start |-> start, end |-> end, insert |-> insert, mach |-> mach,
     macro |-> macro, mapped |-> TRUE]

MCPaths == {"a", "b", "c"}
Aliased == <<F("a", 1, <<1, 2, 3, 4>>, TRUE), F("b", 1, <<1, 2, 3, 4>>, TRUE),
             F("c", 2, <<5, 6>>, TRUE)>>
Changed == <<F("a", 1, <<1, 2, 3, 4>>, TRUE), F("b", 1, <<1, 2, 3, 4, 7>>, TRUE),
             F("c", 2, <<5, 6>>, FALSE)>>
MCPool ==
    { E(1, 0, 1, <<10, 11>>, TRUE, FALSE), E(1, 1, 1, <<12>>, TRUE, FALSE),
      E(2, 2, 4, <<>>, TRUE, FALSE), E(2, 2, 3, <<13>>, FALSE, FALSE),
      E(1, 4, 4, <<14>>, TRUE, TRUE), E(3, 0, 2, <<15>>, TRUE, FALSE),
      [E(1, 0, 0, <<>>, TRUE, FALSE) EXCEPT !.mapped = FALSE] }
Header == <<F("a", 1, <<1, 2, 3>>, TRUE), F("b", 1, <<1, 2, 3>>, TRUE)>>
HeaderPool == {E(1, 0, 1, <<10, 11>>, TRUE, FALSE), E(2, 2, 3, <<>>, TRUE, FALSE)}

One == INSTANCE FixIts WITH
  pc <- step, Compilers <- {c1}, None <- Idle, FileTables <- {Aliased, Changed}, Pool <- MCPool, Paths <- MCPaths,
  MaxErrors <- 1, MaxFixits <- 3, MaxDiags <- 2, Modes <- {"all", "interactive", "piped"}
Two == INSTANCE FixIts WITH
  pc <- step, Compilers <- {c1, c2}, None <- Idle, FileTables <- {Header}, Pool <- HeaderPool, Paths <- MCPaths,
  MaxErrors <- 0, MaxFixits <- 2, MaxDiags <- 1, Modes <- {"all"}
Map == INSTANCE SourceMap

-----------------------------------------------------------------------------
MCId == {"unused-variable", "unused-parameter", "nonnull", "format", "format-security",
         "uninitialized", "implicit-fallthrough", "long-long", "mem-leak"}

Row(groups, on, pedwarn) == [groups |-> groups, on |-> on, pedwarn |-> pedwarn]
MCInfo ==
  [w \in MCId |->
     CASE w = "unused-variable" -> Row({"all", "unused"}, FALSE, FALSE)
       [] w = "unused-parameter" -> Row({"extra", "unused"}, FALSE, FALSE)
       [] w \in {"nonnull", "format"} -> Row({"all", "format"}, FALSE, FALSE)
       [] w = "format-security" -> Row({"format2"}, FALSE, FALSE)
       [] w = "uninitialized" -> Row({"all", "extra"}, FALSE, FALSE)
       [] w = "implicit-fallthrough" -> Row({"extra"}, FALSE, FALSE)
       [] w = "long-long" -> Row({"pedantic"}, FALSE, TRUE)
       [] w = "mem-leak" -> Row({"mem"}, TRUE, FALSE)]

Opt(what, name, on) == [what |-> what, name |-> name, on |-> on]
Named == {"all", "extra", "unused", "mem"}
FlagOptions == {Opt("w", "", TRUE), Opt("pedantic", "", TRUE), Opt("pedantic-errors", "", TRUE)}
ExactOptions == {Opt(e, w, b) : e \in {"exact", "error=exact"}, b \in BOOLEAN,
                 w \in {"unused-parameter", "nonnull"}}
EnableOptions ==
  {Opt("group", g, b) : g \in Named, b \in BOOLEAN}
  \cup {Opt("format", n, TRUE) : n \in 0 .. 2}
  \cup {Opt("error=format", 2, TRUE)}
PromoteOptions ==
  {Opt("error=group", g, b) : g \in {"all", "mem"}, b \in BOOLEAN}
  \cup {Opt("error=format", 1, FALSE), Opt("error", "", TRUE), Opt("error", "", FALSE)}
  \cup {Opt("system-headers", "", TRUE)}
AllOptions == FlagOptions \cup ExactOptions \cup EnableOptions \cup PromoteOptions

(* For the pragmas: two warnings, the one the flow analysis is there for   *)
(* and one that -fsafe does not require, and few options.                  *)
PragmaId == {"uninitialized", "implicit-fallthrough"}
PragmaOptions == {Opt("w", "", TRUE), Opt("group", "all", TRUE), Opt("error", "", TRUE),
                  Opt("exact", "uninitialized", FALSE)}
FewOptions == Len(opts) <= 1 /\ \A n \in DOMAIN opts : opts[n] \in PragmaOptions
FewNames == \A n \in DOMAIN events : events[n].id \in PragmaId \cup {None}

-----------------------------------------------------------------------------
NoCommand == [mode |-> "check", inputs |-> <<"h">>, werror |-> FALSE, deps |-> FALSE,
              fixits |-> FALSE]
NoFixes ==
  /\ files = Idle /\ step = Idle /\ fixits = Idle /\ errors = Idle
  /\ stops = Idle /\ mode = Idle /\ work = Idle /\ at = Idle
  /\ acceptAll = Idle /\ report = Idle /\ temp = Idle /\ dest = Idle
NoMap ==
  /\ trigraphs = Idle /\ original = Idle /\ i = Idle /\ contents = Idle
  /\ nulAt = Idle /\ editable = Idle /\ from = Idle /\ ready = Idle

MCInit ==
  /\ part \in Parts
  /\ Init /\ (part # "driver" => cmd = NoCommand)
  /\ IF part = "one" THEN One!Init ELSE IF part = "two" THEN Two!Init ELSE NoFixes
  /\ IF part = "map" THEN Map!Init ELSE NoMap
  /\ NewContext

MCNext ==
  \/ part = "driver" /\ Next /\ UNCHANGED <<part, fixVars, mapVars, warnVars>>
  \/ part = "one" /\ One!Next /\ UNCHANGED <<part, vars, mapVars, warnVars>>
  \/ part = "two" /\ Two!Next /\ UNCHANGED <<part, vars, mapVars, warnVars>>
  \/ part = "map" /\ Map!Next /\ UNCHANGED <<part, vars, fixVars, warnVars>>
  \/ /\ part = "options" /\ WarnNext /\ events' = <<>>
     /\ UNCHANGED <<part, vars, fixVars, mapVars>>
  \/ /\ part = "pragmas" /\ WarnNext /\ FewOptions' /\ FewNames'
     /\ UNCHANGED <<part, vars, fixVars, mapVars>>

(* A compilation goes on unless it is killed; the user may stay silent.    *)
(* Nothing is assumed of the second one.                                   *)
Applies(p) == part = "two" /\ Two!Apply(p) /\ UNCHANGED <<part, vars, mapVars, warnVars>>
MCSpec == MCInit /\ [][MCNext]_mcVars /\ WF_mcVars(Applies(c1))
-----------------------------------------------------------------------------
(* FixIts: a .cgf-fixed file that diag_apply_fixits leaves is absent or    *)
(* whole, and no temporary file stays behind a compilation that ended,     *)
(* with one compiler and with two in the same tree, whoever fails or dies. *)
FixedCopiesWhole ==
  CASE part = "one" -> One!DestIsOneFixedCopy /\ One!TempsCleaned
    [] part = "two" -> Two!DestIsOneFixedCopy /\ Two!TempsCleaned
    [] OTHER -> TRUE

(* FixIts: edits_conflict withholds every edit that touches another one,   *)
(* =all takes no advisory edit, and the counts diag_apply_fixits reports   *)
(* are those of the files it wrote.                                        *)
EditsAccounted ==
  part = "one" => /\ One!TypeOK /\ One!TouchingWithheld
                  /\ One!AllIsMachineApplicable /\ One!ReportIsExact

(* FixIts: diag_apply_fixits ends, whatever fails, whoever dies and        *)
(* wherever the other compilation in the tree stops.                       *)
Finishes == <>(part = "two" => step[c1] \in Two!Ended)

(* SourceMap: span_offsets gives the bytes of the file a span came from,   *)
(* diag_point_after stays on its line, and pp_source_finalize finds the    *)
(* line of a dropped NUL.                                                  *)
LocationsExact ==
  part = "map" => Map!TypeOK /\ Map!MapsBack /\ Map!PointAfterRenderable /\ Map!NulLocated
=============================================================================
