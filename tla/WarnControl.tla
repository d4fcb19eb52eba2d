---------------------------- MODULE WarnControl ----------------------------
(***************************************************************************)
(* Which warnings are reported, and as what (warn/warn.c): the options of  *)
(* the command line are applied one after the other, then the preprocessor *)
(* appends the diagnostic pragmas it meets to a list of events stamped     *)
(* with their place in the token stream.  A warning is raised with the     *)
(* stamp of its location, often long after later pragmas were read, and is *)
(* classified by replaying the events up to that stamp.                    *)
(*                                                                         *)
(* Info is the table of warnings.def, restricted to the rows explored.     *)
(***************************************************************************)
EXTENDS Integers, Sequences, FiniteSets

CONSTANTS
  Id,          \* the warnings
  Info,        \* [Id -> [groups, on (enabled by default), pedwarn]]
  NonNull,     \* WARN_NONNULL
  Format,      \* WARN_FORMAT
  Fallthrough, \* WARN_IMPLICIT_FALLTHROUGH
  Uninitialized, \* WARN_UNINITIALIZED
  Required,    \* the warnings fsafe_required_warning holds of
  FlowWarning, \* is_flow_warning
  Option,      \* the options the command line is made of
  MaxOptions,  \* bound: options on the command line
  MaxEvents    \* bound: pragmas in the translation unit

Group == {"all", "extra", "unused", "format", "format2", "pedantic", "mem"}
Pragma == {"ignored", "warning", "error"}   \* WarnPragmaClass
None == "none"                              \* -1
Setting == {"unset", "off", "on"}

(* What an option may be: each names a group, a warning, a level of        *)
(* -Wformat, or nothing.                                                   *)
OptionType ==
  [what : {"group", "error=group"}, name : Group, on : BOOLEAN]
  \cup [what : {"exact", "error=exact"}, name : Id, on : BOOLEAN]
  \cup [what : {"format"}, name : 0 .. 2, on : {TRUE}]
  \cup [what : {"error=format"}, name : 0 .. 2, on : BOOLEAN]
  \cup [what : {"w", "pedantic", "pedantic-errors", "error", "system-headers"},
        name : {""}, on : BOOLEAN]

(* The tables agree with one another: no warning is in both groups of      *)
(* -Wformat, the required warnings include the one the flow analysis is    *)
(* there for, and the fallthrough warning is not among them.               *)
TablesOK ==
  /\ Info \in [Id -> [groups : SUBSET Group, on : BOOLEAN, pedwarn : BOOLEAN]]
  /\ \A i \in Id : ~({"format", "format2"} \subseteq Info[i].groups)
  /\ Required \subseteq Id /\ FlowWarning \subseteq Id
  /\ Uninitialized \in Required \cap FlowWarning
  /\ Fallthrough \notin Required
  /\ Option \subseteq OptionType

VARIABLES
  opts,        \* the options applied so far
  enabled, enabled_priority, promoted, promoted_priority, group_enabled,
  flags,       \* pedantic, global_error, inhibit, system_headers, fsafe_required
  level,       \* implicit_fallthrough_level, and implicit_fallthrough_explicit
  events,      \* the pragmas, each with its stamp
  pragma_state, pragma_stack,
  seq,         \* the stamp of the last token
  parsing      \* the command line is complete

settings == <<enabled, enabled_priority, promoted, promoted_priority, group_enabled>>
policy == <<opts, settings, flags, level>>
warnVars == <<policy, events, pragma_state, pragma_stack, seq, parsing>>

Baseline == [i \in Id |-> None]

(* warn_ctx_new *)
NewContext ==
  /\ opts = <<>>
  /\ enabled = [i \in Id |-> "unset"]
  /\ enabled_priority = [i \in Id |-> 0]
  /\ promoted = [i \in Id |-> "unset"]
  /\ promoted_priority = [i \in Id |-> 0]
  /\ group_enabled = [g \in Group |-> "unset"]
  /\ flags = [pedantic |-> 0, error |-> FALSE, inhibit |-> FALSE, system |-> FALSE,
              fsafe |-> FALSE]
  /\ level = [n |-> 0, explicit |-> FALSE]
  /\ events = <<>> /\ pragma_state = Baseline /\ pragma_stack = <<>>
  /\ seq = 0
  /\ parsing = FALSE

-----------------------------------------------------------------------------
OnOff(b) == IF b THEN "on" ELSE "off"
Priority(g) == IF g \in {"all", "extra"} THEN 1 ELSE 2

(* The strength with which group g speaks for warning i: -Wformat implies  *)
(* -Wnonnull as weakly as -Wall does.                                      *)
ItemPriority(g, i) == IF g = "format" /\ i = NonNull THEN 1 ELSE Priority(g)

(* Enabled only where -Wextra and -Wunused meet, decided when asked.       *)
InBoth(i) == {"extra", "unused"} \subseteq Info[i].groups

(* apply_group; gs holds one group, or for the format levels two disjoint  *)
(* ones, each with its own setting.                                        *)
MutSpeaksFor(g, i) == g \in Info[i].groups /\ ~InBoth(i)
SpeaksFor(g, i) ==
  g \in Info[i].groups /\ ~InBoth(i) /\ enabled_priority[i] <= ItemPriority(g, i)
ApplyGroups(gs, on) ==
  LET Taken(i) == {g \in gs : SpeaksFor(g, i)}
      The(i) == CHOOSE g \in Taken(i) : TRUE
  IN /\ group_enabled' = [g \in Group |-> IF g \in gs THEN OnOff(on[g]) ELSE group_enabled[g]]
     /\ enabled' = [i \in Id |-> IF Taken(i) = {} THEN enabled[i] ELSE OnOff(on[The(i)])]
     /\ enabled_priority' = [i \in Id |-> IF Taken(i) = {} THEN enabled_priority[i]
                                          ELSE ItemPriority(The(i), i)]
     /\ level' = IF "extra" \in gs /\ ~level.explicit
                 THEN [level EXCEPT !.n = IF on["extra"] THEN 3 ELSE 0] ELSE level

ApplyGroup(g, on) == ApplyGroups({g}, [x \in {g} |-> on])
ApplyFormatLevel(n) == ApplyGroups({"format", "format2"},
                                   [g \in {"format", "format2"} |->
                                      IF g = "format" THEN n # 0 ELSE n = 2])

(* An exact option: the highest priority, always taken.                    *)
Exact(i, on) ==
  /\ enabled' = [enabled EXCEPT ![i] = OnOff(on)]
  /\ enabled_priority' = [enabled_priority EXCEPT ![i] = 3]
  /\ level' = IF i = Fallthrough THEN [n |-> IF on THEN 3 ELSE 0, explicit |-> TRUE] ELSE level
  /\ UNCHANGED group_enabled
NoneEnabled == UNCHANGED <<enabled, enabled_priority, group_enabled, level>>

(* apply_promotion_group, for the warnings of any group of gs, and one     *)
(* warning promoted or demoted by name.                                    *)
PromoteGroups(gs, on) ==
  LET Taken(i) == {g \in gs : g \in Info[i].groups /\ promoted_priority[i] <= Priority(g)}
  IN /\ promoted' = [i \in Id |-> IF Taken(i) = {} THEN promoted[i] ELSE OnOff(on)]
     /\ promoted_priority' = [i \in Id |-> IF Taken(i) = {} THEN promoted_priority[i]
                                           ELSE Priority(CHOOSE g \in Taken(i) : TRUE)]
PromoteExact(i, on) ==
  /\ promoted' = [promoted EXCEPT ![i] = OnOff(on)]
  /\ promoted_priority' = [promoted_priority EXCEPT ![i] = 3]
NonePromoted == UNCHANGED <<promoted, promoted_priority>>

(* warn_flag, option by option.  An option is what it is, what it names    *)
(* and whether it is positive.                                             *)
SetFlags(o) ==
  flags' = CASE o.what = "w" -> [flags EXCEPT !.inhibit = TRUE]
             [] o.what = "pedantic" -> [flags EXCEPT !.pedantic = 1]
             [] o.what = "pedantic-errors" -> [flags EXCEPT !.pedantic = 2]
             [] o.what = "error" -> [flags EXCEPT !.error = o.on]
             [] o.what = "system-headers" -> [flags EXCEPT !.system = o.on]
             [] o.what = "group" /\ o.name = "pedantic" ->
                  [flags EXCEPT !.pedantic = IF o.on THEN 1 ELSE 0]
             [] OTHER -> flags

SetEnabled(o) ==
  CASE o.what = "group" -> ApplyGroup(o.name, o.on)
    [] o.what = "exact" -> Exact(o.name, o.on)
    [] o.what = "format" -> ApplyFormatLevel(o.name)
    [] o.what = "error=group" /\ o.on -> ApplyGroup(o.name, TRUE)
    [] o.what = "error=exact" /\ o.on -> Exact(o.name, TRUE)
    [] o.what = "error=format" /\ o.on -> ApplyFormatLevel(o.name)
    [] OTHER -> NoneEnabled

SetPromoted(o) ==
  CASE o.what = "error=group" -> PromoteGroups({o.name}, o.on)
    [] o.what = "error=exact" -> PromoteExact(o.name, o.on)
    [] o.what = "error=format" /\ ~o.on -> PromoteExact(Format, FALSE)
    [] o.what = "error=format" /\ o.on /\ o.name > 0 ->
         PromoteGroups(IF o.name = 2 THEN {"format", "format2"} ELSE {"format"}, TRUE)
    [] OTHER -> NonePromoted

ApplyOption(o) ==
  /\ ~parsing
  /\ Len(opts) < MaxOptions
  /\ opts' = Append(opts, o)
  /\ SetFlags(o)
  /\ SetEnabled(o)
  /\ SetPromoted(o)
  /\ UNCHANGED <<events, pragma_state, pragma_stack, seq, parsing>>

(* The command line is complete.  -fsafe adds its own options behind all   *)
(* others (-Werror=mem, -Werror=uninitialized and the one that makes the   *)
(* required warnings errors), and is refused together with -w.             *)
Begin ==
  /\ ~parsing
  /\ parsing' = TRUE
  /\ UNCHANGED <<policy, events, pragma_state, pragma_stack, seq>>

BeginSafe ==
  /\ ~parsing
  /\ ~flags.inhibit
  /\ parsing' = TRUE
  /\ flags' = [flags EXCEPT !.fsafe = TRUE]
  /\ LET mem(i, p) == "mem" \in Info[i].groups /\ p[i] <= Priority("mem")
         Raised(st, p) == [i \in Id |-> IF i = Uninitialized \/ mem(i, p) THEN "on" ELSE st[i]]
         Rank(p) == [i \in Id |-> CASE i = Uninitialized -> 3
                                    [] i # Uninitialized /\ mem(i, p) -> 2
                                    [] OTHER -> p[i]]
     IN /\ enabled' = Raised(enabled, enabled_priority)
        /\ enabled_priority' = Rank(enabled_priority)
        /\ promoted' = Raised(promoted, promoted_priority)
        /\ promoted_priority' = Rank(promoted_priority)
        /\ group_enabled' = [group_enabled EXCEPT !["mem"] = "on"]
  /\ UNCHANGED <<opts, level, events, pragma_state, pragma_stack, seq>>

-----------------------------------------------------------------------------
(* The pragmas.  Each is stamped, and at least one token of text follows   *)
(* before the next.                                                        *)
Event(e) ==
  /\ parsing
  /\ Len(events) < MaxEvents
  /\ events' = Append(events, [e EXCEPT !.seq = seq + 1])
  /\ seq' = seq + 2
  /\ UNCHANGED <<policy, parsing>>
Record(kind, id, class, snapshot) ==
  [seq |-> 0, kind |-> kind, id |-> id, class |-> class, snapshot |-> snapshot]

PragmaPush ==
  /\ Event(Record("push", None, None, Baseline))
  /\ pragma_stack' = Append(pragma_stack, pragma_state)
  /\ UNCHANGED pragma_state

(* Without a push to match, the state of the command line is restored.     *)
PragmaPop ==
  LET n == Len(pragma_stack)
      restored == IF n = 0 THEN Baseline ELSE pragma_stack[n]
  IN /\ Event(Record("pop", None, None, restored))
     /\ pragma_state' = restored
     /\ pragma_stack' = IF n = 0 THEN <<>> ELSE SubSeq(pragma_stack, 1, n - 1)

PragmaSet(i, class) ==
  /\ Event(Record("set", i, class, Baseline))
  /\ pragma_state' = [pragma_state EXCEPT ![i] = class]
  /\ UNCHANGED pragma_stack

WarnNext ==
  \/ \E o \in Option : ApplyOption(o)
  \/ Begin \/ BeginSafe
  \/ PragmaPush \/ PragmaPop
  \/ \E i \in Id, class \in Pragma : PragmaSet(i, class)
WarnSpec == NewContext /\ [][WarnNext]_warnVars

-----------------------------------------------------------------------------
(* Queries.  base_class: what the command line alone says of a warning     *)
(* (raised as a pedwarn or not).                                           *)
On(i, pedwarn) ==
  LET unused == IF group_enabled["unused"] = "unset" THEN group_enabled["all"]
                                                     ELSE group_enabled["unused"]
  IN \/ pedwarn /\ enabled[i] = "unset" /\ flags.pedantic > 0
     \/ IF InBoth(i) /\ enabled_priority[i] < 3
        THEN group_enabled["extra"] = "on" /\ unused = "on"
        ELSE enabled[i] = "on" \/ (enabled[i] = "unset" /\ Info[i].on)

BaseClass(i, emission) ==
  LET pedwarn == emission \/ Info[i].pedwarn
  IN CASE ~On(i, pedwarn) -> None
       [] On(i, pedwarn) /\ pedwarn /\ flags.pedantic = 2 -> "error"
       [] OTHER -> IF promoted[i] = "on" \/ (promoted[i] = "unset" /\ flags.error)
                   THEN "error" ELSE "warning"

(* The state after each event, and how many events there are up to stamp s. *)
Replay(evs) ==
  LET state[k \in 0 .. Len(evs)] ==
        IF k = 0 THEN Baseline
        ELSE CASE evs[k].kind = "set" ->
                    [state[k - 1] EXCEPT ![evs[k].id] = evs[k].class]
               [] evs[k].kind = "pop" -> evs[k].snapshot
               [] OTHER -> state[k - 1]
  IN state
EventLimit(s) == Cardinality({k \in DOMAIN events : events[k].seq <= s})
PragmaClassAt(i, s) == Replay(events)[EventLimit(s)][i]

(* The floor of -fsafe first, then the pragmas, then the command line.     *)
MutEffectiveClass(i, s, emission) ==
  LET p == PragmaClassAt(i, s)
  IN CASE p # None -> IF p = "ignored" THEN None ELSE p
       [] p = None /\ flags.fsafe /\ i \in Required -> "error"
       [] OTHER -> BaseClass(i, emission)
EffectiveClass(i, s, emission) ==
  LET p == PragmaClassAt(i, s)
  IN CASE flags.fsafe /\ i \in Required -> "error"
       [] ~(flags.fsafe /\ i \in Required) /\ p # None -> IF p = "ignored" THEN None ELSE p
       [] OTHER -> BaseClass(i, emission)

(* What becomes of a warning raised at stamp s, in a system header or not. *)
Emitted(i, s, emission, system) ==
  IF flags.inhibit \/ (system /\ ~flags.system) THEN None
  ELSE EffectiveClass(i, s, emission)
WarnEnabled(i, s) == Emitted(i, s, FALSE, FALSE) # None

(* The check for fallthrough is not made at all at level 0.                *)
Reported(i, s) == IF i = Fallthrough /\ level.n = 0 THEN None ELSE Emitted(i, s, FALSE, FALSE)

(* warn_flow_needed: the flow analysis runs only if it may report.         *)
MutFlowNeeded ==
  /\ ~flags.inhibit
  /\ \/ \E i \in FlowWarning : WarnEnabled(i, 0)
     \/ \E i \in FlowWarning : pragma_state[i] \in {"warning", "error"}
FlowNeeded ==
  /\ ~flags.inhibit
  /\ \/ \E i \in FlowWarning : WarnEnabled(i, 0)
     \/ \E k \in DOMAIN events :
          events[k].kind = "set" /\ events[k].id \in FlowWarning /\ events[k].class # "ignored"

-----------------------------------------------------------------------------
(* Every setting comes with the priority that made it, and the events are  *)
(* in the order of their stamps (append_event asserts it).                 *)
WarnTypeOK ==
  /\ TablesOK
  /\ \A i \in Id : /\ {enabled[i], promoted[i]} \subseteq Setting
                   /\ (enabled[i] = "unset") <=> (enabled_priority[i] = 0)
                   /\ (promoted[i] = "unset") <=> (promoted_priority[i] = 0)
  /\ \A k \in DOMAIN events : k > 1 => events[k - 1].seq < events[k].seq
  /\ pragma_state \in [Id -> Pragma \cup {None}]

(* What one option says of warning i: <<priority, on>>, or no word.        *)
GroupWord(i, g, on) ==
  IF g \in Info[i].groups /\ ~InBoth(i) THEN {<<ItemPriority(g, i), on>>} ELSE {}
FormatWord(i, n) == GroupWord(i, "format", n # 0) \cup GroupWord(i, "format2", n = 2)
EnableWord(o, i) ==
  CASE o.what = "group" -> GroupWord(i, o.name, o.on)
    [] o.what = "error=group" /\ o.on -> GroupWord(i, o.name, TRUE)
    [] o.what \in {"format", "error=format"} /\ o.on -> FormatWord(i, o.name)
    [] o.what \in {"exact", "error=exact"} /\ o.name = i ->
         IF o.what = "exact" \/ o.on THEN {<<3, o.on>>} ELSE {}
    [] OTHER -> {}

(* The word that counts among those of the whole command line: the most    *)
(* specific, and of those the last.                                        *)
Decides(k, i) ==
  \E w \in EnableWord(opts[k], i) :
    \A j \in DOMAIN opts : \A v \in EnableWord(opts[j], i) :
      v[1] < w[1] \/ (v[1] = w[1] /\ j <= k)
SetsGroup(o, g) == (o.what = "group" \/ (o.what = "error=group" /\ o.on)) /\ o.name = g
GroupSaid(g) ==
  LET ks == {k \in DOMAIN opts : SetsGroup(opts[k], g)}
  IN IF ks = {} THEN "unset" ELSE OnOff(opts[CHOOSE k \in ks : \A j \in ks : j <= k].on)
Said(i) ==
  LET ks == {k \in DOMAIN opts : Decides(k, i)}
      unused == IF GroupSaid("unused") = "unset" THEN GroupSaid("all") ELSE GroupSaid("unused")
  IN IF ks # {} THEN OnOff(\E k \in ks : \E w \in EnableWord(opts[k], i) : w[2])
     ELSE IF InBoth(i) THEN OnOff(GroupSaid("extra") = "on" /\ unused = "on")
     ELSE "unset"

(* docs/warnings.md, "Specificity takes priority over command-line         *)
(* position": after any command line, a warning that is not a pedwarn is   *)
(* enabled by what its most specific option, of equally specific ones the  *)
(* last, says, and by its default if no option speaks of it; those of      *)
(* -Wextra and -Wunused together need both.  warn_flag keeps no list of    *)
(* the options, only one setting and one priority for each warning.        *)
MostSpecificWins ==
  \A i \in Id : ~flags.fsafe /\ ~Info[i].pedwarn =>
    On(i, FALSE) <=> (Said(i) = "on" \/ (Said(i) = "unset" /\ Info[i].on))

(* -w is absolute: wherever it stands among the options, and whatever the  *)
(* pragmas say, nothing is reported and no analysis is made to report.     *)
SilenceIsAbsolute ==
  (\E k \in DOMAIN opts : opts[k].what = "w") =>
    /\ ~FlowNeeded
    /\ \A i \in Id, s \in 0 .. seq, b \in BOOLEAN : Emitted(i, s, b, FALSE) = None

(* The blocks open after each event, and the last setting of a warning in  *)
(* a block that is open at stamp s.                                        *)
Depth(evs) ==
  LET depth[k \in 0 .. Len(evs)] ==
        IF k = 0 THEN 0
        ELSE CASE evs[k].kind = "push" -> depth[k - 1] + 1
               [] evs[k].kind = "pop" -> IF depth[k - 1] = 0 THEN 0 ELSE depth[k - 1] - 1
               [] OTHER -> depth[k - 1]
  IN depth
Before(s) == {k \in DOMAIN events : events[k].seq <= s}
Open(j, s) == \A k \in Before(s) : k > j /\ events[k].kind = "pop" =>
                                   Depth(events)[k - 1] - 1 >= Depth(events)[j]
Sets(i, s) == {j \in Before(s) : events[j].kind = "set" /\ events[j].id = i /\ Open(j, s)}
ScopedClass(i, s) ==
  LET js == Sets(i, s)
  IN IF js = {} THEN None ELSE events[CHOOSE j \in js : \A k \in js : k <= j].class

(* Pragmas scope as blocks do: at any stamp the class of a warning is the  *)
(* one set last in a scope still open there, where push opens a scope, pop *)
(* closes one and all it set, and a pop too many closes everything.        *)
PragmasNest == \A i \in Id, s \in 0 .. seq : PragmaClassAt(i, s) = ScopedClass(i, s)

(* The floor of -fsafe: no option, group or pragma suppresses or demotes a *)
(* memory or definite-initialisation error, and the analysis that finds    *)
(* them runs.                                                              *)
SafeFloorHolds ==
  flags.fsafe => /\ FlowNeeded
                 /\ \A i \in Required, s \in 0 .. seq : Reported(i, s) = "error"

(* The analysis is skipped only when none of its warnings could be         *)
(* reported anywhere in the translation unit.                              *)
AnalysisNotSkipped ==
  (\E i \in FlowWarning, s \in 0 .. seq : Reported(i, s) # None) => FlowNeeded

(* What is reported, and as what, is what the options and the pragmas say. *)
VerdictsExact == WarnTypeOK /\ MostSpecificWins /\ PragmasNest

(* What neither options nor pragmas can change: the silence of -w and the  *)
(* floor of -fsafe.                                                        *)
FloorsHold == SilenceIsAbsolute /\ SafeFloorHolds
=============================================================================
