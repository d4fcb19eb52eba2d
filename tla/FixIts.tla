-------------------------------- MODULE FixIts --------------------------------
(***************************************************************************)
(* Diagnostics with fix-its, and their application to copies of the source *)
(* (diag.c, and the tail of driver_main that calls it).                    *)
(*                                                                         *)
(* A compilation records fix-its as it reports, until the error cap        *)
(* latches.  At its end -fdiagnostics-apply-fixits selects edits, one      *)
(* prompt at a time or all at once, and writes each edited file beside the *)
(* original: temporary file, bytes, rename.  Several compilers may run in  *)
(* one tree (make -j) and edit the same header; each may die at any step.  *)
(*                                                                         *)
(* SourceMap has the way from a span to offsets; here an edit has offsets, *)
(* or is unmapped.                                                         *)
(***************************************************************************)
EXTENDS Naturals, Sequences, FiniteSets, SequencesExt

CONSTANTS
    Compilers,     \* processes
    FileTables,    \* file tables a compilation can end up with
    Pool,          \* edits diagnostics may carry
    Paths,
    MaxErrors,     \* -fmax-errors, 0 for none
    MaxFixits,     \* bound on the fix-its of one compilation
    MaxDiags,      \* bound on its errors
    Modes,         \* "all", "interactive", "piped" (interactive, stdin not a TTY)
    None

VARIABLES
    files,      \* dc->files: path, identity (0: stat failed), bytes, editable
    pc,
    fixits,     \* dc->fixits, in emission order
    errors,     \* dc->error_count
    stops,      \* how often "too many errors" was reported
    mode,
    work,       \* diag_apply_fixits' work array
    at,         \* its loop index
    acceptAll,
    report,
    temp,       \* this process's temporary file, or None
    dest        \* the .cgf-fixed file of each path, or None

vars == <<files, pc, fixits, errors, stops, mode, work, at, acceptAll, report, temp, dest>>
procVars == <<files, mode>>

NoReport == [applied |-> 0, advisory |-> 0, conflicts |-> 0, written |-> 0]

Init ==
    /\ files \in [Compilers -> FileTables]
    /\ mode \in [Compilers -> Modes]
    /\ pc = [p \in Compilers |-> "compile"]
    /\ fixits = [p \in Compilers |-> <<>>]
    /\ errors = [p \in Compilers |-> 0]
    /\ stops = [p \in Compilers |-> 0]
    /\ work = [p \in Compilers |-> <<>>]
    /\ at = [p \in Compilers |-> 1]
    /\ acceptAll = [p \in Compilers |-> FALSE]
    /\ report = [p \in Compilers |-> NoReport]
    /\ temp = [p \in Compilers |-> None]
    /\ dest = [q \in Paths |-> None]
-----------------------------------------------------------------------------
(* Emission. *)
LimitReached(p) == stops[p] > 0

(* An edit in a macro expansion, or in a file whose columns moved during   *)
(* normalisation, loses its machine-applicable mark.                       *)
Recorded(p, e) ==
    [e EXCEPT !.mach = @ /\ ~e.macro /\ files[p][e.file].editable]

Emit(p, level, batch) ==
    /\ pc[p] = "compile" /\ ~LimitReached(p)
    /\ Len(fixits[p]) + Len(batch) <= MaxFixits /\ errors[p] < MaxDiags
    /\ fixits' = [fixits EXCEPT ![p] = @ \o [k \in DOMAIN batch |-> Recorded(p, batch[k])]]
    /\ errors' = [errors EXCEPT ![p] = @ + (IF level = "error" THEN 1 ELSE 0)]
    /\ stops' = [stops EXCEPT ![p] =
                   @ + (IF MaxErrors # 0 /\ errors'[p] >= MaxErrors /\ level = "error"
                          THEN 1 ELSE 0)]
    /\ UNCHANGED <<procVars, pc, work, at, acceptAll, report, temp, dest>>
-----------------------------------------------------------------------------
(* Which edits can be applied together. *)
SameFile(p, f, g) ==
    LET a == files[p][f]
        b == files[p][g]
    IN  IF a.ident # 0 /\ b.ident # 0 THEN a.ident = b.ident ELSE a.path = b.path

MutConflicts(p, a, b) ==
    /\ SameFile(p, a.file, b.file)
    /\ IF a.start = a.end /\ b.start = b.end THEN a.start = b.start
       ELSE IF a.start = a.end THEN a.start >= b.start /\ a.start < b.end
       ELSE IF b.start = b.end THEN b.start >= a.start /\ b.start < a.end
       ELSE a.start < b.end /\ b.start < a.end

Conflicts(p, a, b) ==
    /\ SameFile(p, a.file, b.file)
    /\ IF a.start = a.end /\ b.start = b.end THEN a.start = b.start
       ELSE IF a.start = a.end THEN a.start >= b.start /\ a.start <= b.end
       ELSE IF b.start = b.end THEN b.start >= a.start /\ b.start <= a.end
       ELSE a.start <= b.end /\ b.start <= a.end

Valid(p) == SelectSeq(fixits[p], LAMBDA e : e.mapped /\ files[p][e.file].editable)

Marked(p) ==
    LET v == Valid(p)
    IN  [k \in DOMAIN v |->
           [edit |-> v[k], selected |-> FALSE,
            conflict |-> \E l \in DOMAIN v \ {k} : Conflicts(p, v[k], v[l])]]

(* driver_main's tail and the first half of diag_apply_fixits. *)
ApplyFixits(p) ==
    /\ pc[p] = "compile"
    /\ LET w == Marked(p) IN
         IF fixits[p] = <<>>
           THEN pc' = [pc EXCEPT ![p] = "done"] /\ UNCHANGED <<work, report>>
         ELSE IF mode[p] = "piped"
           THEN pc' = [pc EXCEPT ![p] = "failed"] /\ UNCHANGED <<work, report>>
         ELSE /\ pc' = [pc EXCEPT ![p] = "select"]
              /\ work' = [work EXCEPT ![p] = w]
              /\ report' = [report EXCEPT ![p].conflicts =
                              Cardinality({k \in DOMAIN w : w[k].conflict})]
    /\ acceptAll' = [acceptAll EXCEPT ![p] = mode[p] = "all"]
    /\ UNCHANGED <<procVars, fixits, errors, stops, at, temp, dest>>

Considering(p) == pc[p] = "select" /\ at[p] <= Len(work[p])
Candidate(p) == work[p][at[p]]
Advance(p) == at' = [at EXCEPT ![p] = @ + 1]
Take(p) == work' = [work EXCEPT ![p][at[p]].selected = TRUE]

PassConflict(p) ==
    /\ Considering(p) /\ Candidate(p).conflict
    /\ Advance(p)
    /\ UNCHANGED <<procVars, pc, fixits, errors, stops, work, acceptAll, report, temp, dest>>

Advisory(p) == mode[p] = "all" /\ ~Candidate(p).edit.mach

PassAdvisory(p) ==
    /\ Considering(p) /\ ~Candidate(p).conflict /\ Advisory(p)
    /\ Advance(p)
    /\ report' = [report EXCEPT ![p].advisory = @ + 1]
    /\ UNCHANGED <<procVars, pc, fixits, errors, stops, work, acceptAll, temp, dest>>

AcceptNext(p) ==
    /\ Considering(p) /\ ~Candidate(p).conflict /\ ~Advisory(p) /\ acceptAll[p]
    /\ Take(p) /\ Advance(p)
    /\ UNCHANGED <<procVars, pc, fixits, errors, stops, acceptAll, report, temp, dest>>

(* prompt_choice: y, a, q (also end of input), anything else declines. *)
Prompt(p, choice) ==
    /\ Considering(p) /\ ~Candidate(p).conflict /\ ~Advisory(p) /\ ~acceptAll[p]
    /\ IF choice \in {"y", "a"} THEN Take(p) ELSE UNCHANGED work
    /\ acceptAll' = [acceptAll EXCEPT ![p] = choice = "a"]
    /\ IF choice = "q"
         THEN pc' = [pc EXCEPT ![p] = "write"] /\ at' = [at EXCEPT ![p] = 1]
         ELSE Advance(p) /\ UNCHANGED pc
    /\ UNCHANGED <<procVars, fixits, errors, stops, report, temp, dest>>

SelectionDone(p) ==
    /\ pc[p] = "select" /\ at[p] > Len(work[p])
    /\ pc' = [pc EXCEPT ![p] = "write"]
    /\ at' = [at EXCEPT ![p] = 1]
    /\ UNCHANGED <<procVars, fixits, errors, stops, work, acceptAll, report, temp, dest>>
-----------------------------------------------------------------------------
(* Writing.  The buffer takes the edits from the last to the first, so     *)
(* that the offsets of those still to come stay right.                     *)
Mine(p, f) == {k \in DOMAIN work[p] : work[p][k].selected
                                      /\ SameFile(p, work[p][k].edit.file, f)}

MutReverseOrder(p, f) ==
    SetToSortSeq(Mine(p, f), LAMBDA a, b : work[p][a].edit.start < work[p][b].edit.start)

ReverseOrder(p, f) ==
    SetToSortSeq(Mine(p, f),
      LAMBDA a, b : \/ work[p][a].edit.start > work[p][b].edit.start
                    \/ work[p][a].edit.start = work[p][b].edit.start /\ a > b)

Splice(text, e) ==
    SubSeq(text, 1, e.start) \o e.insert \o SubSeq(text, e.end + 1, Len(text))

Fixed(p, f) ==
    LET order == ReverseOrder(p, f)
        after[n \in 0..Len(order)] ==
          IF n = 0 THEN files[p][f].text ELSE Splice(after[n - 1], work[p][order[n]].edit)
    IN  after[Len(order)]

SnapshotsAgree(p, f) ==
    \A k \in Mine(p, f) : files[p][work[p][k].edit.file].text = files[p][f].text

MutSkipFile(p) ==
    /\ pc[p] = "write" /\ at[p] <= Len(files[p])
    /\ \E g \in 1 .. at[p] - 1 : SameFile(p, g, at[p])
    /\ Advance(p)
    /\ UNCHANGED <<procVars, pc, fixits, errors, stops, work, acceptAll, report, temp, dest>>

(* The loop over the files: a physical file is handled under its first id. *)
SkipFile(p) ==
    /\ pc[p] = "write" /\ at[p] <= Len(files[p])
    /\ \/ \E g \in 1 .. at[p] - 1 : SameFile(p, g, at[p])
       \/ Mine(p, at[p]) = {}
    /\ Advance(p)
    /\ UNCHANGED <<procVars, pc, fixits, errors, stops, work, acceptAll, report, temp, dest>>

OpenTemp(p) ==
    /\ pc[p] = "write" /\ at[p] <= Len(files[p])
    /\ \A g \in 1 .. at[p] - 1 : ~SameFile(p, g, at[p])
    /\ Mine(p, at[p]) # {}
    /\ report' = [report EXCEPT ![p].applied = @ + Cardinality(Mine(p, at[p]))]
    /\ \/ pc' = [pc EXCEPT ![p] = "failed"] /\ UNCHANGED temp     \* mkstemp fails
       \/ /\ SnapshotsAgree(p, at[p])
          /\ temp' = [temp EXCEPT ![p] = <<>>]
          /\ pc' = [pc EXCEPT ![p] = "fill"]
    /\ UNCHANGED <<procVars, fixits, errors, stops, work, at, acceptAll, dest>>

(* fwrite and fclose: the bytes reach the file in any number of pieces. *)
Fill(p) ==
    /\ pc[p] = "fill"
    /\ LET text == Fixed(p, at[p]) IN
         \E n \in Len(temp[p]) .. Len(text) :
           /\ n > Len(temp[p]) \/ n = Len(text)
           /\ temp' = [temp EXCEPT ![p] = SubSeq(text, 1, n)]
           /\ pc' = [pc EXCEPT ![p] = IF n = Len(text) THEN "rename" ELSE "fill"]
    /\ UNCHANGED <<procVars, fixits, errors, stops, work, at, acceptAll, report, dest>>

IoFails(p) ==
    /\ pc[p] \in {"fill", "rename"}
    /\ temp' = [temp EXCEPT ![p] = None]
    /\ pc' = [pc EXCEPT ![p] = "failed"]
    /\ UNCHANGED <<procVars, fixits, errors, stops, work, at, acceptAll, report, dest>>

Rename(p) ==
    /\ pc[p] = "rename"
    /\ dest' = [dest EXCEPT ![files[p][at[p]].path] = temp[p]]
    /\ temp' = [temp EXCEPT ![p] = None]
    /\ report' = [report EXCEPT ![p].written = @ + 1]
    /\ pc' = [pc EXCEPT ![p] = "write"]
    /\ Advance(p)
    /\ UNCHANGED <<procVars, fixits, errors, stops, work, acceptAll>>

FilesDone(p) ==
    /\ pc[p] = "write" /\ at[p] > Len(files[p])
    /\ pc' = [pc EXCEPT ![p] = "done"]
    /\ UNCHANGED <<procVars, fixits, errors, stops, work, at, acceptAll, report, temp, dest>>

(* The process is killed; its temporary file stays behind. *)
Crash(p) ==
    /\ pc[p] \notin {"done", "failed", "dead"}
    /\ pc' = [pc EXCEPT ![p] = "dead"]
    /\ UNCHANGED <<procVars, fixits, errors, stops, work, at, acceptAll, report, temp, dest>>
-----------------------------------------------------------------------------
Batches == {<<>>} \cup {<<e>> : e \in Pool} \cup {<<e, f>> : e, f \in Pool}
Answers == {"y", "n", "a", "q"}

Apply(p) ==
    \/ ApplyFixits(p) \/ PassConflict(p) \/ PassAdvisory(p) \/ AcceptNext(p)
    \/ (\E c \in Answers : Prompt(p, c))
    \/ SelectionDone(p) \/ SkipFile(p) \/ OpenTemp(p)
    \/ Fill(p) \/ IoFails(p) \/ Rename(p) \/ FilesDone(p)

Next ==
    \E p \in Compilers :
      \/ (\E level \in {"error", "note"}, b \in Batches : Emit(p, level, b))
      \/ Apply(p)
      \/ Crash(p)

Spec == Init /\ [][Next]_vars /\ \A p \in Compilers : WF_vars(Apply(p))
-----------------------------------------------------------------------------
Edits == [file : 1..3, start : Nat, end : Nat, insert : Seq(Nat), mach : BOOLEAN,
          macro : BOOLEAN, mapped : BOOLEAN]
Ended == {"done", "failed", "dead"}

(* The shapes of the records, and the cap: an error cap bounds the errors  *)
(* reported and announces itself once.                                     *)
TypeOK ==
    /\ pc \in [Compilers -> {"compile", "select", "write", "fill", "rename"} \cup Ended]
    /\ \A p \in Compilers :
         /\ fixits[p] \in Seq(Edits)
         /\ \A w \in Range(work[p]) : w.edit \in Edits /\ w.conflict \in BOOLEAN
         /\ stops[p] <= 1
         /\ MaxErrors # 0 => errors[p] <= MaxErrors

(* The text with all of a set of edits made at once, read off position by  *)
(* position: an edit's insertion appears where it starts, and the bytes it *)
(* covers do not.                                                          *)
AllAtOnce(text, edits) ==
    LET inserted(q) == IF \E e \in edits : e.start = q
                         THEN (CHOOSE e \in edits : e.start = q).insert ELSE <<>>
        kept(q) == IF q < Len(text) /\ \A e \in edits : ~(e.start <= q /\ q < e.end)
                     THEN <<text[q + 1]>> ELSE <<>>
        upto[q \in 0..Len(text)] ==
          (IF q = 0 THEN <<>> ELSE upto[q - 1]) \o inserted(q) \o kept(q)
    IN  upto[Len(text)]

(* A .cgf-fixed file is always absent or whole: the original with exactly  *)
(* the selected edits of one compilation, whoever else writes it, fails or *)
(* dies ("written atomically").                                            *)
DestIsOneFixedCopy ==
    \A q \in Paths : dest[q] # None =>
      \E p \in Compilers : \E f \in DOMAIN files[p] :
        /\ files[p][f].path = q
        /\ dest[q] = AllAtOnce(files[p][f].text, {work[p][k].edit : k \in Mine(p, f)})

(* No applied edit touches another edit proposed for the same bytes, also  *)
(* if that one was declined and also under another spelling of the path    *)
(* ("conflicting or touching edits are both withheld").                    *)
Touching(a, b) == a.start <= b.end /\ b.start <= a.end

TouchingWithheld ==
    \A p \in Compilers : \A k, l \in DOMAIN work[p] :
      LET a == work[p][k].edit
          b == work[p][l].edit
      IN  k # l /\ work[p][k].selected /\ files[p][a.file].ident = files[p][b.file].ident
            => ~Touching(a, b)

(* Unattended application never takes an advisory edit, an edit inside a   *)
(* macro expansion or one in a file whose bytes cannot be mapped.          *)
AllIsMachineApplicable ==
    \A p \in Compilers : mode[p] = "all" =>
      \A w \in Range(work[p]) : w.selected =>
        w.edit.mach /\ ~w.edit.macro /\ files[p][w.edit.file].editable

(* The report of a call that succeeded: every selected edit is in a copy,  *)
(* every edited file was written once, under one name, and every edit      *)
(* considered without a prompt is accounted for.                           *)
ReportIsExact ==
    \A p \in Compilers : pc[p] = "done" =>
      LET chosen == {k \in DOMAIN work[p] : work[p][k].selected}
          touched == {files[p][work[p][k].edit.file].ident : k \in chosen}
      IN  /\ report[p].applied = Cardinality(chosen)
          /\ report[p].written = Cardinality(touched)
          /\ mode[p] = "all" =>
               report[p].applied + report[p].advisory + report[p].conflicts = Len(work[p])

(* A compilation that ends, also in failure, leaves no temporary file.     *)
TempsCleaned ==
    \A p \in Compilers : pc[p] \in {"compile", "select", "write", "done", "failed"}
                           => temp[p] = None

(* Application ends, whatever the answers and the failures. *)
Finishes == \A p \in Compilers : <>(pc[p] \in Ended)
=============================================================================
