--------------------------- MODULE IncludeSearch ----------------------------
(***************************************************************************)
(* The search for a header (pp/directive.c): the chain of directories one  *)
(* lookup goes through, built from the directory of the including file and *)
(* the -iquote, -I and -isystem options with aliases of one directory      *)
(* merged, and the resumption of that search by #include_next.  One header *)
(* name is searched for; the files that have it include it again.          *)
(***************************************************************************)
EXTENDS Integers, Sequences, SequencesExt

CONSTANTS
  Dir,        \* spellings of directories
  Id,         \* Id[d]: the directory d names, or NoDir when stat fails
  MaxOpts,    \* how many options of each class at most
  MaxFrames   \* how deep files include one another

NoDir == 0
Kind == {"includer", "iquote", "include", "system"}

VARIABLES
  opts,      \* the option lists of each class
  has,       \* the directories that hold the header
  frames,    \* the include stack, the main file first
  ice        \* was the internal error of include_next_start met?

vars == <<opts, has, frames, ice>>

-----------------------------------------------------------------------------
(* dir_identity is valid on both sides and equal, or the names are equal.  *)
MutSameDir(d, e) == d = e
SameDir(d, e) == IF Id[d] # NoDir /\ Id[e] # NoDir THEN Id[d] = Id[e] ELSE d = e

Entry(dir, kind, index) ==
  [dir |-> dir, kind |-> kind, index |-> index, system |-> kind = "system",
   at |-> [k \in Kind |-> IF k = kind THEN index ELSE -1]]

(* An entry that also stands for option number index of class kind.  The   *)
(* implicit entry never becomes a system directory.                        *)
Merge(e, kind, index) ==
  [e EXCEPT !.at[kind] = IF @ < 0 THEN index ELSE @,
            !.system = @ \/ (e.kind # "includer" /\ kind = "system")]

chain_append(chain, dir, kind, index) ==
  IF \E i \in DOMAIN chain : SameDir(chain[i].dir, dir)
  THEN LET i == SelectInSeq(chain, LAMBDA e : SameDir(e.dir, dir))
       IN [chain EXCEPT ![i] = Merge(@, kind, index)]
  ELSE Append(chain, Entry(dir, kind, index))

(* All directories of one option class, appended in order. *)
AppendClass(chain, kind, dirs) ==
  LET upto[i \in 0 .. Len(dirs)] ==
        IF i = 0 THEN chain ELSE chain_append(upto[i - 1], dirs[i], kind, i - 1)
  IN upto[Len(dirs)]

build_chain(angled, includer) ==
  LET quoted == AppendClass(<<Entry(includer, "includer", 0)>>, "iquote", opts.iquote)
      start == IF angled THEN <<>> ELSE quoted
  IN AppendClass(AppendClass(start, "include", opts.include), "system", opts.system)

(* The origin of the search that found a frame, in a chain; 0 if lost.     *)
Origin(chain, f) ==
  SelectInSeq(chain, LAMBDA e : e.at[f.kind] = f.index)
AfterOrigin(chain, f) ==
  IF f.kind = "none" THEN 1 ELSE Origin(chain, f) + 1

(* The first entry of the chain, from start on, whose directory has it.    *)
FirstHit(chain, start) ==
  LET hits == {i \in start .. Len(chain) : Id[chain[i].dir] \in has}
  IN IF hits = {} THEN 0 ELSE CHOOSE i \in hits : \A j \in hits : i <= j

-----------------------------------------------------------------------------
Init ==
  /\ \E n \in 0 .. MaxOpts.iquote, m \in 0 .. MaxOpts.include,
        k \in 0 .. MaxOpts.system :
       opts \in [iquote : [1..n -> Dir], include : [1..m -> Dir],
                 system : [1..k -> Dir]]
  /\ has \in SUBSET ({Id[d] : d \in Dir} \ {NoDir})
  /\ \E d \in {e \in Dir : Id[e] # NoDir} :
       frames = <<[dir |-> d, kind |-> "none", index |-> -1, angled |-> FALSE,
                   includer |-> d, system |-> FALSE, next |-> FALSE]>>
  /\ ice = FALSE

Cur == Last(frames)

Push(chain, i, angled, includer, next) ==
  frames' = Append(frames,
    [dir |-> chain[i].dir, kind |-> chain[i].kind, index |-> chain[i].index,
     angled |-> angled, includer |-> includer, next |-> next,
     system |-> chain[i].system \/ Cur.system])

(* #include "h" or <h>.  A header not found is fatal and ends the run.     *)
Include(angled) ==
  /\ ~ice /\ Len(frames) < MaxFrames
  /\ LET chain == build_chain(angled, Cur.dir)
         hit == FirstHit(chain, 1)
     IN hit # 0 /\ Push(chain, hit, angled, Cur.dir, FALSE)
  /\ UNCHANGED <<opts, has, ice>>

(* The form and the directory the search of a frame started with. *)
SearchAngled(f, angled) == IF f.kind = "none" THEN angled ELSE f.angled
SearchDir(f) == IF f.kind = "none" THEN f.dir ELSE f.includer

(* #include_next: the chain that found the current file, from behind it.   *)
IncludeNext(angled) ==
  /\ ~ice /\ Len(frames) < MaxFrames
  /\ LET sa == SearchAngled(Cur, angled)
         chain == build_chain(sa, SearchDir(Cur))
         hit == FirstHit(chain, AfterOrigin(chain, Cur))
     IN IF Cur.kind # "none" /\ Origin(chain, Cur) = 0
        THEN ice' = TRUE /\ UNCHANGED frames
        ELSE hit # 0 /\ Push(chain, hit, sa, SearchDir(Cur), TRUE) /\ UNCHANGED ice
  /\ UNCHANGED <<opts, has>>

EndOfFile ==
  /\ ~ice /\ Len(frames) > 1
  /\ frames' = Front(frames)
  /\ UNCHANGED <<opts, has, ice>>

Next ==
  \/ \E angled \in BOOLEAN : Include(angled) \/ IncludeNext(angled)
  \/ EndOfFile

Spec == Init /\ [][Next]_vars

-----------------------------------------------------------------------------
(* Every variable keeps its type; a file is found only in a directory that *)
(* holds it.                                                               *)
TypeOK ==
  /\ has \subseteq Nat
  /\ Len(frames) \in 1 .. MaxFrames
  /\ \A i \in DOMAIN frames :
       /\ frames[i].kind \in Kind \cup {"none"}
       /\ frames[i].index \in Nat \cup {-1}
       /\ i > 1 => Id[frames[i].dir] \in has
  /\ ice \in BOOLEAN

(* The chain that found a file is rebuilt with its origin in it, so the    *)
(* internal error of include_next_start is never met.                      *)
OriginAlwaysFound == ~ice

(* #include_next moves on: a chain of files each entered by #include_next  *)
(* from the one before never returns to a directory, whatever aliases of   *)
(* it the command line has, so such a chain is no longer than the options. *)
NextNeverReturns ==
  \A i, j \in DOMAIN frames :
    (1 < i /\ i < j /\ \A m \in i + 1 .. j : frames[m].next) =>
      Id[frames[i].dir] # Id[frames[j].dir]

(* What the merged chain finds is what a search through all directories in *)
(* the order of the classes and of the command line would find.            *)
Unmerged(angled, includer) ==
  (IF angled THEN <<>> ELSE <<includer>> \o opts.iquote)
    \o opts.include \o opts.system
MergingKeepsTheSearch ==
  \A angled \in BOOLEAN, d \in Dir :
    LET chain == build_chain(angled, d)
        all == Unmerged(angled, d)
        hits == {i \in DOMAIN all : Id[all[i]] \in has}
        hit == FirstHit(chain, 1)
    IN /\ hit = 0 <=> hits = {}
       /\ hit # 0 => LET first == CHOOSE i \in hits : \A j \in hits : i <= j
                     IN Id[chain[hit].dir] = Id[all[first]]

(* A file is a system header exactly when the file that includes it is     *)
(* one, or it was not found next to the including file and some -isystem   *)
(* names its directory.                                                    *)
SystemExact ==
  \A i \in DOMAIN frames :
    i > 1 =>
      (frames[i].system <=>
         \/ frames[i - 1].system
         \/ /\ frames[i].kind # "includer"
            /\ \E k \in DOMAIN opts.system : Id[opts.system[k]] = Id[frames[i].dir])
=============================================================================
