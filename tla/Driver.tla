------------------------------- MODULE Driver -------------------------------
(***************************************************************************)
(* The compilation driver: driver_main's loop over the inputs of one       *)
(* command line, the pipeline each input goes through (read, front end,    *)
(* analyses, emission, assembly stage, external assembler, dependency      *)
(* file), the link, the removal of temporaries and the exit status.        *)
(* Source text, diagnostics and object code are abstracted to whether they *)
(* are complete; external tools, the file system and the compiler proper   *)
(* are nondeterministic in what they return.                               *)
(***************************************************************************)
EXTENDS Naturals, Sequences, FiniteSets

CONSTANTS
  Commands,    \* the command lines explored: see CommandType
  CanFill      \* can a write to an open output fail (a full disk)?

Modes == {"E", "S", "c", "link", "check"}
Kinds == {"c", "h", "s", "S", "o", "ir"}
CommandType ==
  [mode : Modes, inputs : Seq(Kinds), werror : BOOLEAN, deps : BOOLEAN,
   fixits : BOOLEAN]

ASSUME DriverConstants == Commands \subseteq CommandType /\ CanFill \in BOOLEAN

(* The exit-code contract of driver.h.  NotYet: still running; Crash: the  *)
(* process died of a signal of its own.                                    *)
OK == 0
COMPILE == 1
LINK == 2
IO == 3
ICE == 4
NotYet == 99
Crash == 139

VARIABLES
  cmd,       \* the parsed arguments
  pc,        \* the step of the driver
  k,         \* the input being processed
  err,       \* diag_had_error of the one DiagCtx every input shares
  status,    \* the exit status so far
  anyFail,   \* any_fail
  obj,       \* obj[i]: the product of input i (text, object or link stage)
  stage,     \* stage[i]: its assembly stage file
  temps,     \* temp_objs: inputs whose product is a reserved link stage
  slot,      \* slot[i]: has the object claimed its place in the link line?
  ldargv,    \* the inputs named on the linker's command line, once it runs
  exe,       \* the linked output
  exit,      \* what the process returned, or NotYet
  rcs,       \* history: the result of each finished input
  own,       \* history: has input i itself been diagnosed with an error?
  flowed     \* history: have the flow and memory analyses seen input i?

vars == <<cmd, pc, k, err, status, anyFail, obj, stage, temps, slot, ldargv,
          exe, exit, rcs, own, flowed>>

Inputs == DOMAIN cmd.inputs
Kind(i) == cmd.inputs[i]
Contents == {"none", "reserved", "whole", "cut"}
Written == IF CanFill THEN {"whole", "cut"} ELSE {"whole"}

TypeOK ==
  /\ cmd \in Commands
  /\ pc \in {"start", "input", "front", "analyse", "emit", "write",
             "assemble", "deps", "link", "cleanup", "finish", "done"}
  /\ k \in 1..(Len(cmd.inputs) + 1)
  /\ err \in BOOLEAN /\ anyFail \in BOOLEAN
  /\ status \in {OK, COMPILE, LINK, IO}
  /\ obj \in [Inputs -> Contents]
  /\ stage \in [Inputs -> Contents \ {"reserved"}]
  /\ temps \subseteq Inputs
  /\ slot \in [Inputs -> BOOLEAN]
  /\ exe \in {"none", "whole"}
  /\ exit \in {OK, COMPILE, LINK, IO, ICE, NotYet, Crash}
  /\ rcs \in [Inputs -> {OK, COMPILE, IO, NotYet}]
  /\ own \in [Inputs -> BOOLEAN]
  /\ flowed \in [Inputs -> BOOLEAN]

Init ==
  /\ cmd \in Commands
  /\ pc = "start" /\ k = 1
  /\ err = FALSE /\ status = OK /\ anyFail = FALSE
  /\ obj = [i \in Inputs |-> "none"]
  /\ stage = [i \in Inputs |-> "none"]
  /\ temps = {}
  /\ slot = [i \in Inputs |-> FALSE]
  /\ ldargv = <<>> /\ exe = "none" /\ exit = NotYet
  /\ rcs = [i \in Inputs |-> NotYet]
  /\ own = [i \in Inputs |-> FALSE]
  /\ flowed = [i \in Inputs |-> FALSE]

(***************************************************************************)
(* How one input ends.                                                     *)
(***************************************************************************)
MutFirstWins(rc) == IF rc # OK THEN rc ELSE status

FirstWins(rc) == IF status = OK THEN rc ELSE status

(* add_input: which inputs own a position in the link line.                *)
HasSlot(i) == Kind(i) \notin {"ir", "h"}

(* The end of an iteration: the object claims its slot, a failure is       *)
(* latched, and the loop goes on to the next input whatever happened.      *)
MutSettle(rc) ==
  /\ rcs' = [rcs EXCEPT ![k] = rc]
  /\ slot' = [slot EXCEPT ![k] = cmd.mode = "link" /\ HasSlot(k)]
  /\ anyFail' = (anyFail \/ rc = COMPILE)
  /\ status' = FirstWins(rc)
  /\ k' = k + 1 /\ pc' = "input"
  /\ UNCHANGED <<cmd, temps, ldargv, exe, exit>>

Settle(rc) ==
  /\ rcs' = [rcs EXCEPT ![k] = rc]
  /\ slot' = [slot EXCEPT ![k] = rc = OK /\ cmd.mode = "link" /\ HasSlot(k)]
  /\ anyFail' = (anyFail \/ rc # OK)
  /\ status' = FirstWins(rc)
  /\ k' = k + 1 /\ pc' = "input"
  /\ UNCHANGED <<cmd, temps, ldargv, exe, exit>>

Goto(where) ==
  /\ pc' = where
  /\ UNCHANGED <<cmd, k, status, anyFail, temps, slot, ldargv, exe, exit, rcs>>

Die(code) ==
  /\ exit' = code /\ pc' = "done"
  /\ UNCHANGED <<cmd, k, status, anyFail, temps, slot, ldargv, exe, rcs>>

Files == <<obj, stage>>
Diagnosis == <<err, own, flowed>>

(* -MD/-MMD: only a compiled C input has a dependency file beside it.      *)
Produced == IF Kind(k) = "c" /\ cmd.deps /\ cmd.mode # "E"
              THEN Goto("deps") ELSE Settle(OK)

(***************************************************************************)
(* The loop over the inputs.                                               *)
(***************************************************************************)
(* -E with -o opens its one output before the first input.                 *)
Start ==
  /\ pc = "start"
  /\ \/ Goto("input")
     \/ /\ cmd.mode = "E"
        /\ status' = IO /\ pc' = "finish"
        /\ UNCHANGED <<cmd, k, anyFail, temps, slot, ldargv, exe, exit, rcs>>
  /\ UNCHANGED <<Files, Diagnosis>>

Unused(i) == \/ Kind(i) = "o" /\ cmd.mode # "link"
             \/ Kind(i) = "s" /\ cmd.mode \in {"E", "S"}

(* An input no step consumes is warned about; -Werror makes that an error. *)
SkipInput ==
  /\ pc = "input" /\ k \in Inputs
  /\ Unused(k) \/ Kind(k) = "o"
  /\ err' = (err \/ (Unused(k) /\ cmd.werror))
  /\ slot' = [slot EXCEPT ![k] = Kind(k) = "o"]
  /\ k' = k + 1
  /\ UNCHANGED <<cmd, pc, status, anyFail, temps, ldargv, exe, exit, rcs, own,
                 flowed, Files>>

RefuseIr ==
  /\ pc = "input" /\ k \in Inputs /\ Kind(k) = "ir"
  /\ Settle(COMPILE)
  /\ UNCHANGED <<Files, Diagnosis>>

(* Where the product of input k lands.  In link mode a sibling of the      *)
(* output is created exclusively, and only a created name is listed for    *)
(* removal; failing to create it fails this input alone.                   *)
FirstStep == IF Kind(k) = "s" THEN "assemble" ELSE "front"

MutReserveStage ==
  /\ pc = "input" /\ k \in Inputs
  /\ ~Unused(k) /\ Kind(k) \notin {"o", "ir", "h"} /\ cmd.mode = "link"
  /\ pc' = FirstStep
  /\ obj' = [obj EXCEPT ![k] = "reserved"]
  /\ temps' = IF FirstStep = "front" THEN temps \cup {k} ELSE temps
  /\ UNCHANGED <<cmd, k, status, anyFail, slot, ldargv, exe, exit, rcs, stage,
                 Diagnosis>>

ReserveStage ==
  /\ pc = "input" /\ k \in Inputs
  /\ ~Unused(k) /\ Kind(k) \notin {"o", "ir", "h"} /\ cmd.mode = "link"
  /\ \/ /\ pc' = FirstStep
        /\ obj' = [obj EXCEPT ![k] = "reserved"]
        /\ temps' = temps \cup {k}
        /\ UNCHANGED <<cmd, k, status, anyFail, slot, ldargv, exe, exit, rcs>>
     \/ Settle(IO) /\ UNCHANGED obj
  /\ UNCHANGED <<stage, Diagnosis>>

BeginInput ==
  /\ pc = "input" /\ k \in Inputs
  /\ ~Unused(k) /\ Kind(k) \notin {"o", "ir"}
  /\ cmd.mode # "link" \/ Kind(k) = "h"
  /\ Goto(FirstStep)
  /\ UNCHANGED <<Files, Diagnosis>>

(***************************************************************************)
(* run_preprocess: one translation unit.                                   *)
(***************************************************************************)
(* Only the preprocessor runs for -E and for assembly that wants it.       *)
PpOnly == cmd.mode = "E" \/ Kind(k) = "S"

(* A header is checked and produces nothing.                               *)
WantsCode == cmd.mode \in {"S", "c", "link"} /\ Kind(k) # "h"

Unreadable ==
  /\ pc = "front"
  /\ err' = TRUE /\ own' = [own EXCEPT ![k] = TRUE]
  /\ Settle(IO)
  /\ UNCHANGED <<flowed, Files>>

(* Preprocessing, parsing and semantic analysis always run; what comes     *)
(* after looks at the shared error count.                                  *)
FrontEnd ==
  /\ pc = "front"
  /\ \E found \in BOOLEAN :
       /\ own' = [own EXCEPT ![k] = found]
       /\ err' = (err \/ found)
       /\ IF err' THEN Settle(COMPILE)
          ELSE IF PpOnly THEN Goto("write") ELSE Goto("analyse")
  /\ UNCHANGED <<flowed, Files>>

(* The flow and memory-safety analyses; a warning of theirs may be an error. *)
Analyse ==
  /\ pc = "analyse"
  /\ flowed' = [flowed EXCEPT ![k] = TRUE]
  /\ \E found \in BOOLEAN :
       /\ found => cmd.werror
       /\ own' = [own EXCEPT ![k] = found]
       /\ err' = (err \/ found)
       /\ IF found THEN Settle(COMPILE)
          ELSE IF WantsCode THEN Goto("emit") ELSE Produced
  /\ UNCHANGED Files

(* Lowering, optimization, selection and allocation.  A construct the      *)
(* target cannot express is refused on stderr alone, without a diagnostic. *)
Emit ==
  /\ pc = "emit"
  /\ \/ Goto("write") /\ UNCHANGED <<err, own>>
     \/ Settle(COMPILE) /\ err' = TRUE /\ own' = [own EXCEPT ![k] = TRUE]
     \/ Settle(COMPILE) /\ UNCHANGED <<err, own>>
     \/ Settle(IO) /\ UNCHANGED <<err, own>>
  /\ UNCHANGED <<flowed, Files>>

(* A verifier rejects generated code: cgf_ice calls exit(4) on the spot.   *)
InternalError ==
  /\ pc \in {"front", "analyse", "emit"}
  /\ Die(ICE)
  /\ UNCHANGED <<Files, Diagnosis>>

(* Write the text where the mode wants it.  fopen and mkstemp are checked, *)
(* fwrite and fclose are not.                                              *)
WriteProduct ==
  /\ pc = "write" /\ cmd.mode \in {"E", "S"}
  /\ \/ \E w \in Written : obj' = [obj EXCEPT ![k] = w] /\ Produced
     \/ cmd.mode = "S" /\ Settle(IO) /\ UNCHANGED obj
  /\ UNCHANGED <<stage, Diagnosis>>

WriteStage ==
  /\ pc = "write" /\ cmd.mode \in {"c", "link"}
  /\ \/ \E w \in Written : stage' = [stage EXCEPT ![k] = w] /\ Goto("assemble")
     \/ Settle(IO) /\ UNCHANGED stage
  /\ UNCHANGED <<obj, Diagnosis>>

(* A .S input has no output name when the mode asks for no product, and    *)
(* asm_stage_pattern compares that null name with "/dev/null".             *)
WriteStageOfNothing ==
  /\ pc = "write" /\ cmd.mode = "check"
  /\ Die(Crash)
  /\ UNCHANGED <<Files, Diagnosis>>

(***************************************************************************)
(* The external tools.                                                     *)
(***************************************************************************)
ToolResults == {"ok", "failed", "signaled", "spawn_failed"}

MutSignalIsOk(res) == CASE res \in {"ok", "signaled"} -> OK
                        [] res = "spawn_failed" -> IO
                        [] OTHER -> COMPILE

(* cgf_tool_exit_code for the assembler on the user's own text.            *)
UserAsCode(res) == CASE res = "ok" -> OK
                     [] res = "spawn_failed" -> IO
                     [] OTHER -> COMPILE

(* An assembler given a truncated file may accept what is left of it.  A   *)
(* failing one leaves the output alone or removes it.                      *)
Assembled(res) ==
  IF res = "ok" THEN {IF stage[k] = "cut" THEN "cut" ELSE "whole"}
                ELSE {obj[k], "none"}

(* Without an output name "-o" ends the argument vector, which no          *)
(* assembler accepts.                                                      *)
AssembleUser ==
  /\ pc = "assemble" /\ Kind(k) \in {"s", "S"}
  /\ \E res \in ToolResults :
       /\ cmd.mode = "check" => res # "ok"
       /\ \E o \in Assembled(res) : obj' = [obj EXCEPT ![k] = o]
       /\ stage' = [stage EXCEPT ![k] = IF res = "ok" THEN "none" ELSE @]
       /\ Settle(UserAsCode(res))
  /\ UNCHANGED Diagnosis

(* The assembler rejects generated assembly: an internal error unless the  *)
(* unit has inline assembly.  The stage is kept as the reproducer; the     *)
(* unit's own reserved object is removed before exit(4).                   *)
AssembleGenerated ==
  /\ pc = "assemble" /\ Kind(k) = "c"
  /\ \E res \in ToolResults : \E o \in Assembled(res) :
       \/ /\ res = "ok"
          /\ obj' = [obj EXCEPT ![k] = o]
          /\ stage' = [stage EXCEPT ![k] = "none"]
          /\ Produced
       \/ /\ res = "spawn_failed"
          /\ Settle(IO) /\ UNCHANGED Files
       \/ /\ res \in {"failed", "signaled"}            \* inline assembly
          /\ obj' = [obj EXCEPT ![k] = o]
          /\ Settle(COMPILE) /\ UNCHANGED stage
       \/ /\ res \in {"failed", "signaled"}
          /\ obj' = [obj EXCEPT ![k] = IF k \in temps THEN "none" ELSE o]
          /\ Die(ICE) /\ UNCHANGED stage
  /\ UNCHANGED Diagnosis

WriteDeps ==
  /\ pc = "deps"
  /\ Settle(OK) \/ Settle(IO)
  /\ UNCHANGED <<Files, Diagnosis>>

(***************************************************************************)
(* After the loop.                                                         *)
(***************************************************************************)
Slots == {i \in Inputs : HasSlot(i)}

EndOfInputs ==
  /\ pc = "input" /\ k \notin Inputs
  /\ pc' = IF cmd.mode = "link" /\ ~anyFail /\ Slots # {}
             THEN "link" ELSE "cleanup"
  /\ status' = IF cmd.mode = "link" /\ ~anyFail /\ Slots = {}
                 THEN COMPILE ELSE status
  /\ UNCHANGED <<cmd, k, anyFail, temps, slot, ldargv, exe, exit, rcs, Files,
                 Diagnosis>>

(* The link vector is the filled slots in argv order; an empty one is      *)
(* skipped without a word.                                                 *)
InArgvOrder(n, chosen) == SelectSeq([i \in 1..n |-> i], LAMBDA i : chosen[i])
LinkLine == InArgvOrder(Len(cmd.inputs), slot)

(* Planning the line may fail (a missing startup object, an unsafe input). *)
Link ==
  /\ pc = "link"
  /\ pc' = "cleanup"
  /\ \/ status' = FirstWins(LINK) /\ UNCHANGED <<ldargv, exe>>
     \/ \E res \in ToolResults :
          /\ ldargv' = LinkLine
          /\ exe' = IF res = "ok" THEN "whole" ELSE exe
          /\ status' = CASE res = "ok" -> status
                         [] res = "spawn_failed" -> FirstWins(IO)
                         [] OTHER -> FirstWins(LINK)
  /\ UNCHANGED <<cmd, k, anyFail, temps, slot, exit, rcs, Files, Diagnosis>>

Cleanup ==
  /\ pc = "cleanup"
  /\ obj' = [i \in Inputs |-> IF i \in temps THEN "none" ELSE obj[i]]
  /\ pc' = "finish"
  /\ UNCHANGED <<cmd, k, status, anyFail, temps, slot, ldargv, exe, exit, rcs,
                 stage, Diagnosis>>

(* Fix-its are written last; failing to is an error of its own.            *)
Finish ==
  /\ pc = "finish"
  /\ \/ exit' = status /\ UNCHANGED <<err, status>>
     \/ /\ cmd.fixits
        /\ err' = TRUE /\ status' = FirstWins(COMPILE) /\ exit' = status'
  /\ pc' = "done"
  /\ UNCHANGED <<cmd, k, anyFail, temps, slot, ldargv, exe, rcs, own, flowed,
                 Files>>

Next ==
  \/ Start \/ SkipInput \/ RefuseIr \/ ReserveStage \/ BeginInput
  \/ Unreadable \/ FrontEnd \/ Analyse \/ Emit \/ InternalError
  \/ WriteProduct \/ WriteStage \/ WriteStageOfNothing
  \/ AssembleUser \/ AssembleGenerated \/ WriteDeps
  \/ EndOfInputs \/ Link \/ Cleanup \/ Finish

Spec == Init /\ [][Next]_vars
-----------------------------------------------------------------------------
(* The linker's vector names every link input, in the order of the command *)
(* line, and each object on it is the complete product of its own input:   *)
(* no slot is empty, which would silently drop a unit from the program.    *)
(* And "link is skipped if any failed": once any input has failed, or any  *)
(* error has been diagnosed, no linker is started.                         *)
LinkIsComplete ==
  /\ TypeOK
  /\ ldargv # <<>> =>
       /\ ldargv = InArgvOrder(Len(cmd.inputs), [i \in Inputs |-> HasSlot(i)])
       /\ pc = "cleanup" => \A i \in Inputs : i \in temps => obj[i] = "whole"
       /\ \A i \in Inputs : rcs[i] \in {OK, NotYet}
       /\ pc # "done" => ~err

(* A driver that returns has removed every link object it reserved,        *)
(* whatever failed in between, and leaves an assembly stage only where the *)
(* assembler did not succeed on it.                                        *)
NoStageLeftBehind ==
  (exit # NotYet /\ exit \notin {ICE, Crash}) =>
    \A i \in Inputs : /\ cmd.mode = "link" => obj[i] = "none"
                      /\ stage[i] # "none" => rcs[i] \in {COMPILE, IO}

(* The status is the result of the first input that failed, in the order   *)
(* of the command line, whatever later inputs and the link return.         *)
FirstFailureIsTheStatus ==
  (exit # NotYet /\ exit \notin {ICE, Crash}) =>
    \A i \in Inputs :
      (/\ rcs[i] \notin {OK, NotYet}
       /\ \A j \in 1..(i - 1) : rcs[j] \in {OK, NotYet})
      => exit = rcs[i]

ProductOf(i) ==
  CASE cmd.mode = "E" -> Kind(i) \in {"c", "h", "S"}
    [] cmd.mode = "S" -> Kind(i) \in {"c", "S"}
    [] cmd.mode = "c" -> Kind(i) \in {"c", "s", "S"}
    [] OTHER -> FALSE

(* Exit 0 promises that everything asked for is there and complete: the    *)
(* product of every input in -E, -S and -c, the program in link mode.      *)
SuccessMeansBuilt ==
  exit = OK => /\ \A i \in Inputs : ProductOf(i) => obj[i] = "whole"
               /\ cmd.mode = "link" => exe = "whole"
=============================================================================
