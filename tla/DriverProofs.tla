---------------------------- MODULE DriverProofs ----------------------------
(***************************************************************************)
(* The promises of driver_main, for every set of command lines: however    *)
(* many inputs of whatever kinds, in whatever mode.  The inductive         *)
(* invariant says where the driver stands (Control), what the results of   *)
(* the inputs have made of the status (Results), which files exist         *)
(* (Products), which of them are complete when no write fails (Whole) and  *)
(* what the link has been given (Linking).                                 *)
(***************************************************************************)
EXTENDS Driver, TLAPS

Failed(i) == rcs[i] \notin {OK, NotYet}
FirstFailed(i) == Failed(i) /\ \A j \in 1..(i - 1) : ~Failed(j)

(* The steps of one input, and the steps of the loop.                      *)
Inner == {"front", "analyse", "emit", "write", "assemble", "deps"}
Looping == Inner \cup {"start", "input"}

(* The kind of the current input at each step, and the end of the loop.    *)
Control ==
  /\ pc \in Inner => k \in Inputs
  /\ pc = "front" => Kind(k) \in {"c", "h", "S"}
  /\ pc = "analyse" => Kind(k) \in {"c", "h"} /\ cmd.mode # "E"
  /\ pc = "emit" => Kind(k) = "c" /\ cmd.mode \in {"S", "c", "link"}
  /\ pc = "write" => Kind(k) \in {"c", "S"} \/ cmd.mode = "E"
  /\ pc = "assemble" => Kind(k) \in {"c", "s", "S"}
  /\ pc = "deps" => Kind(k) = "c"
  /\ pc \in {"link", "cleanup"} => k = Len(cmd.inputs) + 1
  /\ pc = "finish" => k = Len(cmd.inputs) + 1 \/ status = IO
  /\ pc = "link" => cmd.mode = "link" /\ ~anyFail
  /\ pc = "start" => ~anyFail
  /\ pc # "done" => exit = NotYet

(* Only finished inputs have results, only inputs nothing consumes finish  *)
(* without one, and the status is the first failure among them.            *)
Results ==
  /\ \A i \in Inputs : i >= k => rcs[i] = NotYet
  /\ \A i \in Inputs : (i < k /\ rcs[i] = NotYet) => Unused(i) \/ Kind(i) = "o"
  /\ anyFail <=> \E i \in Inputs : Failed(i)
  /\ anyFail => status # OK
  /\ pc \in Looping => (status # OK => anyFail)
  /\ \A i \in Inputs : FirstFailed(i) => status = rcs[i]
  /\ (cmd.mode = "link" /\ pc # "done") => (err => anyFail)

(* Objects exist only where they are listed for removal; a stage file is   *)
(* left only where the assembler did not succeed on it.                    *)
Products ==
  /\ \A i \in temps : cmd.mode = "link" /\ Kind(i) \in {"c", "s", "S"}
  /\ (cmd.mode = "link" /\ pc \in Inner) => Kind(k) = "h" \/ k \in temps
  /\ cmd.mode = "link" => \A i \in Inputs : obj[i] # "none" => i \in temps
  /\ (cmd.mode = "link" /\ pc = "finish") => \A i \in Inputs : obj[i] = "none"
  /\ \A i \in Inputs :
       stage[i] # "none" => \/ rcs[i] \in {COMPILE, IO}
                            \/ i = k /\ pc = "assemble"
                            \/ exit \in {ICE, Crash}

(* When no write fails, what a finished input promised is there in full.   *)
Whole ==
  ~CanFill =>
    /\ \A i \in Inputs : stage[i] # "cut"
    /\ \A i \in Inputs :
         (/\ rcs[i] = OK
          /\ ProductOf(i) \/ (i \in temps /\ pc \notin {"finish", "done"}))
         => obj[i] = "whole"
    /\ (pc = "deps" /\ (ProductOf(k) \/ k \in temps)) => obj[k] = "whole"

(* The slots filled so far are those of the inputs that did not fail.      *)
Linking ==
  /\ cmd.mode = "link" =>
       \A i \in Inputs : (i < k /\ ~Failed(i)) => slot[i] = HasSlot(i)
  /\ ldargv # <<>> =>
       /\ pc \in {"cleanup", "finish", "done"} /\ cmd.mode = "link" /\ ~anyFail
       /\ ldargv = InArgvOrder(Len(cmd.inputs), [i \in Inputs |-> HasSlot(i)])
  /\ (cmd.mode = "link" /\ pc \in {"cleanup", "finish"} /\ status = OK)
       => exe = "whole"

(* What the process has returned.                                          *)
Ended ==
  NoStageLeftBehind /\ FirstFailureIsTheStatus /\ (~CanFill => SuccessMeansBuilt)

IInv == TypeOK /\ Control /\ Results /\ Products /\ Whole /\ Linking /\ Ended
-----------------------------------------------------------------------------
(* A command line is one of CommandType, so its inputs are a sequence.     *)
LEMMA CommandShape ==
  ASSUME TypeOK
  PROVE  /\ cmd.mode \in Modes /\ cmd.inputs \in Seq(Kinds)
         /\ Len(cmd.inputs) \in Nat
         /\ Inputs = 1..Len(cmd.inputs) /\ \A i \in Inputs : Kind(i) \in Kinds
         /\ k \in Nat
BY DriverConstants DEF TypeOK, CommandType, Inputs, Kind

(* Before anything ran nothing has a result, a product or a slot.          *)
LEMMA InitHolds == Init => IInv
<1> SUFFICES ASSUME Init PROVE IInv
  OBVIOUS
<1> USE DEF Init
<1>1. TypeOK
  <2>1. cmd.inputs \in Seq(Kinds)
    BY DriverConstants DEF CommandType
  <2>2. Len(cmd.inputs) \in Nat
    BY <2>1
  <2>3. k \in 1..(Len(cmd.inputs) + 1)
    BY <2>2
  <2>4. /\ obj \in [Inputs -> Contents] /\ stage \in [Inputs -> Contents \ {"reserved"}]
        /\ slot \in [Inputs -> BOOLEAN] /\ own \in [Inputs -> BOOLEAN]
        /\ flowed \in [Inputs -> BOOLEAN] /\ temps \subseteq Inputs
        /\ rcs \in [Inputs -> {OK, COMPILE, IO, NotYet}]
    BY DEF Contents
  <2> QED BY <2>3, <2>4 DEF TypeOK
<1>2. Inputs = 1..Len(cmd.inputs) /\ Len(cmd.inputs) \in Nat
  BY <1>1, CommandShape
<1>3. Control
  BY DEF Control, Inner
<1>4. Results
  BY <1>2 DEF Results, Looping, Inner, Failed, FirstFailed, NotYet, OK
<1>5. Products
  BY DEF Products, Inner
<1>6. Whole
  BY DEF Whole, NotYet, OK
<1>7. Linking
  <2>1. \A i \in Inputs : ~(i < k)
    BY <1>2
  <2> QED BY <2>1 DEF Linking
<1>8. Ended
  BY DEF Ended, NoStageLeftBehind, FirstFailureIsTheStatus, SuccessMeansBuilt,
         NotYet, OK
<1> QED BY <1>1, <1>3, <1>4, <1>5, <1>6, <1>7, <1>8 DEF IInv

(* The end of an iteration keeps the invariant, whatever it did to the     *)
(* files of its own input: a product it reports as made must be there, a   *)
(* stage left over must go with a failure, and an error that is diagnosed  *)
(* in link mode must go with one too.                                      *)
LEMMA SettleKeeps ==
  ASSUME IInv, pc \in Inner \cup {"input"}, k \in Inputs,
         NEW rc \in {OK, COMPILE, IO}, Settle(rc),
         NEW o \in Contents, obj' = [obj EXCEPT ![k] = o],
         NEW s \in Contents \ {"reserved"}, stage' = [stage EXCEPT ![k] = s],
         err' \in BOOLEAN, own' \in [Inputs -> BOOLEAN],
         flowed' \in [Inputs -> BOOLEAN],
         (cmd.mode = "link" /\ err') => err \/ rc # OK,
         s # "none" => rc # OK,
         (cmd.mode = "link" /\ o # "none") => k \in temps,
         ~CanFill => /\ s # "cut"
                     /\ (rc = OK /\ (ProductOf(k) \/ k \in temps)) => o = "whole"
  PROVE  IInv'
<1>1. /\ Inputs = 1..Len(cmd.inputs) /\ Len(cmd.inputs) \in Nat /\ k \in Nat
      /\ \A i \in Inputs : Kind(i) \in Kinds
  BY CommandShape DEF IInv
<1>2. cmd' = cmd /\ Inputs' = Inputs
  BY DEF Settle, Inputs
<1>3. /\ TypeOK /\ Control /\ Results /\ Products /\ Whole /\ Linking
      /\ pc' = "input" /\ pc # "done" /\ exit = NotYet /\ exit' = NotYet
  BY DEF IInv, Control, Settle, Inner
<1>4. TypeOK'
  BY <1>1, <1>2, <1>3 DEF TypeOK, Settle, FirstWins, OK, COMPILE, IO, LINK, NotYet
<1>5. Control'
  BY <1>3 DEF Control, Inner, Settle
<1>6. /\ \A i \in Inputs : i # k => rcs'[i] = rcs[i]
      /\ rcs'[k] = rc /\ rcs[k] = NotYet
      /\ k' = k + 1
  BY <1>1, <1>3 DEF Settle, TypeOK, Results
<1>7. Results'
  <2>1. (\A i \in Inputs : i >= k => rcs[i] = NotYet)'
    BY <1>1, <1>2, <1>3, <1>6 DEF Results
  <2>2. (\A i \in Inputs : (i < k /\ rcs[i] = NotYet) => Unused(i) \/ Kind(i) = "o")'
    BY <1>1, <1>2, <1>3, <1>6 DEF Results, Unused, Kind, OK, COMPILE, IO, NotYet
  <2>3. anyFail' <=> anyFail \/ rc # OK
    BY DEF Settle
  <2>4. (anyFail <=> \E i \in Inputs : Failed(i))'
    BY <1>2, <1>3, <1>6, <2>3 DEF Results, Failed, OK, COMPILE, IO, NotYet
  <2>5. status # OK <=> anyFail
    BY <1>3 DEF Results, Looping, Inner
  <2>6. status' = IF status = OK THEN rc ELSE status
    BY DEF Settle, FirstWins
  <2>7. ASSUME NEW i \in Inputs, FirstFailed(i)'
        PROVE  status' = rcs'[i]
    <3>1. rcs'[i] \notin {OK, NotYet} /\ \A j \in 1..(i - 1) : rcs'[j] \in {OK, NotYet}
      BY <2>7 DEF FirstFailed, Failed, OK, NotYet
    <3>2. i <= k
      BY <1>1, <1>3, <1>6, <2>7, <3>1 DEF Results
    <3>3. CASE i = k
      <4>1. \A j \in Inputs : rcs[j] \in {OK, NotYet}
        BY <1>1, <1>3, <1>6, <3>1, <3>3 DEF Results
      <4>2. status = OK
        BY <1>3, <2>5, <4>1 DEF Results, Failed
      <4> QED BY <1>6, <2>6, <3>3, <4>2
    <3>4. CASE i < k
      <4>1. FirstFailed(i)
        <5>1. \A j \in 1..(i - 1) : j \in Inputs /\ j # k
          BY <1>1, <3>4
        <5>2. rcs[i] = rcs'[i] /\ \A j \in 1..(i - 1) : rcs[j] = rcs'[j]
          BY <1>1, <1>6, <3>4, <5>1
        <5> QED BY <3>1, <5>2 DEF FirstFailed, Failed
      <4>2. status = rcs[i] /\ status # OK
        BY <1>3, <4>1 DEF Results, FirstFailed, Failed
      <4> QED BY <1>1, <1>6, <2>6, <3>4, <4>2
    <3> QED BY <1>1, <3>2, <3>3, <3>4
  <2>8. (cmd.mode = "link" /\ pc # "done" => (err => anyFail))'
    BY <1>2, <1>3, <2>3 DEF Results
  <2> QED BY <1>2, <2>1, <2>2, <2>3, <2>4, <2>5, <2>6, <2>7, <2>8 DEF Results
<1>8. /\ \A i \in Inputs : i # k => obj'[i] = obj[i] /\ stage'[i] = stage[i]
      /\ obj'[k] = o /\ stage'[k] = s /\ temps' = temps
  BY <1>3 DEF TypeOK, Settle
<1>9. Products'
  BY <1>2, <1>3, <1>6, <1>8 DEF Products, Kind, Inner, OK, ICE, Crash, NotYet
<1>10. Whole'
  <2>1. \A i \in Inputs : ProductOf(i)' <=> ProductOf(i)
    BY <1>2 DEF ProductOf, Kind
  <2>2. pc \notin {"finish", "done"}
    BY DEF Inner
  <2> QED BY <1>2, <1>3, <1>6, <1>8, <2>1, <2>2 DEF Whole
<1>11. Linking'
  <2>1. ldargv = <<>> /\ ldargv' = <<>>
    BY <1>3 DEF Linking, Settle, Inner
  <2>2. /\ \A i \in Inputs : i # k => slot'[i] = slot[i]
        /\ slot'[k] = (rc = OK /\ cmd.mode = "link" /\ HasSlot(k))
    BY <1>3 DEF TypeOK, Settle
  <2>3. (cmd.mode = "link" =>
          \A i \in Inputs : (i < k /\ ~Failed(i)) => slot[i] = HasSlot(i))'
    <3> SUFFICES ASSUME cmd.mode = "link", NEW i \in Inputs, i < k + 1, ~Failed(i)'
                 PROVE  slot'[i] = HasSlot(i)
      BY <1>2, <1>6 DEF HasSlot, Kind
    <3>1. CASE i = k
      <4>1. rc = OK
        BY <1>6, <3>1 DEF Failed, OK, COMPILE, IO, NotYet
      <4> QED BY <2>2, <3>1, <4>1 DEF HasSlot
    <3>2. CASE i # k
      <4>1. i < k
        BY <1>1, <3>2
      <4>2. ~Failed(i)
        BY <1>6, <3>2 DEF Failed
      <4> QED BY <1>3, <2>2, <3>2, <4>1, <4>2 DEF Linking
    <3> QED BY <3>1, <3>2
  <2> QED BY <1>3, <2>1, <2>3 DEF Linking
<1>12. Ended'
  BY <1>3 DEF Ended, NoStageLeftBehind, FirstFailureIsTheStatus, SuccessMeansBuilt,
              NotYet, OK
<1> QED BY <1>4, <1>5, <1>7, <1>9, <1>10, <1>11, <1>12 DEF IInv

(* Going on to another step of the same input keeps the invariant when the *)
(* step is one the input's kind and mode allow.                            *)
LEMMA GotoKeeps ==
  ASSUME IInv, pc \in Inner \cup {"input"}, k \in Inputs,
         NEW where \in Inner, Goto(where), Control',
         NEW o \in Contents, obj' = [obj EXCEPT ![k] = o],
         NEW s \in Contents \ {"reserved"}, stage' = [stage EXCEPT ![k] = s],
         err' \in BOOLEAN, own' \in [Inputs -> BOOLEAN],
         flowed' \in [Inputs -> BOOLEAN],
         (cmd.mode = "link" /\ err') => err,
         s # "none" => where = "assemble",
         cmd.mode = "link" => Kind(k) = "h" \/ k \in temps,
         (cmd.mode = "link" /\ o # "none") => k \in temps,
         ~CanFill => /\ s # "cut"
                     /\ (where = "deps" /\ (ProductOf(k) \/ k \in temps)) => o = "whole"
  PROVE  IInv'
<1>1. Inputs = 1..Len(cmd.inputs) /\ Len(cmd.inputs) \in Nat /\ k \in Nat
  BY CommandShape DEF IInv
<1>2. cmd' = cmd /\ Inputs' = Inputs
  BY DEF Goto, Inputs
<1>3. /\ TypeOK /\ Results /\ Products /\ Whole /\ Linking
      /\ pc' = where /\ pc # "done" /\ exit = NotYet /\ exit' = NotYet
      /\ where \notin {"link", "cleanup", "finish", "done"}
  BY DEF IInv, Control, Goto, Inner
<1>4. /\ k' = k /\ status' = status /\ anyFail' = anyFail /\ temps' = temps
      /\ slot' = slot /\ ldargv' = ldargv /\ exe' = exe /\ rcs' = rcs
  BY DEF Goto
<1>5. TypeOK'
  BY <1>2, <1>3, <1>4 DEF TypeOK, Inner
<1>6. Results'
  BY <1>2, <1>3, <1>4
     DEF Results, Failed, FirstFailed, Unused, Kind, Looping, Inner
<1>7. /\ \A i \in Inputs : i # k => obj'[i] = obj[i] /\ stage'[i] = stage[i]
      /\ obj'[k] = o /\ stage'[k] = s
  BY <1>3 DEF TypeOK
<1>8. Products'
  BY <1>2, <1>3, <1>4, <1>7 DEF Products, Kind, ICE, Crash, NotYet
<1>9. Whole'
  <2>1. \A i \in Inputs : ProductOf(i)' <=> ProductOf(i)
    BY <1>2 DEF ProductOf, Kind
  <2>2. rcs[k] # OK
    BY <1>1, <1>3 DEF Results, OK, NotYet
  <2>3. pc \notin {"finish", "done"}
    BY DEF Inner
  <2> QED BY <1>2, <1>3, <1>4, <1>7, <2>1, <2>2, <2>3 DEF Whole
<1>10. Linking'
  <2>1. ldargv = <<>>
    BY <1>3 DEF Linking, Inner
  <2> QED BY <1>2, <1>3, <1>4, <2>1 DEF Linking, Failed, HasSlot, Kind
<1>11. Ended'
  BY <1>3 DEF Ended, NoStageLeftBehind, FirstFailureIsTheStatus, SuccessMeansBuilt,
              NotYet, OK
<1> QED BY <1>5, <1>6, <1>8, <1>9, <1>10, <1>11 DEF IInv

(* Dying on the spot keeps it: only the files of the input matter.         *)
LEMMA DieKeeps ==
  ASSUME IInv, pc \in Inner, NEW code \in {ICE, Crash}, Die(code),
         NEW o \in Contents, obj' = [obj EXCEPT ![k] = o], stage' = stage,
         UNCHANGED Diagnosis,
         (cmd.mode = "link" /\ o # "none") => k \in temps
  PROVE  IInv'
<1>1. /\ Inputs = 1..Len(cmd.inputs) /\ Len(cmd.inputs) \in Nat /\ k \in Nat
      /\ k \in Inputs
  BY CommandShape DEF IInv, Control
<1>2. cmd' = cmd /\ Inputs' = Inputs
  BY DEF Die, Inputs
<1>3. /\ TypeOK /\ Results /\ Products /\ Whole /\ Linking
      /\ pc' = "done" /\ exit' = code
  BY DEF IInv, Die
<1>4. /\ k' = k /\ status' = status /\ anyFail' = anyFail /\ temps' = temps
      /\ slot' = slot /\ ldargv' = ldargv /\ exe' = exe /\ rcs' = rcs
      /\ err' = err /\ own' = own /\ flowed' = flowed
  BY DEF Die, Diagnosis
<1>5. TypeOK'
  BY <1>2, <1>3, <1>4 DEF TypeOK
<1>6. Control'
  BY <1>3 DEF Control, Inner
<1>7. Results'
  BY <1>2, <1>3, <1>4 DEF Results, Failed, FirstFailed, Unused, Kind, Looping, Inner
<1>8. /\ \A i \in Inputs : i # k => obj'[i] = obj[i]
      /\ obj'[k] = o
  BY <1>1, <1>3 DEF TypeOK
<1>9. Products'
  BY <1>2, <1>3, <1>4, <1>8 DEF Products, Kind, Inner
<1>10. Whole'
  <2>1. \A i \in Inputs : ProductOf(i)' <=> ProductOf(i)
    BY <1>2 DEF ProductOf, Kind
  <2>2. rcs[k] # OK
    BY <1>1, <1>3 DEF Results, OK, NotYet
  <2> QED BY <1>2, <1>3, <1>4, <1>8, <2>1, <2>2 DEF Whole
<1>11. Linking'
  <2>1. ldargv = <<>>
    BY <1>3 DEF Linking, Inner
  <2> QED BY <1>2, <1>3, <1>4, <2>1 DEF Linking, Failed, HasSlot, Kind
<1>12. Ended'
  BY <1>3 DEF Ended, NoStageLeftBehind, FirstFailureIsTheStatus, SuccessMeansBuilt,
              NotYet, OK, ICE, Crash
<1> QED BY <1>5, <1>6, <1>7, <1>9, <1>10, <1>11, <1>12 DEF IInv

(* What the invariant says of the files of the current input.              *)
LEMMA OwnFiles ==
  ASSUME IInv, k \in Inputs
  PROVE  /\ obj[k] \in Contents /\ stage[k] \in Contents \ {"reserved"}
         /\ obj = [obj EXCEPT ![k] = obj[k]] /\ stage = [stage EXCEPT ![k] = stage[k]]
         /\ (cmd.mode = "link" /\ obj[k] # "none") => k \in temps
         /\ ~CanFill => stage[k] # "cut"
         /\ pc \notin {"assemble", "done"} => stage[k] = "none"
<1>1. TypeOK /\ Control /\ Results /\ Products /\ Whole
  BY DEF IInv
<1>2. rcs[k] = NotYet
  BY <1>1, CommandShape DEF Results
<1>3. pc # "done" => exit = NotYet
  BY <1>1 DEF Control
<1> QED BY <1>1, <1>2, <1>3 DEF TypeOK, Products, Whole, NotYet, COMPILE, IO, ICE, Crash

(* An input that fails and leaves its files as they are.                   *)
LEMMA FailKeeps ==
  ASSUME IInv, pc \in Inner \cup {"input"}, k \in Inputs,
         NEW rc \in {COMPILE, IO}, Settle(rc), UNCHANGED Files,
         err' \in BOOLEAN, own' \in [Inputs -> BOOLEAN], flowed' \in [Inputs -> BOOLEAN]
  PROVE  IInv'
<1>1. rc # OK /\ rc \in {OK, COMPILE, IO}
  BY DEF OK, COMPILE, IO
<1>2. obj' = [obj EXCEPT ![k] = obj[k]] /\ stage' = [stage EXCEPT ![k] = stage[k]]
  BY OwnFiles DEF Files
<1> QED BY <1>1, <1>2, OwnFiles, SettleKeeps

(* An input that goes on to another step and leaves its files as they are. *)
LEMMA StepKeeps ==
  ASSUME IInv, pc \in Inner \ {"assemble"}, NEW where \in Inner, Goto(where), Control',
         UNCHANGED Files,
         err' \in BOOLEAN, own' \in [Inputs -> BOOLEAN], flowed' \in [Inputs -> BOOLEAN],
         (cmd.mode = "link" /\ err') => err,
         where = "deps" => ~ProductOf(k) /\ k \notin temps
  PROVE  IInv'
<1>1. k \in Inputs /\ (cmd.mode = "link" => Kind(k) = "h" \/ k \in temps)
  BY DEF IInv, Control, Products
<1>2. obj' = [obj EXCEPT ![k] = obj[k]] /\ stage' = [stage EXCEPT ![k] = stage[k]]
  BY <1>1, OwnFiles DEF Files
<1>3. stage[k] = "none"
  BY <1>1, OwnFiles DEF Inner
<1> QED BY <1>1, <1>2, <1>3, OwnFiles, GotoKeeps

(* An input whose product is made: its dependency file comes next, or its  *)
(* end.                                                                    *)
LEMMA ProducedKeeps ==
  ASSUME IInv, pc \in {"analyse", "write", "assemble"}, Produced,
         NEW o \in Contents, obj' = [obj EXCEPT ![k] = o],
         stage' = [stage EXCEPT ![k] = "none"],
         err' \in BOOLEAN, own' \in [Inputs -> BOOLEAN], flowed' \in [Inputs -> BOOLEAN],
         (cmd.mode = "link" /\ err') => err,
         (cmd.mode = "link" /\ o # "none") => k \in temps,
         (~CanFill /\ (ProductOf(k) \/ k \in temps)) => o = "whole"
  PROVE  IInv'
<1>1. k \in Inputs /\ (cmd.mode = "link" => Kind(k) = "h" \/ k \in temps) /\ pc \in Inner
  BY DEF IInv, Control, Products, Inner
<1>2. "none" \in Contents \ {"reserved"}
  BY DEF Contents
<1>3. CASE Goto("deps") /\ Kind(k) = "c"
  <2>1. Control'
    BY <1>1, <1>3 DEF Goto, Control, IInv, Inner, Inputs, Kind
  <2>2. "deps" \in Inner
    BY DEF Inner
  <2> QED BY <1>1, <1>2, <1>3, <2>1, <2>2, GotoKeeps
<1>4. CASE Settle(OK)
  BY <1>1, <1>2, <1>4, SettleKeeps
<1> QED BY <1>3, <1>4 DEF Produced
-----------------------------------------------------------------------------
(* The steps before an input's own.                                        *)
LEMMA StartHolds == IInv /\ Start => IInv'
<1> SUFFICES ASSUME IInv, Start PROVE IInv'
  OBVIOUS
<1>1. /\ cmd' = cmd /\ k' = k /\ anyFail' = anyFail /\ temps' = temps /\ slot' = slot
      /\ ldargv' = ldargv /\ exe' = exe /\ exit' = exit /\ rcs' = rcs /\ obj' = obj
      /\ stage' = stage /\ err' = err /\ own' = own /\ flowed' = flowed
      /\ pc = "start" /\ pc' \in {"input", "finish"}
      /\ pc' = "input" => status' = status
      /\ pc' = "finish" => status' = IO /\ cmd.mode = "E"
  BY DEF Start, Goto, Files, Diagnosis
<1>2. /\ TypeOK /\ Control /\ Results /\ Products /\ Whole /\ Linking
      /\ Inputs' = Inputs /\ exit = NotYet /\ ldargv = <<>>
  BY <1>1 DEF IInv, Control, Linking, Inputs
<1>3. TypeOK'
  BY <1>1, <1>2 DEF TypeOK
<1>4. Control'
  BY <1>1, <1>2 DEF Control, Inner
<1>5. Results'
  <2>1. pc' = "input" => Results'
    BY <1>1, <1>2 DEF Results, Failed, FirstFailed, Unused, Kind, Looping, Inner
  <2>2. (pc' = "finish" /\ ~anyFail) => Results'
    BY <1>1, <1>2 DEF Results, Failed, FirstFailed, Unused, Kind, Looping, Inner, IO, OK
  <2>3. ~anyFail
    BY <1>1, <1>2 DEF Control
  <2> QED BY <1>1, <2>1, <2>2, <2>3
<1>6. Products'
  BY <1>1, <1>2 DEF Products, Kind, Inner
<1>7. Whole'
  BY <1>1, <1>2 DEF Whole, ProductOf, Kind
<1>8. Linking'
  BY <1>1, <1>2 DEF Linking, Failed, HasSlot, Kind
<1>9. Ended'
  BY <1>1, <1>2 DEF Ended, NoStageLeftBehind, FirstFailureIsTheStatus, SuccessMeansBuilt,
                    NotYet, OK
<1> QED BY <1>3, <1>4, <1>5, <1>6, <1>7, <1>8, <1>9 DEF IInv

(* An input no step consumes passes without a result.                      *)
LEMMA SkipHolds == IInv /\ SkipInput => IInv'
<1> SUFFICES ASSUME IInv, SkipInput PROVE IInv'
  OBVIOUS
<1>1. /\ cmd' = cmd /\ k' = k + 1 /\ anyFail' = anyFail /\ temps' = temps
      /\ ldargv' = ldargv /\ exe' = exe /\ exit' = exit /\ rcs' = rcs /\ obj' = obj
      /\ stage' = stage /\ own' = own /\ flowed' = flowed /\ status' = status
      /\ pc = "input" /\ pc' = pc /\ k \in Inputs /\ (Unused(k) \/ Kind(k) = "o")
      /\ err' = (err \/ (Unused(k) /\ cmd.werror))
      /\ slot' = [slot EXCEPT ![k] = Kind(k) = "o"]
  BY DEF SkipInput, Files
<1>2. /\ TypeOK /\ Control /\ Results /\ Products /\ Whole /\ Linking
      /\ Inputs' = Inputs /\ exit = NotYet /\ ldargv = <<>>
  BY <1>1 DEF IInv, Control, Linking, Inputs
<1>3. Inputs = 1..Len(cmd.inputs) /\ Len(cmd.inputs) \in Nat /\ k \in Nat
  BY <1>2, CommandShape
<1>4. err' \in BOOLEAN /\ (cmd.mode = "link" => err' = err)
  <2>1. cmd.werror \in BOOLEAN
    BY <1>2, DriverConstants DEF TypeOK, CommandType
  <2> QED BY <1>1, <1>2, <2>1 DEF Unused, TypeOK
<1>5. TypeOK'
  BY <1>1, <1>2, <1>3, <1>4 DEF TypeOK
<1>6. Control'
  BY <1>1, <1>2 DEF Control, Inner
<1>7. Results'
  <2>1. (\A i \in Inputs : i >= k => rcs[i] = NotYet)'
    <3>1. \A i \in Inputs : i >= k + 1 => i >= k BY <1>3
    <3> QED BY <1>1, <1>2, <3>1 DEF Results
  <2>2. (\A i \in Inputs : (i < k /\ rcs[i] = NotYet) => Unused(i) \/ Kind(i) = "o")'
    BY <1>1, <1>2, <1>3 DEF Results, Unused, Kind
  <2> QED BY <1>1, <1>2, <1>4, <2>1, <2>2 DEF Results, Failed, FirstFailed
<1>8. Products'
  <2>1. stage[k] = "none"
    BY <1>1, OwnFiles
  <2> QED BY <1>1, <1>2, <2>1 DEF Products, Kind, Inner
<1>9. Whole'
  BY <1>1, <1>2 DEF Whole, ProductOf, Kind
<1>10. Linking'
  <2> SUFFICES ASSUME cmd.mode = "link", NEW i \in Inputs, i < k + 1, ~Failed(i)
               PROVE  slot'[i] = HasSlot(i)
    BY <1>1, <1>2 DEF Linking, Failed, HasSlot, Kind
  <2>1. CASE i = k
    <3>1. Kind(k) = "o"
      BY <1>1 DEF Unused
    <3> QED BY <1>1, <1>2, <2>1, <3>1 DEF TypeOK, HasSlot
  <2>2. CASE i # k
    <3>1. i < k /\ slot'[i] = slot[i]
      BY <1>1, <1>2, <1>3, <2>2 DEF TypeOK
    <3> QED BY <1>2, <3>1 DEF Linking
  <2> QED BY <2>1, <2>2
<1>11. Ended'
  BY <1>1, <1>2 DEF Ended, NoStageLeftBehind, FirstFailureIsTheStatus, SuccessMeansBuilt,
                    NotYet, OK
<1> QED BY <1>5, <1>6, <1>7, <1>8, <1>9, <1>10, <1>11 DEF IInv

LEMMA RefuseHolds == IInv /\ RefuseIr => IInv'
<1> SUFFICES ASSUME IInv, RefuseIr PROVE IInv'
  OBVIOUS
<1>1. /\ pc \in Inner \cup {"input"} /\ k \in Inputs /\ Settle(COMPILE) /\ UNCHANGED Files
      /\ err' = err /\ own' = own /\ flowed' = flowed
  BY DEF RefuseIr, Diagnosis
<1>2. err' \in BOOLEAN /\ own' \in [Inputs -> BOOLEAN] /\ flowed' \in [Inputs -> BOOLEAN]
  BY <1>1 DEF IInv, TypeOK
<1> QED BY <1>1, <1>2, FailKeeps

(* A reserved name is listed for removal in the step that creates it.      *)
LEMMA ReserveHolds == IInv /\ ReserveStage => IInv'
<1> SUFFICES ASSUME IInv, ReserveStage PROVE IInv'
  OBVIOUS
<1>1. /\ pc = "input" /\ k \in Inputs /\ ~Unused(k)
      /\ Kind(k) \notin {"o", "ir", "h"} /\ cmd.mode = "link"
      /\ stage' = stage /\ err' = err /\ own' = own /\ flowed' = flowed
  BY DEF ReserveStage, Diagnosis
<1>2. /\ TypeOK /\ Control /\ Results /\ Products /\ Whole /\ Linking
      /\ exit = NotYet /\ ldargv = <<>>
  BY <1>1 DEF IInv, Control, Linking
<1>3. CASE Settle(IO) /\ UNCHANGED obj
  BY <1>1, <1>2, <1>3, FailKeeps DEF TypeOK, Files
<1>4. CASE /\ pc' = FirstStep /\ obj' = [obj EXCEPT ![k] = "reserved"]
           /\ temps' = temps \cup {k}
           /\ UNCHANGED <<cmd, k, status, anyFail, slot, ldargv, exe, exit, rcs>>
  <2>1. Inputs' = Inputs /\ Kind(k) \in {"c", "s", "S"}
    BY <1>1, <1>2, <1>4, CommandShape DEF Inputs, Kinds
  <2>2. /\ pc' \in {"front", "assemble"} /\ (pc' = "front" => Kind(k) # "s")
    BY <1>4 DEF FirstStep
  <2>3. /\ \A i \in Inputs : i # k => obj'[i] = obj[i]
        /\ obj'[k] = "reserved" /\ rcs[k] = NotYet
    BY <1>1, <1>2, <1>4, CommandShape DEF TypeOK, Results
  <2>4. TypeOK'
    BY <1>1, <1>2, <1>4, <2>1, <2>2 DEF TypeOK, Contents
  <2>5. Control'
    BY <1>1, <1>2, <1>4, <2>1, <2>2 DEF Control, Inner, Kind
  <2>6. Results'
    BY <1>1, <1>2, <1>4, <2>1, <2>2
       DEF Results, Failed, FirstFailed, Unused, Kind, Looping, Inner
  <2>7. Products'
    BY <1>1, <1>2, <1>4, <2>1, <2>2, <2>3 DEF Products, Kind, Inner
  <2>8. Whole'
    <3>1. \A i \in Inputs : ProductOf(i)' <=> ProductOf(i)
      BY <1>4 DEF ProductOf, Kind
    <3>2. rcs[k] # OK /\ pc' # "deps" /\ pc \notin {"finish", "done"}
      BY <1>1, <2>2, <2>3 DEF OK, NotYet
    <3>3. \A i \in Inputs : i # k => (i \in temps' <=> i \in temps)
      BY <1>4
    <3> QED BY <1>2, <1>4, <1>1, <2>1, <2>3, <3>1, <3>2, <3>3 DEF Whole
  <2>9. Linking'
    BY <1>1, <1>2, <1>4, <2>1, <2>2 DEF Linking, Failed, HasSlot, Kind
  <2>10. Ended'
    BY <1>2, <1>4 DEF Ended, NoStageLeftBehind, FirstFailureIsTheStatus, SuccessMeansBuilt,
                      NotYet, OK
  <2> QED BY <2>4, <2>5, <2>6, <2>7, <2>8, <2>9, <2>10 DEF IInv
<1> QED BY <1>3, <1>4 DEF ReserveStage

LEMMA BeginHolds == IInv /\ BeginInput => IInv'
<1> SUFFICES ASSUME IInv, BeginInput PROVE IInv'
  OBVIOUS
<1>1. /\ pc = "input" /\ k \in Inputs /\ Kind(k) \notin {"o", "ir"}
      /\ cmd.mode = "link" => Kind(k) = "h"
      /\ Goto(FirstStep) /\ obj' = obj /\ stage' = stage
      /\ err' = err /\ own' = own /\ flowed' = flowed
  BY DEF BeginInput, Files, Diagnosis
<1>2. TypeOK /\ Kind(k) \in {"c", "h", "s", "S"}
  BY <1>1, CommandShape DEF Kinds, IInv
<1>3. /\ FirstStep \in {"front", "assemble"} /\ FirstStep \in Inner
      /\ FirstStep = "front" <=> Kind(k) # "s"
  BY DEF FirstStep, Inner
<1>4. Control'
  BY <1>1, <1>2, <1>3 DEF Goto, Control, IInv, Inner, Inputs, Kind
<1>5. stage[k] = "none"
  BY <1>1, OwnFiles
<1>6. err' \in BOOLEAN /\ own' \in [Inputs -> BOOLEAN] /\ flowed' \in [Inputs -> BOOLEAN]
  BY <1>1, <1>2 DEF TypeOK
<1> QED BY <1>1, <1>3, <1>4, <1>5, <1>6, OwnFiles, GotoKeeps
-----------------------------------------------------------------------------
(* The steps of one translation unit.                                      *)
LEMMA UnreadableHolds == IInv /\ Unreadable => IInv'
<1> SUFFICES ASSUME IInv, Unreadable PROVE IInv'
  OBVIOUS
<1>1. pc \in Inner \cup {"input"} /\ k \in Inputs /\ TypeOK
  BY DEF Unreadable, IInv, Control, Inner
<1>2. err' \in BOOLEAN /\ own' \in [Inputs -> BOOLEAN] /\ flowed' \in [Inputs -> BOOLEAN]
  BY <1>1 DEF Unreadable, TypeOK
<1> QED BY <1>1, <1>2, FailKeeps DEF Unreadable

LEMMA FrontEndHolds == IInv /\ FrontEnd => IInv'
<1> SUFFICES ASSUME IInv, FrontEnd PROVE IInv'
  OBVIOUS
<1>1. pc = "front" /\ k \in Inputs /\ TypeOK /\ UNCHANGED Files
      /\ Kind(k) \in {"c", "h", "S"} /\ flowed' = flowed
  BY DEF FrontEnd, IInv, Control, Inner
<1>2. PICK found \in BOOLEAN :
        /\ own' = [own EXCEPT ![k] = found]
        /\ err' = (err \/ found)
        /\ IF err' THEN Settle(COMPILE)
           ELSE IF PpOnly THEN Goto("write") ELSE Goto("analyse")
  BY DEF FrontEnd
<1>3. err' \in BOOLEAN /\ own' \in [Inputs -> BOOLEAN] /\ flowed' \in [Inputs -> BOOLEAN]
  BY <1>1, <1>2 DEF TypeOK
<1>4. CASE err'
  <2>1. Settle(COMPILE)
    BY <1>2, <1>4
  <2>2. pc \in Inner \cup {"input"} /\ COMPILE \in {COMPILE, IO}
    BY <1>1 DEF Inner
  <2> QED BY <1>1, <1>3, <2>1, <2>2, FailKeeps
<1>5. CASE ~err' /\ PpOnly
  <2>1. Goto("write")
    BY <1>2, <1>5
  <2>2. Control'
    BY <1>1, <1>5, <2>1 DEF Goto, Control, IInv, Inner, Inputs, Kind, PpOnly
  <2>3. pc \in Inner \ {"assemble"} /\ "write" \in Inner
    BY <1>1 DEF Inner
  <2> QED BY <1>1, <1>3, <1>5, <2>1, <2>2, <2>3, StepKeeps
<1>6. CASE ~err' /\ ~PpOnly
  <2>1. Goto("analyse")
    BY <1>2, <1>6
  <2>2. Control'
    BY <1>1, <1>6, <2>1 DEF Goto, Control, IInv, Inner, Inputs, Kind, PpOnly
  <2>3. pc \in Inner \ {"assemble"} /\ "analyse" \in Inner
    BY <1>1 DEF Inner
  <2> QED BY <1>1, <1>3, <1>6, <2>1, <2>2, <2>3, StepKeeps
<1> QED BY <1>4, <1>5, <1>6

LEMMA AnalyseHolds == IInv /\ Analyse => IInv'
<1> SUFFICES ASSUME IInv, Analyse PROVE IInv'
  OBVIOUS
<1>1. /\ pc = "analyse" /\ k \in Inputs /\ TypeOK /\ UNCHANGED Files
      /\ Kind(k) \in {"c", "h"} /\ cmd.mode # "E"
      /\ flowed' = [flowed EXCEPT ![k] = TRUE]
  BY DEF Analyse, IInv, Control, Inner
<1>2. PICK found \in BOOLEAN :
        /\ own' = [own EXCEPT ![k] = found]
        /\ err' = (err \/ found)
        /\ IF found THEN Settle(COMPILE)
           ELSE IF WantsCode THEN Goto("emit") ELSE Produced
  BY DEF Analyse
<1>3. err' \in BOOLEAN /\ own' \in [Inputs -> BOOLEAN] /\ flowed' \in [Inputs -> BOOLEAN]
  BY <1>1, <1>2 DEF TypeOK
<1>4. CASE found
  <2>1. Settle(COMPILE)
    BY <1>2, <1>4
  <2>2. pc \in Inner \cup {"input"} /\ COMPILE \in {COMPILE, IO}
    BY <1>1 DEF Inner
  <2> QED BY <1>1, <1>3, <2>1, <2>2, FailKeeps
<1>5. ~found => err' = err
  BY <1>1, <1>2 DEF TypeOK
<1>6. CASE ~found /\ WantsCode
  <2>1. Goto("emit")
    BY <1>2, <1>6
  <2>2. Control'
    BY <1>1, <1>6, <2>1 DEF Goto, Control, IInv, Inner, Inputs, Kind, WantsCode
  <2>3. pc \in Inner \ {"assemble"} /\ "emit" \in Inner
    BY <1>1 DEF Inner
  <2> QED BY <1>1, <1>3, <1>5, <1>6, <2>1, <2>2, <2>3, StepKeeps
<1>7. CASE ~found /\ ~WantsCode
  <2>1. Produced
    BY <1>2, <1>7
  <2>2. ~ProductOf(k) /\ k \notin temps
    <3>1. cmd.mode \in Modes
      BY <1>1, CommandShape
    <3> QED BY <1>1, <1>7, <3>1 DEF ProductOf, WantsCode, IInv, Products, Modes
  <2>3. /\ obj[k] \in Contents /\ obj' = [obj EXCEPT ![k] = obj[k]]
        /\ stage' = [stage EXCEPT ![k] = "none"]
        /\ (cmd.mode = "link" /\ obj[k] # "none") => k \in temps
    BY <1>1, OwnFiles DEF Files
  <2> QED BY <1>1, <1>3, <1>5, <1>7, <2>1, <2>2, <2>3, ProducedKeeps
<1> QED BY <1>4, <1>6, <1>7

LEMMA EmitHolds == IInv /\ Emit => IInv'
<1> SUFFICES ASSUME IInv, Emit PROVE IInv'
  OBVIOUS
<1>1. /\ pc = "emit" /\ k \in Inputs /\ TypeOK /\ UNCHANGED Files
      /\ Kind(k) = "c" /\ flowed' = flowed
      /\ pc \in Inner \cup {"input"} /\ pc \in Inner \ {"assemble"} /\ "write" \in Inner
  BY DEF Emit, IInv, Control, Inner
<1>2. err' \in BOOLEAN /\ own' \in [Inputs -> BOOLEAN] /\ flowed' \in [Inputs -> BOOLEAN]
  BY <1>1 DEF TypeOK, Emit
<1>3. CASE Goto("write") /\ UNCHANGED <<err, own>>
  <2>1. Control'
    BY <1>1, <1>3 DEF Goto, Control, IInv, Inner, Inputs, Kind
  <2> QED BY <1>1, <1>2, <1>3, <2>1, StepKeeps
<1>4. CASE Settle(COMPILE)
  BY <1>1, <1>2, <1>4, FailKeeps
<1>5. CASE Settle(IO)
  BY <1>1, <1>2, <1>5, FailKeeps
<1> QED BY <1>3, <1>4, <1>5 DEF Emit

LEMMA InternalHolds == IInv /\ (InternalError \/ WriteStageOfNothing) => IInv'
<1> SUFFICES ASSUME IInv, InternalError \/ WriteStageOfNothing PROVE IInv'
  OBVIOUS
<1>1. /\ pc \in Inner /\ (Die(ICE) \/ Die(Crash)) /\ obj' = obj /\ stage' = stage
      /\ UNCHANGED Diagnosis
  BY DEF InternalError, WriteStageOfNothing, Inner, Files
<1>2. k \in Inputs
  BY <1>1 DEF IInv, Control
<1> QED BY <1>1, <1>2, OwnFiles, DieKeeps

(* The shape a step leaves the diagnostics in when it touches none.        *)
LEMMA QuietDiagnosis ==
  ASSUME TypeOK, UNCHANGED Diagnosis
  PROVE  /\ err' \in BOOLEAN /\ own' \in [Inputs -> BOOLEAN]
         /\ flowed' \in [Inputs -> BOOLEAN] /\ err' = err
BY DEF TypeOK, Diagnosis

LEMMA WriteProductHolds == IInv /\ WriteProduct => IInv'
<1> SUFFICES ASSUME IInv, WriteProduct PROVE IInv'
  OBVIOUS
<1>1. /\ pc = "write" /\ cmd.mode \in {"E", "S"} /\ k \in Inputs /\ TypeOK
      /\ stage' = stage /\ UNCHANGED Diagnosis /\ pc \in Inner \cup {"input"}
  BY DEF WriteProduct, IInv, Control, Inner
<1>2. CASE Settle(IO) /\ UNCHANGED obj
  BY <1>1, <1>2, QuietDiagnosis, FailKeeps DEF Files
<1>3. CASE \E w \in Written : obj' = [obj EXCEPT ![k] = w] /\ Produced
  <2>1. PICK w \in Written : obj' = [obj EXCEPT ![k] = w] /\ Produced
    BY <1>3
  <2>2. w \in Contents /\ (~CanFill => w = "whole")
    BY DEF Written, Contents
  <2>3. stage' = [stage EXCEPT ![k] = "none"]
    BY <1>1, OwnFiles
  <2> QED BY <1>1, <2>1, <2>2, <2>3, QuietDiagnosis, ProducedKeeps
<1> QED BY <1>2, <1>3 DEF WriteProduct

LEMMA WriteStageHolds == IInv /\ WriteStage => IInv'
<1> SUFFICES ASSUME IInv, WriteStage PROVE IInv'
  OBVIOUS
<1>1. /\ pc = "write" /\ cmd.mode \in {"c", "link"} /\ k \in Inputs /\ TypeOK
      /\ Kind(k) \in {"c", "S"} /\ (cmd.mode = "link" => k \in temps)
      /\ obj' = obj /\ UNCHANGED Diagnosis /\ pc \in Inner \cup {"input"}
  BY DEF WriteStage, IInv, Control, Products, Inner
<1>2. CASE Settle(IO) /\ UNCHANGED stage
  BY <1>1, <1>2, QuietDiagnosis, FailKeeps DEF Files
<1>3. CASE \E w \in Written : stage' = [stage EXCEPT ![k] = w] /\ Goto("assemble")
  <2>1. PICK w \in Written : stage' = [stage EXCEPT ![k] = w] /\ Goto("assemble")
    BY <1>3
  <2>2. w \in Contents \ {"reserved"} /\ (~CanFill => w # "cut")
    BY DEF Written, Contents
  <2>3. Control'
    BY <1>1, <2>1 DEF Goto, Control, IInv, Inner, Inputs, Kind
  <2>4. "assemble" \in Inner /\ "assemble" # "deps"
    BY DEF Inner
  <2>5. err' \in BOOLEAN /\ own' \in [Inputs -> BOOLEAN] /\ flowed' \in [Inputs -> BOOLEAN] /\ err' = err
    BY <1>1, QuietDiagnosis
  <2>6. /\ obj[k] \in Contents /\ obj' = [obj EXCEPT ![k] = obj[k]]
        /\ (cmd.mode = "link" /\ obj[k] # "none") => k \in temps
    BY <1>1, OwnFiles
  <2> QED BY <1>1, <2>1, <2>2, <2>3, <2>4, <2>5, <2>6, GotoKeeps
<1> QED BY <1>2, <1>3 DEF WriteStage

(* What the assembler leaves of the object of the current input.           *)
LEMMA AssembledFile ==
  ASSUME IInv, pc = "assemble", NEW res \in ToolResults, NEW o \in Assembled(res)
  PROVE  /\ o \in Contents /\ (cmd.mode = "link" => k \in temps)
         /\ (~CanFill /\ res = "ok") => o = "whole"
<1>1. k \in Inputs /\ Kind(k) \in {"c", "s", "S"} /\ (cmd.mode = "link" => k \in temps)
  BY DEF IInv, Control, Products, Inner
<1>2. obj[k] \in Contents /\ (~CanFill => stage[k] # "cut")
  BY <1>1, OwnFiles
<1> QED BY <1>1, <1>2 DEF Assembled, Contents

LEMMA AssembleUserHolds == IInv /\ AssembleUser => IInv'
<1> SUFFICES ASSUME IInv, AssembleUser PROVE IInv'
  OBVIOUS
<1>1. /\ pc = "assemble" /\ k \in Inputs /\ TypeOK /\ UNCHANGED Diagnosis
      /\ pc \in Inner \cup {"input"}
  BY DEF AssembleUser, IInv, Control, Inner
<1>2. PICK res \in ToolResults :
        /\ \E o \in Assembled(res) : obj' = [obj EXCEPT ![k] = o]
        /\ stage' = [stage EXCEPT ![k] = IF res = "ok" THEN "none" ELSE @]
        /\ Settle(UserAsCode(res))
  BY DEF AssembleUser
<1>3. PICK o \in Assembled(res) : obj' = [obj EXCEPT ![k] = o]
  BY <1>2
<1>4. /\ UserAsCode(res) \in {OK, COMPILE, IO}
      /\ UserAsCode(res) = OK <=> res = "ok"
  BY DEF UserAsCode, ToolResults, OK, COMPILE, IO
<1>5. PICK s \in Contents \ {"reserved"} :
        /\ stage' = [stage EXCEPT ![k] = s]
        /\ s = IF res = "ok" THEN "none" ELSE stage[k]
  <2>1. stage[k] \in Contents \ {"reserved"} /\ "none" \in Contents \ {"reserved"}
    BY <1>1, OwnFiles DEF Contents
  <2> QED BY <1>2, <2>1
<1>6. ~CanFill => s # "cut"
  BY <1>1, <1>5, OwnFiles
<1>7. s # "none" => UserAsCode(res) # OK
  BY <1>4, <1>5
<1>8. err' \in BOOLEAN /\ own' \in [Inputs -> BOOLEAN] /\ flowed' \in [Inputs -> BOOLEAN] /\ err' = err
  BY <1>1, QuietDiagnosis
<1>9. /\ o \in Contents /\ (cmd.mode = "link" => k \in temps)
      /\ (~CanFill /\ res = "ok") => o = "whole"
  BY <1>1, AssembledFile
<1>10. PICK rc \in {OK, COMPILE, IO} : rc = UserAsCode(res)
  BY <1>4
<1>11. /\ Settle(rc) /\ (s # "none" => rc # OK)
       /\ (~CanFill /\ rc = OK) => o = "whole"
  BY <1>2, <1>4, <1>7, <1>9, <1>10
<1> QED BY <1>1, <1>3, <1>5, <1>6, <1>8, <1>9, <1>11, SettleKeeps

LEMMA AssembleGeneratedHolds == IInv /\ AssembleGenerated => IInv'
<1> SUFFICES ASSUME IInv, AssembleGenerated PROVE IInv'
  OBVIOUS
<1>1. /\ pc = "assemble" /\ k \in Inputs /\ TypeOK /\ UNCHANGED Diagnosis
      /\ pc \in Inner /\ pc \in Inner \cup {"input"}
  BY DEF AssembleGenerated, IInv, Control, Inner
<1>2. PICK res \in ToolResults : \E o \in Assembled(res) :
       \/ /\ res = "ok"
          /\ obj' = [obj EXCEPT ![k] = o]
          /\ stage' = [stage EXCEPT ![k] = "none"]
          /\ Produced
       \/ /\ res = "spawn_failed"
          /\ Settle(IO) /\ UNCHANGED Files
       \/ /\ res \in {"failed", "signaled"}
          /\ obj' = [obj EXCEPT ![k] = o]
          /\ Settle(COMPILE) /\ UNCHANGED stage
       \/ /\ res \in {"failed", "signaled"}
          /\ obj' = [obj EXCEPT ![k] = IF k \in temps THEN "none" ELSE o]
          /\ Die(ICE) /\ UNCHANGED stage
  BY DEF AssembleGenerated
<1>3. PICK o \in Assembled(res) :
       \/ /\ res = "ok"
          /\ obj' = [obj EXCEPT ![k] = o]
          /\ stage' = [stage EXCEPT ![k] = "none"]
          /\ Produced
       \/ /\ res = "spawn_failed"
          /\ Settle(IO) /\ UNCHANGED Files
       \/ /\ res \in {"failed", "signaled"}
          /\ obj' = [obj EXCEPT ![k] = o]
          /\ Settle(COMPILE) /\ UNCHANGED stage
       \/ /\ res \in {"failed", "signaled"}
          /\ obj' = [obj EXCEPT ![k] = IF k \in temps THEN "none" ELSE o]
          /\ Die(ICE) /\ UNCHANGED stage
  BY <1>2
<1>4. CASE /\ res = "ok" /\ obj' = [obj EXCEPT ![k] = o]
           /\ stage' = [stage EXCEPT ![k] = "none"] /\ Produced
  <2>1. err' \in BOOLEAN /\ own' \in [Inputs -> BOOLEAN] /\ flowed' \in [Inputs -> BOOLEAN] /\ err' = err
    BY <1>1, QuietDiagnosis
  <2>2. o \in Contents /\ (cmd.mode = "link" => k \in temps) /\ (~CanFill => o = "whole")
    BY <1>1, <1>4, AssembledFile
  <2> QED BY <1>1, <1>4, <2>1, <2>2, ProducedKeeps
<1>5. CASE Settle(IO) /\ UNCHANGED Files
  BY <1>1, <1>5, QuietDiagnosis, FailKeeps
<1>6. CASE obj' = [obj EXCEPT ![k] = o] /\ Settle(COMPILE) /\ UNCHANGED stage
  <2>1. COMPILE \in {OK, COMPILE, IO} /\ COMPILE # OK
    BY DEF OK, COMPILE
  <2>2. stage' = [stage EXCEPT ![k] = stage[k]]
    BY <1>1, <1>6, OwnFiles
  <2> QED BY <1>1, <1>6, <2>1, <2>2, OwnFiles, AssembledFile, QuietDiagnosis, SettleKeeps
<1>7. CASE /\ obj' = [obj EXCEPT ![k] = IF k \in temps THEN "none" ELSE o]
           /\ Die(ICE) /\ UNCHANGED stage
  <2>1. PICK q \in Contents : /\ obj' = [obj EXCEPT ![k] = q]
                              /\ q = IF k \in temps THEN "none" ELSE o
    BY <1>1, <1>7, AssembledFile DEF Contents
  <2> QED BY <1>1, <1>7, <2>1, AssembledFile, DieKeeps
<1> QED BY <1>3, <1>4, <1>5, <1>6, <1>7

LEMMA WriteDepsHolds == IInv /\ WriteDeps => IInv'
<1> SUFFICES ASSUME IInv, WriteDeps PROVE IInv'
  OBVIOUS
<1>1. /\ pc = "deps" /\ k \in Inputs /\ TypeOK /\ UNCHANGED Diagnosis /\ UNCHANGED Files
      /\ pc \in Inner \cup {"input"}
      /\ (~CanFill /\ (ProductOf(k) \/ k \in temps)) => obj[k] = "whole"
  BY DEF WriteDeps, IInv, Control, Whole, Inner
<1>2. CASE Settle(IO)
  BY <1>1, <1>2, QuietDiagnosis, FailKeeps
<1>3. CASE Settle(OK)
  <2>1. /\ obj' = [obj EXCEPT ![k] = obj[k]] /\ stage' = [stage EXCEPT ![k] = stage[k]]
        /\ stage[k] = "none"
    BY <1>1, OwnFiles DEF Files
  <2>2. err' \in BOOLEAN /\ own' \in [Inputs -> BOOLEAN] /\ flowed' \in [Inputs -> BOOLEAN] /\ err' = err
    BY <1>1, QuietDiagnosis
  <2>3. /\ obj[k] \in Contents /\ ((cmd.mode = "link" /\ obj[k] # "none") => k \in temps)
        /\ stage[k] \in Contents \ {"reserved"} /\ stage[k] # "cut"
    BY <1>1, <2>1, OwnFiles
  <2> QED BY <1>1, <1>3, <2>1, <2>2, <2>3, SettleKeeps
<1> QED BY <1>2, <1>3 DEF WriteDeps
-----------------------------------------------------------------------------
(* After the loop.                                                         *)
LEMMA EndOfInputsHolds == IInv /\ EndOfInputs => IInv'
<1> SUFFICES ASSUME IInv, EndOfInputs PROVE IInv'
  OBVIOUS
<1>1. /\ cmd' = cmd /\ k' = k /\ anyFail' = anyFail /\ temps' = temps /\ slot' = slot
      /\ ldargv' = ldargv /\ exe' = exe /\ exit' = exit /\ rcs' = rcs /\ obj' = obj
      /\ stage' = stage /\ err' = err /\ own' = own /\ flowed' = flowed
      /\ pc = "input" /\ pc' \in {"link", "cleanup"} /\ k \notin Inputs
      /\ pc' = "link" => cmd.mode = "link" /\ ~anyFail
      /\ anyFail => status' = status
      /\ status' # status => status' = COMPILE
      /\ (cmd.mode = "link" /\ pc' = "cleanup" /\ ~anyFail) => status' = COMPILE
  BY DEF EndOfInputs, Files, Diagnosis
<1>2. /\ TypeOK /\ Control /\ Results /\ Products /\ Whole /\ Linking
      /\ Inputs' = Inputs /\ exit = NotYet /\ ldargv = <<>>
  BY <1>1 DEF IInv, Control, Linking, Inputs
<1>3. k = Len(cmd.inputs) + 1
  <2>1. Inputs = 1..Len(cmd.inputs) /\ Len(cmd.inputs) \in Nat
    BY <1>2, CommandShape
  <2>2. k \in 1..(Len(cmd.inputs) + 1)
    BY <1>2 DEF TypeOK
  <2> QED BY <1>1, <2>1, <2>2
<1>4. TypeOK'
  BY <1>1, <1>2 DEF TypeOK
<1>5. Control'
  BY <1>1, <1>2, <1>3 DEF Control, Inner
<1>6. Results'
  <2>1. \A i \in Inputs : FirstFailed(i) => anyFail
    BY <1>2 DEF Results, FirstFailed
  <2> QED BY <1>1, <1>2, <2>1
             DEF Results, Failed, FirstFailed, Unused, Kind, Looping, Inner
<1>7. Products'
  BY <1>1, <1>2 DEF Products, Kind, Inner
<1>8. Whole'
  BY <1>1, <1>2 DEF Whole, ProductOf, Kind
<1>9. Linking'
  <2>1. (cmd.mode = "link" /\ pc' = "cleanup") => status' # OK
    BY <1>1, <1>2 DEF Results, COMPILE, OK
  <2> QED BY <1>1, <1>2, <2>1 DEF Linking, Failed, HasSlot, Kind
<1>10. Ended'
  BY <1>1, <1>2 DEF Ended, NoStageLeftBehind, FirstFailureIsTheStatus, SuccessMeansBuilt,
                    NotYet, OK
<1> QED BY <1>4, <1>5, <1>6, <1>7, <1>8, <1>9, <1>10 DEF IInv

(* The link is reached only when no input has failed; the filled slots are *)
(* then exactly the inputs that own one.                                   *)
LEMMA LinkHolds == IInv /\ Link => IInv'
<1> SUFFICES ASSUME IInv, Link PROVE IInv'
  OBVIOUS
<1>1. /\ cmd' = cmd /\ k' = k /\ anyFail' = anyFail /\ temps' = temps /\ slot' = slot
      /\ exit' = exit /\ rcs' = rcs /\ obj' = obj /\ stage' = stage /\ err' = err
      /\ own' = own /\ flowed' = flowed /\ pc = "link" /\ pc' = "cleanup"
  BY DEF Link, Files, Diagnosis
<1>2. /\ TypeOK /\ Control /\ Results /\ Products /\ Whole /\ Linking
      /\ Inputs' = Inputs /\ exit = NotYet /\ ldargv = <<>>
      /\ k = Len(cmd.inputs) + 1 /\ cmd.mode = "link" /\ ~anyFail
  BY <1>1 DEF IInv, Control, Linking, Inputs
<1>3. Inputs = 1..Len(cmd.inputs) /\ Len(cmd.inputs) \in Nat
  BY <1>2, CommandShape
<1>4. /\ ldargv' # <<>> => ldargv' = LinkLine
      /\ exe' \in {"none", "whole"} /\ status' \in {OK, COMPILE, LINK, IO}
      /\ status' = OK => exe' = "whole"
  BY <1>2 DEF Link, FirstWins, TypeOK, OK, LINK, IO, COMPILE
<1>5. slot = [i \in Inputs |-> HasSlot(i)]
  <2>1. \A i \in Inputs : slot[i] = HasSlot(i)
    BY <1>2, <1>3 DEF Linking, Results
  <2> QED BY <1>2, <2>1 DEF TypeOK
<1>6. LinkLine = InArgvOrder(Len(cmd.inputs), [i \in Inputs |-> HasSlot(i)])
  BY <1>5 DEF LinkLine
<1>7. TypeOK'
  BY <1>1, <1>2, <1>4 DEF TypeOK
<1>8. Control'
  BY <1>1, <1>2 DEF Control, Inner
<1>9. Results'
  <2>1. \A i \in Inputs : ~FirstFailed(i)
    BY <1>2 DEF Results, FirstFailed
  <2> QED BY <1>1, <1>2, <2>1
             DEF Results, Failed, FirstFailed, Unused, Kind, Looping, Inner
<1>10. Products'
  BY <1>1, <1>2 DEF Products, Kind, Inner
<1>11. Whole'
  BY <1>1, <1>2 DEF Whole, ProductOf, Kind
<1>12. Linking'
  <2>1. (ldargv # <<>> =>
          ldargv = InArgvOrder(Len(cmd.inputs), [i \in Inputs |-> HasSlot(i)]))'
    BY <1>1, <1>2, <1>4, <1>6 DEF HasSlot, Kind
  <2> QED BY <1>1, <1>2, <1>4, <2>1 DEF Linking, Failed, HasSlot, Kind
<1>13. Ended'
  BY <1>1, <1>2 DEF Ended, NoStageLeftBehind, FirstFailureIsTheStatus, SuccessMeansBuilt,
                    NotYet, OK
<1> QED BY <1>7, <1>8, <1>9, <1>10, <1>11, <1>12, <1>13 DEF IInv

(* Everything listed for removal is removed, and nothing else.             *)
LEMMA CleanupHolds == IInv /\ Cleanup => IInv'
<1> SUFFICES ASSUME IInv, Cleanup PROVE IInv'
  OBVIOUS
<1>1. /\ cmd' = cmd /\ k' = k /\ anyFail' = anyFail /\ temps' = temps /\ slot' = slot
      /\ ldargv' = ldargv /\ exe' = exe /\ exit' = exit /\ rcs' = rcs /\ status' = status
      /\ stage' = stage /\ err' = err /\ own' = own /\ flowed' = flowed
      /\ pc = "cleanup" /\ pc' = "finish"
      /\ obj' = [i \in Inputs |-> IF i \in temps THEN "none" ELSE obj[i]]
  BY DEF Cleanup, Files, Diagnosis
<1>2. /\ TypeOK /\ Control /\ Results /\ Products /\ Whole /\ Linking
      /\ Inputs' = Inputs /\ exit = NotYet /\ k = Len(cmd.inputs) + 1
  BY <1>1 DEF IInv, Control, Inputs
<1>3. TypeOK'
  BY <1>1, <1>2 DEF TypeOK, Contents
<1>4. Control'
  BY <1>1, <1>2 DEF Control, Inner
<1>5. Results'
  BY <1>1, <1>2 DEF Results, Failed, FirstFailed, Unused, Kind, Looping, Inner
<1>6. Products'
  BY <1>1, <1>2 DEF Products, Kind, Inner
<1>7. Whole'
  <2>1. \A i \in Inputs : ProductOf(i)' <=> ProductOf(i)
    BY <1>1 DEF ProductOf, Kind
  <2>2. \A i \in temps : cmd.mode = "link"
    BY <1>2 DEF Products
  <2>3. \A i \in Inputs : ProductOf(i) => i \notin temps
    BY <2>2 DEF ProductOf
  <2> QED BY <1>1, <1>2, <2>1, <2>3 DEF Whole
<1>8. Linking'
  BY <1>1, <1>2 DEF Linking, Failed, HasSlot, Kind
<1>9. Ended'
  BY <1>1, <1>2 DEF Ended, NoStageLeftBehind, FirstFailureIsTheStatus, SuccessMeansBuilt,
                    NotYet, OK
<1> QED BY <1>3, <1>4, <1>5, <1>6, <1>7, <1>8, <1>9 DEF IInv

(* The process returns the status, and the promises are due.               *)
LEMMA FinishHolds == IInv /\ Finish => IInv'
<1> SUFFICES ASSUME IInv, Finish PROVE IInv'
  OBVIOUS
<1>1. /\ cmd' = cmd /\ k' = k /\ anyFail' = anyFail /\ temps' = temps /\ slot' = slot
      /\ ldargv' = ldargv /\ exe' = exe /\ rcs' = rcs /\ obj' = obj /\ stage' = stage
      /\ own' = own /\ flowed' = flowed /\ pc = "finish" /\ pc' = "done"
      /\ exit' = status'
      /\ (status' = status \/ (status = OK /\ status' = COMPILE))
      /\ (err' = err \/ err' = TRUE)
  BY DEF Finish, FirstWins, Files
<1>2. /\ TypeOK /\ Control /\ Results /\ Products /\ Whole /\ Linking
      /\ Inputs' = Inputs /\ exit = NotYet
      /\ (k = Len(cmd.inputs) + 1 \/ status = IO)
  BY <1>1 DEF IInv, Control, Inputs
<1>3. Inputs = 1..Len(cmd.inputs) /\ Len(cmd.inputs) \in Nat /\ k \in Nat
  BY <1>2, CommandShape
<1>4. TypeOK'
  BY <1>1, <1>2 DEF TypeOK, OK, COMPILE, IO, LINK
<1>5. Control'
  BY <1>1, <1>2 DEF Control, Inner
<1>6. /\ \A i \in Inputs : FirstFailed(i) => status' = rcs[i]
      /\ anyFail => status' # OK
  BY <1>1, <1>2 DEF Results, FirstFailed, Failed
<1>7. Results'
  <2>1. /\ \A i \in Inputs : Failed(i)' <=> Failed(i)
        /\ \A i \in Inputs : FirstFailed(i)' <=> FirstFailed(i)
        /\ \A i \in Inputs : (Unused(i) \/ Kind(i) = "o")' <=> Unused(i) \/ Kind(i) = "o"
    BY <1>1 DEF Failed, FirstFailed, Unused, Kind
  <2>2. pc' \notin Looping /\ pc' = "done"
    BY <1>1 DEF Looping, Inner
  <2> QED BY SMTT(60), <1>1, <1>2, <1>6, <2>1, <2>2 DEF Results
<1>8. Products'
  BY <1>1, <1>2 DEF Products, Kind, Inner, ICE, Crash, NotYet
<1>9. Whole'
  BY <1>1, <1>2 DEF Whole, ProductOf, Kind
<1>10. Linking'
  BY <1>1, <1>2 DEF Linking, Failed, HasSlot, Kind
<1>11. NoStageLeftBehind'
  BY <1>1, <1>2 DEF NoStageLeftBehind, Products, ICE, Crash, NotYet
<1>12. FirstFailureIsTheStatus'
  BY <1>1, <1>2, <1>6 DEF FirstFailureIsTheStatus, FirstFailed, Failed
<1>13. ~CanFill => SuccessMeansBuilt'
  <2> SUFFICES ASSUME ~CanFill, exit' = OK
               PROVE  /\ \A i \in Inputs : ProductOf(i) => obj[i] = "whole"
                      /\ cmd.mode = "link" => exe = "whole"
    BY <1>1, <1>2 DEF SuccessMeansBuilt, ProductOf, Kind
  <2>1. status = OK /\ k = Len(cmd.inputs) + 1 /\ ~anyFail
    BY <1>1, <1>2, <1>6 DEF OK, COMPILE, IO
  <2>2. ASSUME NEW i \in Inputs, ProductOf(i) PROVE obj[i] = "whole"
    <3>1. i < k /\ rcs[i] \in {OK, NotYet}
      BY <1>2, <1>3, <2>1, <2>2 DEF Results, Failed
    <3>2. ~Unused(i) /\ Kind(i) # "o"
      BY <2>2 DEF ProductOf, Unused
    <3>3. rcs[i] = OK
      BY <1>2, <2>2, <3>1, <3>2 DEF Results
    <3> QED BY <1>2, <2>2, <3>3 DEF Whole
  <2>3. cmd.mode = "link" => exe = "whole"
    BY <1>1, <1>2, <2>1 DEF Linking
  <2> QED BY <2>2, <2>3
<1> QED BY <1>4, <1>5, <1>7, <1>8, <1>9, <1>10, <1>11, <1>12, <1>13 DEF IInv, Ended

(* Every step of the driver preserves the invariant.                       *)
LEMMA NextHolds == IInv /\ [Next]_vars => IInv'
<1> SUFFICES ASSUME IInv, [Next]_vars PROVE IInv'
  OBVIOUS
<1>1. CASE UNCHANGED vars
  <2> USE DEF IInv
  <2>0. /\ cmd' = cmd /\ pc' = pc /\ k' = k /\ err' = err /\ status' = status /\ anyFail' = anyFail
        /\ obj' = obj /\ stage' = stage /\ temps' = temps /\ slot' = slot /\ ldargv' = ldargv
        /\ exe' = exe /\ exit' = exit /\ rcs' = rcs /\ own' = own /\ flowed' = flowed
    BY <1>1 DEF vars
  <2>1. TypeOK'
    BY <2>0 DEF TypeOK, Inputs
  <2>6. Control'
    BY <2>0 DEF Control, Inputs, Kind
  <2>2. Results' <=> Results
    BY <1>1 DEF vars, Results, Inputs, Kind, Failed, FirstFailed, Unused
  <2>3. (Products /\ Whole)' <=> Products /\ Whole
    BY <1>1 DEF vars, Products, Whole, Inputs, Kind, ProductOf
  <2>4. Linking' <=> Linking
    BY <1>1 DEF vars, Linking, Inputs, Kind, Failed, HasSlot
  <2>5. Ended' <=> Ended
    BY <1>1 DEF vars, Ended, Inputs, Kind, HasSlot, ProductOf, NoStageLeftBehind,
                FirstFailureIsTheStatus, SuccessMeansBuilt
  <2> QED BY <2>1, <2>2, <2>3, <2>4, <2>5, <2>6
<1>2. CASE Next
  BY <1>2, StartHolds, SkipHolds, RefuseHolds, ReserveHolds, BeginHolds, UnreadableHolds,
     FrontEndHolds, AnalyseHolds, EmitHolds, InternalHolds, WriteProductHolds,
     WriteStageHolds, AssembleUserHolds, AssembleGeneratedHolds, WriteDepsHolds,
     EndOfInputsHolds, LinkHolds, CleanupHolds, FinishHolds DEF Next
<1> QED BY <1>1, <1>2

LEMMA Always == Spec => []IInv
BY InitHolds, NextHolds, PTL DEF Spec
-----------------------------------------------------------------------------
(* driver_main removes every link object it reserved before it returns,    *)
(* whatever failed, and leaves an assembly stage only beside a failure:    *)
(* for every command line, and with writes that fail or do not.            *)
THEOREM DriverCleansUp == Spec => []NoStageLeftBehind
<1>1. IInv => NoStageLeftBehind
  BY DEF IInv, Ended
<1> QED BY <1>1, Always, PTL

(* The exit status of driver_main is the result of the first input of the  *)
(* command line that failed, whatever later inputs, the link and the       *)
(* fix-its return: for every command line, writes failing or not.          *)
THEOREM StatusIsTheFirstFailure == Spec => []FirstFailureIsTheStatus
<1>1. IInv => FirstFailureIsTheStatus
  BY DEF IInv, Ended
<1> QED BY <1>1, Always, PTL

(* When writes to an open output do not fail, driver_main starts the       *)
(* linker only after every input succeeded, and on the complete products   *)
(* of all of them in the order of the command line.                        *)
THEOREM LinksAreComplete ==
  ASSUME ~CanFill
  PROVE  Spec => []LinkIsComplete
<1>1. IInv => LinkIsComplete
  <2> SUFFICES ASSUME IInv PROVE LinkIsComplete
    OBVIOUS
  <2> SUFFICES ASSUME ldargv # <<>>
               PROVE  /\ pc = "cleanup" => \A i \in Inputs : i \in temps => obj[i] = "whole"
                      /\ \A i \in Inputs : rcs[i] \in {OK, NotYet}
                      /\ pc # "done" => ~err
    BY DEF LinkIsComplete, IInv, Linking
  <2>1. cmd.mode = "link" /\ ~anyFail
    BY DEF IInv, Linking
  <2>2. \A i \in Inputs : rcs[i] \in {OK, NotYet}
    BY <2>1 DEF IInv, Results, Failed
  <2>3. pc # "done" => ~err
    BY <2>1 DEF IInv, Results
  <2>4. ASSUME pc = "cleanup", NEW i \in Inputs, i \in temps
        PROVE  obj[i] = "whole"
    <3>1. Kind(i) \in {"c", "s", "S"} /\ i < k
      BY <2>4, CommandShape DEF IInv, Products, Control
    <3>2. rcs[i] = OK
      BY <2>1, <2>2, <2>4, <3>1 DEF IInv, Results, Unused
    <3> QED BY <2>4, <3>2 DEF IInv, Whole
  <2> QED BY <2>2, <2>3, <2>4
<1> QED BY <1>1, Always, PTL

(* When writes to an open output do not fail, a driver that returns 0 has  *)
(* built everything the command line asked for, completely.                *)
THEOREM SuccessIsABuild ==
  ASSUME ~CanFill
  PROVE  Spec => []SuccessMeansBuilt
<1>1. IInv => SuccessMeansBuilt
  BY DEF IInv, Ended
<1> QED BY <1>1, Always, PTL
=============================================================================
