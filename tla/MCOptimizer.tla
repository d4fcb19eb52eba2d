----------------------------- MODULE MCOptimizer ----------------------------
(***************************************************************************)
(* The middle end on small C programs: a program is analysed and lowered,  *)
(* then the passes of its level run, one per step, and after each the      *)
(* module is compared with the one lowering produced.                      *)
(***************************************************************************)
EXTENDS Pipeline, Programs

CONSTANTS MaxEvents, MaxJumps, Levels, ArithOps, ArithConstants,
          Parts,         \* of {"programs", "walks"}
          FullCountdown  \* whether a walk may count a whole 64-bit range down to zero
L == INSTANCE Lower
IS == INSTANCE IrSem

VARIABLES unit,      \* the program, then its typed tree; or a counting loop
          base       \* input word -> behaviours of the lowered module
mcVars == <<m, level, phases, i, any, stalled, smallest, ice, unit, base>>

NoModule == [funcs |-> <<>>, order |-> <<>>, growth |-> <<>>, globals |-> <<>>]
Meanings(x) == [w \in IS!Words("i32") |-> IS!Behaviours(x, <<w>>)]

\* A loop that counts from start by step while x pred end, as loop_trip_analyze hands it
\* to opt_unroll_trip_count; a walk that is not modular has the no-signed-wrap licence.
SignedPreds == {"slt", "sle", "sgt", "sge"}
AllPreds == {"eq", "ne", "ult", "ule", "ugt", "uge"} \cup SignedPreds
Ends(t) == IF t = "i64" THEN {0, 1, 7, 8, 15} ELSE IS!Words(t)
LoopsOver(t) ==
  {[stage |-> "walk", t |-> t, pred |-> p, start |-> s, step |-> d, end |-> e, modular |-> w, x |-> s, n |-> 0]
     : p \in AllPreds, s \in Ends(t), d \in IS!Words(t), e \in Ends(t), w \in BOOLEAN}
IsFullCountdown(w) == w.t = "i64" /\ w.pred = "uge" /\ w.start = 15 /\ w.end = 0
Walks == {w \in UNION {LoopsOver(t) : t \in IntTypes} :
            (w.modular \/ w.pred \in SignedPreds) /\ (IsFullCountdown(w) => FullCountdown)}

Init ==
  /\ \/ /\ "walks" \in Parts
        /\ unit \in Walks
        /\ level = "O1"
     \/ /\ "programs" \in Parts
        /\ unit \in [stage : {"parsed"}, p : Straight \cup Branches \cup Loops \cup LoopPairs \cup Modules]
        /\ level \in Levels
     \/ /\ "programs" \in Parts
        /\ unit \in [stage : {"parsed"}, p : Arith(ArithOps, ArithConstants)]
        /\ level = "O1"
  /\ m = NoModule /\ base = <<>>
  /\ phases = <<>> /\ i = 0 /\ any = FALSE /\ stalled = 0 /\ smallest = 0 /\ ice = FALSE

Analyse ==
  /\ unit.stage = "parsed"
  /\ unit' = [stage |-> "typed", p |-> L!sema_program(unit.p)]
  /\ UNCHANGED <<m, level, phases, i, any, stalled, smallest, ice, base>>

Translate ==
  /\ unit.stage = "typed"
  /\ unit' = [stage |-> "lowering", tu |-> L!lower_translation_unit(unit.p)]
  /\ UNCHANGED <<m, level, phases, i, any, stalled, smallest, ice, base>>

TranslateNext ==
  /\ unit.stage = "lowering"
  /\ \E tu \in {L!UnitStep(unit.tu)} :
       IF L!Lowered(tu)
       THEN /\ m' = tu.m
            /\ base' = Meanings(tu.m)
            /\ StartPhase(tu.m, opt_run_pipeline(tu.m, level))
            /\ unit' = [stage |-> "lowered"]
       ELSE /\ unit' = [unit EXCEPT !.tu = tu]
            /\ UNCHANGED <<m, base, phases, i, any, stalled, smallest>>
  /\ UNCHANGED <<level, ice>>

Optimize ==
  /\ unit.stage = "lowered"
  /\ run_one \/ EndPhase \/ EndRound
  /\ UNCHANGED <<unit, base>>

\* One iteration of the loop, unless its step overflows what may not overflow.
Iterate ==
  /\ unit.stage = "walk"
  /\ IS!IcmpHolds(unit.pred, unit.x, unit.end, unit.t) /\ unit.n <= IntMask(unit.t)
  /\ \E y \in IS!BinResults("iadd", unit.x, unit.step, unit.t, {}) :
       /\ unit.modular \/ IS!BinResults("iadd", unit.x, unit.step, unit.t, {"nsw"}) = {y}
       /\ unit' = [unit EXCEPT !.x = y, !.n = @ + 1]
  /\ UNCHANGED <<m, level, phases, i, any, stalled, smallest, ice, base>>

Next == Analyse \/ Translate \/ TranslateNext \/ Optimize \/ Iterate
Spec == Init /\ [][Next]_mcVars

-----------------------------------------------------------------------------
\* No pass adds a behaviour the program did not have: whatever events, volatile accesses
\* and result the module shows after a pass, on any argument, the lowered one can show.
PassesRefine ==
  [][m' # m /\ unit'.stage = "lowered" =>
       \A w \in DOMAIN base' : IS!Implements(IS!Behaviours(m', <<w>>), base'[w])]_mcVars

\* The pipeline never ends in an internal error: no group of passes undoes its own work
\* round after round until opt_run_fixpoint gives up, and the module every pass leaves is
\* one the verifier run_one calls accepts (each use dominated by its definition, each edge
\* passing what its target declares, types and flags agreeing).
PipelineSettles == ~ice /\ (unit.stage = "lowered" => IS!ir_verify(m))

\* A trip count opt_unroll_trip_count reports is the number of times the body runs: full
\* unrolling makes exactly that many copies and drops the test.
TripCountExact ==
  unit.stage = "walk" =>
    LET n == LP!opt_unroll_trip_count(unit.t, unit.pred, unit.start, unit.step, unit.end, unit.modular)
    IN n # LP!NoTrip =>
         IF IS!IcmpHolds(unit.pred, unit.x, unit.end, unit.t) THEN unit.n < n ELSE unit.n = n
=============================================================================
