----------------------------- MODULE MCLowering -----------------------------
(***************************************************************************)
(* The front end on small C programs: typing, then lowering, compared with *)
(* what the program means in C.                                            *)
(***************************************************************************)
EXTENDS Lower, Programs

CONSTANTS MaxEvents, MaxJumps, Types, Operators,
          Reversed       \* whether the programs are the reversed case ranges
IS == INSTANCE IrSem
CS == INSTANCE CSem

VARIABLES unit, m, meaning
mcVars == <<unit, m, meaning>>
NoModule == [funcs |-> <<>>, order |-> <<>>]

\* lower_incdec computes ++ and -- in the operand's own type: a bool is not brought
\* back to 0 or 1, and a char gets the no-signed-wrap flag that belongs to int.  The
\* types whose steps mean what C says:
SteppedTypes == Types \ {"bool", "char"}
Ranges == {r \in (0..3) \X (0..3) : Reversed <=> r[1] > r[2]}
Init ==
  /\ unit \in [stage : {"parsed"},
               p : {RangeSwitch(r[1], r[2]) : r \in Ranges} \cup
                   IF Reversed THEN {}
                   ELSE Straight \cup Branches \cup Loops \cup Jumps \cup Mixed(Operators, Types)
                        \cup Updates(Operators \ {"==", "<"}, Types \ {"bool"}) \cup Steps(SteppedTypes)]
  /\ m = NoModule /\ meaning = <<>>

Interpret ==
  /\ unit.stage = "parsed"
  /\ meaning' = [w \in IS!Words("i32") |-> CS!Meaning(unit.p, <<w>>)]
  /\ unit' = [unit EXCEPT !.stage = "understood"]
  /\ UNCHANGED m

Analyse ==
  /\ unit.stage = "understood"
  /\ unit' = [stage |-> "typed", p |-> sema_program(unit.p)]
  /\ UNCHANGED <<m, meaning>>

Translate ==
  /\ unit.stage = "typed"
  /\ unit' = [stage |-> "lowering", tu |-> lower_translation_unit(unit.p)]
  /\ UNCHANGED <<m, meaning>>

\* One statement, or the end of a function.
TranslateNext ==
  /\ unit.stage = "lowering"
  /\ \E tu \in {UnitStep(unit.tu)} :
       IF Lowered(tu) THEN unit' = [stage |-> "lowered"] /\ m' = tu.m
       ELSE unit' = [unit EXCEPT !.tu = tu] /\ UNCHANGED m
  /\ UNCHANGED meaning

Next == Interpret \/ Analyse \/ Translate \/ TranslateNext
Spec == Init /\ [][Next]_mcVars

-----------------------------------------------------------------------------
\* Lowering keeps the meaning: the module it builds passes the verifier whatever scopes,
\* cleanups, labels and switch cases the jumps cross, and on every argument each of its
\* behaviours (its calls, its volatile accesses, what it returns) is one C allows the
\* program, through promotions, conversions, short circuits, bit-fields and case ranges.
LoweringRefines ==
  unit.stage = "lowered" =>
    /\ IS!ir_verify(m)
    /\ \A w \in DOMAIN meaning : IS!Implements(IS!Behaviours(m, <<w>>), meaning[w])

\* "A reversed range matches nothing": the program returns 0 whatever its argument.
ReversedRangeMatchesNothing ==
  Reversed /\ unit.stage = "lowered" =>
    \A w \in DOMAIN meaning :
      IS!Implements(IS!Behaviours(m, <<w>>), CS!Meaning(Prog(<<Return(<<Lit(0)>>)>>), <<w>>))
=============================================================================
