------------------------------ MODULE Pipeline ------------------------------
(***************************************************************************)
(* The pass manager (src/opt/pass.c) and the pass table of each            *)
(* optimization level (src/opt/pipeline.c), as a machine that takes one    *)
(* pass per step over the module m.  A pass reports a change exactly when  *)
(* the module it leaves differs.                                           *)
(***************************************************************************)
EXTENDS Ir

CONSTANT FixpointCap            \* opt_run_pipeline passes 10

SP == INSTANCE ScalarPasses
CF == INSTANCE CfgPasses
MP == INSTANCE MemoryPasses
LP == INSTANCE LoopPasses
IL == INSTANCE Interprocedural

VARIABLES m, level, phases, i, any, stalled, smallest, ice

opt_config_init(l) ==
  [level |-> l, unroll |-> IF l = "Os" THEN 8 ELSE 32,
   inline |-> CASE l \in {"O0", "O1"} -> 0 [] l = "Os" -> 20 [] l = "O2" -> 40 [] l = "O3" -> 80]

run(pass, x, cfg) ==
  CASE pass = "prune_cfg" -> CF!opt_prune_cfg(x)
    [] pass = "mem2reg" -> SP!opt_mem2reg(x)
    [] pass = "sccp" -> SP!opt_sccp(x)
    [] pass = "simplify" -> SP!opt_simplify(x)
    [] pass = "cse" -> SP!opt_cse(x)
    [] pass = "dce" -> SP!opt_dce(x)
    [] pass = "simplify_cfg" -> CF!opt_simplify_cfg(x)
    [] pass = "gvn" -> MP!opt_gvn(x)
    [] pass = "dse" -> MP!opt_dse(x)
    [] pass = "jump_thread" -> CF!opt_jump_thread(x)
    [] pass = "ipo" -> IL!opt_ipo(x)
    [] pass = "inline" -> IL!opt_inline(x, cfg)
    [] pass = "force_inline" -> IL!opt_force_inline(x, cfg)
    [] pass = "strip_inline_only" -> IL!opt_strip_inline_only(x)
    [] pass = "fusion" -> MP!opt_fusion(x)
    [] pass = "licm" -> MP!opt_licm(x)
    [] pass = "strength" -> LP!opt_strength(x)
    [] pass = "bce" -> LP!opt_bce(x)
    [] pass = "unswitch" -> LP!opt_unswitch(x)
    [] pass = "unroll" -> LP!opt_unroll(x, cfg)

\* The table: pass, the level that introduces it, its group, whether -Os has it.
pipeline == <<
  <<"mem2reg", 1, "scalar", TRUE>>, <<"sccp", 1, "scalar", TRUE>>, <<"simplify", 1, "scalar", TRUE>>,
  <<"cse", 1, "scalar", TRUE>>, <<"dce", 1, "scalar", TRUE>>, <<"simplify_cfg", 1, "scalar", TRUE>>,
  <<"gvn", 2, "scalar", TRUE>>, <<"dse", 2, "scalar", TRUE>>, <<"jump_thread", 2, "scalar", TRUE>>,
  <<"ipo", 2, "scalar", TRUE>>, <<"inline", 2, "scalar", TRUE>>,
  <<"fusion", 3, "fusion", FALSE>>,
  <<"licm", 2, "loop", TRUE>>, <<"strength", 2, "loop", TRUE>>, <<"bce", 2, "loop", TRUE>>,
  <<"unswitch", 3, "unroll", FALSE>>, <<"unroll", 3, "unroll", TRUE>> >>

level_stage(l) == CASE l = "O1" -> 1 [] l \in {"O2", "Os"} -> 2 [] l = "O3" -> 3

Group(l, g) ==
  LET rows == SelectSeq(pipeline, LAMBDA e : e[3] = g /\ IF l = "Os" THEN e[4] ELSE e[2] <= level_stage(l))
  IN [j \in DOMAIN rows |-> rows[j][1]]

Sequence(ps) == [fix |-> FALSE, passes |-> ps, then |-> <<>>]
Fixpoint(ps) == [fix |-> TRUE, passes |-> ps, then |-> <<>>]

Mandatory == <<"force_inline", "strip_inline_only">>

\* opt_run_pipeline: what runs, in order.  A change by the unroll group runs the loop
\* group again.
opt_run_pipeline(x, l) ==
  LET loops == Fixpoint(Group(l, "loop"))
      forced == \E k \in DOMAIN x.funcs : "always_inline" \in x.funcs[k].attrs
  IN <<Sequence(<<"prune_cfg">>)>> \o
     (IF forced THEN <<Sequence(Mandatory)>> ELSE <<>>) \o
     CASE l = "O0" -> <<>>
       [] l = "O1" -> <<Sequence(Group(l, "scalar"))>>
       [] OTHER -> <<Fixpoint(Group(l, "scalar")), Fixpoint(Group(l, "fusion")), loops,
                     [Sequence(Group(l, "unroll")) EXCEPT !.then = <<loops>>]>>

module_structural_size(x) ==
  LET fsize(f) == Len(f.blocks) + Fold(LAMBDA n, b : n + Len(b.insts), 0, f.blocks)
  IN Fold(LAMBDA n, k : n + 1 + fsize(x.funcs[k]), 0, x.order)

\* A phase begins: nothing has changed, the budget is full.
StartPhase(x, ps) ==
  /\ phases' = ps
  /\ i' = 1
  /\ any' = FALSE
  /\ stalled' = 0
  /\ smallest' = module_structural_size(x)

\* run_one: the next pass of the phase.
run_one ==
  /\ ~ice /\ phases # <<>> /\ i <= Len(Head(phases).passes)
  /\ \E x \in {run(Head(phases).passes[i], m, opt_config_init(level))} : m' = x /\ any' = (any \/ x.funcs # m.funcs)
  /\ i' = i + 1
  /\ UNCHANGED <<level, phases, stalled, smallest, ice>>

\* A sequence is done after one round, a fixpoint after a round that changed nothing.
\* An error of the mandatory passes ends the pipeline.
EndPhase ==
  /\ ~ice /\ phases # <<>> /\ i > Len(Head(phases).passes)
  /\ Head(phases).fix => ~any
  /\ StartPhase(m, IF Head(phases).passes = Mandatory /\ IL!ForcedCallLeft(m) THEN <<>>
                   ELSE (IF any THEN Head(phases).then ELSE <<>>) \o Tail(phases))
  /\ UNCHANGED <<m, level, ice>>

\* Another round.  Only a new all-time minimum of the size renews the budget; without
\* one for FixpointCap rounds the compiler stops with an internal error.
EndRound ==
  /\ ~ice /\ phases # <<>> /\ i > Len(Head(phases).passes)
  /\ Head(phases).fix /\ any
  /\ LET size == module_structural_size(m)
     IN IF size < smallest THEN smallest' = size /\ stalled' = 0 /\ ice' = FALSE
        ELSE smallest' = smallest /\ stalled' = stalled + 1 /\ ice' = (stalled + 1 = FixpointCap)
  /\ i' = 1
  /\ any' = FALSE
  /\ UNCHANGED <<m, level, phases>>
=============================================================================
