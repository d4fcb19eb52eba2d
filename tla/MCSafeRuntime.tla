--------------------------- MODULE MCSafeRuntime ---------------------------
(* The two leaves of the safe-mode runtime, one of them in each behaviour: *)
(* the registry lock under three threads with counters that wrap at four,  *)
(* and the arithmetic of blocks and checks in a four-bit address space.    *)
EXTENDS TicketLock

VARIABLES part, block

Checks == INSTANCE SafeChecks WITH
  Width <- 4, Prefix <- 2, Header <- 2, Canary <- 1, MaxAlign <- 1

MCInit == part \in {"lock", "checks"} /\ Init /\ Checks!Init
LockStep == part = "lock" /\ Next /\ UNCHANGED <<part, block>>
CheckStep == part = "checks" /\ Checks!Next /\ UNCHANGED <<part, vars>>
MCNext == LockStep \/ CheckStep
MCSpec == MCInit /\ [][MCNext]_<<vars, part, block>> /\ Fairness
-----------------------------------------------------------------------------
(* SafeChecks: safe_allocate fits prefix, header, bytes and canary into the *)
(* block it obtained, __wrap_calloc allocates an array whole or not at all, *)
(* and cgf_safe_check, cgf_safe_check_derive, cgf_safe_check_round_trip and *)
(* cgf_safe_check_index pass exactly what stays in the object, also where   *)
(* addresses, products and negations wrap.                                  *)
ChecksExact ==
  /\ Checks!TypeOK
  /\ Checks!LayoutFits /\ Checks!ArrayIsWhole
  /\ Checks!AccessExact /\ Checks!DeriveExact
  /\ Checks!RoundTripExact /\ Checks!IndexExact
=============================================================================
