----------------------------- MODULE TicketLock -----------------------------
(***************************************************************************)
(* The ticket lock that guards the safe-heap registry                      *)
(* (src/rt/cgf_safe_alloc.c, lock_registry and unlock_registry).           *)
(*                                                                         *)
(* Both counters are C unsigned integers, so they wrap: TicketMod stands   *)
(* for 2^32.  Every access to them is an atomic load or an atomic          *)
(* read-modify-write, hence one step of the model.                         *)
(***************************************************************************)
EXTENDS Integers, FiniteSets

CONSTANTS Threads,    \* the threads of the process
          TicketMod   \* the counters are taken modulo TicketMod

ASSUME ThreadsFinite == IsFiniteSet(Threads)
ASSUME TicketModFits == TicketMod \in Nat /\ TicketMod >= Cardinality(Threads)
                        /\ TicketMod > 0

VARIABLES next,      \* cgf_safe_lock_next
          serving,   \* cgf_safe_lock_serving
          ticket,    \* the local "ticket" of each thread
          pc         \* where each thread is in lock/unlock

vars == <<next, serving, ticket, pc>>

Tickets == 0 .. (TicketMod - 1)

Init ==
    /\ next = 0
    /\ serving = 0
    /\ ticket = [t \in Threads |-> 0]
    /\ pc = [t \in Threads |-> "outside"]

(* Mutant: the increment is lost, as with a plain load and store. *)
MutTakeTicketLost(t) ==
    /\ pc[t] = "outside"
    /\ ticket' = [ticket EXCEPT ![t] = next]
    /\ next' \in {next, (next + 1) % TicketMod}
    /\ pc' = [pc EXCEPT ![t] = "waiting"]
    /\ UNCHANGED serving

(* unsigned ticket = cgf_safe_lock_next++; *)
TakeTicket(t) ==
    /\ pc[t] = "outside"
    /\ ticket' = [ticket EXCEPT ![t] = next]
    /\ next' = (next + 1) % TicketMod
    /\ pc' = [pc EXCEPT ![t] = "waiting"]
    /\ UNCHANGED serving

(* Mutant: a test-and-set lock, which any waiter may win. *)
MutAcquireBarging(t) ==
    /\ pc[t] = "waiting"
    /\ \A u \in Threads : pc[u] # "inside"
    /\ pc' = [pc EXCEPT ![t] = "inside"]
    /\ UNCHANGED <<next, serving, ticket>>

(* while (cgf_safe_lock_serving != ticket) ;   -- the load that ends it *)
Acquire(t) ==
    /\ pc[t] = "waiting"
    /\ serving = ticket[t]
    /\ pc' = [pc EXCEPT ![t] = "inside"]
    /\ UNCHANGED <<next, serving, ticket>>

(* Mutant: the unlock does not pass the turn on. *)
MutUnlockNoServe(t) ==
    /\ pc[t] = "inside"
    /\ pc' = [pc EXCEPT ![t] = "outside"]
    /\ UNCHANGED <<next, serving, ticket>>

(* cgf_safe_lock_serving++; *)
Unlock(t) ==
    /\ pc[t] = "inside"
    /\ serving' = (serving + 1) % TicketMod
    /\ pc' = [pc EXCEPT ![t] = "outside"]
    /\ UNCHANGED <<next, ticket>>

Next == \E t \in Threads : TakeTicket(t) \/ Acquire(t) \/ Unlock(t)

(* Every thread that waits keeps loading "serving", and every critical     *)
(* section of the runtime is finite; nothing obliges a thread to ask.      *)
Fairness == \A t \in Threads : WF_vars(Acquire(t)) /\ WF_vars(Unlock(t))

Spec == Init /\ [][Next]_vars

FairSpec == Spec /\ Fairness
-----------------------------------------------------------------------------
TypeOK ==
    /\ next \in Tickets
    /\ serving \in Tickets
    /\ ticket \in [Threads -> Tickets]
    /\ pc \in [Threads -> {"outside", "waiting", "inside"}]

(* The lock is exclusive across counter wrap-around: no two threads are    *)
(* ever between lock_registry() and unlock_registry().                     *)
MutualExclusion ==
    \A t, u \in Threads : pc[t] = "inside" /\ pc[u] = "inside" => t = u

(* How many unlocks still precede the turn of thread t. *)
Distance(t) == (ticket[t] - serving) % TicketMod

Asked == {t \in Threads : pc[t] # "outside"}

(* The waiting line the two counters encode. *)
Line == [i \in 1 .. Cardinality(Asked) |->
            CHOOSE t \in Asked : Distance(t) = i - 1]

Fifo == INSTANCE FifoLock
            WITH queue <- Line, inside <- {t \in Threads : pc[t] = "inside"}

(* The ticket lock implements a first-come-first-served mutex. *)
ImplementsFifoLock == Fifo!FifoSpec

(* "A ticket lock ... is starvation-free": a thread that took a ticket     *)
(* gets the registry.                                                      *)
StarvationFree == \A t \in Threads : pc[t] = "waiting" ~> pc[t] = "inside"
=============================================================================
