------------------------------ MODULE FifoLock ------------------------------
(***************************************************************************)
(* What the registry lock of the safe-heap runtime promises its callers:   *)
(* threads enter the critical section one at a time, in the order in which *)
(* they asked.                                                             *)
(***************************************************************************)
EXTENDS Sequences

CONSTANT Threads

VARIABLES queue,    \* threads that asked and have not left, oldest first
          inside    \* threads in the critical section

fifoVars == <<queue, inside>>

FifoInit == queue = <<>> /\ inside = {}

(* A thread asks for the lock: it joins the end of the queue. *)
Ask(t) ==
    /\ \A i \in DOMAIN queue : queue[i] # t
    /\ queue' = Append(queue, t)
    /\ UNCHANGED inside

(* The oldest asker enters. *)
Enter(t) ==
    /\ queue # <<>>
    /\ t = Head(queue)
    /\ inside = {}
    /\ inside' = {t}
    /\ UNCHANGED queue

(* The thread inside leaves. *)
Leave(t) ==
    /\ inside = {t}
    /\ inside' = {}
    /\ queue' = Tail(queue)

FifoNext == \E t \in Threads : Ask(t) \/ Enter(t) \/ Leave(t)

FifoSpec == FifoInit /\ [][FifoNext]_fifoVars
=============================================================================
