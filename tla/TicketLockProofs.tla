-------------------------- MODULE TicketLockProofs --------------------------
(***************************************************************************)
(* Mutual exclusion of the registry's ticket lock, for any number of       *)
(* threads and any counter width that has a ticket for each of them.       *)
(*                                                                         *)
(* The counters wrap, so "my ticket is being served" identifies a thread   *)
(* only because the tickets in use span fewer than TicketMod values.  The  *)
(* inductive invariant therefore counts the threads that have asked: each  *)
(* of them is closer to "serving" than that count, no two at the same      *)
(* distance, and "next" lies exactly that count ahead.                     *)
(***************************************************************************)
EXTENDS TicketLock, Sequences, TLAPS, FiniteSetTheorems

(* Distance with the reduction modulo TicketMod written out. *)
Ahead(t) == IF ticket[t] >= serving THEN ticket[t] - serving
                                    ELSE ticket[t] - serving + TicketMod

(* The counter value n steps after x, for n at most TicketMod. *)
Advance(x, n) == IF x + n < TicketMod THEN x + n ELSE x + n - TicketMod

LineInv ==
    /\ next = Advance(serving, Cardinality(Asked))
    /\ \A t \in Asked : Ahead(t) < Cardinality(Asked)
    /\ \A t, u \in Asked : ticket[t] = ticket[u] => t = u
    /\ \A t \in Threads : pc[t] = "inside" => ticket[t] = serving

IInv == TypeOK /\ LineInv

(* Adding one to a counter wraps at TicketMod and nowhere else. *)
LEMMA SuccessorWraps ==
    ASSUME NEW x \in Tickets
    PROVE  (x + 1) % TicketMod = IF x + 1 = TicketMod THEN 0 ELSE x + 1
  BY TicketModFits DEF Tickets

(* The threads that asked are finitely many, at most all of them. *)
LEMMA AskedCount ==
    /\ IsFiniteSet(Asked)
    /\ Cardinality(Asked) \in Nat
    /\ Cardinality(Asked) <= Cardinality(Threads)
    /\ Cardinality(Threads) \in Nat
  BY ThreadsFinite, FS_Subset, FS_CardinalityType DEF Asked

LEMMA InitIInv == Init => IInv
  <1> SUFFICES ASSUME Init PROVE IInv
    OBVIOUS
  <1>1. Asked = {}
    BY DEF Init, Asked
  <1>2. Cardinality(Asked) = 0
    BY <1>1, FS_EmptySet
  <1> QED
    BY <1>1, <1>2, TicketModFits DEF Init, IInv, TypeOK, LineInv, Tickets, Advance, Ahead

(* Taking a ticket: the new ticket is one past every ticket in use, and    *)
(* there is room for it because the taker had none.                        *)
LEMMA TakeTicketIInv ==
    ASSUME IInv, NEW t \in Threads, TakeTicket(t)
    PROVE  IInv'
  <1> USE DEF IInv, TypeOK, TakeTicket
  <1>1. /\ t \notin Asked
        /\ Asked' = Asked \cup {t}
    BY DEF Asked
  <1>2. Cardinality(Asked') = Cardinality(Asked) + 1
    BY <1>1, AskedCount, FS_AddElement
  <1>3. Cardinality(Asked') <= Cardinality(Threads)
    <2>1. Asked' \subseteq Threads
      BY DEF Asked
    <2> QED
      BY <2>1, ThreadsFinite, FS_Subset
  <1>4. Cardinality(Asked) < TicketMod
    BY <1>2, <1>3, AskedCount, TicketModFits
  <1>5. next' = IF next + 1 = TicketMod THEN 0 ELSE next + 1
    BY SuccessorWraps
  <1>6. TypeOK'
    BY <1>5, TicketModFits DEF Tickets
  <1>7. next' = Advance(serving', Cardinality(Asked'))
    BY <1>2, <1>4, <1>5, AskedCount, TicketModFits DEF LineInv, Advance, Tickets
  <1>8. \A u \in Asked' : Ahead(u)' < Cardinality(Asked')
    <2> SUFFICES ASSUME NEW u \in Asked' PROVE Ahead(u)' < Cardinality(Asked')
      OBVIOUS
    <2>1. CASE u = t
      BY <2>1, <1>2, <1>4, AskedCount, TicketModFits DEF LineInv, Ahead, Advance, Tickets
    <2>2. CASE u \in Asked
      <3>1. Ahead(u) < Cardinality(Asked) /\ Ahead(u)' = Ahead(u)
        BY <2>2, <1>1 DEF LineInv, Ahead, Asked
      <3> QED
        BY <3>1, <1>2, <2>2, AskedCount, TicketModFits DEF Ahead, Tickets, Asked
    <2> QED
      BY <1>1, <2>1, <2>2
  <1>9. \A u, v \in Asked' : ticket'[u] = ticket'[v] => u = v
    <2>1. \A u \in Asked : ticket[u] # next
      BY <1>4, AskedCount, TicketModFits DEF LineInv, Ahead, Advance, Tickets, Asked
    <2> QED
      BY <2>1, <1>1 DEF LineInv, Asked
  <1>10. \A u \in Threads : pc'[u] = "inside" => ticket'[u] = serving'
    BY DEF LineInv
  <1> QED
    BY <1>6, <1>7, <1>8, <1>9, <1>10 DEF LineInv

LEMMA AcquireIInv ==
    ASSUME IInv, NEW t \in Threads, Acquire(t)
    PROVE  IInv'
  <1> USE DEF IInv, TypeOK, Acquire
  <1>1. Asked' = Asked
    BY DEF Asked
  <1>2. \A u \in Threads : Ahead(u)' = Ahead(u)
    BY DEF Ahead
  <1>3. Asked \subseteq Threads
    BY DEF Asked
  <1> QED
    BY <1>1, <1>2, <1>3 DEF LineInv, Advance

(* Unlocking: the leaver's ticket was the one served, so everyone else is  *)
(* at least one ahead and moves one closer.                                *)
LEMMA UnlockIInv ==
    ASSUME IInv, NEW t \in Threads, Unlock(t)
    PROVE  IInv'
  <1> USE DEF IInv, TypeOK, Unlock
  <1>1. /\ t \in Asked
        /\ Asked' = Asked \ {t}
        /\ ticket[t] = serving
    BY DEF Asked, LineInv
  <1>2. /\ Cardinality(Asked') = Cardinality(Asked) - 1
        /\ Cardinality(Asked) >= 1
    <2>1. Cardinality(Asked) # 0
      BY <1>1, AskedCount, FS_EmptySet
    <2> QED
      BY Z3T(60), <2>1, <1>1, AskedCount, FS_RemoveElement
  <1>3. Cardinality(Asked) <= TicketMod
    BY AskedCount, TicketModFits
  <1>4. serving' = IF serving + 1 = TicketMod THEN 0 ELSE serving + 1
    BY SuccessorWraps
  <1>5. TypeOK'
    BY <1>4, TicketModFits DEF Tickets
  <1>6. next' = Advance(serving', Cardinality(Asked'))
    BY <1>2, <1>3, <1>4, AskedCount, TicketModFits DEF LineInv, Advance, Tickets
  <1>7. \A u \in Asked' : Ahead(u)' < Cardinality(Asked')
    <2> SUFFICES ASSUME NEW u \in Asked' PROVE Ahead(u)' < Cardinality(Asked')
      OBVIOUS
    <2>1. u \in Asked /\ u # t /\ u \in Threads
      BY <1>1 DEF Asked
    <2>2. ticket[u] # serving /\ Ahead(u) < Cardinality(Asked)
      BY <2>1, <1>1 DEF LineInv
    <2> QED
      BY <2>1, <2>2, <1>2, <1>4, AskedCount, TicketModFits DEF Ahead, Tickets
  <1>8. \A u, v \in Asked' : ticket'[u] = ticket'[v] => u = v
    BY <1>1 DEF LineInv
  <1>9. \A u \in Threads : pc'[u] = "inside" => ticket'[u] = serving'
    <2> SUFFICES ASSUME NEW u \in Threads, pc'[u] = "inside" PROVE FALSE
      OBVIOUS
    <2>1. u # t /\ u \in Asked /\ ticket[u] = serving
      BY DEF Asked, LineInv
    <2> QED
      BY <2>1, <1>1 DEF LineInv
  <1> QED
    BY <1>5, <1>6, <1>7, <1>8, <1>9 DEF LineInv

LEMMA IInvInductive == IInv /\ [Next]_vars => IInv'
  <1> SUFFICES ASSUME IInv, [Next]_vars PROVE IInv'
    OBVIOUS
  <1>1. CASE Next
    BY <1>1, TakeTicketIInv, AcquireIInv, UnlockIInv DEF Next
  <1>2. CASE UNCHANGED vars
    BY <1>2 DEF vars, IInv, TypeOK, LineInv, Ahead, Advance, Asked
  <1> QED
    BY <1>1, <1>2

(* lock_registry() admits one thread at a time, whatever the number of     *)
(* threads, as long as 2^32 tickets are enough to give each its own.       *)
THEOREM LockIsExclusive == Spec => []MutualExclusion
  <1>1. IInv => MutualExclusion
    BY DEF IInv, TypeOK, LineInv, MutualExclusion, Asked
  <1> QED
    BY <1>1, InitIInv, IInvInductive, PTL DEF Spec

(* The counters stay in range and every thread is in one of three places.  *)
THEOREM LockTypeCorrect == Spec => []TypeOK
  <1>1. IInv => TypeOK
    BY DEF IInv
  <1> QED
    BY <1>1, InitIInv, IInvInductive, PTL DEF Spec
-----------------------------------------------------------------------------
(* The waiting line.  The distances of the threads that asked are not only *)
(* distinct and below their number but take every value below it, so the   *)
(* CHOOSE of Line is determined at every position.                         *)
NoGap == \A i \in 0 .. (Cardinality(Asked) - 1) : \E t \in Asked : Ahead(t) = i

LineOK ==
    LET n == Cardinality(Asked) IN
      /\ Line \in [1 .. n -> Asked]
      /\ \A i \in 1 .. n : Ahead(Line[i]) = i - 1
      /\ \A t \in Asked : Ahead(t) \in 0 .. (n - 1) /\ Line[Ahead(t) + 1] = t

(* Distance is what Ahead computes. *)
LEMMA DistanceIsAhead ==
    ASSUME NEW x \in Tickets, NEW y \in Tickets
    PROVE  (x - y) % TicketMod = IF x >= y THEN x - y ELSE x - y + TicketMod
  BY TicketModFits DEF Tickets

LEMMA SameDistance ==
    ASSUME IInv, NEW t \in Asked, NEW u \in Asked, Ahead(t) = Ahead(u)
    PROVE  t = u
  <1>1. t \in Threads /\ u \in Threads
    BY DEF Asked
  <1>2. ticket[t] = ticket[u]
    BY <1>1, TicketModFits DEF IInv, TypeOK, Ahead, Tickets
  <1> QED
    BY <1>2 DEF IInv, LineInv

LEMMA IInvLine == IInv /\ NoGap => LineOK
  <1> SUFFICES ASSUME IInv, NoGap PROVE LineOK
    OBVIOUS
  <1> DEFINE n == Cardinality(Asked)
  <1>0. n \in Nat
    BY AskedCount
  <1>1. ASSUME NEW t \in Asked
        PROVE  Distance(t) = Ahead(t) /\ Ahead(t) \in 0 .. (n - 1)
    <2>1. ticket[t] \in Tickets /\ serving \in Tickets
      BY DEF IInv, TypeOK, Asked
    <2>2. Distance(t) = Ahead(t)
      BY <2>1, DistanceIsAhead DEF Distance, Ahead
    <2>3. Ahead(t) \in Nat /\ Ahead(t) < n
      BY <2>1, TicketModFits DEF IInv, LineInv, Ahead, Tickets
    <2> QED
      BY <1>0, <2>2, <2>3
  <1>2. ASSUME NEW i \in 1 .. n
        PROVE  Line[i] \in Asked /\ Ahead(Line[i]) = i - 1
    <2>1. i - 1 \in 0 .. (n - 1)
      BY <1>0
    <2>2. \E t \in Asked : Distance(t) = i - 1
      BY <1>1, <2>1 DEF NoGap
    <2>3. Line[i] = CHOOSE t \in Asked : Distance(t) = i - 1
      BY DEF Line
    <2>4. Line[i] \in Asked /\ Distance(Line[i]) = i - 1
      BY <2>2, <2>3
    <2> QED
      BY <1>1, <2>4
  <1>3. Line \in [1 .. n -> Asked]
    BY <1>2 DEF Line
  <1>4. ASSUME NEW t \in Asked
        PROVE  Line[Ahead(t) + 1] = t
    <2>1. Ahead(t) + 1 \in 1 .. n /\ (Ahead(t) + 1) - 1 = Ahead(t)
      BY <1>0, <1>1
    <2>2. Line[Ahead(t) + 1] \in Asked /\ Ahead(Line[Ahead(t) + 1]) = Ahead(t)
      BY <1>2, <2>1
    <2> QED
      BY <2>2, SameDistance
  <1> QED
    BY <1>1, <1>2, <1>3, <1>4 DEF LineOK

(* How a step moves the distances. *)
LEMMA TakeTicketMoves ==
    ASSUME IInv, IInv', NEW t \in Threads, TakeTicket(t)
    PROVE  /\ t \notin Asked /\ Asked' = Asked \cup {t}
           /\ Cardinality(Asked') = Cardinality(Asked) + 1
           /\ Ahead(t)' = Cardinality(Asked)
           /\ \A u \in Asked : Ahead(u)' = Ahead(u)
  <1> USE DEF IInv, TypeOK, TakeTicket
  <1>1. t \notin Asked /\ Asked' = Asked \cup {t}
    BY DEF Asked
  <1>2. Cardinality(Asked') = Cardinality(Asked) + 1
    BY <1>1, AskedCount, FS_AddElement
  <1>3. Cardinality(Asked) \in Nat /\ Cardinality(Asked) < TicketMod
    <2>1. Asked' \subseteq Threads
      BY DEF Asked
    <2>2. Cardinality(Asked') <= Cardinality(Threads)
      BY <2>1, ThreadsFinite, FS_Subset
    <2> QED
      BY <1>2, <2>2, AskedCount, TicketModFits
  <1>4. Ahead(t)' = Cardinality(Asked)
    BY <1>3, TicketModFits DEF LineInv, Ahead, Advance, Tickets
  <1>5. \A u \in Asked : Ahead(u)' = Ahead(u)
    BY <1>1 DEF Ahead, Asked
  <1> QED
    BY <1>1, <1>2, <1>4, <1>5

LEMMA UnlockMoves ==
    ASSUME IInv, IInv', NEW t \in Threads, Unlock(t)
    PROVE  /\ t \in Asked /\ Asked' = Asked \ {t} /\ Ahead(t) = 0
           /\ Cardinality(Asked') = Cardinality(Asked) - 1
           /\ \A u \in Asked' : Ahead(u) > 0 /\ Ahead(u)' = Ahead(u) - 1
  <1> USE DEF IInv, TypeOK, Unlock
  <1>1. t \in Asked /\ Asked' = Asked \ {t} /\ ticket[t] = serving
    BY DEF Asked, LineInv
  <1>2. Ahead(t) = 0
    BY <1>1 DEF Ahead, Tickets
  <1>3. Cardinality(Asked') = Cardinality(Asked) - 1
    <2>1. Cardinality(Asked \ {t}) = Cardinality(Asked) - 1
      BY Zenon, <1>1, AskedCount, FS_RemoveElement
    <2> QED
      BY Zenon, <1>1, <2>1
  <1>4. serving' = IF serving + 1 = TicketMod THEN 0 ELSE serving + 1
    BY SuccessorWraps
  <1>5. ASSUME NEW u \in Asked'
        PROVE  Ahead(u) > 0 /\ Ahead(u)' = Ahead(u) - 1
    <2>1. u \in Asked /\ u # t /\ u \in Threads
      BY <1>1 DEF Asked
    <2>2. ticket[u] # serving
      BY <2>1, <1>1 DEF LineInv
    <2> QED
      BY <2>1, <2>2, <1>4, TicketModFits DEF Ahead, Tickets
  <1> QED
    BY <1>1, <1>2, <1>3, <1>5

LEMMA AcquireMoves ==
    ASSUME IInv, NEW t \in Threads, Acquire(t)
    PROVE  /\ t \in Asked /\ Asked' = Asked /\ Ahead(t) = 0
           /\ \A u \in Asked : Ahead(u)' = Ahead(u)
  BY DEF IInv, TypeOK, Acquire, Asked, Ahead, Tickets

LEMMA NextNoGap == IInv /\ IInv' /\ NoGap /\ [Next]_vars => NoGap'
  <1> SUFFICES ASSUME IInv, IInv', NoGap, [Next]_vars PROVE NoGap'
    OBVIOUS
  <1>0. Cardinality(Asked) \in Nat
    BY AskedCount
  <1>1. ASSUME NEW t \in Threads, TakeTicket(t) PROVE NoGap'
    <2> SUFFICES ASSUME NEW i \in 0 .. (Cardinality(Asked') - 1)
                 PROVE  \E u \in Asked' : Ahead(u)' = i
      BY DEF NoGap
    <2>1. i \in 0 .. (Cardinality(Asked) - 1) \/ i = Cardinality(Asked)
      BY <1>0, <1>1, TakeTicketMoves
    <2> QED
      BY <1>1, <2>1, TakeTicketMoves DEF NoGap
  <1>2. ASSUME NEW t \in Threads, Unlock(t) PROVE NoGap'
    <2> SUFFICES ASSUME NEW i \in 0 .. (Cardinality(Asked') - 1)
                 PROVE  \E u \in Asked' : Ahead(u)' = i
      BY DEF NoGap
    <2>1. i + 1 \in 0 .. (Cardinality(Asked) - 1) /\ i + 1 # 0
      BY <1>0, <1>2, UnlockMoves
    <2>2. PICK u \in Asked : Ahead(u) = i + 1
      BY <2>1 DEF NoGap
    <2>3. u \in Asked'
      BY <1>2, <2>1, <2>2, UnlockMoves
    <2>4. Ahead(u)' = i
      BY <1>2, <2>2, <2>3, UnlockMoves
    <2> QED
      BY <2>3, <2>4
  <1>3. ASSUME NEW t \in Threads, Acquire(t) PROVE NoGap'
    BY <1>3, AcquireMoves DEF NoGap
  <1>4. CASE UNCHANGED vars
    BY <1>4 DEF NoGap, vars, Asked, Ahead
  <1> QED
    BY <1>1, <1>2, <1>3, <1>4 DEF Next

(* A step of the two counters is a step of the line: a thread joins its    *)
(* end, its head enters, or the thread inside leaves it.                   *)
LEMMA StepIsFifoStep ==
    ASSUME IInv, IInv', LineOK, LineOK', [Next]_vars
    PROVE  [Fifo!FifoNext]_(Fifo!fifoVars)
  <1> DEFINE n == Cardinality(Asked)
             in == {u \in Threads : pc[u] = "inside"}
  <1>0. /\ n \in Nat /\ Line \in [1 .. n -> Asked] /\ Asked \subseteq Threads
        /\ Line \in Seq(Threads) /\ Len(Line) = n
    <2>1. n \in Nat /\ Line \in [1 .. n -> Asked] /\ Asked \subseteq Threads
      BY AskedCount DEF LineOK, Asked
    <2> QED
      BY <2>1
  <1>1. ASSUME NEW t \in Threads, TakeTicket(t) PROVE Fifo!Ask(t)
    <2>1. /\ t \notin Asked /\ Asked' = Asked \cup {t} /\ Cardinality(Asked') = n + 1
          /\ Ahead(t)' = n /\ \A u \in Asked : Ahead(u)' = Ahead(u)
      BY <1>1, TakeTicketMoves
    <2>2. Line' \in [1 .. n + 1 -> Threads]
      BY <1>0, <2>1 DEF LineOK
    <2>3. Line'[n + 1] = t
      BY <2>1 DEF LineOK
    <2>4. ASSUME NEW i \in 1 .. n PROVE Line'[i] = Line[i]
      <3>1. PICK u \in Asked : u = Line[i] /\ Ahead(u) = i - 1
        BY DEF LineOK
      <3>2. u \in Asked' /\ Ahead(u)' + 1 = i
        BY <1>0, <2>1, <3>1
      <3> QED
        BY <3>1, <3>2 DEF LineOK
    <2>5. Line' = Append(Line, t)
      BY <1>0, <2>2, <2>3, <2>4
    <2>6. in' = in
      BY <1>1 DEF TakeTicket, IInv, TypeOK
    <2>7. \A i \in DOMAIN Line : Line[i] # t
      BY <1>0, <2>1
    <2> QED
      BY <2>5, <2>6, <2>7 DEF Fifo!Ask
  <1>2. ASSUME NEW t \in Threads, Acquire(t) PROVE Fifo!Enter(t)
    <2>1. /\ t \in Asked /\ Asked' = Asked /\ Ahead(t) = 0
          /\ \A u \in Asked : Ahead(u)' = Ahead(u)
      BY <1>2, AcquireMoves
    <2>2. Line' \in [1 .. n -> Asked]
      BY <2>1 DEF LineOK
    <2>3. ASSUME NEW i \in 1 .. n PROVE Line'[i] = Line[i]
      <3>1. PICK u \in Asked : u = Line[i] /\ Ahead(u) = i - 1
        BY DEF LineOK
      <3>2. u \in Asked' /\ Ahead(u)' + 1 = i
        BY <1>0, <2>1, <3>1
      <3> QED
        BY <3>1, <3>2 DEF LineOK
    <2>4. Line' = Line
      BY <1>0, <2>2, <2>3
    <2>5. Line[1] = t /\ n > 0
      BY <1>0, <2>1 DEF LineOK
    <2>6. in = {}
      <3> SUFFICES ASSUME NEW u \in Threads, pc[u] = "inside" PROVE FALSE
        OBVIOUS
      <3>1. u \in Asked /\ ticket[u] = ticket[t] /\ pc[t] = "waiting"
        BY <1>2 DEF Acquire, Asked, IInv, LineInv
      <3> QED
        BY <2>1, <3>1 DEF IInv, LineInv
    <2>7. in' = {t}
      BY <1>2, <2>6 DEF Acquire, IInv, TypeOK
    <2>8. Line # <<>> /\ t = Head(Line)
      BY <1>0, <2>5
    <2> QED
      BY <2>4, <2>6, <2>7, <2>8 DEF Fifo!Enter
  <1>3. ASSUME NEW t \in Threads, Unlock(t) PROVE Fifo!Leave(t)
    <2>1. /\ t \in Asked /\ Asked' = Asked \ {t} /\ Ahead(t) = 0
          /\ Cardinality(Asked') = n - 1
          /\ \A u \in Asked' : Ahead(u) > 0 /\ Ahead(u)' = Ahead(u) - 1
      BY <1>3, UnlockMoves
    <2>2. Line' \in [1 .. n - 1 -> Threads] /\ n > 0
      <3>1. n > 0
        BY <1>0, <2>1 DEF LineOK
      <3>2. Line' \in [1 .. n - 1 -> Asked'] /\ Asked' \subseteq Threads
        BY <1>0, <2>1 DEF LineOK
      <3> HIDE DEF n
      <3> QED
        BY <3>1, <3>2
    <2>3. ASSUME NEW i \in 1 .. n - 1 PROVE Line'[i] = Line[i + 1]
      <3>1. i + 1 \in 1 .. n /\ (i + 1) - 1 = i /\ i # 0
        BY <1>0
      <3>2. PICK u \in Asked : u = Line[i + 1] /\ Ahead(u) = i
        BY <3>1 DEF LineOK
      <3>3. u \in Asked'
        BY <2>1, <3>1, <3>2
      <3>4. Ahead(u)' + 1 = i
        BY <1>0, <2>1, <3>2, <3>3
      <3> QED
        BY <3>2, <3>3, <3>4 DEF LineOK
    <2>4. Line' = Tail(Line)
      BY <1>0, <2>2, <2>3
    <2>5. in = {t} /\ in' = {}
      <3>1. \A u \in Threads : pc[u] = "inside" => u = t
        BY <1>3, <2>1 DEF Unlock, Asked, IInv, LineInv
      <3> QED
        BY <1>3, <3>1 DEF Unlock, IInv, TypeOK
    <2> QED
      BY <2>4, <2>5 DEF Fifo!Leave
  <1>4. CASE UNCHANGED vars
    <2>1. Line' = Line
      BY <1>4 DEF vars, Line, Asked, Distance
    <2>2. in' = in
      BY <1>4 DEF vars
    <2> QED
      BY <2>1, <2>2 DEF Fifo!fifoVars
  <1> QED
    BY <1>1, <1>2, <1>3, <1>4 DEF Next, Fifo!FifoNext

(* lock_registry() and unlock_registry() implement a first-come-           *)
(* first-served mutex: the two wrapping counters encode the line of the    *)
(* threads that asked, in the order in which they asked.                   *)
THEOREM LockIsFifo == Spec => ImplementsFifoLock
  <1>1. Init => Fifo!FifoInit
    <2> SUFFICES ASSUME Init PROVE Fifo!FifoInit
      OBVIOUS
    <2>1. Asked = {} /\ Cardinality(Asked) = 0
      BY FS_EmptySet DEF Init, Asked
    <2>2. Line = <<>>
      BY <2>1 DEF Line
    <2>3. {t \in Threads : pc[t] = "inside"} = {}
      BY DEF Init
    <2> QED
      BY <2>2, <2>3 DEF Fifo!FifoInit
  <1>2. Init => NoGap
    BY FS_EmptySet DEF Init, Asked, NoGap
  <1>3. Spec => [](IInv /\ NoGap)
    BY <1>2, InitIInv, IInvInductive, NextNoGap, PTL DEF Spec
  <1>4. IInv /\ IInv' /\ LineOK /\ LineOK' /\ [Next]_vars => [Fifo!FifoNext]_(Fifo!fifoVars)
    BY StepIsFifoStep
  <1> QED
    BY <1>1, <1>3, <1>4, IInvLine, PTL DEF Spec, ImplementsFifoLock, Fifo!FifoSpec
=============================================================================
