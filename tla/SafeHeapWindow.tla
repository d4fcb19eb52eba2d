--------------------------- MODULE SafeHeapWindow ---------------------------
(***************************************************************************)
(* The quarantine of cgf_safe_alloc.c is the longest run of most recent    *)
(* frees that fits its limits, whatever the limits, the block sizes and    *)
(* the interleaving.  The invariant follows the queue through its locked   *)
(* section, where it is one block too long or over its bytes.              *)
(***************************************************************************)
EXTENDS SafeHeapProofs

LogType == [slot : Slots, since : Nat]
Skipped == Len(freeLog) - Len(quarantine)

(* The bytes of the log from entry i on. *)
Since(i) == IF i > Len(freeLog) THEN 0 ELSE freeLog[i].since

Queue ==
    /\ freeLog \in Seq(LogType)
    /\ Len(freeLog) <= QBlocks + 1
    /\ Skipped >= 0
    /\ qBytes = Since(Skipped + 1)
    /\ \A i \in 1..Len(quarantine) :
         /\ quarantine[i] = freeLog[Skipped + i].slot
         /\ hdr[quarantine[i]].size = Since(Skipped + i) - Since(Skipped + i + 1)
    /\ Skipped > 0 => Len(quarantine) >= QBlocks \/ Since(Skipped) > QBytes
    /\ LockFree => ~OverLimit

(* The types that IInv does not need. *)
RestOfTypes ==
    /\ aborted \in Reasons
    /\ owner \in [Slots -> Threads \cup {NoThread}]
    /\ known \in SUBSET Slots

-----------------------------------------------------------------------------
(* What logging a free does to the log: every entry is one block older,    *)
(* and the oldest is forgotten when the log is full.                       *)
LEMMA LogEffect ==
    ASSUME NEW s \in Slots, hdr[s].size \in Nat, freeLog \in Seq(LogType),
           Len(freeLog) <= QBlocks + 1, Log(s)
    PROVE  \E cut \in {0, 1} :
             /\ cut = 1 <=> Len(freeLog) = QBlocks + 1
             /\ freeLog' \in Seq(LogType)
             /\ Len(freeLog') = Len(freeLog) + 1 - cut
             /\ \A i \in 1..(Len(freeLog) - cut) :
                  /\ freeLog'[i].slot = freeLog[i + cut].slot
                  /\ freeLog'[i].since = freeLog[i + cut].since + hdr[s].size
             /\ freeLog'[Len(freeLog')] = [slot |-> s, since |-> hdr[s].size]
<1> DEFINE L == Len(freeLog)
           n == hdr[s].size
           older == [i \in DOMAIN freeLog |-> [freeLog[i] EXCEPT !.since = @ + n]]
           last == [slot |-> s, since |-> n]
           log == Append(older, last)
<1>1. L \in Nat /\ QBlocks \in Nat /\ DOMAIN freeLog = 1..L BY SafeHeapConstants
<1>2. \A i \in 1..L : /\ freeLog[i] \in LogType
                      /\ [freeLog[i] EXCEPT !.since = @ + n] \in LogType
                      /\ [freeLog[i] EXCEPT !.since = @ + n].slot = freeLog[i].slot
                      /\ [freeLog[i] EXCEPT !.since = @ + n].since = freeLog[i].since + n
  <2> SUFFICES ASSUME NEW i \in 1..L
               PROVE  /\ freeLog[i] \in LogType
                      /\ [freeLog[i] EXCEPT !.since = @ + n] \in LogType
                      /\ [freeLog[i] EXCEPT !.since = @ + n].slot = freeLog[i].slot
                      /\ [freeLog[i] EXCEPT !.since = @ + n].since = freeLog[i].since + n
    OBVIOUS
  <2>1. freeLog[i] \in LogType BY <1>1
  <2> QED BY <2>1 DEF LogType
<1>3. /\ older \in [1..L -> LogType] /\ older \in Seq(LogType) /\ Len(older) = L
      /\ \A i \in 1..L : older[i].slot = freeLog[i].slot /\ older[i].since = freeLog[i].since + n
  <2>1. /\ older \in [1..L -> LogType]
        /\ \A i \in 1..L : older[i] = [freeLog[i] EXCEPT !.since = @ + n]
    BY <1>1, <1>2
  <2>2. older \in Seq(LogType) /\ Len(older) = L
    <3> HIDE DEF older
    <3> QED BY <1>1, <2>1
  <2> HIDE DEF older
  <2> QED BY <1>2, <2>1, <2>2
<1>4. last \in LogType BY DEF LogType
<1> HIDE DEF older, last
<1>5. /\ log \in Seq(LogType) /\ Len(log) = L + 1
      /\ \A i \in 1..L : log[i] = older[i]
      /\ log[L + 1] = last
  BY <1>1, <1>3, <1>4
<1>6. freeLog' = IF Len(log) > QBlocks + 1 THEN Tail(log) ELSE log BY DEF Log, older, last
<1> HIDE DEF log
<1>7. CASE L = QBlocks + 1
  <2>1. freeLog' = Tail(log) BY <1>1, <1>5, <1>6, <1>7
  <2>2. /\ Tail(log) \in Seq(LogType) /\ Len(Tail(log)) = L
        /\ \A i \in 1..L : Tail(log)[i] = log[i + 1]
    BY <1>1, <1>5
  <2>3. \A i \in 1..(L - 1) : freeLog'[i] = older[i + 1]
    BY <1>1, <1>5, <2>1, <2>2
  <2>4. freeLog'[L] = last BY <1>1, <1>5, <1>7, <2>1, <2>2
  <2>5. 1 \in {0, 1} OBVIOUS
  <2> WITNESS 1 \in {0, 1}
  <2> QED BY <1>1, <1>3, <1>7, <2>1, <2>2, <2>3, <2>4 DEF last
<1>8. CASE L # QBlocks + 1
  <2>0. L <= QBlocks + 1 OBVIOUS
  <2>1. freeLog' = log
    <3>1. ~(L + 1 > QBlocks + 1)
      <4> HIDE DEF L
      <4> QED BY <1>1, <1>8, <2>0
    <3>2. ~(Len(log) > QBlocks + 1) BY Zenon, <1>5, <3>1
    <3> QED BY Zenon, <1>6, <3>2
  <2>2. 0 # 1 /\ L + 1 - 0 = L + 1 /\ L - 0 = L /\ \A i \in 1..L : i + 0 = i BY <1>1
  <2>3. \A i \in 1..L : freeLog'[i].slot = freeLog[i].slot /\ freeLog'[i].since = freeLog[i].since + n
    BY <1>3, <1>5, <2>1
  <2>4. freeLog'[L + 1] = last /\ Len(freeLog') = L + 1 /\ freeLog' \in Seq(LogType) BY <1>5, <2>1
  <2> QED BY <1>1, <1>8, <2>2, <2>3, <2>4 DEF last
<1> QED BY <1>7, <1>8

(* A step that leaves the queue and the sizes of its blocks alone. *)
LEMMA QueueStays ==
    ASSUME Queue, UNCHANGED quarVars, LockFree' => ~OverLimit,
           \A r \in Queued(quarantine) : hdr'[r].size = hdr[r].size
    PROVE  Queue'
<1>1. \A i \in 1..Len(quarantine) : hdr'[quarantine[i]].size = hdr[quarantine[i]].size
  BY DEF Queued
<1> QED BY <1>1 DEF Queue, quarVars, Skipped, Since, OverLimit
(* Freeing puts the block behind the newest and ages the others; the queue *)
(* fitted before, so what it skips is what it skipped.                     *)
LEMMA FreeMarkQueue ==
    ASSUME IInv, Queue, NEW t \in Threads, FreeMark(t)
    PROVE  Queue'
<1> DEFINE s == loc[t].ptr
           size == hdr[s].size
           q == quarantine
           n == Len(q)
           L == Len(freeLog)
<1>1. /\ TypeInv /\ IndexesAgree /\ s \in Slots /\ size \in Nat
      /\ FoundExact(s, loc[t].off) /\ FreeRefusal(s, loc[t].off) = "no"
      /\ quarantine' = Append(q, s) /\ qBytes' = qBytes + size /\ Log(s)
      /\ holder = NoThread /\ holder' = t
  <2>1. pc[t] = "free" BY DEF FreeMark, At
  <2>2. s \in Slots BY <2>1 DEF IInv, LocalsOK
  <2>3. size \in Nat BY <2>2 DEF IInv, TypeInv, BlockType
  <2> QED BY <2>2, <2>3 DEF FreeMark, Enqueue, LockFree, IInv, Shared
<1>2. s \notin Queued(q)
  <2>1. hdr[s].state = "live" BY <1>1, FreeAccepts
  <2> QED BY <1>1, <2>1 DEF IndexesAgree
<1>3. \A r \in Slots : hdr'[r].size = hdr[r].size
  <2>1. hdr \in [Slots -> BlockType] BY <1>1 DEF TypeInv
  <2> QED BY <1>1, <2>1 DEF FreeMark, BlockType
<1>4. /\ q \in Seq(Slots) /\ n \in Nat /\ L \in Nat /\ QBlocks \in Nat /\ QBytes \in Nat
      /\ freeLog \in Seq(LogType) /\ L <= QBlocks + 1 /\ L - n >= 0
      /\ qBytes = Since(L - n + 1)
      /\ \A i \in 1..n : /\ q[i] \in Slots
                         /\ q[i] = freeLog[L - n + i].slot
                         /\ hdr[q[i]].size = Since(L - n + i) - Since(L - n + i + 1)
      /\ L - n > 0 => n >= QBlocks \/ Since(L - n) > QBytes
      /\ n <= QBlocks
  <2>1. q \in Seq(Slots) BY <1>1 DEF TypeInv
  <2>2. ~OverLimit BY <1>1 DEF Queue, LockFree
  <2>3. n \in Nat /\ L \in Nat /\ \A i \in 1..n : q[i] \in Slots BY <2>1 DEF Queue
  <2>4. n <= QBlocks BY <2>2, <2>3, SafeHeapConstants DEF OverLimit
  <2> QED BY ZenonT(60), <2>1, <2>3, <2>4, SafeHeapConstants DEF Queue, Skipped
<1>5. \A i \in 1..L : freeLog[i].since \in Nat
  <2>1. \A i \in 1..L : freeLog[i] \in LogType BY <1>4
  <2> QED BY <2>1 DEF LogType
<1>6. PICK cut \in {0, 1} :
        /\ cut = 1 <=> L = QBlocks + 1
        /\ freeLog' \in Seq(LogType)
        /\ Len(freeLog') = L + 1 - cut
        /\ \A i \in 1..(L - cut) :
             /\ freeLog'[i].slot = freeLog[i + cut].slot
             /\ freeLog'[i].since = freeLog[i + cut].since + size
        /\ freeLog'[Len(freeLog')] = [slot |-> s, since |-> size]
  BY <1>1, <1>4, LogEffect
<1>7. /\ Len(quarantine') = n + 1 /\ quarantine'[n + 1] = s
      /\ \A i \in 1..n : quarantine'[i] = q[i]
  BY <1>1, <1>4
<1> DEFINE L1 == Len(freeLog')
<1>8. /\ L1 = L + 1 - cut /\ Skipped' = L - n - cut /\ L - n - cut >= 0
      /\ L1 <= QBlocks + 1
  <2>1. Skipped' = L1 - (n + 1) BY <1>7 DEF Skipped
  <2>2. /\ n \in Nat /\ L \in Nat /\ QBlocks \in Nat /\ L <= QBlocks + 1 /\ L - n >= 0 /\ n <= QBlocks
        /\ cut \in {0, 1} /\ (cut = 1 <=> L = QBlocks + 1) /\ L1 = L + 1 - cut
    BY <1>4, <1>6
  <2> HIDE DEF n, L, L1
  <2> QED BY <2>1, <2>2
<1> DEFINE new(i) == IF i > L1 THEN 0 ELSE freeLog'[i].since
<1>9. \A i \in 1..(L + 1 - cut) : new(i) = Since(i + cut) + size
  <2> SUFFICES ASSUME NEW i \in 1..(L + 1 - cut) PROVE new(i) = Since(i + cut) + size
    OBVIOUS
  <2>1. CASE i = L + 1 - cut
    <3>1. i = L1 /\ ~(L1 > L1) BY <1>4, <1>8, <2>1
    <3>2. freeLog'[i].since = size BY <1>6, <3>1
    <3>3. Since(i + cut) = 0 BY <1>4, <2>1 DEF Since
    <3> QED BY <1>1, <3>1, <3>2, <3>3
  <2>2. CASE i \in 1..(L - cut)
    <3>0. ~(i > L1)
      <4>1. L \in Nat /\ L1 = L + 1 - cut BY <1>4, <1>8
      <4> HIDE DEF L, L1
      <4> QED BY <2>2, <4>1
    <3>1. new(i) = freeLog[i + cut].since + size BY <1>6, <2>2, <3>0
    <3>2. Since(i + cut) = freeLog[i + cut].since BY <1>4, <2>2 DEF Since
    <3> QED BY <3>1, <3>2
  <2>3. L \in Nat /\ cut \in {0, 1} BY <1>4
  <2> HIDE DEF L, L1, new
  <2> QED BY <2>1, <2>2, <2>3
<1>10. new(L + 2 - cut) = 0 /\ Since(L + 1) = 0 BY <1>4, <1>8 DEF Since
<1>11. \A i \in 1..(L + 1) : Since(i) \in Nat BY <1>4, <1>5 DEF Since
<1>12. /\ Since(Skipped + 1)' = new(Skipped' + 1) /\ Since(Skipped)' = new(Skipped')
       /\ \A i \in 1..(n + 1) : /\ Since(Skipped + i)' = new(Skipped' + i)
                                /\ Since(Skipped + i + 1)' = new(Skipped' + i + 1)
  BY DEF Since
<1>13. /\ n \in Nat /\ L \in Nat /\ QBlocks \in Nat /\ QBytes \in Nat /\ size \in Nat
       /\ L - n - cut >= 0 /\ cut \in {0, 1} /\ L1 = L + 1 - cut /\ Skipped' = L - n - cut
  BY <1>1, <1>4, <1>6, <1>8
<1> HIDE DEF size, s, n, L, q, new, L1
<1>14. qBytes' = Since(Skipped + 1)'
  <2>1. L - n - cut + 1 \in 1..(L + 1 - cut) /\ L - n - cut + 1 + cut = L - n + 1 BY <1>13
  <2>2. new(L - n - cut + 1) = Since(L - n + 1) + size BY <1>9, <2>1
  <2>3. qBytes' = qBytes + size /\ qBytes = Since(L - n + 1) BY <1>1, <1>4
  <2> QED BY <1>12, <1>13, <2>2, <2>3
<1>15. Skipped' > 0 => Len(quarantine') >= QBlocks \/ Since(Skipped)' > QBytes
  <2> SUFFICES ASSUME Skipped' > 0, ~(n + 1 >= QBlocks) PROVE new(Skipped') > QBytes
    BY <1>7, <1>12
  <2>1. L - n > 0 /\ ~(n >= QBlocks) BY <1>13
  <2>2. Since(L - n) > QBytes BY <1>4, <2>1
  <2>3. /\ L - n - cut \in 1..(L + 1 - cut) /\ L - n - cut + cut = L - n /\ L - n \in 1..(L + 1)
    BY <1>13
  <2>4. new(L - n - cut) = Since(L - n) + size /\ Since(L - n) \in Nat BY <1>9, <1>11, <2>3
  <2> QED BY <1>13, <2>2, <2>4
<1>16. ASSUME NEW i \in 1..(n + 1)
       PROVE  /\ quarantine'[i] = freeLog'[Skipped' + i].slot
              /\ hdr'[quarantine'[i]].size = new(Skipped' + i) - new(Skipped' + i + 1)
  <2>1. CASE i = n + 1
    <3>1. L - n - cut + i = L1 /\ L1 + 1 = L + 2 - cut /\ L1 \in 1..(L + 1 - cut) /\ L1 + cut = L + 1
      BY <1>13, <2>1
    <3>2. quarantine'[i] = s /\ freeLog'[L1].slot = s /\ hdr'[s].size = size
      BY <1>1, <1>3, <1>6, <1>7, <2>1 DEF size, L1
    <3>3. new(L1) = 0 + size BY <1>9, <1>10, <3>1
    <3>4. new(L1 + 1) = 0 BY <1>10, <3>1
    <3>5. Skipped' + i = L1 /\ Skipped' + i + 1 = L1 + 1 BY <1>13, <3>1
    <3> QED BY <1>13, <3>2, <3>3, <3>4, <3>5
  <2>2. CASE i \in 1..n
    <3> DEFINE k == L - n - cut + i
    <3>1. /\ k \in 1..(L - cut) /\ k \in 1..(L + 1 - cut) /\ k + 1 \in 1..(L + 1 - cut)
          /\ k + cut = L - n + i /\ k + 1 + cut = L - n + i + 1
          /\ L - n + i \in 1..(L + 1) /\ L - n + i + 1 \in 1..(L + 1)
          /\ Skipped' + i = k /\ Skipped' + i + 1 = k + 1
      BY <1>13, <2>2
    <3>2. quarantine'[i] = q[i] /\ q[i] \in Slots /\ q[i] = freeLog[L - n + i].slot
      BY <1>4, <1>7, <2>2
    <3> HIDE DEF k
    <3>3. freeLog'[k].slot = freeLog[L - n + i].slot BY <1>6, <3>1
    <3>4. new(k) = Since(L - n + i) + size /\ new(k + 1) = Since(L - n + i + 1) + size
      BY <1>9, <3>1
    <3>5. hdr'[q[i]].size = Since(L - n + i) - Since(L - n + i + 1) BY <1>3, <1>4, <2>2, <3>2
    <3>6. Since(L - n + i) \in Nat /\ Since(L - n + i + 1) \in Nat BY <1>11, <3>1
    <3> QED BY <1>13, <3>1, <3>2, <3>3, <3>4, <3>5, <3>6
  <2> QED BY <1>13, <2>1, <2>2
<1>17. LockFree' => ~OverLimit' BY <1>1, SafeHeapConstants DEF LockFree
<1>18. Skipped' >= 0 /\ Len(freeLog') <= QBlocks + 1 /\ freeLog' \in Seq(LogType)
  BY <1>6, <1>8, <1>13
<1>19. \A i \in 1..Len(quarantine') :
         /\ quarantine'[i] = freeLog'[Skipped' + i].slot
         /\ hdr'[quarantine'[i]].size = Since(Skipped + i)' - Since(Skipped + i + 1)'
  BY <1>7, <1>12, <1>16
<1> QED BY <1>14, <1>15, <1>17, <1>18, <1>19 DEF Queue

(* One turn of the eviction loop drops the oldest block, with its bytes,   *)
(* from a queue that did not fit.                                          *)
LEMMA EvictOneQueue ==
    ASSUME IInv, Queue, NEW t \in Threads, EvictOne(t)
    PROVE  Queue'
<1> DEFINE q == quarantine
           n == Len(q)
           L == Len(freeLog)
<1>1. /\ TypeInv /\ IndexesAgree /\ HolderOK /\ pc[t] = "evict" /\ q # <<>> /\ OverLimit
      /\ qBytes' = qBytes - hdr[Head(q)].size
      /\ quarantine' = Tail(q) /\ UNCHANGED <<holder, freeLog>>
  BY DEF EvictOne, At, IInv, Shared
<1>2. /\ q \in Seq(Slots) /\ n \in Nat \ {0} /\ Head(q) = q[1]
      /\ Len(quarantine') = n - 1
      /\ \A i \in 1..(n - 1) : quarantine'[i] = q[i + 1]
      /\ \A i \in 1..n : q[i] \in Slots
  <2>1. q \in Seq(Slots) BY <1>1 DEF TypeInv
  <2> QED BY <1>1, <2>1
<1>3. \A r \in Slots : hdr'[r].size = hdr[r].size
  <2>1. hdr \in [Slots -> BlockType] /\ Head(q) \in Slots BY <1>1, <1>2 DEF TypeInv
  <2> QED BY <2>1 DEF EvictOne, BlockType
<1>4. /\ L \in Nat /\ QBlocks \in Nat /\ QBytes \in Nat
      /\ freeLog \in Seq(LogType) /\ L <= QBlocks + 1 /\ L - n >= 0
      /\ qBytes = Since(L - n + 1)
      /\ \A i \in 1..n : /\ q[i] = freeLog[L - n + i].slot
                         /\ hdr[q[i]].size = Since(L - n + i) - Since(L - n + i + 1)
  <2>1. L \in Nat BY DEF Queue
  <2> QED BY ZenonT(60), <2>1, SafeHeapConstants DEF Queue, Skipped
<1>5. \A i \in 1..(L + 1) : Since(i) \in Nat
  <2>1. \A i \in 1..L : freeLog[i] \in LogType BY <1>4
  <2> QED BY <1>4, <2>1 DEF LogType, Since
<1>6. Skipped' = L - (n - 1) BY <1>1, <1>2 DEF Skipped
<1>7. \A i : Since(i)' = Since(i) BY <1>1 DEF Since
<1>8. /\ Since(Skipped + 1)' = Since(L - (n - 1) + 1) /\ Since(Skipped)' = Since(L - (n - 1))
      /\ \A i \in 1..(n - 1) : /\ Since(Skipped + i)' = Since(L - (n - 1) + i)
                               /\ Since(Skipped + i + 1)' = Since(L - (n - 1) + i + 1)
  BY <1>1, <1>6 DEF Since
<1>9. n > QBlocks \/ qBytes > QBytes BY <1>1 DEF OverLimit
<1>10. holder' # NoThread BY <1>1, SafeHeapConstants DEF HolderOK
<1> HIDE DEF n, L, q
<1>11. qBytes' = Since(Skipped + 1)'
  <2>1. /\ L - n + 1 \in 1..(L + 1) /\ L - n + 2 \in 1..(L + 1) /\ 1 \in 1..n
        /\ L - n + 1 + 1 = L - n + 2 /\ L - (n - 1) + 1 = L - n + 2
    BY <1>2, <1>4
  <2>2. hdr[q[1]].size = Since(L - n + 1) - Since(L - n + 1 + 1) BY <1>4, <2>1
  <2>3. Since(L - n + 1) \in Nat /\ Since(L - n + 2) \in Nat BY <1>5, <2>1
  <2> QED BY <1>1, <1>2, <1>4, <1>8, <2>1, <2>2, <2>3
<1>12. Len(quarantine') >= QBlocks \/ Since(Skipped)' > QBytes
  <2>1. L - (n - 1) = L - n + 1 BY <1>2, <1>4
  <2> QED BY <1>2, <1>4, <1>8, <1>9, <2>1
<1>13. ASSUME NEW i \in 1..(n - 1)
       PROVE  /\ quarantine'[i] = freeLog'[Skipped' + i].slot
              /\ hdr'[quarantine'[i]].size = Since(Skipped + i)' - Since(Skipped + i + 1)'
  <2>1. /\ i + 1 \in 1..n /\ L - (n - 1) + i = L - n + (i + 1)
        /\ L - (n - 1) + i + 1 = L - n + (i + 1) + 1
    <3>1. n \in Nat \ {0} /\ L \in Nat BY <1>2, <1>4
    <3> QED BY <3>1
  <2>2. /\ q[i + 1] = freeLog[L - n + (i + 1)].slot
        /\ hdr[q[i + 1]].size = Since(L - n + (i + 1)) - Since(L - n + (i + 1) + 1)
    BY <1>4, <2>1
  <2>3. q[i + 1] \in Slots /\ quarantine'[i] = q[i + 1] /\ freeLog' = freeLog BY <1>1, <1>2, <2>1
  <2> QED BY <1>3, <1>6, <1>8, <2>1, <2>2, <2>3
<1>14. Skipped' >= 0 BY <1>2, <1>4, <1>6
<1>15. Len(freeLog') <= QBlocks + 1 /\ freeLog' \in Seq(LogType) BY <1>1, <1>4 DEF L
<1>16. \A i \in 1..Len(quarantine') :
         /\ quarantine'[i] = freeLog'[Skipped' + i].slot
         /\ hdr'[quarantine'[i]].size = Since(Skipped + i)' - Since(Skipped + i + 1)'
  BY <1>2, <1>13
<1> QED BY <1>10, <1>11, <1>12, <1>14, <1>15, <1>16 DEF Queue, LockFree

(* What goes back to the C library, or comes from it, is not queued. *)
LEMMA QueuedAreRegistered ==
    ASSUME IInv
    PROVE  Queued(quarantine) \subseteq registry /\ registry \subseteq Slots
BY DEF IInv, Shared, IndexesAgree, TypeInv

LEMMA NextQueue == IInv /\ Queue /\ [Next]_vars => Queue'
<1> SUFFICES ASSUME IInv, Queue, [Next]_vars PROVE Queue' OBVIOUS
<1>1. Queued(quarantine) \subseteq registry /\ registry \subseteq Slots
  BY QueuedAreRegistered
<1>2. LockFree => ~OverLimit BY DEF Queue
<1>3. ASSUME UNCHANGED regVars PROVE Queue'
  <2>1. UNCHANGED quarVars /\ hdr' = hdr /\ LockFree' = LockFree BY <1>3 DEF regVars, LockFree
  <2> QED BY <1>2, <2>1, QueueStays
<1>4. ASSUME UNCHANGED <<holder, quarVars>>, \A r \in registry : hdr'[r].size = hdr[r].size
      PROVE  Queue'
  BY <1>1, <1>2, <1>4, QueueStays DEF LockFree
<1>5. hdr \in [Slots -> BlockType] BY DEF IInv, TypeInv
<1>6. ASSUME NEW t \in Threads, LockedStep(t) PROVE Queue'
  <2>1. CASE Publish(t) BY <1>4, <2>1 DEF Publish
  <2>2. CASE FreeRefused(t) \/ ReallocRefused(t) \/ CheckRefused(t)
    BY <1>3, <2>2 DEF FreeRefused, ReallocRefused, CheckRefused, Abort
  <2>3. CASE FreeForeign(t) \/ ReallocAccepted(t) \/ CheckPasses(t)
    BY <1>3, <2>3 DEF FreeForeign, ReallocAccepted, CheckPasses
  <2>4. CASE FreeMark(t) BY <2>4, FreeMarkQueue
  <2>5. ASSUME NEW s \in Slots, ReallocForeign(t, s) PROVE Queue'
    BY <1>3, <2>5 DEF ReallocForeign
  <2> QED BY <1>6, <2>1, <2>2, <2>3, <2>4, <2>5 DEF LockedStep
<1>7. ASSUME NEW t \in Threads, LocalStep(t) PROVE Queue'
  <2>1. CASE AllocateFails(t) \/ RealFree(t) \/ ReleaseDone(t)
    BY <1>3, <2>1 DEF AllocateFails, RealFree, ReleaseDone
  <2>2. CASE EvictOne(t) BY <2>2, EvictOneQueue
  <2>3. CASE FreePublish(t)
    <3>1. UNCHANGED <<hdr, quarVars>> /\ (quarantine = <<>> \/ ~OverLimit)
      BY <2>3 DEF FreePublish
    <3>2. ASSUME quarantine = <<>> PROVE ~OverLimit
      <4>1. Len(quarantine) = 0 /\ Len(freeLog) \in Nat BY <3>2 DEF Queue
      <4>2. Skipped + 1 > Len(freeLog) BY <4>1 DEF Skipped
      <4>3. qBytes = 0 BY <4>2 DEF Queue, Since
      <4> QED BY <4>1, <4>3, SafeHeapConstants DEF OverLimit
    <3> QED BY <3>1, <3>2, QueueStays
  <2>4. CASE Copy(t)
    <3>1. /\ UNCHANGED <<holder, quarVars>>
          /\ hdr' = hdr \/ hdr' = [hdr EXCEPT ![loc[t].new].data = hdr[loc[t].ptr].data]
      BY <2>4 DEF Copy
    <3>2. \A r \in Slots : hdr'[r].size = hdr[r].size BY <1>5, <3>1 DEF BlockType
    <3> QED BY <1>1, <1>4, <3>1, <3>2
  <2>5. ASSUME NEW s \in Slots, RealMalloc(t, s) PROVE Queue'
    <3>1. /\ s \notin used /\ Running /\ UNCHANGED <<holder, quarVars>>
          /\ \A r \in Slots \ {s} : hdr'[r] = hdr[r]
      BY <1>5, <2>5 DEF RealMalloc, At
    <3>2. s \notin registry BY <3>1 DEF IInv, Shared, Ownership
    <3> QED BY <1>1, <1>4, <3>1, <3>2
  <2>6. ASSUME NEW s \in Slots, ReleaseOne(t, s) PROVE Queue'
    <3>1. /\ s \in loc[t].evicted /\ Running /\ UNCHANGED <<holder, quarVars>>
          /\ \A r \in Slots \ {s} : hdr'[r] = hdr[r]
      BY <1>5, <2>6 DEF ReleaseOne, At
    <3>2. s \notin registry BY <3>1 DEF IInv, Shared, Ownership, InFlight
    <3> QED BY <1>1, <1>4, <3>1, <3>2
  <2> QED BY <1>7, <2>1, <2>2, <2>3, <2>4, <2>5, <2>6 DEF LocalStep
<1>8. ASSUME NEW t \in Threads, ProgramStep(t) PROVE Queue'
  <2>1. ASSUME NEW s \in Slots, Write(t, s) PROVE Queue'
    <3>1. UNCHANGED <<holder, quarVars>> /\ hdr' = [hdr EXCEPT ![s].data = "value"]
      BY <2>1 DEF Write
    <3>2. \A r \in Slots : hdr'[r].size = hdr[r].size BY <1>5, <3>1 DEF BlockType
    <3> QED BY <1>1, <1>4, <3>1, <3>2
  <2>2. CASE \E s \in Slots : Write(t, s) BY <2>1, <2>2
  <2>3. CASE ~\E s \in Slots : Write(t, s)
    <3>1. UNCHANGED regVars
      BY <1>8, <2>3 DEF ProgramStep, CallRejected, SetNextSite, CallAlloc, CallFree, CallDerive,
                        CallRealloc, CallCheck, ForeignAlloc, HandOver
    <3> QED BY <1>3, <3>1
  <2> QED BY <2>2, <2>3
<1>9. ASSUME NEW s \in Slots, StrayWrite(s) PROVE Queue'
  <2>1. /\ UNCHANGED <<holder, quarVars>>
        /\ \/ hdr' = [hdr EXCEPT ![s].canary = FALSE]
           \/ hdr' = [hdr EXCEPT ![s].valid = FALSE]
    BY <1>9 DEF StrayWrite
  <2>2. \A r \in Slots : hdr'[r].size = hdr[r].size BY <1>5, <2>1 DEF BlockType
  <2> QED BY <1>1, <1>4, <2>1, <2>2
<1>10. CASE UNCHANGED vars BY <1>3, <1>10 DEF vars
<1> QED BY <1>6, <1>7, <1>8, <1>9, <1>10 DEF Next

LEMMA InitQueue == Init => Queue
<1> SUFFICES ASSUME Init PROVE Queue OBVIOUS
<1>1. quarantine = <<>> /\ freeLog = <<>> /\ qBytes = 0 /\ freeLog \in Seq(LogType)
  BY DEF Init
<1>2. Len(quarantine) = 0 /\ Len(freeLog) = 0 /\ Skipped = 0 BY <1>1 DEF Skipped
<1> QED BY <1>1, <1>2, SafeHeapConstants DEF Queue, Since, OverLimit

LEMMA AlwaysQueue == Spec => [](IInv /\ Queue)
BY InitIInv, NextIInv, InitQueue, NextQueue, PTL DEF Spec

(* The byte count is that of an entry of the log, or zero. *)
LEMMA QueueBytes == IInv /\ Queue => qBytes \in Nat
<1> SUFFICES ASSUME IInv, Queue PROVE qBytes \in Nat OBVIOUS
<1> DEFINE n == Len(quarantine)
           L == Len(freeLog)
<1>1. n \in Nat /\ L \in Nat BY DEF Queue, IInv, TypeInv
<1>2. CASE n = 0 BY <1>1, <1>2 DEF Queue, Skipped, Since
<1>3. CASE n > 0
  <2>1. L - n + 1 \in 1..L BY <1>1, <1>3 DEF Queue, Skipped
  <2>2. freeLog[L - n + 1] \in LogType BY <2>1 DEF Queue
  <2> QED BY <2>1, <2>2 DEF Queue, Skipped, Since, LogType
<1> QED BY <1>1, <1>2, <1>3

(* quarantine_evict_locked keeps exactly the most recent frees that the    *)
(* two limits have room for: a block leaves no earlier and no later.       *)
THEOREM QuarantineIsTheRecentFrees == Spec => []QuarantineIsWindow
<1>1. IInv /\ Queue => QuarantineIsWindow
  <2> SUFFICES ASSUME IInv, Queue, LockFree
               PROVE  LET n == Len(quarantine) IN
                        /\ n <= Len(freeLog)
                        /\ \A i \in 1..n : quarantine[i] = Freed(n - i + 1).slot
                        /\ Fits(n)
                        /\ n < Len(freeLog) => ~Fits(n + 1)
    BY DEF QuarantineIsWindow
  <2> DEFINE n == Len(quarantine)
             L == Len(freeLog)
  <2>1. n \in Nat /\ L \in Nat BY DEF Queue, IInv, TypeInv
  <2>2. /\ L - n >= 0 /\ n <= QBlocks /\ qBytes <= QBytes /\ QBlocks \in Nat /\ QBytes \in Nat
        /\ qBytes = Since(L - n + 1)
        /\ L - n > 0 => n >= QBlocks \/ Since(L - n) > QBytes
    <3>1. ~OverLimit BY DEF Queue
    <3>2. qBytes \in Nat BY QueueBytes
    <3> QED BY <2>1, <3>1, <3>2, SafeHeapConstants DEF Queue, Skipped, OverLimit
  <2>3. \A i \in 1..n : quarantine[i] = freeLog[L - n + i].slot BY DEF Queue, Skipped
  <2> HIDE DEF n, L
  <2>4. n <= L BY <2>1, <2>2
  <2>5. \A i \in 1..n : quarantine[i] = Freed(n - i + 1).slot
    <3>1. \A i \in 1..n : L - (n - i + 1) + 1 = L - n + i BY <2>1
    <3> QED BY <2>3, <3>1 DEF Freed, L
  <2>6. Fits(n)
    <3>1. n > 0 => ~(L - n + 1 > L) BY <2>1
    <3> QED BY <2>2, <3>1 DEF Fits, Freed, Since, L
  <2>7. n < L => ~Fits(n + 1)
    <3> SUFFICES ASSUME n < L PROVE ~Fits(n + 1) OBVIOUS
    <3>1. L - n > 0 /\ L - (n + 1) + 1 = L - n /\ ~(L - n > L) /\ n + 1 > 0 BY <2>1
    <3>2. CASE n >= QBlocks BY <2>1, <2>2, <3>2 DEF Fits
    <3>3. CASE Since(L - n) > QBytes
      <4>1. Since(L - n) = freeLog[L - n].since BY <3>1 DEF Since, L
      <4>2. Freed(n + 1) = freeLog[L - n] BY <3>1 DEF Freed, L
      <4>3. freeLog[L - n].since \in Nat
        <5>1. L - n \in 1..L BY <2>1, <3>1
        <5>2. freeLog[L - n] \in LogType BY <5>1 DEF Queue, L
        <5> QED BY <5>2 DEF LogType
      <4> QED BY <2>2, <3>1, <3>3, <4>1, <4>2, <4>3 DEF Fits
    <3> QED BY <2>2, <3>1, <3>2, <3>3
  <2> QED BY <2>4, <2>5, <2>6, <2>7 DEF n, L
<1> QED BY <1>1, AlwaysQueue, PTL

-----------------------------------------------------------------------------
(* Why the runtime stops is one of its messages. *)
LEMMA RefusalTypes ==
    ASSUME NEW s, NEW off, NEW n
    PROVE  FreeRefusal(s, off) \in Reasons /\ ReallocRefusal(s, off) \in Reasons
           /\ CheckRefusal(s, off, n) \in Reasons
<1>1. FreeRefusal(s, off) \in {"header", "double-free", "overflow", "no", "interior"}
  BY DEF FreeRefusal
<1>2. ReallocRefusal(s, off) \in {"header", "realloc-after-free", "overflow", "no", "interior"}
  BY <1>1 DEF ReallocRefusal
<1>3. CheckRefusal(s, off, n) \in {"header", "use-after-free", "out-of-bounds", "no"}
  BY DEF CheckRefusal
<1> QED BY <1>1, <1>2, <1>3 DEF Reasons

LEMMA NextRest == IInv /\ RestOfTypes /\ [Next]_vars => RestOfTypes'
<1> SUFFICES ASSUME IInv, RestOfTypes, [Next]_vars PROVE RestOfTypes' OBVIOUS
<1>1. ASSUME UNCHANGED <<aborted, progVars>> PROVE RestOfTypes'
  BY <1>1 DEF progVars, RestOfTypes
<1>2. ASSUME NEW why \in Reasons, Abort(why) PROVE RestOfTypes'
  BY <1>2 DEF Abort, progVars, RestOfTypes
<1>3. ASSUME NEW s \in Slots, NEW t \in Threads \cup {NoThread}, Give(s, t),
             aborted' = aborted, known' = known \/ known' = known \cup {s}
      PROVE  RestOfTypes'
  BY <1>3 DEF Give, RestOfTypes
<1>4. \A t \in Threads : /\ pc[t] = "publish" => loc[t].new \in Slots
                         /\ pc[t] = "copy" => loc[t].ptr \in Slots
                         /\ loc[t].op = "realloc" /\ pc[t] = "release" => loc[t].new \in Slots
                         /\ pc[t] = "lookup" => loc[t].ptr \in Slots
  BY DEF IInv, LocalsOK
<1>5. ASSUME NEW t \in Threads, LockedStep(t) PROVE RestOfTypes'
  <2>1. CASE Publish(t)
    <3>1. loc[t].new \in Slots /\ aborted' = aborted BY <1>4, <2>1 DEF Publish, At, heapVars
    <3>2. CASE loc[t].op = "realloc" BY <1>1, <2>1, <3>1, <3>2 DEF Publish
    <3>3. CASE loc[t].op # "realloc"
      <4>1. Give(loc[t].new, t) /\ known' = known \cup {loc[t].new} BY <2>1, <3>3 DEF Publish
      <4> QED BY <1>3, <3>1, <4>1
    <3> QED BY <3>2, <3>3
  <2>2. CASE FreeRefused(t) \/ ReallocRefused(t) \/ CheckRefused(t)
    BY <1>2, <2>2, RefusalTypes DEF FreeRefused, ReallocRefused, CheckRefused
  <2>3. CASE FreeForeign(t) \/ ReallocAccepted(t) \/ CheckPasses(t) \/ FreeMark(t)
    BY <1>1, <2>3 DEF FreeForeign, ReallocAccepted, CheckPasses, FreeMark, heapVars
  <2>4. ASSUME NEW s \in Slots, ReallocForeign(t, s) PROVE RestOfTypes'
    <3>1. /\ owner' = IF Disciplined THEN [owner EXCEPT ![loc[t].ptr] = NoThread, ![s] = t]
                                     ELSE owner
          /\ known' = known \cup {s} /\ aborted' = aborted
      BY <2>4 DEF ReallocForeign
    <3> QED BY <3>1 DEF RestOfTypes
  <2> QED BY <1>5, <2>1, <2>2, <2>3, <2>4 DEF LockedStep
<1>6. ASSUME NEW t \in Threads, LocalStep(t) PROVE RestOfTypes'
  <2>1. CASE AllocateFails(t) \/ RealFree(t) \/ EvictOne(t) \/ FreePublish(t)
    BY <1>1, <2>1 DEF AllocateFails, RealFree, EvictOne, FreePublish, heapVars
  <2>2. CASE Copy(t)
    <3>1. loc[t].ptr \in Slots /\ Give(loc[t].ptr, NoThread) /\ aborted' = aborted /\ known' = known
      BY <1>4, <2>2 DEF Copy, At, heapVars
    <3> QED BY <1>3, <3>1
  <2>3. CASE ReleaseDone(t)
    <3>1. CASE loc[t].op = "realloc"
      <4>1. /\ loc[t].new \in Slots /\ Give(loc[t].new, t) /\ aborted' = aborted
            /\ known' = known \cup {loc[t].new}
        BY <1>4, <2>3, <3>1 DEF ReleaseDone, At, heapVars
      <4> QED BY <1>3, <4>1
    <3>2. CASE loc[t].op # "realloc" BY <1>1, <2>3, <3>2 DEF ReleaseDone, heapVars
    <3> QED BY <3>1, <3>2
  <2>4. ASSUME NEW s \in Slots, RealMalloc(t, s) \/ ReleaseOne(t, s) PROVE RestOfTypes'
    BY <1>1, <2>4 DEF RealMalloc, ReleaseOne
  <2> QED BY <1>6, <2>1, <2>2, <2>3, <2>4 DEF LocalStep
<1>7. ASSUME NEW t \in Threads, ProgramStep(t) PROVE RestOfTypes'
  <2>1. ASSUME NEW s \in Slots, NEW off \in Offsets, CallFree(t, s, off) PROVE RestOfTypes'
    BY <1>3, <2>1 DEF CallFree, heapVars
  <2>2. ASSUME NEW s \in Slots, ForeignAlloc(t, s) PROVE RestOfTypes'
    BY <1>3, <2>2 DEF ForeignAlloc
  <2>3. ASSUME NEW s \in Slots, NEW u \in Threads, HandOver(t, u, s) PROVE RestOfTypes'
    BY <1>3, <2>3 DEF HandOver, heapVars
  <2>4. ASSUME NEW s \in Slots, NEW off \in Offsets, NEW n \in Sizes,
               CallRealloc(t, s, off, n) \/ CallCheck(t, s, off, n) \/ CallDerive(t, s, off)
        PROVE  RestOfTypes'
    BY <1>1, <2>4 DEF CallRealloc, CallCheck, CallDerive, heapVars
  <2>5. ASSUME NEW s \in Slots, NEW off \in Offsets, CallDerive(t, s, off) PROVE RestOfTypes'
    BY <1>1, <2>5 DEF CallDerive, heapVars
  <2>6. ASSUME NEW s \in Slots, Write(t, s) PROVE RestOfTypes'
    BY <1>1, <2>6 DEF Write, heapVars
  <2>7. CASE CallRejected(t) BY <1>1, <2>7 DEF CallRejected, heapVars
  <2>8. ASSUME NEW site \in Sites, SetNextSite(t, site) PROVE RestOfTypes'
    BY <1>1, <2>8 DEF SetNextSite, heapVars
  <2>9. ASSUME NEW n \in Sizes, NEW zero \in BOOLEAN, CallAlloc(t, n, zero) PROVE RestOfTypes'
    BY <1>1, <2>9 DEF CallAlloc, heapVars
  <2> QED BY <1>7, <2>1, <2>2, <2>3, <2>4, <2>5, <2>6, <2>7, <2>8, <2>9 DEF ProgramStep
<1>8. ASSUME NEW s \in Slots, StrayWrite(s) PROVE RestOfTypes'
  BY <1>1, <1>8 DEF StrayWrite, heapVars
<1>9. CASE UNCHANGED vars BY <1>1, <1>9 DEF vars, heapVars
<1> QED BY <1>5, <1>6, <1>7, <1>8, <1>9 DEF Next

LEMMA InitRest == Init => RestOfTypes
BY DEF Init, RestOfTypes, Reasons

(* Every variable of the runtime keeps its type; in particular             *)
(* cgf_safe_q_bytes, an unsigned counter that eviction subtracts from,     *)
(* never goes below zero.                                                  *)
THEOREM HeapTypeCorrect == Spec => []TypeOK
<1>1. IInv /\ Queue /\ RestOfTypes => TypeOK
  <2> SUFFICES ASSUME IInv, Queue, RestOfTypes PROVE TypeOK OBVIOUS
  <2>1. qBytes \in Nat BY QueueBytes
  <2>2. freeLog \in Seq([slot : Slots, since : Nat]) BY DEF Queue, LogType
  <2> QED BY <2>1, <2>2 DEF IInv, TypeInv, RestOfTypes, TypeOK
<1> QED BY <1>1, InitRest, NextRest, AlwaysIInv, AlwaysQueue, PTL DEF Spec
=============================================================================
