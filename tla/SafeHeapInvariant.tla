------------------------- MODULE SafeHeapInvariant -------------------------
(***************************************************************************)
(* The inductive invariant of the heap-safety runtime, the lemmas about    *)
(* its state, and the steps of allocation and of freeing up to eviction.   *)
(* SafeHeapProofs has the other steps and the theorems.                    *)
(*                                                                         *)
(* Most steps are quiet: they leave the shared structures and everything   *)
(* in flight alone, and QuietKeeps settles all of them at once.  The other *)
(* steps have a lemma each.                                                *)
(***************************************************************************)
EXTENDS SafeHeap, Integers, TLAPS

(* TypeOK without the claim that qBytes never goes negative, which needs   *)
(* the sum over the queue.                                                 *)
TypeInv ==
    /\ pc \in [Threads -> PCs]
    /\ loc \in [Threads -> LocalType]
    /\ cache \in [Threads -> CacheType]
    /\ pending \in [Threads -> Nat]
    /\ holder \in Threads \cup {NoThread}
    /\ generation \in Nat
    /\ registry \in SUBSET Slots
    /\ hash \in [Buckets -> SUBSET Slots]
    /\ hdr \in [Slots -> BlockType]
    /\ quarantine \in Seq(Slots)
    /\ used \in SUBSET Slots
    /\ foreign \in SUBSET Slots
    /\ heapError \in BOOLEAN

(* The locals a control point relies on. *)
LocalsOK ==
    \A t \in Threads :
      /\ (pc[t] \in {"free", "realfree", "evict", "lookup", "check", "copy"}
            \/ loc[t].op = "realloc") => loc[t].ptr \in Slots
      /\ pc[t] = "publish" => loc[t].new \in Slots /\ hdr[loc[t].new].state = "live"
      /\ loc[t].op = "realloc" /\ pc[t] \in {"copy", "free", "realfree", "evict", "release"}
           => loc[t].new \in Slots
      /\ loc[t].evicted # {} => pc[t] \in {"evict", "release"}

(* The holder of the lock is the thread in the eviction loop, and the      *)
(* block it is freeing is still registered, or on its own list.            *)
HolderOK ==
    \A t \in Threads :
      /\ pc[t] = "evict" <=> holder = t
      /\ pc[t] = "evict" => loc[t].ptr \in registry \cup loc[t].evicted

GenOK == \A t \in Threads : cache[t].gen <= generation

Shared == HolderOK /\ GenOK /\ CacheSound /\ Ownership /\ IndexesAgree

IInv == TypeInv /\ LocalsOK /\ Shared
-----------------------------------------------------------------------------
(* The queue gains a block at its tail and loses one at its head. *)
LEMMA AppendQueued ==
    ASSUME NEW q \in Seq(Slots), NEW s \in Slots, Once(q), s \notin Queued(q)
    PROVE  /\ Append(q, s) \in Seq(Slots)
           /\ Queued(Append(q, s)) = Queued(q) \cup {s}
           /\ Once(Append(q, s))
<1>1. /\ Len(q) \in Nat /\ DOMAIN q = 1..Len(q)
      /\ Append(q, s) \in Seq(Slots) /\ DOMAIN Append(q, s) = 1..(Len(q) + 1)
      /\ \A i \in 1..Len(q) : Append(q, s)[i] = q[i]
      /\ Append(q, s)[Len(q) + 1] = s
  OBVIOUS
<1>2. Queued(Append(q, s)) = Queued(q) \cup {s} BY <1>1 DEF Queued
<1>3. \A i \in 1..Len(q) : q[i] # s BY <1>1 DEF Queued
<1>4. ASSUME NEW i \in 1..(Len(q) + 1), NEW j \in 1..(Len(q) + 1),
             Append(q, s)[i] = Append(q, s)[j]
      PROVE  i = j
  <2>1. CASE i \in 1..Len(q) /\ j \in 1..Len(q) BY <1>1, <1>4, <2>1 DEF Once
  <2>2. CASE i \in 1..Len(q) /\ j = Len(q) + 1 BY <1>1, <1>3, <1>4, <2>2
  <2>3. CASE i = Len(q) + 1 /\ j \in 1..Len(q) BY <1>1, <1>3, <1>4, <2>3
  <2> QED BY <1>1, <2>1, <2>2, <2>3
<1>5. Once(Append(q, s)) BY ZenonT(60), <1>1, <1>4 DEF Once
<1> QED BY <1>1, <1>2, <1>5

LEMMA TailQueued ==
    ASSUME NEW q \in Seq(Slots), q # <<>>, Once(q)
    PROVE  /\ Tail(q) \in Seq(Slots)
           /\ Head(q) \in Queued(q)
           /\ Head(q) \in Slots
           /\ Queued(Tail(q)) = Queued(q) \ {Head(q)}
           /\ Once(Tail(q))
<1>1. /\ Len(q) \in Nat \ {0} /\ DOMAIN q = 1..Len(q)
      /\ Tail(q) \in Seq(Slots) /\ DOMAIN Tail(q) = 1..(Len(q) - 1)
      /\ \A i \in 1..(Len(q) - 1) : Tail(q)[i] = q[i + 1]
      /\ Head(q) = q[1]
  OBVIOUS
<1>2. \A i \in 2..Len(q) : i - 1 \in 1..(Len(q) - 1) /\ Tail(q)[i - 1] = q[i]
  BY <1>1
<1>3. Queued(Tail(q)) = Queued(q) \ {Head(q)}
  <2>1. ASSUME NEW x \in Queued(Tail(q)) PROVE x \in Queued(q) /\ x # Head(q)
    BY <1>1, Once(q) DEF Queued, Once
  <2>2. ASSUME NEW x \in Queued(q), x # Head(q) PROVE x \in Queued(Tail(q))
    <3>1. PICK i \in DOMAIN q : x = q[i] BY DEF Queued
    <3>2. i \in 2..Len(q) BY <1>1, <2>2, <3>1
    <3> QED BY Zenon, <1>1, <1>2, <3>1, <3>2 DEF Queued
  <2> QED BY <2>1, <2>2
<1>4. Once(Tail(q))
  BY <1>1, Once(q) DEF Once
<1>5. Head(q) \in Queued(q) /\ Head(q) \in Slots
  <2>1. 1 \in DOMAIN q BY <1>1
  <2> QED BY <1>1, <2>1 DEF Queued
<1> QED BY <1>1, <1>3, <1>4, <1>5

(* Pointwise effects of the assignments the steps are made of. *)
LEMMA PcSet ==
    ASSUME TypeInv, NEW t \in Threads, NEW where \in PCs, Goto(t, where)
    PROVE  /\ pc' \in [Threads -> PCs]
           /\ pc'[t] = where
           /\ \A u \in Threads \ {t} : pc'[u] = pc[u]
BY DEF TypeInv, Goto

LEMMA LocSet ==
    ASSUME TypeInv, NEW t \in Threads, NEW r \in LocalType, loc' = [loc EXCEPT ![t] = r]
    PROVE  /\ loc' \in [Threads -> LocalType]
           /\ loc'[t] = r
           /\ \A u \in Threads \ {t} : loc'[u] = loc[u]
BY DEF TypeInv

LEMMA NoCallType == NoCall \in LocalType /\ NoCall.evicted = {} /\ NoCall.op = "none"
BY DEF NoCall, LocalType, Ops, Data

LEMMA ReturnEffect ==
    ASSUME TypeInv, NEW t \in Threads, Return(t)
    PROVE  /\ pc' \in [Threads -> PCs]
           /\ loc' \in [Threads -> LocalType]
           /\ pc'[t] = "idle" /\ loc'[t] = NoCall
           /\ \A u \in Threads \ {t} : pc'[u] = pc[u] /\ loc'[u] = loc[u]
BY ZenonT(60), NoCallType, LocSet, PcSet DEF Return, PCs

(* A step that leaves the registry, the queue, the cache and everything in *)
(* flight as they are. *)
Quiet ==
    /\ UNCHANGED <<cache, holder, generation, registry, hash, quarantine, used, foreign,
                   heapError, aborted>>
    /\ \A s \in Slots : hdr'[s].state = hdr[s].state /\ hdr'[s].size = hdr[s].size
    /\ \A t \in Threads :
         /\ loc'[t].evicted = loc[t].evicted
         /\ InFlight(t)' = InFlight(t)
         /\ pc'[t] = "evict" <=> pc[t] = "evict"
         /\ pc[t] = "evict" => loc'[t].ptr = loc[t].ptr

LEMMA QuietKeeps == ASSUME IInv, Quiet PROVE Shared'
<1>i. /\ TypeInv /\ LocalsOK /\ HolderOK /\ GenOK
      /\ CacheSound /\ Ownership /\ IndexesAgree
  BY DEF IInv, Shared
<1>1. HolderOK' BY <1>i DEF Quiet, HolderOK
<1>2. GenOK' BY <1>i DEF Quiet, GenOK
<1>3. CacheSound'
  <2> SUFFICES ASSUME Running', NEW t \in Threads,
                      cache'[t].valid /\ cache'[t].gen = generation'
               PROVE  LET s == cache'[t].base IN
                        /\ s \in used'
                        /\ \/ /\ s \in registry' /\ hdr'[s].state = "live"
                              /\ hdr'[s].size = cache'[t].size
                           \/ /\ holder' # NoThread /\ pc'[holder'] = "evict"
                              /\ loc'[holder'].ptr = s
    BY DEF CacheSound
  <2> DEFINE s == cache[t].base
  <2>1. Running /\ cache[t].valid /\ cache[t].gen = generation
    BY DEF Quiet, Running
  <2>2. /\ s \in used
        /\ \/ s \in registry /\ hdr[s].state = "live" /\ hdr[s].size = cache[t].size
           \/ holder # NoThread /\ pc[holder] = "evict" /\ loc[holder].ptr = s
    BY <1>i, <2>1 DEF CacheSound
  <2>3. registry \subseteq Slots /\ holder \in Threads \cup {NoThread}
    BY <1>i DEF TypeInv
  <2> QED BY <2>2, <2>3 DEF Quiet
<1>4. Ownership' BY <1>i DEF Quiet, Ownership, Running
<1>5. IndexesAgree' BY <1>i DEF Quiet, IndexesAgree, TypeInv
<1> QED BY <1>1, <1>2, <1>3, <1>4, <1>5 DEF Shared

(* One thread moving between quiet control points is a quiet step. *)
LEMMA QuietMove ==
    ASSUME NEW t \in Threads,
           pc[t] \notin {"evict", "publish"}, pc'[t] \notin {"evict", "publish"},
           loc'[t].evicted = loc[t].evicted,
           \A u \in Threads \ {t} : pc'[u] = pc[u] /\ loc'[u] = loc[u],
           UNCHANGED <<cache, holder, generation, registry, hash, quarantine, used, foreign,
                       heapError, aborted>>,
           \A s \in Slots : hdr'[s].state = hdr[s].state /\ hdr'[s].size = hdr[s].size
    PROVE  Quiet
BY DEF Quiet, InFlight
-----------------------------------------------------------------------------
(* The steps that are not quiet. *)

(* The process is stopped: nothing else moves. *)
LEMMA AbortKeeps == ASSUME IInv, NEW why, why # "no", Abort(why) PROVE IInv'
<1>i. /\ TypeInv /\ LocalsOK /\ HolderOK /\ GenOK
      /\ CacheSound /\ Ownership /\ IndexesAgree
  BY DEF IInv, Shared
<1> USE DEF Abort, regVars, quarVars, progVars
<1>1. TypeInv' BY <1>i DEF TypeInv
<1>2. LocalsOK' BY <1>i DEF LocalsOK
<1>3. HolderOK' /\ GenOK' /\ IndexesAgree' BY <1>i DEF HolderOK, GenOK, IndexesAgree
<1>4. CacheSound' /\ Ownership' BY DEF CacheSound, Ownership, Running
<1> QED BY <1>1, <1>2, <1>3, <1>4 DEF IInv, Shared

(* A fresh slot is in nobody's hands, so laying a block out in it disturbs *)
(* no cached, registered or evicted block.                                 *)
LEMMA RealMallocKeeps ==
    ASSUME IInv, NEW t \in Threads, NEW s \in Slots, RealMalloc(t, s)
    PROVE  IInv'
<1>i. /\ TypeInv /\ LocalsOK /\ HolderOK /\ GenOK
      /\ CacheSound /\ Ownership /\ IndexesAgree
  BY DEF IInv, Shared
<1>1. /\ pc[t] = "allocate" /\ s \notin used /\ used' = used \cup {s}
      /\ Running /\ Goto(t, "publish")
      /\ UNCHANGED <<pending, cache, holder, generation, registry, hash, quarantine, foreign,
                     heapError, aborted>>
  BY DEF RealMalloc, At, quarVars
<1>2. /\ pc' \in [Threads -> PCs] /\ pc'[t] = "publish"
      /\ \A u \in Threads \ {t} : pc'[u] = pc[u]
  BY <1>i, <1>1, PcSet DEF PCs
<1>3. /\ loc' \in [Threads -> LocalType]
      /\ loc'[t].new = s /\ loc'[t].evicted = loc[t].evicted
      /\ loc'[t].op = loc[t].op /\ loc'[t].ptr = loc[t].ptr
      /\ \A u \in Threads \ {t} : loc'[u] = loc[u]
  <2> DEFINE r == [loc[t] EXCEPT !.new = s]
  <2>1. loc[t] \in LocalType BY <1>i DEF TypeInv
  <2>2. r \in LocalType /\ r.new = s /\ r.evicted = loc[t].evicted /\ r.op = loc[t].op
          /\ r.ptr = loc[t].ptr
    BY <2>1 DEF LocalType
  <2>3. loc' = [loc EXCEPT ![t] = r] BY DEF RealMalloc
  <2> HIDE DEF r
  <2> QED BY Zenon, <2>2, <2>3, LocSet DEF IInv
<1>4. /\ hdr' \in [Slots -> BlockType] /\ hdr'[s].state = "live"
      /\ \A r \in Slots \ {s} : hdr'[r] = hdr[r]
  <2>1. loc[t] \in LocalType BY <1>i DEF TypeInv
  <2> QED BY <1>i, <2>1 DEF RealMalloc, TypeInv, BlockType, LocalType, Data
<1>5. loc[t].evicted = {} BY <1>i, <1>1 DEF LocalsOK
<1>6. s \notin registry /\ s \notin foreign /\ \A u \in Threads : s \notin InFlight(u)
  BY <1>i, <1>1 DEF Ownership
<1>7. TypeInv' BY Z3T(60), <1>i, <1>1, <1>2, <1>3, <1>4 DEF TypeInv
<1>8. LocalsOK'
  <2>1. \A u \in Threads \ {t} : pc[u] = "publish" => loc[u].new # s
    BY <1>6 DEF InFlight
  <2> QED BY <1>i, <1>2, <1>3, <1>4, <1>5, <2>1 DEF LocalsOK
<1>9. HolderOK' /\ GenOK'
  BY Z3T(60), <1>i, <1>1, <1>2, <1>3 DEF HolderOK, GenOK
<1>10. CacheSound'
  <2>1. \A u \in Threads : pc[u] = "evict" => pc'[u] = "evict" /\ loc'[u].ptr = loc[u].ptr
    BY <1>1, <1>2, <1>3
  <2>2. holder # NoThread => holder \in Threads BY <1>i DEF TypeInv
  <2>3. \A r \in registry : hdr'[r] = hdr[r] BY <1>i, <1>4, <1>6 DEF TypeInv
  <2> QED BY <1>i, <1>1, <2>1, <2>2, <2>3 DEF CacheSound
<1>11. /\ InFlight(t) = {} /\ InFlight(t)' = {s}
       /\ \A u \in Threads \ {t} : InFlight(u)' = InFlight(u)
  BY <1>1, <1>2, <1>3, <1>5 DEF InFlight
<1>12. Ownership'
  <2>1. \A r : (\E u \in Threads : r \in InFlight(u)')
                 <=> (\E u \in Threads : r \in InFlight(u)) \/ r = s
    BY <1>11
  <2> QED BY <1>i, <1>1, <1>6, <1>11, <2>1 DEF Ownership
<1>13. IndexesAgree' BY Z3T(60), <1>i, <1>1, <1>4, <1>6 DEF IndexesAgree, TypeInv
<1> QED BY <1>7, <1>8, <1>9, <1>10, <1>12, <1>13 DEF IInv, Shared

(* Registering a block raises the generation, so every cache is stale. *)
LEMMA PublishKeeps ==
    ASSUME IInv, NEW t \in Threads, Publish(t)
    PROVE  IInv'
<1>i. /\ TypeInv /\ LocalsOK /\ HolderOK /\ GenOK
      /\ CacheSound /\ Ownership /\ IndexesAgree
  BY Z3T(60) DEF IInv, Shared
<1> DEFINE s == loc[t].new
<1>1. /\ pc[t] = "publish" /\ Running /\ holder = NoThread
      /\ registry' = registry \cup {s}
      /\ hash' = [hash EXCEPT ![BucketOf[s]] = @ \cup {s}]
      /\ generation' = generation + 1
      /\ UNCHANGED <<pending, cache, holder, hdr, quarantine, used, foreign, heapError, aborted>>
  BY DEF Publish, At, LockFree, Register, NextGeneration, quarVars, heapVars
<1>2. /\ pc' \in [Threads -> PCs] /\ loc' \in [Threads -> LocalType]
      /\ \A u \in Threads \ {t} : pc'[u] = pc[u] /\ loc'[u] = loc[u]
      /\ \/ pc'[t] = "idle" /\ loc'[t] = NoCall
         \/ pc'[t] = "copy" /\ loc' = loc /\ loc[t].op = "realloc"
  <2>1. CASE loc[t].op = "realloc"
    BY Z3T(60), <1>i, <2>1, PcSet DEF Publish, TypeInv, PCs
  <2>2. CASE loc[t].op # "realloc"
    BY Z3T(60), <1>i, <2>2, ReturnEffect DEF Publish
  <2> QED BY Z3T(60), <2>1, <2>2
<1>3. s \in Slots /\ hdr[s].state = "live" /\ loc[t].evicted = {}
  BY Z3T(60), <1>i, <1>1 DEF LocalsOK
<1>4. InFlight(t) = {s} /\ s \notin registry /\ s \notin foreign /\ s \in used
  BY Z3T(60), <1>i, <1>1, <1>3 DEF InFlight, Ownership
<1>5. TypeInv'
  <2>1. BucketOf[s] \in Buckets BY Z3T(60), <1>3, SafeHeapConstants
  <2>2. hash' \in [Buckets -> SUBSET Slots] BY Z3T(60), <1>i, <1>1, <1>3, <2>1 DEF TypeInv
  <2> QED BY <1>i, <1>1, <1>2, <1>3, <2>2 DEF TypeInv
<1>6. LocalsOK'
  <2>1. ASSUME pc'[t] = "copy", loc' = loc PROVE loc[t].ptr \in Slots
    BY Z3T(60), <1>i, <1>1, <1>2, <1>3, <2>1 DEF LocalsOK
  <2> QED BY Z3T(60), <1>i, <1>1, <1>2, <1>3, <2>1, NoCallType DEF LocalsOK
<1>7. HolderOK'
  BY Z3T(60), <1>i, <1>1, <1>2, NoCallType DEF HolderOK
<1>8. GenOK' /\ \A u \in Threads : cache[u].gen # generation'
  BY Z3T(60), <1>i, <1>1 DEF GenOK, TypeInv, CacheType
<1>9. CacheSound' BY <1>1, <1>8 DEF CacheSound
<1>10. /\ InFlight(t)' = {}
       /\ \A u \in Threads \ {t} : InFlight(u)' = InFlight(u)
  BY Z3T(60), <1>2, <1>3, NoCallType DEF InFlight
<1>11. Ownership'
  <2>1. \A r : (\E u \in Threads : r \in InFlight(u))
                 <=> (\E u \in Threads : r \in InFlight(u)') \/ r = s
    BY <1>4, <1>10
  <2>2. \A u \in Threads \ {t} : s \notin InFlight(u)
    BY Z3T(60), <1>i, <1>1, <1>4 DEF Ownership
  <2> QED BY <1>i, <1>1, <1>4, <1>10, <2>1, <2>2 DEF Ownership
<1>12. IndexesAgree'
  BY <1>i, <1>1, <1>3, <1>4, SafeHeapConstants DEF IndexesAgree, TypeInv
<1> QED BY <1>5, <1>6, <1>7, <1>8, <1>9, <1>11, <1>12 DEF IInv, Shared

(* Giving a foreign block back touches nothing the runtime answers for. *)
LEMMA RealFreeKeeps ==
    ASSUME IInv, NEW t \in Threads, RealFree(t)
    PROVE  IInv'
<1>i. /\ TypeInv /\ LocalsOK /\ HolderOK /\ GenOK
      /\ CacheSound /\ Ownership /\ IndexesAgree
  BY Z3T(60) DEF IInv, Shared
<1> DEFINE p == loc[t].ptr
<1>1. /\ pc[t] = "realfree" /\ Running /\ loc' = loc
      /\ heapError' = (p \notin foreign \/ loc[t].off # 0)
      /\ used' = used \ {p} /\ foreign' = foreign \ {p}
      /\ Goto(t, "release")
      /\ UNCHANGED <<pending, cache, holder, generation, registry, hash, hdr, quarantine, aborted>>
  BY DEF RealFree, At, regVars, quarVars
<1>2. /\ pc' \in [Threads -> PCs] /\ pc'[t] = "release"
      /\ \A u \in Threads \ {t} : pc'[u] = pc[u]
  BY <1>i, <1>1, PcSet DEF PCs
<1>3. TypeInv' BY Z3T(60), <1>i, <1>1, <1>2 DEF TypeInv
<1>4. LocalsOK' BY <1>i, <1>1, <1>2 DEF LocalsOK
<1>5. HolderOK' /\ GenOK' BY Z3T(60), <1>i, <1>1, <1>2 DEF HolderOK, GenOK
<1>6. IndexesAgree' BY <1>i, <1>1 DEF IndexesAgree
<1>7. \A u \in Threads : InFlight(u)' = InFlight(u)
  BY <1>1, <1>2 DEF InFlight
<1>8. CASE Running'
  <2>1. p \in foreign BY ZenonT(60), <1>1, <1>8 DEF Running
  <2>2. p \notin registry /\ \A u \in Threads : p \notin InFlight(u)
    BY Z3T(60), <1>i, <1>1, <2>1 DEF Ownership
  <2>3. Ownership'
    BY Z3T(60), <1>i, <1>1, <1>7, <2>1, <2>2 DEF Ownership
  <2>4. \A u \in Threads : pc[u] = "evict" => loc[u].ptr # p
    BY Z3T(60), <1>i, <2>2 DEF HolderOK, InFlight
  <2>5. CacheSound'
    BY Z3T(60), <1>i, <1>1, <1>2, <2>2, <2>4 DEF CacheSound, HolderOK, TypeInv
  <2> QED BY <1>3, <1>4, <1>5, <1>6, <2>3, <2>5 DEF IInv, Shared
<1>9. CASE ~Running'
  BY <1>3, <1>4, <1>5, <1>6, <1>9 DEF IInv, Shared, CacheSound, Ownership
<1> QED BY Z3T(60), <1>8, <1>9

(* What the free path accepts is a registered live block. *)
LEMMA FreeAccepts ==
    ASSUME IInv, NEW s \in Slots, NEW off, FoundExact(s, off), FreeRefusal(s, off) = "no"
    PROVE  s \in registry /\ hdr[s].state = "live"
<1>i. /\ TypeInv /\ LocalsOK /\ HolderOK /\ GenOK
      /\ CacheSound /\ Ownership /\ IndexesAgree
  BY Z3T(60) DEF IInv, Shared
<1>1. s \in registry
  BY <1>i, SafeHeapConstants DEF IndexesAgree, FoundExact
<1>2. hdr[s].valid \in BOOLEAN /\ hdr[s].canary \in BOOLEAN
  BY <1>i DEF TypeInv, BlockType
<1>3. hdr[s].state = "live"
  BY <1>2 DEF FreeRefusal
<1> QED BY <1>1, <1>3

(* The block being freed is the one exception CacheSound allows. *)
LEMMA FreeMarkKeeps ==
    ASSUME IInv, NEW t \in Threads, FreeMark(t)
    PROVE  IInv'
<1>i. /\ TypeInv /\ LocalsOK /\ HolderOK /\ GenOK
      /\ CacheSound /\ Ownership /\ IndexesAgree
  BY DEF IInv, Shared
<1> DEFINE s == loc[t].ptr
<1>1. /\ pc[t] = "free" /\ Running /\ holder = NoThread /\ holder' = t /\ loc' = loc
      /\ FoundExact(s, loc[t].off) /\ FreeRefusal(s, loc[t].off) = "no"
      /\ quarantine' = Append(quarantine, s)
      /\ Goto(t, "evict")
      /\ UNCHANGED <<pending, cache, generation, registry, hash, used, foreign, heapError, aborted>>
  BY Z3T(60) DEF FreeMark, At, LockFree, Enqueue, heapVars
<1>2. /\ pc' \in [Threads -> PCs] /\ pc'[t] = "evict"
      /\ \A u \in Threads \ {t} : pc'[u] = pc[u]
  BY Z3T(60), <1>i, <1>1, PcSet DEF PCs
<1>3. s \in Slots BY <1>i, <1>1 DEF LocalsOK
<1>4. s \in registry /\ hdr[s].state = "live"
  <2>1. FoundExact(s, loc[t].off) /\ FreeRefusal(s, loc[t].off) = "no" BY Z3T(60), <1>1
  <2> QED BY Z3T(60), <1>3, <2>1, FreeAccepts
<1>5. /\ hdr' \in [Slots -> BlockType]
      /\ hdr'[s].state = "freed"
      /\ \A r \in Slots : hdr'[r].size = hdr[r].size
      /\ \A r \in Slots \ {s} : hdr'[r] = hdr[r]
  <2>1. hdr \in [Slots -> BlockType] BY Z3T(60), <1>i DEF TypeInv
  <2> QED BY <1>3, <2>1 DEF FreeMark, BlockType, Data
<1>6. /\ Queued(quarantine') = Queued(quarantine) \cup {s} /\ Once(quarantine')
      /\ quarantine' \in Seq(Slots)
  <2>1. s \notin Queued(quarantine) /\ Once(quarantine) /\ quarantine \in Seq(Slots)
    BY Z3T(60), <1>i, <1>4 DEF IndexesAgree, TypeInv
  <2> QED BY Z3T(60), <1>1, <1>3, <2>1, AppendQueued
<1>7. TypeInv' BY Z3T(60), <1>i, <1>1, <1>2, <1>5, <1>6 DEF TypeInv
<1>8. LocalsOK'
  <2>1. \A u \in Threads : pc[u] = "publish" => loc[u].new # s
    BY Z3T(60), <1>i, <1>1, <1>4 DEF Ownership, InFlight
  <2> QED BY Z3T(60), <1>i, <1>1, <1>2, <1>3, <1>5, <2>1 DEF LocalsOK
<1>9. HolderOK' /\ GenOK'
  BY ZenonT(60), <1>i, <1>1, <1>2, <1>4, SafeHeapConstants DEF HolderOK, GenOK
<1>10. CacheSound'
  BY ZenonT(60), <1>i, <1>1, <1>2, <1>4, <1>5 DEF CacheSound, HolderOK, Running, TypeInv
<1> HIDE DEF s
<1>11. ASSUME NEW u \in Threads PROVE InFlight(u)' = InFlight(u)
  <2>1. pc'[u] = "publish" <=> pc[u] = "publish" BY <1>1, <1>2
  <2>2. loc'[u] = loc[u] BY <1>1
  <2> QED BY <2>1, <2>2 DEF InFlight
<1>12. Ownership'
  <2>1. Running' = Running BY <1>1 DEF Running
  <2> QED BY Z3T(60), <1>i, <1>1, <1>11, <2>1 DEF Ownership
<1>13. IndexesAgree'
  <2>1. \A r \in registry : r \in Slots BY <1>i DEF TypeInv
  <2>2. {r \in registry : hdr'[r].state = "freed"}
          = {r \in registry : hdr[r].state = "freed"} \cup {s}
    BY <1>4, <1>5, <2>1
  <2> QED BY <1>i, <1>1, <1>6, <2>2 DEF IndexesAgree
<1> QED BY <1>7, <1>8, <1>9, <1>10, <1>12, <1>13 DEF IInv, Shared

(* Eviction moves the oldest freed block from the registry to the list of  *)
(* the evicting thread.                                                    *)
LEMMA EvictOneKeeps ==
    ASSUME IInv, NEW t \in Threads, EvictOne(t)
    PROVE  IInv'
<1>i. /\ TypeInv /\ LocalsOK /\ HolderOK /\ GenOK
      /\ CacheSound /\ Ownership /\ IndexesAgree
  BY DEF IInv, Shared
<1> DEFINE s == Head(quarantine)
<1>1. /\ pc[t] = "evict" /\ Running /\ quarantine # <<>> /\ pc' = pc
      /\ quarantine' = Tail(quarantine)
      /\ registry' = registry \ {s}
      /\ hash' = [hash EXCEPT ![BucketOf[s]] = @ \ {s}]
      /\ UNCHANGED <<pending, cache, holder, generation, used, foreign, heapError, aborted>>
  BY Z3T(60) DEF EvictOne, At, Unregister, heapVars
<1>2. /\ s \in Queued(quarantine) /\ s \in Slots /\ quarantine' \in Seq(Slots)
      /\ Queued(quarantine') = Queued(quarantine) \ {s} /\ Once(quarantine')
  BY Z3T(60), <1>i, <1>1, TailQueued DEF IndexesAgree, TypeInv
<1>3. s \in registry /\ hdr[s].state = "freed" BY <1>i, <1>2 DEF IndexesAgree
<1>4. /\ loc' \in [Threads -> LocalType]
      /\ loc'[t].evicted = loc[t].evicted \cup {s}
      /\ loc'[t].op = loc[t].op /\ loc'[t].ptr = loc[t].ptr /\ loc'[t].new = loc[t].new
      /\ \A u \in Threads \ {t} : loc'[u] = loc[u]
  <2> DEFINE r == [loc[t] EXCEPT !.evicted = @ \cup {s}]
  <2>1. loc[t] \in LocalType BY <1>i DEF TypeInv
  <2>2. r \in LocalType /\ r.evicted = loc[t].evicted \cup {s} /\ r.op = loc[t].op
          /\ r.ptr = loc[t].ptr /\ r.new = loc[t].new
    BY Z3T(60), <1>2, <2>1 DEF LocalType
  <2>3. loc' = [loc EXCEPT ![t] = r] BY DEF EvictOne
  <2> HIDE DEF r
  <2> QED BY Zenon, <2>2, <2>3, LocSet DEF IInv
<1>5. /\ hdr' \in [Slots -> BlockType]
      /\ \A r \in Slots : hdr'[r].state = hdr[r].state /\ hdr'[r].size = hdr[r].size
  <2>1. hdr \in [Slots -> BlockType] BY <1>i DEF TypeInv
  <2> QED BY ZenonT(60), <1>2, <2>1 DEF EvictOne, BlockType
<1>6. TypeInv'
  <2>1. hash' \in [Buckets -> SUBSET Slots]
    BY Z3T(60), <1>i, <1>1, <1>2, SafeHeapConstants DEF TypeInv
  <2> QED BY Z3T(60), <1>i, <1>1, <1>2, <1>4, <1>5, <2>1 DEF TypeInv
<1>7. LocalsOK' BY Z3T(60), <1>i, <1>1, <1>4, <1>5 DEF LocalsOK
<1>8. HolderOK' /\ GenOK' BY Z3T(60), <1>i, <1>1, <1>4 DEF HolderOK, GenOK
<1> HIDE DEF s
<1>9. CacheSound'
  <2>1. \A u \in Threads : loc'[u].ptr = loc[u].ptr BY Z3T(60), <1>4
  <2>2. \A u \in Threads : cache[u].base = s /\ cache[u].valid /\ cache[u].gen = generation
          => holder # NoThread /\ pc[holder] = "evict" /\ loc[holder].ptr = s
    BY Z3T(60), <1>i, <1>1, <1>3 DEF CacheSound
  <2>3. holder = t BY <1>i, <1>1 DEF HolderOK
  <2>4. \A u \in Threads : cache[u].base \in registry => cache[u].base \in Slots
    BY Z3T(60), <1>i DEF TypeInv
  <2> QED BY Z3T(60), <1>i, <1>1, <1>5, <2>1, <2>2, <2>3, <2>4 DEF CacheSound, Running
<1>10. /\ InFlight(t)' = InFlight(t) \cup {s}
       /\ \A u \in Threads \ {t} : InFlight(u)' = InFlight(u)
  <2>1. pc'[t] = "evict" /\ pc[t] = "evict" BY <1>1
  <2>2. InFlight(t)' = InFlight(t) \cup {s} BY <1>4, <2>1 DEF InFlight
  <2>3. ASSUME NEW u \in Threads \ {t} PROVE InFlight(u)' = InFlight(u)
    <3>1. pc'[u] = pc[u] /\ loc'[u] = loc[u] BY <1>1, <1>4
    <3> QED BY <3>1 DEF InFlight
  <2> QED BY <2>2, <2>3
<1>11. Ownership'
  <2>1. \A r : (\E u \in Threads : r \in InFlight(u)')
                 <=> (\E u \in Threads : r \in InFlight(u)) \/ r = s
    BY <1>10
  <2>2. s \in used /\ s \notin foreign /\ \A u \in Threads : s \notin InFlight(u)
    BY <1>i, <1>1, <1>2, <1>3 DEF Ownership
  <2>3. /\ \A r \in Slots : r \in used <=> \/ r \in registry \cup foreign
                                           \/ \E u \in Threads : r \in InFlight(u)
        /\ registry \cap foreign = {}
        /\ \A u \in Threads : InFlight(u) \cap (registry \cup foreign) = {}
        /\ \A u, v \in Threads : u # v => InFlight(u) \cap InFlight(v) = {}
    BY <1>i, <1>1 DEF Ownership
  <2>4. \A r \in Slots : r \in used' <=> \/ r \in registry' \cup foreign'
                                        \/ \E u \in Threads : r \in InFlight(u)'
    <3> SUFFICES ASSUME NEW r \in Slots
                 PROVE  r \in used' <=> \/ r \in registry' \cup foreign'
                                       \/ \E u \in Threads : r \in InFlight(u)'
      OBVIOUS
    <3>1. CASE r = s BY <3>1, <1>1, <2>1, <2>2
    <3>2. CASE r # s BY <3>2, <1>1, <2>1, <2>3
    <3> QED BY <3>1, <3>2
  <2>5. registry' \cap foreign' = {} BY <1>1, <2>3
  <2>6. \A u \in Threads : InFlight(u)' \cap (registry' \cup foreign') = {}
    <3> SUFFICES ASSUME NEW u \in Threads
                 PROVE  InFlight(u)' \cap (registry' \cup foreign') = {}
      OBVIOUS
    <3>1. InFlight(u) \cap (registry \cup foreign) = {} BY <2>3
    <3>2. CASE u = t BY <3>1, <3>2, <1>1, <1>10, <2>2
    <3>3. CASE u # t BY <3>1, <3>3, <1>1, <1>10
    <3> QED BY <3>2, <3>3
  <2>7. \A u, v \in Threads : u # v => InFlight(u)' \cap InFlight(v)' = {}
    <3> SUFFICES ASSUME NEW u \in Threads, NEW v \in Threads, u # v
                 PROVE  InFlight(u)' \cap InFlight(v)' = {}
      OBVIOUS
    <3>1. InFlight(u) \cap InFlight(v) = {} BY <2>3
    <3>2. CASE u = t BY <3>1, <3>2, <1>10, <2>2
    <3>3. CASE v = t BY <3>1, <3>3, <1>10, <2>2
    <3>4. CASE u # t /\ v # t BY Z3T(60), <3>1, <3>4, <1>10
    <3> QED BY <3>2, <3>3, <3>4
  <2> QED BY <2>4, <2>5, <2>6, <2>7 DEF Ownership
<1>12. IndexesAgree'
  BY <1>i, <1>1, <1>2, <1>3, <1>5, SafeHeapConstants DEF IndexesAgree, TypeInv
<1> QED BY <1>6, <1>7, <1>8, <1>9, <1>11, <1>12 DEF IInv, Shared
=============================================================================
