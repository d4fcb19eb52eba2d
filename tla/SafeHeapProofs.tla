--------------------------- MODULE SafeHeapProofs ---------------------------
(***************************************************************************)
(* The registry, the quarantine and the lock-free cache of the heap-safety *)
(* runtime agree with each other for any number of threads, slots and any  *)
(* quarantine limits, in every interleaving, also for a program that frees *)
(* twice, races and uses dangling pointers.                                *)
(***************************************************************************)
EXTENDS SafeHeapInvariant

(* The end of the locked section raises the generation before any evicted  *)
(* block leaves: from here on no cache answers for the freed block.        *)
LEMMA FreePublishKeeps ==
    ASSUME IInv, NEW t \in Threads, FreePublish(t)
    PROVE  IInv'
<1>i. /\ TypeInv /\ LocalsOK /\ HolderOK /\ GenOK
      /\ CacheSound /\ Ownership /\ IndexesAgree
  BY DEF IInv, Shared
<1>1. /\ pc[t] = "evict" /\ Running /\ loc' = loc /\ generation' = generation + 1
      /\ holder' = NoThread /\ Goto(t, "release")
      /\ UNCHANGED <<pending, cache, registry, hash, hdr, quarantine, used, foreign,
                     heapError, aborted>>
  BY DEF FreePublish, At, NextGeneration, UnlockRegistry, quarVars, heapVars
<1>2. /\ pc' \in [Threads -> PCs] /\ pc'[t] = "release"
      /\ \A u \in Threads \ {t} : pc'[u] = pc[u]
  BY <1>i, <1>1, PcSet DEF PCs
<1>3. TypeInv' BY <1>i, <1>1, <1>2 DEF TypeInv
<1>4. LocalsOK' BY <1>i, <1>1, <1>2 DEF LocalsOK
<1>5. HolderOK' BY <1>i, <1>1, <1>2, SafeHeapConstants DEF HolderOK
<1>6. GenOK' /\ \A u \in Threads : cache[u].gen # generation'
  BY Z3T(60), <1>i, <1>1 DEF GenOK, TypeInv, CacheType
<1>7. CacheSound' BY <1>1, <1>6 DEF CacheSound
<1>8. \A u \in Threads : InFlight(u)' = InFlight(u)
  BY <1>1, <1>2 DEF InFlight
<1>9. Ownership' /\ IndexesAgree'
  BY <1>i, <1>1, <1>8 DEF Ownership, IndexesAgree
<1> QED BY <1>3, <1>4, <1>5, <1>6, <1>7, <1>9 DEF IInv, Shared

(* Memory goes back to the C library only from the releasing thread's own  *)
(* list, so it is nobody's cached or registered block.                     *)
LEMMA ReleaseOneKeeps ==
    ASSUME IInv, NEW t \in Threads, NEW s \in Slots, ReleaseOne(t, s)
    PROVE  IInv'
<1>i. /\ TypeInv /\ LocalsOK /\ HolderOK /\ GenOK
      /\ CacheSound /\ Ownership /\ IndexesAgree
  BY DEF IInv, Shared
<1>1. /\ pc[t] = "release" /\ Running /\ s \in loc[t].evicted /\ pc' = pc
      /\ used' = used \ {s}
      /\ UNCHANGED <<pending, cache, holder, generation, registry, hash, quarantine, foreign,
                     heapError, aborted>>
  BY DEF ReleaseOne, At, quarVars
<1>2. /\ loc' \in [Threads -> LocalType]
      /\ loc'[t].evicted = loc[t].evicted \ {s}
      /\ loc'[t].op = loc[t].op /\ loc'[t].ptr = loc[t].ptr /\ loc'[t].new = loc[t].new
      /\ \A u \in Threads \ {t} : loc'[u] = loc[u]
  <2> DEFINE r == [loc[t] EXCEPT !.evicted = @ \ {s}]
  <2>1. loc[t] \in LocalType BY <1>i DEF TypeInv
  <2>2. r \in LocalType /\ r.evicted = loc[t].evicted \ {s} /\ r.op = loc[t].op
          /\ r.ptr = loc[t].ptr /\ r.new = loc[t].new
    BY <2>1 DEF LocalType
  <2>3. loc' = [loc EXCEPT ![t] = r] BY DEF ReleaseOne
  <2> HIDE DEF r
  <2> QED BY Zenon, <2>2, <2>3, LocSet DEF IInv
<1>3. hdr' \in [Slots -> BlockType] /\ \A r \in Slots \ {s} : hdr'[r] = hdr[r]
  <2>1. NoBlock \in BlockType BY DEF NoBlock, BlockType, Data
  <2> QED BY <1>i, <2>1 DEF ReleaseOne, TypeInv
<1>4. s \in InFlight(t) BY <1>1 DEF InFlight
<1>5. s \in used /\ s \notin registry /\ s \notin foreign
        /\ \A u \in Threads \ {t} : s \notin InFlight(u)
  BY <1>i, <1>1, <1>4 DEF Ownership
<1>6. TypeInv' BY Z3T(60), <1>i, <1>1, <1>2, <1>3 DEF TypeInv
<1>7. LocalsOK'
  <2>1. \A u \in Threads \ {t} : pc[u] = "publish" => loc[u].new # s
    BY Z3T(60), <1>5 DEF InFlight
  <2> QED BY <1>i, <1>1, <1>2, <1>3, <2>1 DEF LocalsOK
<1>8. HolderOK' /\ GenOK' BY Z3T(60), <1>i, <1>1, <1>2 DEF HolderOK, GenOK
<1>9. CacheSound'
  <2>1. \A u \in Threads : loc'[u].ptr = loc[u].ptr BY <1>2
  <2>2. \A u \in Threads : pc[u] = "evict" => loc[u].ptr # s
    BY <1>i, <1>1, <1>5 DEF HolderOK, InFlight
  <2>3. holder # NoThread => holder \in Threads BY <1>i DEF TypeInv
  <2>4. \A u \in Threads : cache[u].base \in registry => cache[u].base \in Slots
    BY <1>i DEF TypeInv
  <2> QED BY <1>i, <1>1, <1>3, <1>5, <2>1, <2>2, <2>3, <2>4 DEF CacheSound, Running
<1>10. /\ InFlight(t)' = InFlight(t) \ {s}
       /\ \A u \in Threads \ {t} : InFlight(u)' = InFlight(u)
  BY Z3T(60), <1>1, <1>2 DEF InFlight
<1>11. Ownership'
  <2>1. \A r : (\E u \in Threads : r \in InFlight(u)')
                 <=> (\E u \in Threads : r \in InFlight(u)) /\ r # s
    BY Z3T(60), <1>5, <1>10
  <2> QED BY <1>i, <1>1, <1>5, <1>10, <2>1 DEF Ownership
<1>12. IndexesAgree'
  <2>1. \A r \in registry : hdr'[r] = hdr[r] BY <1>i, <1>3, <1>5 DEF TypeInv
  <2> QED BY <1>i, <1>1, <2>1 DEF IndexesAgree
<1> QED BY <1>6, <1>7, <1>8, <1>9, <1>11, <1>12 DEF IInv, Shared

(* The C library moves a foreign block to a slot nobody uses. *)
LEMMA ReallocForeignKeeps ==
    ASSUME IInv, NEW t \in Threads, NEW s \in Slots, ReallocForeign(t, s)
    PROVE  IInv'
<1>i. /\ TypeInv /\ LocalsOK /\ HolderOK /\ GenOK
      /\ CacheSound /\ Ownership /\ IndexesAgree
  BY DEF IInv, Shared
<1> DEFINE p == loc[t].ptr
<1>1. /\ pc[t] = "lookup" /\ Running /\ holder = NoThread /\ Return(t)
      /\ s \notin used \/ s = p
      /\ heapError' = (p \notin foreign \/ loc[t].off # 0)
      /\ used' = (used \ {p}) \cup {s} /\ foreign' = (foreign \ {p}) \cup {s}
      /\ UNCHANGED <<pending, cache, holder, generation, registry, hash, hdr, quarantine, aborted>>
  BY Z3T(60) DEF ReallocForeign, At, LockFree, regVars, quarVars
<1>2. /\ pc' \in [Threads -> PCs] /\ loc' \in [Threads -> LocalType]
      /\ pc'[t] = "idle" /\ loc'[t] = NoCall
      /\ \A u \in Threads \ {t} : pc'[u] = pc[u] /\ loc'[u] = loc[u]
  BY Z3T(60), <1>1, ReturnEffect DEF IInv
<1>3. loc[t].evicted = {} BY <1>i, <1>1 DEF LocalsOK
<1>4. TypeInv'
  <2>1. heapError' \in BOOLEAN BY <1>1
  <2>2. used' \in SUBSET Slots /\ foreign' \in SUBSET Slots BY Z3T(60), <1>i, <1>1 DEF TypeInv
  <2> HIDE DEF p
  <2> QED BY Z3T(60), <1>i, <1>1, <1>2, <2>1, <2>2 DEF TypeInv
<1>5. LocalsOK' BY <1>i, <1>1, <1>2, NoCallType DEF LocalsOK
<1>6. HolderOK' /\ GenOK' BY Z3T(60), <1>i, <1>1, <1>2, SafeHeapConstants DEF HolderOK, GenOK
<1>7. IndexesAgree' BY <1>i, <1>1 DEF IndexesAgree
<1>8. \A u \in Threads : InFlight(u)' = InFlight(u)
  BY <1>1, <1>2, <1>3, NoCallType DEF InFlight
<1>9. CASE Running'
  <2>1. p \in foreign BY Zenon, <1>1, <1>9 DEF Running
  <2>2. p \notin registry /\ \A u \in Threads : p \notin InFlight(u)
    BY <1>i, <1>1, <2>1 DEF Ownership
  <2>3. s \notin registry /\ \A u \in Threads : s \notin InFlight(u)
    BY <1>i, <1>1, <2>2 DEF Ownership
  <2>4. Ownership'
    BY Z3T(60), <1>i, <1>1, <1>8, <2>1, <2>2, <2>3 DEF Ownership
  <2>5. CacheSound'
    BY Z3T(60), <1>i, <1>1, <2>2 DEF CacheSound
  <2> QED BY <1>4, <1>5, <1>6, <1>7, <2>4, <2>5 DEF IInv, Shared
<1>10. CASE ~Running'
  BY <1>4, <1>5, <1>6, <1>7, <1>10 DEF IInv, Shared, CacheSound, Ownership
<1> QED BY <1>9, <1>10

(* The cache is filled under the lock, from a block found live. *)
LEMMA CheckPassesKeeps ==
    ASSUME IInv, NEW t \in Threads, CheckPasses(t)
    PROVE  IInv'
<1>i. /\ TypeInv /\ LocalsOK /\ HolderOK /\ GenOK
      /\ CacheSound /\ Ownership /\ IndexesAgree
  BY DEF IInv, Shared
<1> DEFINE s == loc[t].ptr
           found == [valid |-> TRUE, base |-> s, size |-> hdr[s].size, gen |-> generation]
<1>1. /\ pc[t] = "check" /\ Running /\ holder = NoThread /\ Return(t)
      /\ CheckRefusal(s, loc[t].off, loc[t].size) = "no"
      /\ cache' = cache \/ (s \in registry /\ cache' = [cache EXCEPT ![t] = found])
      /\ UNCHANGED <<pending, holder, generation, registry, hash, hdr, quarantine, used, foreign,
                     heapError, aborted>>
  BY Z3T(60) DEF CheckPasses, At, LockFree, FoundContaining, regVars, quarVars, heapVars
<1>2. /\ pc' \in [Threads -> PCs] /\ loc' \in [Threads -> LocalType]
      /\ pc'[t] = "idle" /\ loc'[t] = NoCall
      /\ \A u \in Threads \ {t} : pc'[u] = pc[u] /\ loc'[u] = loc[u]
  BY Z3T(60), <1>1, ReturnEffect DEF IInv
<1>3. s \in Slots /\ loc[t].evicted = {} BY Z3T(60), <1>i, <1>1 DEF LocalsOK
<1>4. s \in registry => hdr[s].state = "live" /\ s \in used
  <2>1. hdr[s].valid \in BOOLEAN BY Z3T(60), <1>i, <1>3 DEF TypeInv, BlockType
  <2>2. s \in registry => hdr[s].state = "live"
    BY Z3T(60), <1>1, <2>1 DEF CheckRefusal, FoundContaining
  <2> QED BY Z3T(60), <1>i, <1>1, <1>3, <2>2 DEF Ownership
<1>5. found \in CacheType
  <2>1. hdr[s].size \in Nat BY <1>i, <1>3 DEF TypeInv, BlockType
  <2> QED BY <1>i, <1>3, <2>1 DEF TypeInv, CacheType
<1>6. /\ cache' \in [Threads -> CacheType]
      /\ \A u \in Threads : cache'[u] = cache[u] \/ (s \in registry /\ cache'[u] = found)
  BY ZenonT(60), <1>i, <1>1, <1>5 DEF TypeInv
<1>7. TypeInv' BY Z3T(60), <1>i, <1>1, <1>2, <1>6 DEF TypeInv
<1>8. LocalsOK' BY Z3T(60), <1>i, <1>1, <1>2, NoCallType DEF LocalsOK
<1>9. HolderOK' BY Z3T(60), <1>i, <1>1, <1>2, SafeHeapConstants DEF HolderOK
<1>10. GenOK'
  <2>1. generation \in Nat /\ found.gen = generation BY Z3T(60), <1>i DEF TypeInv
  <2> QED BY <1>i, <1>1, <1>6, <2>1 DEF GenOK
<1>11. CacheSound'
  BY Z3T(60), <1>i, <1>1, <1>4, <1>6 DEF CacheSound
<1>12. \A u \in Threads : InFlight(u)' = InFlight(u)
  BY Z3T(60), <1>1, <1>2, <1>3, NoCallType DEF InFlight
<1>13. Ownership' /\ IndexesAgree'
  BY <1>i, <1>1, <1>12 DEF Ownership, IndexesAgree, Running
<1> QED BY Z3T(60), <1>7, <1>8, <1>9, <1>10, <1>11, <1>13 DEF IInv, Shared

LEMMA ForeignAllocKeeps ==
    ASSUME IInv, NEW t \in Threads, NEW s \in Slots, ForeignAlloc(t, s)
    PROVE  IInv'
<1>i. /\ TypeInv /\ LocalsOK /\ HolderOK /\ GenOK
      /\ CacheSound /\ Ownership /\ IndexesAgree
  BY DEF IInv, Shared
<1>1. /\ Running /\ s \notin used /\ used' = used \cup {s} /\ foreign' = foreign \cup {s}
      /\ UNCHANGED <<pc, loc, pending, cache, holder, generation, registry, hash, hdr,
                     quarantine, heapError, aborted>>
  BY Z3T(60) DEF ForeignAlloc, At, regVars, quarVars
<1>2. TypeInv' /\ LocalsOK' BY Z3T(60), <1>i, <1>1 DEF TypeInv, LocalsOK
<1>3. HolderOK' /\ GenOK' /\ IndexesAgree'
  BY Z3T(60), <1>i, <1>1 DEF HolderOK, GenOK, IndexesAgree
<1>4. CacheSound' BY Z3T(60), <1>i, <1>1 DEF CacheSound, Running
<1>5. \A u \in Threads : InFlight(u)' = InFlight(u) /\ s \notin InFlight(u)
  BY <1>i, <1>1 DEF InFlight, Ownership
<1>6. Ownership' BY <1>i, <1>1, <1>5 DEF Ownership, Running
<1> QED BY <1>2, <1>3, <1>4, <1>6 DEF IInv, Shared
-----------------------------------------------------------------------------
(* The quiet steps. *)

(* The part of LocalsOK that concerns one thread. *)
LocalOK(where, r) ==
    /\ (where \in {"free", "realfree", "evict", "lookup", "check", "copy"} \/ r.op = "realloc")
         => r.ptr \in Slots
    /\ r.op = "realloc" /\ where \in {"copy", "free", "realfree", "evict", "release"}
         => r.new \in Slots
    /\ r.evicted # {} => where \in {"evict", "release"}

QuietFrame ==
    UNCHANGED <<cache, holder, generation, registry, hash, quarantine, used, foreign, heapError,
                aborted>>

LEMMA QuietCall ==
    ASSUME IInv, NEW t \in Threads, NEW where \in PCs, NEW r \in LocalType,
           Goto(t, where), loc' = [loc EXCEPT ![t] = r],
           pc[t] \notin {"evict", "publish"}, where \notin {"evict", "publish"},
           r.evicted = loc[t].evicted, LocalOK(where, r),
           QuietFrame, hdr' \in [Slots -> BlockType],
           \A s \in Slots : hdr'[s].state = hdr[s].state /\ hdr'[s].size = hdr[s].size,
           pending' \in [Threads -> Nat]
    PROVE  IInv'
<1>1. /\ pc' \in [Threads -> PCs] /\ pc'[t] = where
      /\ \A u \in Threads \ {t} : pc'[u] = pc[u]
  BY PcSet DEF IInv
<1>2. /\ loc' \in [Threads -> LocalType] /\ loc'[t] = r
      /\ \A u \in Threads \ {t} : loc'[u] = loc[u]
  BY Zenon, LocSet DEF IInv
<1>3. TypeInv' BY Z3T(60), <1>1, <1>2 DEF IInv, TypeInv, QuietFrame
<1>4. LocalsOK'
  BY Z3T(60), <1>1, <1>2 DEF IInv, LocalsOK, LocalOK
<1>5. Quiet BY <1>1, <1>2, QuietMove DEF QuietFrame
<1> QED BY <1>3, <1>4, <1>5, QuietKeeps DEF IInv

(* A call starts, or a call returns. *)
LEMMA StartKeeps ==
    ASSUME IInv, NEW t \in Threads, NEW where \in {"armed", "allocate", "free", "lookup", "check"},
           pc[t] \in {"idle", "armed"}, Goto(t, where),
           NEW r \in LocalType, loc' = [loc EXCEPT ![t] = r], r.evicted = {},
           where \in {"free", "lookup", "check"} => r.ptr \in Slots,
           r.op = "realloc" => where = "lookup",
           QuietFrame, hdr' = hdr, pending' \in [Threads -> Nat]
    PROVE  IInv'
<1>1. loc[t].evicted = {} BY DEF IInv, LocalsOK
<1>2. where \in PCs /\ LocalOK(where, r) BY Z3T(60) DEF PCs, LocalOK
<1>3. hdr' \in [Slots -> BlockType] BY DEF IInv, TypeInv
<1> QED BY ZenonT(60), <1>1, <1>2, <1>3, QuietCall

LEMMA ReturnKeeps ==
    ASSUME IInv, NEW t \in Threads, pc[t] \notin {"evict", "publish"}, Return(t),
           loc[t].evicted = {}, QuietFrame, hdr' = hdr, pending' \in [Threads -> Nat]
    PROVE  IInv'
<1>1. "idle" \in PCs /\ LocalOK("idle", NoCall) BY NoCallType DEF PCs, LocalOK
<1>2. hdr' \in [Slots -> BlockType] BY DEF IInv, TypeInv
<1>3. Goto(t, "idle") /\ loc' = [loc EXCEPT ![t] = NoCall] BY DEF Return
<1> QED BY ZenonT(60), <1>1, <1>2, <1>3, NoCallType, QuietCall

LEMMA ProgramKeeps ==
    ASSUME IInv, NEW t \in Threads, ProgramStep(t)
    PROVE  IInv'
<1> USE DEF At, QuietFrame, regVars, quarVars, heapVars
<1>0. /\ pending \in [Threads -> Nat] /\ pending[t] \in Nat
      /\ [pending EXCEPT ![t] = 0] \in [Threads -> Nat]
      /\ pc[t] \in {"idle", "armed"} => loc[t].evicted = {}
  BY ZenonT(60) DEF IInv, TypeInv, LocalsOK
<1>1. CASE CallRejected(t)
  BY <1>0, <1>1, ReturnKeeps DEF CallRejected, AtAllocCall, TakePendingSite
<1>2. ASSUME NEW site \in Sites, SetNextSite(t, site) PROVE IInv'
  <2>1. /\ pc[t] = "idle" /\ Goto(t, "armed") /\ loc' = loc /\ QuietFrame /\ hdr' = hdr
        /\ pending' = [pending EXCEPT ![t] = site]
    BY Z3T(60), <1>2 DEF SetNextSite
  <2>2. pending' \in [Threads -> Nat] BY <1>0, <2>1, SafeHeapConstants
  <2>3. loc[t] \in LocalType /\ loc' = [loc EXCEPT ![t] = loc[t]]
    BY Z3T(60), <2>1 DEF IInv, TypeInv
  <2>4. "armed" \in PCs /\ LocalOK("armed", loc[t])
    BY Z3T(60), <1>0, <2>1 DEF PCs, LocalOK, IInv, LocalsOK
  <2>5. hdr' \in [Slots -> BlockType] BY <2>1 DEF IInv, TypeInv
  <2> HIDE DEF QuietFrame
  <2> QED BY Zenon, <2>1, <2>2, <2>3, <2>4, <2>5, QuietCall
<1>3. ASSUME NEW n \in Sizes, NEW zero \in BOOLEAN, CallAlloc(t, n, zero) PROVE IInv'
  <2> DEFINE r == [NoCall EXCEPT !.op = IF zero THEN "calloc" ELSE "malloc",
                                 !.size = n, !.site = pending[t]]
  <2>1. r \in LocalType /\ r.evicted = {} /\ r.op # "realloc"
    BY Zenon, <1>0, SafeHeapConstants DEF NoCall, LocalType, Ops, Data
  <2>2. /\ pc[t] \in {"idle", "armed"} /\ Goto(t, "allocate") /\ QuietFrame /\ hdr' = hdr
        /\ loc' = [loc EXCEPT ![t] = r]
        /\ pending' \in [Threads -> Nat]
    BY <1>0, <1>3 DEF CallAlloc, AtAllocCall, TakePendingSite
  <2> HIDE DEF r, QuietFrame
  <2> QED BY Zenon, <2>1, <2>2, StartKeeps
<1>4. ASSUME NEW s \in Slots, NEW off \in Offsets, CallFree(t, s, off) PROVE IInv'
  <2> DEFINE r == [NoCall EXCEPT !.op = "free", !.ptr = s, !.off = off]
  <2>1. r \in LocalType /\ r.evicted = {} /\ r.ptr = s /\ r.op # "realloc"
    BY Zenon, SafeHeapConstants DEF NoCall, LocalType, Ops, Data
  <2>2. /\ pc[t] = "idle" /\ Goto(t, "free") /\ QuietFrame /\ hdr' = hdr
        /\ loc' = [loc EXCEPT ![t] = r]
        /\ pending' \in [Threads -> Nat]
    BY <1>0, <1>4 DEF CallFree
  <2> HIDE DEF r, QuietFrame
  <2> QED BY Zenon, <2>1, <2>2, StartKeeps
<1>5. ASSUME NEW s \in Slots, NEW off \in Offsets, CallDerive(t, s, off) PROVE IInv'
  <2> DEFINE r == [NoCall EXCEPT !.op = "derive", !.ptr = s, !.off = off]
  <2>1. r \in LocalType /\ r.evicted = {} /\ r.ptr = s /\ r.op # "realloc"
    BY Zenon, SafeHeapConstants DEF NoCall, LocalType, Ops, Data
  <2>2. /\ pc[t] = "idle" /\ Goto(t, "check") /\ QuietFrame /\ hdr' = hdr
        /\ loc' = [loc EXCEPT ![t] = r]
        /\ pending' \in [Threads -> Nat]
    BY <1>0, <1>5 DEF CallDerive, progVars
  <2> HIDE DEF r, QuietFrame
  <2> QED BY Zenon, <2>1, <2>2, StartKeeps
<1>6. ASSUME NEW s \in Slots, NEW off \in Offsets, NEW n \in Sizes, CallRealloc(t, s, off, n)
      PROVE  IInv'
  <2> DEFINE r == [NoCall EXCEPT !.op = "realloc", !.ptr = s, !.off = off, !.size = n,
                                 !.site = pending[t],
                                 !.saved = IF Disciplined THEN hdr[s].data ELSE "junk"]
  <2>1. hdr[s].data \in Data BY DEF IInv, TypeInv, BlockType
  <2>2. r \in LocalType /\ r.evicted = {} /\ r.ptr = s
    BY Zenon, <1>0, <2>1, SafeHeapConstants DEF NoCall, LocalType, Ops, Data
  <2>3. /\ pc[t] \in {"idle", "armed"} /\ Goto(t, "lookup") /\ QuietFrame /\ hdr' = hdr
        /\ loc' = [loc EXCEPT ![t] = r]
        /\ pending' \in [Threads -> Nat]
    BY <1>0, <1>6 DEF CallRealloc, AtAllocCall, TakePendingSite
  <2> HIDE DEF r, QuietFrame
  <2> QED BY ZenonT(60), <2>2, <2>3, StartKeeps
<1>7. ASSUME NEW s \in Slots, NEW off \in Offsets, NEW n \in Sizes, CallCheck(t, s, off, n)
      PROVE  IInv'
  <2> DEFINE r == [NoCall EXCEPT !.op = "check", !.ptr = s, !.off = off, !.size = n]
  <2>1. r \in LocalType /\ r.evicted = {} /\ r.ptr = s /\ r.op # "realloc"
    BY Zenon, SafeHeapConstants DEF NoCall, LocalType, Ops, Data
  <2>2. /\ pc[t] = "idle" /\ Goto(t, "check") /\ QuietFrame /\ hdr' = hdr
        /\ loc' = [loc EXCEPT ![t] = r]
        /\ pending' \in [Threads -> Nat]
    BY <1>0, <1>7 DEF CallCheck
  <2> HIDE DEF r, QuietFrame
  <2> QED BY Zenon, <2>1, <2>2, StartKeeps
<1>8. ASSUME NEW s \in Slots, Write(t, s) PROVE IInv'
  <2>1. /\ QuietFrame /\ UNCHANGED <<pc, loc, pending>>
        /\ hdr' = [hdr EXCEPT ![s].data = "value"]
    BY <1>8 DEF Write
  <2>2. /\ hdr' \in [Slots -> BlockType]
        /\ \A r \in Slots : hdr'[r].state = hdr[r].state /\ hdr'[r].size = hdr[r].size
    BY ZenonT(60), <2>1 DEF IInv, TypeInv, BlockType, Data
  <2>3. Quiet BY <2>1, <2>2 DEF Quiet, InFlight
  <2>4. TypeInv' /\ LocalsOK' BY <2>1, <2>2 DEF IInv, TypeInv, LocalsOK
  <2> QED BY <2>3, <2>4, QuietKeeps DEF IInv
<1>9. ASSUME NEW s \in Slots, NEW u \in Threads, HandOver(t, u, s) PROVE IInv'
  <2>1. QuietFrame /\ UNCHANGED <<pc, loc, pending, hdr>> BY <1>9 DEF HandOver
  <2>2. Quiet BY <2>1 DEF Quiet, InFlight
  <2>3. TypeInv' /\ LocalsOK' BY <2>1 DEF IInv, TypeInv, LocalsOK
  <2> QED BY <2>2, <2>3, QuietKeeps DEF IInv
<1> QED
  BY <1>1, <1>2, <1>3, <1>4, <1>5, <1>6, <1>7, <1>8, <1>9, ForeignAllocKeeps DEF ProgramStep

LEMMA RuntimeKeeps ==
    ASSUME IInv, NEW t \in Threads,
           AllocateFails(t) \/ FreeForeign(t) \/ ReleaseDone(t) \/ ReallocAccepted(t) \/ Copy(t)
    PROVE  IInv'
<1> USE DEF At, QuietFrame, regVars, quarVars, heapVars, progVars
<1>0. /\ pending \in [Threads -> Nat] /\ hdr \in [Slots -> BlockType] /\ loc[t] \in LocalType
      /\ loc \in [Threads -> LocalType]
  BY DEF IInv, TypeInv
<1>1. CASE AllocateFails(t)
  <2>1. loc[t].evicted = {} BY ZenonT(60), <1>1 DEF AllocateFails, IInv, LocalsOK
  <2> QED BY Zenon, <1>0, <1>1, <2>1, ReturnKeeps DEF AllocateFails
<1>2. CASE ReleaseDone(t)
  BY <1>0, <1>2, ReturnKeeps DEF ReleaseDone
<1>3. CASE FreeForeign(t)
  <2>1. /\ pc[t] = "free" /\ Goto(t, "realfree") /\ loc' = loc /\ QuietFrame /\ hdr' = hdr
        /\ pending' = pending
    BY <1>3 DEF FreeForeign
  <2>2. loc' = [loc EXCEPT ![t] = loc[t]] BY Z3T(60), <1>0, <2>1
  <2>3. "realfree" \in PCs /\ LocalOK("realfree", loc[t])
    BY <2>1 DEF PCs, LocalOK, IInv, LocalsOK
  <2> HIDE DEF QuietFrame
  <2> QED BY ZenonT(60), <1>0, <2>1, <2>2, <2>3, QuietCall
<1>4. CASE ReallocAccepted(t)
  <2> DEFINE r == [loc[t] EXCEPT !.old = hdr[loc[t].ptr].size]
  <2>1. /\ pc[t] = "lookup" /\ Goto(t, "allocate") /\ QuietFrame /\ hdr' = hdr
        /\ loc' = [loc EXCEPT ![t] = r] /\ pending' = pending
    BY <1>4 DEF ReallocAccepted
  <2>2. loc[t].ptr \in Slots /\ loc[t].evicted = {} BY Z3T(60), <2>1 DEF IInv, LocalsOK
  <2>3. hdr[loc[t].ptr].size \in Nat BY <1>0, <2>2 DEF BlockType
  <2>4. r \in LocalType /\ r.evicted = loc[t].evicted /\ r.ptr = loc[t].ptr
    BY <1>0, <2>3 DEF LocalType
  <2>5. "allocate" \in PCs /\ LocalOK("allocate", r) BY <2>2, <2>4 DEF PCs, LocalOK
  <2> HIDE DEF r, QuietFrame
  <2> QED BY Zenon, <1>0, <2>1, <2>4, <2>5, QuietCall
<1>5. CASE Copy(t)
  <2>1. /\ pc[t] = "copy" /\ Goto(t, "free") /\ loc' = loc /\ QuietFrame /\ pending' = pending
        /\ hdr' = hdr \/ hdr' = [hdr EXCEPT ![loc[t].new].data = hdr[loc[t].ptr].data]
    BY <1>5 DEF Copy
  <2>2. loc[t].ptr \in Slots /\ LocalOK("free", loc[t]) /\ "free" \in PCs
    BY <2>1 DEF PCs, LocalOK, IInv, LocalsOK
  <2>3. hdr[loc[t].ptr].data \in Data BY <1>0, <2>2 DEF BlockType
  <2>4. /\ hdr' \in [Slots -> BlockType]
        /\ \A s \in Slots : hdr'[s].state = hdr[s].state /\ hdr'[s].size = hdr[s].size
    BY <1>0, <2>1, <2>3 DEF BlockType
  <2>5. loc' = [loc EXCEPT ![t] = loc[t]] BY <1>0, <2>1
  <2> HIDE DEF QuietFrame
  <2> QED BY ZenonT(60), <1>0, <2>1, <2>2, <2>4, <2>5, QuietCall
<1> QED BY <1>1, <1>2, <1>3, <1>4, <1>5

LEMMA StrayWriteKeeps == ASSUME IInv, NEW s \in Slots, StrayWrite(s) PROVE IInv'
<1>1. /\ QuietFrame /\ UNCHANGED <<pc, loc, pending>>
      /\ \/ hdr' = [hdr EXCEPT ![s].canary = FALSE]
         \/ hdr' = [hdr EXCEPT ![s].valid = FALSE]
  BY DEF StrayWrite, QuietFrame, quarVars, heapVars
<1>2. /\ hdr' \in [Slots -> BlockType]
      /\ \A r \in Slots : hdr'[r].state = hdr[r].state /\ hdr'[r].size = hdr[r].size
  <2>1. hdr \in [Slots -> BlockType] BY DEF IInv, TypeInv
  <2>2. CASE hdr' = [hdr EXCEPT ![s].canary = FALSE] BY Zenon, <2>1, <2>2 DEF BlockType
  <2>3. CASE hdr' = [hdr EXCEPT ![s].valid = FALSE] BY ZenonT(60), <2>1, <2>3 DEF BlockType
  <2> QED BY <1>1, <2>2, <2>3
<1>3. Quiet BY <1>1, <1>2 DEF Quiet, QuietFrame, InFlight
<1>4. TypeInv' /\ LocalsOK' BY Zenon, <1>1, <1>2 DEF IInv, TypeInv, LocalsOK, QuietFrame
<1> QED BY <1>3, <1>4, QuietKeeps DEF IInv
-----------------------------------------------------------------------------
(* The invariant is inductive. *)

LEMMA InitIInv == Init => IInv
<1> SUFFICES ASSUME Init PROVE IInv OBVIOUS
<1>1. TypeInv
  <2>1. NoBlock \in BlockType BY DEF NoBlock, BlockType, Data
  <2>2. NoCache \in CacheType BY DEF NoCache, CacheType
  <2>3. quarantine \in Seq(Slots) BY Z3T(60) DEF Init
  <2> QED BY Zenon, <2>1, <2>2, <2>3, NoCallType DEF Init, TypeInv, PCs
<1>2. LocalsOK BY Z3T(60), NoCallType DEF Init, LocalsOK
<1>3. HolderOK /\ GenOK BY SafeHeapConstants DEF Init, HolderOK, GenOK, NoCache
<1>4. CacheSound BY Z3T(60) DEF Init, CacheSound, NoCache
<1>5. Ownership BY NoCallType DEF Init, Ownership, InFlight
<1>6. IndexesAgree BY DEF Init, IndexesAgree, Queued, Once
<1> QED BY <1>1, <1>2, <1>3, <1>4, <1>5, <1>6 DEF IInv, Shared

LEMMA NextIInv == IInv /\ [Next]_vars => IInv'
<1> SUFFICES ASSUME IInv, [Next]_vars PROVE IInv' OBVIOUS
<1>1. ASSUME NEW t \in Threads, LockedStep(t) PROVE IInv'
  <2>1. FreeRefused(t) => IInv' BY AbortKeeps DEF FreeRefused
  <2>2. ReallocRefused(t) => IInv' BY AbortKeeps DEF ReallocRefused
  <2>3. CheckRefused(t) => IInv' BY Z3T(60), AbortKeeps DEF CheckRefused
  <2> QED BY Z3T(60), <1>1, <2>1, <2>2, <2>3, PublishKeeps, FreeMarkKeeps, RuntimeKeeps,
             CheckPassesKeeps, ReallocForeignKeeps DEF LockedStep
<1>2. ASSUME NEW t \in Threads, LocalStep(t) PROVE IInv'
  BY Z3T(60), <1>2, RuntimeKeeps, RealFreeKeeps, EvictOneKeeps, FreePublishKeeps, RealMallocKeeps,
     ReleaseOneKeeps DEF LocalStep
<1>3. ASSUME NEW t \in Threads, ProgramStep(t) PROVE IInv'
  BY <1>3, ProgramKeeps
<1>4. ASSUME NEW s \in Slots, StrayWrite(s) PROVE IInv'
  BY <1>4, StrayWriteKeeps
<1>5. CASE UNCHANGED vars
  <2>1. QuietFrame /\ UNCHANGED <<pc, loc, pending, hdr>>
    BY Z3T(60), <1>5 DEF vars, QuietFrame, quarVars, regVars, heapVars
  <2>2. TypeInv' /\ LocalsOK' BY Z3T(60), <2>1 DEF IInv, TypeInv, LocalsOK, QuietFrame
  <2>3. Quiet BY <2>1 DEF Quiet, InFlight, QuietFrame
  <2> QED BY Z3T(60), <2>2, <2>3, QuietKeeps DEF IInv
<1> QED BY <1>1, <1>2, <1>3, <1>4, <1>5 DEF Next

LEMMA AlwaysIInv == Spec => []IInv
BY InitIInv, NextIInv, PTL DEF Spec

(* The lock-free path of cgf_safe_check never accepts a block that has     *)
(* been freed, beyond one whose free is still in progress, and never one   *)
(* whose memory went back to the C library.                                *)
THEOREM CheckCacheIsSound == Spec => []CacheSound
<1>1. IInv => CacheSound BY DEF IInv, Shared
<1> QED BY <1>1, AlwaysIInv, PTL

(* safe_allocate, quarantine_evict_locked and the release loop account for *)
(* every allocated slot exactly once: no double release, no leak.          *)
THEOREM EverySlotHasOneOwner == Spec => []Ownership
<1>1. IInv => Ownership BY DEF IInv, Shared
<1> QED BY <1>1, AlwaysIInv, PTL

(* The list of all blocks, the hash chains and the quarantine of           *)
(* cgf_safe_alloc.c never disagree about which blocks exist or are freed.  *)
THEOREM RegistryIndexesAgree == Spec => []IndexesAgree
<1>1. IInv => IndexesAgree BY DEF IInv, Shared
<1> QED BY <1>1, AlwaysIInv, PTL
=============================================================================
