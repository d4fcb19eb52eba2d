------------------------- MODULE SafeHeapDiscipline -------------------------
(***************************************************************************)
(* A memory-safe, race-free program is served by cgf_safe_alloc.c as by    *)
(* the plain C library: it is never stopped, what a thread owns stays live *)
(* and intact, and realloc hands back the old contents.                    *)
(*                                                                         *)
(* The invariant says which slots the call of a thread still depends on,   *)
(* and that no two calls depend on the same one.                           *)
(***************************************************************************)
EXTENDS SafeHeapWindow

Reallocs(t, where) == loc[t].op = "realloc" /\ pc[t] \in where

(* The block the program named, and still owns. *)
Named(t) == IF pc[t] \in {"lookup", "check"} \/ Reallocs(t, {"allocate", "publish", "copy"})
            THEN {loc[t].ptr} ELSE {}

(* The blocks only this call knows: the one being freed, and realloc's new *)
(* one once it is registered.                                              *)
Held(t) == (IF pc[t] \in {"free", "realfree"} THEN {loc[t].ptr} ELSE {}) \cup
           (IF Reallocs(t, {"copy", "free", "realfree", "evict", "release"})
            THEN {loc[t].new} ELSE {})

(* The block that is laid out and not yet registered. *)
Fresh(t) == IF pc[t] = "publish" THEN {loc[t].new} ELSE {}

DependsOn(t) == Named(t) \cup Held(t) \cup Fresh(t)

ThreadOK(t) ==
    LET ptr == loc[t].ptr  new == loc[t].new IN
      /\ \A s \in Named(t) : owner[s] = t
      /\ \A s \in Held(t) : /\ owner[s] = NoThread
                            /\ s \in foreign \/ (s \in registry /\ hdr[s].state = "live")
      /\ pc[t] = "copy" => loc[t].op = "realloc"
      /\ pc[t] \in {"lookup", "free", "realfree"} \/ Reallocs(t, {"allocate", "publish", "copy"})
           => loc[t].off = 0
      /\ pc[t] = "realfree" => ptr \in foreign
      /\ pc[t] = "check" /\ ptr \in registry => InBounds(loc[t].off, loc[t].size, hdr[ptr].size)
      /\ pc[t] = "publish" => hdr[new].valid /\ hdr[new].canary /\ hdr[new].data # "poison"
      /\ Reallocs(t, {"allocate", "publish", "copy"}) => ptr \in registry
      /\ Reallocs(t, {"lookup", "allocate", "publish", "copy"}) => hdr[ptr].data = loc[t].saved
      /\ Reallocs(t, {"copy", "free", "realfree", "evict", "release"}) =>
           new \in registry /\ hdr[new].data # "poison"
      /\ Reallocs(t, {"free", "realfree"}) => new # ptr
      /\ Reallocs(t, {"free", "realfree", "evict", "release"}) /\ Copies(t) =>
           hdr[new].data = loc[t].saved

BlockOK(s) ==
    /\ s \in registry => hdr[s].valid /\ hdr[s].canary
    /\ owner[s] # NoThread => \/ s \in foreign
                              \/ s \in registry /\ hdr[s].state = "live" /\ hdr[s].data # "poison"

Disc ==
    /\ Running
    /\ \A s \in Slots : BlockOK(s)
    /\ \A t \in Threads : ThreadOK(t)
    /\ \A t, u \in Threads : t # u => Held(t) \cap Held(u) = {}
-----------------------------------------------------------------------------
LEMMA Idle ==
    ASSUME NEW t \in Threads, pc'[t] \in {"idle", "armed"}
    PROVE  ThreadOK(t)' /\ Held(t)' = {}
BY DEF ThreadOK, Named, Held, Reallocs

(* Where the slots of a call are. *)
LEMMA WhatACallNeeds ==
    ASSUME IInv, Disc, NEW t \in Threads
    PROVE  /\ \A s \in Named(t) : s \in Slots /\ owner[s] = t /\ s \in registry \cup foreign
                                   /\ (s \in registry => hdr[s].state = "live")
           /\ \A s \in Held(t) : s \in Slots /\ owner[s] = NoThread /\ s \in registry \cup foreign
                                   /\ (s \in registry => hdr[s].state = "live")
           /\ \A s \in Fresh(t) : s \in Slots /\ s \in InFlight(t)
<1>1. TypeInv /\ LocalsOK /\ Ownership /\ ThreadOK(t) /\ Running BY DEF IInv, Shared, Disc
<1>2. registry \cap foreign = {} BY <1>1 DEF Ownership
<1>3. ASSUME NEW s \in Named(t)
      PROVE  s \in Slots /\ owner[s] = t /\ s \in registry \cup foreign
             /\ (s \in registry => hdr[s].state = "live")
  <2>1. s = loc[t].ptr /\ s \in Slots /\ owner[s] = t
    BY <1>1, <1>3 DEF Named, Reallocs, LocalsOK, ThreadOK
  <2>2. BlockOK(s) /\ owner[s] # NoThread BY <2>1, SafeHeapConstants DEF Disc
  <2> QED BY <1>2, <2>1, <2>2 DEF BlockOK
<1>4. ASSUME NEW s \in Held(t)
      PROVE  s \in Slots /\ owner[s] = NoThread /\ s \in registry \cup foreign
             /\ (s \in registry => hdr[s].state = "live")
  <2>1. s \in Slots BY <1>1, <1>4 DEF Held, Reallocs, LocalsOK
  <2> QED BY <1>1, <1>2, <1>4, <2>1 DEF ThreadOK
<1>5. ASSUME NEW s \in Fresh(t) PROVE s \in Slots /\ s \in InFlight(t)
  BY <1>1, <1>5 DEF Fresh, LocalsOK, InFlight
<1> QED BY <1>3, <1>4, <1>5

(* A slot that is free, owned or held by one thread, in flight in it, or   *)
(* in quarantine is nothing that another thread's call depends on.         *)
LEMMA NobodyElses ==
    ASSUME IInv, Disc, NEW t \in Threads, NEW u \in Threads \ {t}, NEW s \in Slots,
           \/ s \notin used \/ owner[s] = t \/ s \in Held(t) \/ s \in InFlight(t)
           \/ s \in registry /\ hdr[s].state = "freed"
    PROVE  s \notin DependsOn(u)
<1>1. Ownership /\ Running BY DEF IInv, Shared, Disc
<1>2. registry \cup foreign \subseteq used /\ \A v \in Threads : InFlight(v) \cap (registry \cup foreign) = {}
  BY <1>1, Zenon DEF Ownership, IInv, TypeInv
<1>3. InFlight(t) \cap InFlight(u) = {} BY <1>1 DEF Ownership
<1>4. Held(t) \cap Held(u) = {} BY DEF Disc
<1>5. u # NoThread /\ t # NoThread /\ t # u BY SafeHeapConstants
<1>6. ASSUME s \in Named(u) PROVE FALSE
  <2>1. owner[s] = u /\ s \in registry \cup foreign /\ (s \in registry => hdr[s].state = "live")
    BY <1>6, WhatACallNeeds
  <2>2. s \notin Held(t) BY <1>5, <2>1, WhatACallNeeds
  <2> QED BY <1>2, <1>5, <2>1, <2>2
<1>7. ASSUME s \in Held(u) PROVE FALSE
  <2>1. owner[s] = NoThread /\ s \in registry \cup foreign /\ (s \in registry => hdr[s].state = "live")
    BY <1>7, WhatACallNeeds
  <2> QED BY <1>2, <1>4, <1>5, <1>7, <2>1
<1>8. ASSUME s \in Fresh(u) PROVE FALSE
  <2>1. s \in InFlight(u) BY <1>8, WhatACallNeeds
  <2>2. s \notin registry \cup foreign BY <1>2, <2>1
  <2>3. s \in used BY <1>1, <2>1 DEF Ownership
  <2>4. owner[s] = NoThread BY <2>2 DEF Disc, BlockOK
  <2>5. s \notin Held(t) BY <2>2, WhatACallNeeds
  <2> QED BY <1>3, <1>5, <2>1, <2>2, <2>3, <2>4, <2>5
<1> QED BY <1>6, <1>7, <1>8 DEF DependsOn

(* A step of thread t that changes only slots in C, on which no other call *)
(* depends, has to be looked at for t and for C alone.                     *)
LEMMA DiscFrame ==
    ASSUME IInv, Disc, NEW t \in Threads, NEW C \in SUBSET Slots,
           Running', ThreadOK(t)', \A s \in C : BlockOK(s)',
           \A u \in Threads \ {t} : /\ pc'[u] = pc[u] /\ loc'[u] = loc[u]
                                    /\ DependsOn(u) \cap C = {}
                                    /\ Held(t)' \cap Held(u) = {},
           \A s \in Slots \ C : /\ hdr'[s] = hdr[s] /\ owner'[s] = owner[s]
                                /\ s \in registry' <=> s \in registry
                                /\ s \in foreign' <=> s \in foreign
    PROVE  Disc'
<1>1. ASSUME NEW u \in Threads \ {t}
      PROVE  Held(u)' = Held(u) /\ Named(u)' = Named(u) /\ Fresh(u)' = Fresh(u)
  BY DEF Held, Named, Fresh, Reallocs
<1>2. ASSUME NEW u \in Threads \ {t} PROVE ThreadOK(u)'
  <2>1. ThreadOK(u) /\ pc'[u] = pc[u] /\ loc'[u] = loc[u] BY DEF Disc
  <2>2. \A s \in DependsOn(u) : /\ hdr'[s] = hdr[s] /\ owner'[s] = owner[s]
                                /\ s \in registry' <=> s \in registry
                                /\ s \in foreign' <=> s \in foreign
    BY WhatACallNeeds DEF DependsOn
  <2>3. ASSUME NEW s \in Named(u)' PROVE owner'[s] = u
    <3>1. s \in Named(u) /\ s \in DependsOn(u) BY <1>1, <2>3 DEF DependsOn
    <3>2. owner[s] = u BY <2>1, <3>1 DEF ThreadOK
    <3> QED BY <2>2, <3>1, <3>2
  <2>4. ASSUME NEW s \in Held(u)'
        PROVE  /\ owner'[s] = NoThread
               /\ s \in foreign' \/ (s \in registry' /\ hdr'[s].state = "live")
    <3>1. s \in Held(u) /\ s \in DependsOn(u) BY <1>1, <2>4 DEF DependsOn
    <3>2. owner[s] = NoThread /\ (s \in foreign \/ (s \in registry /\ hdr[s].state = "live"))
      BY <2>1, <3>1 DEF ThreadOK
    <3> QED BY <2>2, <3>1, <3>2
  <2>5. /\ pc[u] \in {"lookup", "check", "free", "realfree"} => loc[u].ptr \in DependsOn(u)
        /\ Reallocs(u, {"lookup", "allocate", "publish", "copy"}) => loc[u].ptr \in DependsOn(u)
        /\ Reallocs(u, {"copy", "free", "realfree", "evict", "release"}) => loc[u].new \in DependsOn(u)
        /\ pc[u] = "publish" => loc[u].new \in DependsOn(u)
    BY DEF DependsOn, Named, Held, Fresh, Reallocs
  <2>6. /\ pc[u] = "copy" => loc[u].op = "realloc"
        /\ pc[u] \in {"lookup", "free", "realfree"} \/ Reallocs(u, {"allocate", "publish", "copy"})
             => loc[u].off = 0
        /\ pc[u] = "realfree" => loc[u].ptr \in foreign'
        /\ pc[u] = "check" /\ loc[u].ptr \in registry' =>
             InBounds(loc[u].off, loc[u].size, hdr'[loc[u].ptr].size)
        /\ pc[u] = "publish" => hdr'[loc[u].new].valid /\ hdr'[loc[u].new].canary
                                /\ hdr'[loc[u].new].data # "poison"
    BY <2>1, <2>2, <2>5 DEF ThreadOK
  <2>7. /\ Reallocs(u, {"allocate", "publish", "copy"}) => loc[u].ptr \in registry'
        /\ Reallocs(u, {"lookup", "allocate", "publish", "copy"}) =>
             hdr'[loc[u].ptr].data = loc[u].saved
    BY <2>1, <2>2, <2>5 DEF ThreadOK, Reallocs
  <2>8. /\ Reallocs(u, {"copy", "free", "realfree", "evict", "release"}) =>
             loc[u].new \in registry' /\ hdr'[loc[u].new].data # "poison"
        /\ Reallocs(u, {"free", "realfree"}) => loc[u].new # loc[u].ptr
        /\ Reallocs(u, {"free", "realfree", "evict", "release"}) /\ Copies(u) =>
             hdr'[loc[u].new].data = loc[u].saved
    BY <2>1, <2>2, <2>5 DEF ThreadOK, Reallocs
  <2>9. \A w : Reallocs(u, w)' <=> Reallocs(u, w) BY <2>1 DEF Reallocs
  <2>10. Copies(u)' <=> Copies(u) BY <2>1 DEF Copies
  <2> QED BY ZenonT(60), <2>1, <2>3, <2>4, <2>6, <2>7, <2>8, <2>9, <2>10
          DEF ThreadOK, InBounds
<1>3. \A s \in Slots \ C : BlockOK(s)' BY DEF Disc, BlockOK
<1>4. \A v, u \in Threads : v # u => Held(v)' \cap Held(u)' = {}
  <2>1. \A v, u \in Threads \ {t} : v # u => Held(v)' \cap Held(u)' = {} BY <1>1 DEF Disc
  <2>2. \A u \in Threads \ {t} : Held(t)' \cap Held(u)' = {} BY <1>1
  <2> QED BY <2>1, <2>2
<1> QED BY <1>2, <1>3, <1>4 DEF Disc
-----------------------------------------------------------------------------
(* Steps that change no slot. *)
SlotsSame == UNCHANGED <<hdr, owner, registry, foreign, heapError, aborted>>

LEMMA QuietDisc ==
    ASSUME IInv, Disc, NEW t \in Threads, SlotsSame, ThreadOK(t)',
           \A u \in Threads \ {t} : pc'[u] = pc[u] /\ loc'[u] = loc[u],
           Held(t)' \subseteq Held(t)
    PROVE  Disc'
<1>1. Running' BY DEF Disc, Running, SlotsSame
<1>2. \A u \in Threads \ {t} : Held(t)' \cap Held(u) = {} BY DEF Disc
<1> DEFINE C == {}
<1>3. /\ C \in SUBSET Slots /\ \A s \in C : BlockOK(s)'
      /\ \A u \in Threads \ {t} : DependsOn(u) \cap C = {}
      /\ \A s \in Slots \ C : /\ hdr'[s] = hdr[s] /\ owner'[s] = owner[s]
                              /\ s \in registry' <=> s \in registry
                              /\ s \in foreign' <=> s \in foreign
  BY DEF SlotsSame
<1> HIDE DEF C
<1> QED BY <1>1, <1>2, <1>3, DiscFrame

LEMMA QuietReturn ==
    ASSUME IInv, Disc, NEW t \in Threads, SlotsSame, Return(t) PROVE Disc'
<1>1. pc'[t] = "idle" /\ \A u \in Threads \ {t} : pc'[u] = pc[u] /\ loc'[u] = loc[u]
  BY ReturnEffect DEF IInv
<1> QED BY <1>1, Idle, QuietDisc

(* A call starts on a block the thread owns, or on none. *)
LEMMA QuietStart ==
    ASSUME IInv, Disc, NEW t \in Threads, SlotsSame,
           NEW where \in {"armed", "allocate", "lookup", "check"}, Goto(t, where),
           NEW r \in LocalType, loc' = [loc EXCEPT ![t] = r],
           where \in {"armed", "allocate"} => r.op # "realloc",
           where \in {"lookup", "check"} => owner[r.ptr] = t,
           where = "lookup" => r.off = 0 /\ hdr[r.ptr].data = r.saved,
           where = "check" /\ r.ptr \in registry => InBounds(r.off, r.size, hdr[r.ptr].size)
    PROVE  Disc'
<1>1. /\ pc'[t] = where /\ loc'[t] = r
      /\ \A u \in Threads \ {t} : pc'[u] = pc[u] /\ loc'[u] = loc[u]
  <2>1. TypeInv /\ where \in PCs BY DEF IInv, PCs
  <2>2. pc'[t] = where /\ \A u \in Threads \ {t} : pc'[u] = pc[u] BY <2>1, PcSet
  <2>3. loc'[t] = r /\ \A u \in Threads \ {t} : loc'[u] = loc[u] BY <2>1, LocSet
  <2> QED BY <2>2, <2>3
<1>2. Held(t)' = {} BY <1>1 DEF Held, Reallocs
<1>3. ThreadOK(t)'
  <2>1. Named(t)' = IF where \in {"lookup", "check"} THEN {r.ptr} ELSE {}
    BY <1>1 DEF Named, Reallocs
  <2>2. \A s \in Named(t)' : owner'[s] = t BY <2>1 DEF SlotsSame
  <2>3. pc'[t] \notin {"copy", "publish", "free", "realfree", "evict", "release"} BY <1>1
  <2>4. \A S : Reallocs(t, S)' => where \in {"lookup", "check"} /\ where \in S BY <1>1 DEF Reallocs
  <2>5. hdr' = hdr /\ registry' = registry /\ foreign' = foreign BY DEF SlotsSame
  <2>6. pc'[t] = "lookup" => loc'[t].off = 0 /\ hdr'[loc'[t].ptr].data = loc'[t].saved BY <1>1, <2>5
  <2>7. pc'[t] = "check" /\ loc'[t].ptr \in registry'
          => InBounds(loc'[t].off, loc'[t].size, hdr'[loc'[t].ptr].size)
    BY <1>1, <2>5
  <2>8. /\ ~Reallocs(t, {"allocate", "publish", "copy"})'
        /\ ~Reallocs(t, {"copy", "free", "realfree", "evict", "release"})'
        /\ ~Reallocs(t, {"free", "realfree"})' /\ ~Reallocs(t, {"free", "realfree", "evict", "release"})'
        /\ Reallocs(t, {"lookup", "allocate", "publish", "copy"})' => pc'[t] = "lookup"
    BY <1>1, <2>4
  <2> QED BY ZenonT(60), <1>2, <2>2, <2>3, <2>6, <2>7, <2>8 DEF ThreadOK
<1> QED BY <1>1, <1>2, <1>3, QuietDisc

(* Steps of a call that change no slot. *)
LEMMA FreeForeignDisc ==
    ASSUME IInv, Disc, NEW t \in Threads, FreeForeign(t) PROVE Disc'
<1>1. /\ pc[t] = "free" /\ loc' = loc /\ SlotsSame /\ Goto(t, "realfree")
      /\ loc[t].ptr \notin registry
  BY DEF FreeForeign, At, FoundContaining, regVars, heapVars, progVars, SlotsSame
<1>2. /\ pc'[t] = "realfree" /\ loc'[t] = loc[t]
      /\ \A u \in Threads \ {t} : pc'[u] = pc[u] /\ loc'[u] = loc[u]
  BY <1>1, PcSet DEF IInv, PCs
<1>3. Held(t)' = Held(t) /\ Named(t)' = {} /\ loc[t].ptr \in Held(t)
  BY <1>1, <1>2 DEF Held, Named, Reallocs
<1>4. ThreadOK(t) BY DEF Disc
<1>5. loc[t].ptr \in foreign BY <1>1, <1>3, <1>4 DEF ThreadOK
<1>6. ThreadOK(t)'
  BY ZenonT(60), <1>1, <1>2, <1>3, <1>4, <1>5 DEF ThreadOK, Reallocs, SlotsSame, Copies
<1> QED BY <1>1, <1>2, <1>3, <1>6, QuietDisc

LEMMA FreePublishDisc ==
    ASSUME IInv, Disc, NEW t \in Threads, FreePublish(t) PROVE Disc'
<1>1. pc[t] = "evict" /\ loc' = loc /\ SlotsSame /\ Goto(t, "release")
  BY DEF FreePublish, At, heapVars, progVars, SlotsSame
<1>2. /\ pc'[t] = "release" /\ loc'[t] = loc[t]
      /\ \A u \in Threads \ {t} : pc'[u] = pc[u] /\ loc'[u] = loc[u]
  BY <1>1, PcSet DEF IInv, PCs
<1>3. Held(t)' = Held(t) /\ Named(t)' = {} BY <1>1, <1>2 DEF Held, Named, Reallocs
<1>4. ThreadOK(t) BY DEF Disc
<1>5. ThreadOK(t)' BY <1>1, <1>2, <1>3, <1>4 DEF ThreadOK, Reallocs, SlotsSame, Copies
<1> QED BY <1>1, <1>2, <1>3, <1>5, QuietDisc

LEMMA ReallocAcceptedDisc ==
    ASSUME IInv, Disc, NEW t \in Threads, ReallocAccepted(t) PROVE Disc'
<1>0. TypeInv /\ LocalsOK /\ IndexesAgree BY DEF IInv, Shared
<1>1. /\ pc[t] = "lookup" /\ SlotsSame /\ Goto(t, "allocate")
      /\ loc' = [loc EXCEPT ![t].old = hdr[loc[t].ptr].size]
      /\ FoundExact(loc[t].ptr, loc[t].off)
  BY DEF ReallocAccepted, At, regVars, heapVars, progVars, SlotsSame
<1>2. /\ pc'[t] = "allocate"
      /\ \A u \in Threads \ {t} : pc'[u] = pc[u]
  BY <1>1, PcSet DEF IInv, PCs
<1>3. /\ loc'[t].op = loc[t].op /\ loc'[t].ptr = loc[t].ptr /\ loc'[t].saved = loc[t].saved
      /\ loc'[t].off = loc[t].off
      /\ \A u \in Threads \ {t} : loc'[u] = loc[u]
  BY <1>0, <1>1 DEF TypeInv, LocalType
<1>4. loc[t].ptr \in registry
  BY <1>0, <1>1, SafeHeapConstants DEF FoundExact, IndexesAgree, LocalsOK
<1>5. Held(t)' = {} BY <1>2 DEF Held, Reallocs
<1>6. ThreadOK(t) /\ loc[t].ptr \in Named(t) BY <1>1 DEF Disc, Named
<1>7. \A s \in Named(t)' : owner'[s] = t
  BY <1>1, <1>2, <1>3, <1>6 DEF Named, Reallocs, ThreadOK, SlotsSame
<1>8. ThreadOK(t)'
  BY <1>1, <1>2, <1>3, <1>4, <1>5, <1>6, <1>7 DEF ThreadOK, Reallocs, SlotsSame
<1> QED BY <1>1, <1>2, <1>3, <1>5, <1>8, QuietDisc
-----------------------------------------------------------------------------
(* Steps of a call that change a slot. *)

LEMMA RealMallocDisc ==
    ASSUME IInv, Disc, NEW t \in Threads, NEW s \in Slots, RealMalloc(t, s) PROVE Disc'
<1>0. TypeInv /\ LocalsOK /\ Ownership /\ Running BY DEF IInv, Shared, Disc
<1>1. /\ pc[t] = "allocate" /\ s \notin used /\ Goto(t, "publish")
      /\ loc' = [loc EXCEPT ![t].new = s]
      /\ UNCHANGED <<registry, foreign, heapError, aborted, owner>>
  BY DEF RealMalloc, At, progVars
<1>2. /\ pc'[t] = "publish" /\ \A u \in Threads \ {t} : pc'[u] = pc[u]
  BY <1>0, <1>1, PcSet DEF PCs
<1>3. /\ loc'[t].op = loc[t].op /\ loc'[t].ptr = loc[t].ptr /\ loc'[t].saved = loc[t].saved
      /\ loc'[t].off = loc[t].off
      /\ loc'[t].new = s /\ \A u \in Threads \ {t} : loc'[u] = loc[u]
  BY <1>0, <1>1 DEF TypeInv, LocalType
<1>4. /\ hdr'[s].valid /\ hdr'[s].canary /\ hdr'[s].data # "poison"
      /\ \A r \in Slots \ {s} : hdr'[r] = hdr[r]
  <2>1. hdr' = [hdr EXCEPT ![s] =
                 [state |-> "live", size |-> loc[t].size, site |-> loc[t].site,
                  valid |-> TRUE, canary |-> TRUE,
                  data |-> IF loc[t].op = "calloc" /\ loc[t].size > 0 THEN "zero" ELSE "junk"]]
    BY DEF RealMalloc
  <2> QED BY <1>0, <2>1 DEF TypeInv
<1>5. s \notin registry \cup foreign BY <1>0, <1>1 DEF Ownership
<1>6. owner[s] = NoThread /\ BlockOK(s)' BY <1>1, <1>5 DEF Disc, BlockOK
<1>7. Held(t)' = {} /\ Named(t)' = Named(t) BY <1>1, <1>2, <1>3 DEF Held, Named, Reallocs
<1>8. ThreadOK(t)'
  <2>1. ThreadOK(t) BY DEF Disc
  <2>2. Reallocs(t, {"allocate"}) =>
          /\ loc[t].ptr \in registry /\ hdr[loc[t].ptr].data = loc[t].saved
          /\ loc[t].ptr \in Slots /\ loc[t].off = 0
    BY <1>0, <2>1 DEF ThreadOK, Reallocs, TypeInv
  <2>3. Reallocs(t, {"allocate"}) => hdr'[loc[t].ptr].data = loc[t].saved /\ loc[t].ptr # s
    BY <1>4, <1>5, <2>2
  <2>4. \A r \in Named(t)' : owner'[r] = t BY <1>1, <1>7, <2>1 DEF ThreadOK
  <2> QED BY <1>1, <1>2, <1>3, <1>4, <1>7, <2>2, <2>3, <2>4 DEF ThreadOK, Reallocs
<1>9. \A u \in Threads \ {t} : DependsOn(u) \cap {s} = {} BY <1>1, NobodyElses
<1>10. Running' BY <1>0, <1>1 DEF Running
<1> QED BY <1>1, <1>2, <1>3, <1>4, <1>6, <1>7, <1>8, <1>9, <1>10, DiscFrame

LEMMA PublishDisc ==
    ASSUME IInv, Disc, RestOfTypes, NEW t \in Threads, Publish(t) PROVE Disc'
<1>0. TypeInv /\ LocalsOK /\ Ownership /\ Running /\ ThreadOK(t) BY DEF IInv, Shared, Disc
<1>s. pc[t] = "publish" /\ loc[t].new \in Slots BY <1>0 DEF Publish, At, LocalsOK
<1> PICK s \in Slots : s = loc[t].new BY <1>s
<1>1. /\ pc[t] = "publish" /\ registry' = registry \cup {s}
      /\ UNCHANGED <<hdr, foreign, heapError, aborted>>
  BY DEF Publish, At, heapVars, Register
<1>2. /\ s \in Slots /\ hdr[s].state = "live" /\ s \in InFlight(t)
      /\ hdr[s].valid /\ hdr[s].canary /\ hdr[s].data # "poison"
  BY <1>0, <1>1 DEF LocalsOK, ThreadOK, InFlight
<1>3. s \notin registry \cup foreign BY <1>0, <1>2 DEF Ownership
<1>4. owner[s] = NoThread BY <1>2, <1>3 DEF Disc, BlockOK
<1>5. Running' BY <1>0, <1>1 DEF Running
<1>6. \A u \in Threads \ {t} : DependsOn(u) \cap {s} = {} BY <1>2, NobodyElses
<1>7. \A u \in Threads \ {t} : s \notin Held(u) BY <1>3, WhatACallNeeds
<1>8. \A r \in Slots \ {s} : r \in registry' <=> r \in registry BY <1>1
<1>9. CASE loc[t].op = "realloc"
  <2>1. Goto(t, "copy") /\ loc' = loc /\ owner' = owner BY <1>9 DEF Publish, progVars
  <2>2. /\ pc'[t] = "copy" /\ loc'[t] = loc[t]
        /\ \A u \in Threads \ {t} : pc'[u] = pc[u] /\ loc'[u] = loc[u]
    BY <1>0, <2>1, PcSet DEF PCs
  <2>3. Held(t)' = {s} /\ Named(t)' = Named(t)
    BY <1>1, <1>9, <2>2 DEF Held, Named, Reallocs
  <2>4. ThreadOK(t)'
    BY <1>0, <1>1, <1>2, <1>4, <1>9, <2>1, <2>2, <2>3 DEF ThreadOK, Reallocs
  <2>5. BlockOK(s)' BY <1>1, <1>2, <1>4, <2>1 DEF BlockOK
  <2>6. \A u \in Threads \ {t} : Held(t)' \cap Held(u) = {} BY <1>7, <2>3
  <2> QED BY <1>1, <1>2, <1>5, <1>6, <1>8, <2>1, <2>2, <2>4, <2>5, <2>6, DiscFrame
<1>10. CASE loc[t].op # "realloc"
  <2>1. Return(t) /\ Give(s, t) BY <1>10 DEF Publish
  <2>2. /\ pc'[t] = "idle"
        /\ \A u \in Threads \ {t} : pc'[u] = pc[u] /\ loc'[u] = loc[u]
    BY <1>0, <2>1, ReturnEffect
  <2>3. ThreadOK(t)' /\ Held(t)' = {} BY <2>2, Idle
  <2>4. \A r \in Slots \ {s} : owner'[r] = owner[r] BY <1>2, <2>1 DEF Give, RestOfTypes
  <2>5. BlockOK(s)' BY <1>1, <1>2 DEF BlockOK
  <2> QED BY <1>1, <1>2, <1>5, <1>6, <1>8, <2>2, <2>3, <2>4, <2>5, DiscFrame
<1> QED BY <1>9, <1>10

LEMMA FreeMarkDisc ==
    ASSUME IInv, Disc, NEW t \in Threads, FreeMark(t) PROVE Disc'
<1>0. TypeInv /\ LocalsOK /\ Running /\ ThreadOK(t) BY DEF IInv, Disc
<1>s. pc[t] = "free" /\ loc[t].ptr \in Slots BY <1>0 DEF FreeMark, At, LocalsOK
<1> PICK s \in Slots : s = loc[t].ptr BY <1>s
<1>1. /\ Goto(t, "evict") /\ UNCHANGED <<loc, registry, foreign, owner, heapError, aborted>>
      /\ hdr' = [hdr EXCEPT ![s].state = "freed",
                            ![s].data = IF hdr[s].size > 0 THEN "poison" ELSE @]
  BY DEF FreeMark, heapVars, progVars
<1>2. /\ hdr'[s].valid = hdr[s].valid /\ hdr'[s].canary = hdr[s].canary
      /\ \A r \in Slots \ {s} : hdr'[r] = hdr[r]
  BY <1>0, <1>1 DEF TypeInv, BlockType
<1>3. /\ pc'[t] = "evict" /\ loc'[t] = loc[t]
      /\ \A u \in Threads \ {t} : pc'[u] = pc[u] /\ loc'[u] = loc[u]
  BY <1>0, <1>1, PcSet DEF PCs
<1>4. s \in Held(t) /\ owner[s] = NoThread BY <1>0, <1>s DEF Held, ThreadOK
<1>5. BlockOK(s)' BY <1>1, <1>2, <1>4 DEF BlockOK, Disc
<1>6. /\ Named(t)' = {} /\ Held(t)' \subseteq Held(t) \ {s}
      /\ Reallocs(t, {"free"}) => loc[t].new \in Held(t) \ {s}
  BY <1>0, <1>s, <1>3 DEF Held, Named, Reallocs, ThreadOK
<1>7. \A r \in Held(t) \ {s} : hdr'[r] = hdr[r] BY <1>2, WhatACallNeeds
<1>8. ThreadOK(t)'
  <2>1. \A r \in Held(t)' : /\ owner'[r] = NoThread
                            /\ r \in foreign' \/ (r \in registry' /\ hdr'[r].state = "live")
    BY <1>0, <1>1, <1>6, <1>7 DEF ThreadOK
  <2>2. Reallocs(t, {"free"}) => hdr'[loc[t].new] = hdr[loc[t].new] BY <1>6, <1>7
  <2>3. Reallocs(t, {"free"}) =>
          /\ loc[t].new \in registry' /\ hdr'[loc[t].new].data # "poison"
          /\ Copies(t) => hdr'[loc[t].new].data = loc[t].saved
    BY <1>0, <1>1, <2>2 DEF ThreadOK, Reallocs
  <2>4. Copies(t)' <=> Copies(t) BY <1>3 DEF Copies
  <2> QED BY <1>s, <1>3, <1>6, <2>1, <2>3, <2>4 DEF ThreadOK, Reallocs
<1>9. \A u \in Threads \ {t} : DependsOn(u) \cap {s} = {} BY <1>4, NobodyElses
<1>10. Running' BY <1>0, <1>1 DEF Running
<1>11. \A u \in Threads \ {t} : Held(t)' \cap Held(u) = {} BY <1>6 DEF Disc
<1> QED BY <1>1, <1>2, <1>3, <1>5, <1>8, <1>9, <1>10, <1>11, DiscFrame

(* A step of a thread at evict or release on a slot its call does not hold *)
(* keeps what it knows about its new block.                                *)
LEMMA HoldsStill ==
    ASSUME IInv, Disc, NEW t \in Threads, NEW s \in Slots, pc[t] \in {"evict", "release"},
           s \notin Held(t), pc' = pc,
           loc'[t].op = loc[t].op, loc'[t].new = loc[t].new, loc'[t].old = loc[t].old,
           loc'[t].size = loc[t].size, loc'[t].saved = loc[t].saved,
           \A r \in Slots \ {s} : hdr'[r] = hdr[r] /\ (r \in registry' <=> r \in registry),
           UNCHANGED <<owner, foreign>>
    PROVE  ThreadOK(t)' /\ Held(t)' = Held(t)
<1>1. Held(t)' = Held(t) /\ Named(t)' = {} BY DEF Held, Named, Reallocs
<1>2. \A r \in Held(t) : hdr'[r] = hdr[r] /\ (r \in registry' <=> r \in registry)
  BY WhatACallNeeds
<1>3. ThreadOK(t) BY DEF Disc
<1>4. Reallocs(t, {"evict", "release"}) => loc[t].new \in Held(t) BY DEF Held, Reallocs
<1>5. \A r \in Held(t)' : /\ owner'[r] = NoThread
                          /\ r \in foreign' \/ (r \in registry' /\ hdr'[r].state = "live")
  BY <1>1, <1>2, <1>3 DEF ThreadOK
<1>6. Reallocs(t, {"evict", "release"}) =>
        /\ loc[t].new \in registry' /\ hdr'[loc[t].new].data # "poison"
        /\ Copies(t) => hdr'[loc[t].new].data = loc[t].saved
  BY <1>2, <1>3, <1>4 DEF ThreadOK, Reallocs
<1>7. Copies(t)' <=> Copies(t) BY DEF Copies
<1> QED BY <1>1, <1>5, <1>6, <1>7 DEF ThreadOK, Reallocs

LEMMA EvictOneDisc ==
    ASSUME IInv, Disc, NEW t \in Threads, EvictOne(t) PROVE Disc'
<1>0. TypeInv /\ LocalsOK /\ Running /\ IndexesAgree BY DEF IInv, Shared, Disc
<1>s. /\ quarantine # <<>> /\ quarantine \in Seq(Slots) /\ Once(quarantine)
  BY <1>0 DEF EvictOne, TypeInv, IndexesAgree
<1>q. Head(quarantine) \in Slots /\ Head(quarantine) \in Queued(quarantine) BY <1>s, TailQueued
<1> PICK s \in Slots : s = Head(quarantine) BY <1>q
<1>1. s \in registry /\ hdr[s].state = "freed" BY <1>0, <1>q DEF IndexesAgree
<1>2. /\ pc[t] = "evict" /\ UNCHANGED <<pc, foreign, owner, heapError, aborted>>
      /\ registry' = registry \ {s} /\ hdr' = [hdr EXCEPT ![s].valid = FALSE]
      /\ loc' = [loc EXCEPT ![t].evicted = @ \cup {s}]
  BY DEF EvictOne, At, Unregister, heapVars, progVars
<1>3. \A r \in Slots \ {s} : hdr'[r] = hdr[r] /\ (r \in registry' <=> r \in registry)
  BY <1>0, <1>2 DEF TypeInv
<1>4. /\ loc'[t].op = loc[t].op /\ loc'[t].new = loc[t].new /\ loc'[t].old = loc[t].old
      /\ loc'[t].size = loc[t].size /\ loc'[t].saved = loc[t].saved
      /\ \A u \in Threads \ {t} : loc'[u] = loc[u]
  BY <1>0, <1>2 DEF TypeInv, LocalType
<1>5. s \notin Held(t) BY <1>1, WhatACallNeeds
<1>6. ThreadOK(t)' /\ Held(t)' = Held(t)
  <2> UNCHANGED <<owner, foreign>> /\ pc[t] \in {"evict", "release"} BY <1>2
  <2> QED BY <1>2, <1>3, <1>4, <1>5, HoldsStill
<1>7. registry \cap foreign = {} BY <1>0 DEF IInv, Shared, Ownership
<1>8. BlockOK(s)'
  <2>1. owner[s] = NoThread BY <1>1, <1>7 DEF Disc, BlockOK
  <2> QED BY <1>2, <2>1 DEF BlockOK
<1>9. \A u \in Threads \ {t} : DependsOn(u) \cap {s} = {} BY <1>1, NobodyElses
<1>10. Running' BY <1>0, <1>2 DEF Running
<1>11. \A u \in Threads \ {t} : Held(t)' \cap Held(u) = {} BY <1>6 DEF Disc
<1> QED BY <1>2, <1>3, <1>4, <1>6, <1>8, <1>9, <1>10, <1>11, DiscFrame

LEMMA ReleaseOneDisc ==
    ASSUME IInv, Disc, NEW t \in Threads, NEW s \in Slots, ReleaseOne(t, s) PROVE Disc'
<1>0. TypeInv /\ Running /\ Ownership BY DEF IInv, Shared, Disc
<1>1. /\ pc[t] = "release" /\ s \in InFlight(t)
      /\ UNCHANGED <<pc, foreign, registry, owner, heapError, aborted>>
      /\ hdr' = [hdr EXCEPT ![s] = NoBlock] /\ loc' = [loc EXCEPT ![t].evicted = @ \ {s}]
  BY DEF ReleaseOne, At, progVars, InFlight
<1>2. s \notin registry \cup foreign BY <1>0, <1>1 DEF Ownership
<1>3. \A r \in Slots \ {s} : hdr'[r] = hdr[r] /\ (r \in registry' <=> r \in registry)
  BY <1>0, <1>1 DEF TypeInv
<1>4. /\ loc'[t].op = loc[t].op /\ loc'[t].new = loc[t].new /\ loc'[t].old = loc[t].old
      /\ loc'[t].size = loc[t].size /\ loc'[t].saved = loc[t].saved
      /\ \A u \in Threads \ {t} : loc'[u] = loc[u]
  BY <1>0, <1>1 DEF TypeInv, LocalType
<1>5. s \notin Held(t) BY <1>2, WhatACallNeeds
<1>6. ThreadOK(t)' /\ Held(t)' = Held(t)
  <2> UNCHANGED <<owner, foreign>> /\ pc[t] \in {"evict", "release"} BY <1>1
  <2> QED BY <1>1, <1>3, <1>4, <1>5, HoldsStill
<1>8. BlockOK(s)'
  <2>1. owner[s] = NoThread BY <1>2 DEF Disc, BlockOK
  <2> QED BY <1>1, <1>2, <2>1 DEF BlockOK
<1>9. \A u \in Threads \ {t} : DependsOn(u) \cap {s} = {} BY <1>1, NobodyElses
<1>10. Running' BY <1>0, <1>1 DEF Running
<1>11. \A u \in Threads \ {t} : Held(t)' \cap Held(u) = {} BY <1>6 DEF Disc
<1> QED BY <1>1, <1>3, <1>4, <1>6, <1>8, <1>9, <1>10, <1>11, DiscFrame

LEMMA ReleaseDoneDisc ==
    ASSUME IInv, Disc, RestOfTypes, NEW t \in Threads, ReleaseDone(t) PROVE Disc'
<1>0. TypeInv /\ LocalsOK /\ Running /\ ThreadOK(t) BY DEF IInv, Disc
<1>1. /\ pc[t] = "release" /\ Return(t)
      /\ UNCHANGED <<hdr, registry, foreign, heapError, aborted>>
  BY DEF ReleaseDone, At, heapVars, regVars
<1>2. CASE loc[t].op # "realloc"
  <2>1. SlotsSame BY <1>1, <1>2 DEF ReleaseDone, progVars, SlotsSame
  <2> QED BY <1>1, <2>1, QuietReturn
<1>3. CASE loc[t].op = "realloc"
  <2>s. loc[t].new \in Slots BY <1>0, <1>1, <1>3 DEF LocalsOK
  <2> PICK s \in Slots : s = loc[t].new BY <2>s
  <2>1. /\ s \in Held(t) /\ s \in registry /\ hdr[s].state = "live" /\ hdr[s].data # "poison"
        /\ Give(s, t)
    <3>1. s \in Held(t) /\ Give(s, t) BY <1>1, <1>3 DEF ReleaseDone, Held, Reallocs
    <3>2. s \in registry /\ hdr[s].data # "poison" BY <1>0, <1>1, <1>3 DEF ThreadOK, Reallocs
    <3> QED BY <3>1, <3>2, WhatACallNeeds
  <2>2. /\ pc'[t] = "idle" /\ \A u \in Threads \ {t} : pc'[u] = pc[u] /\ loc'[u] = loc[u]
    BY <1>0, <1>1, ReturnEffect
  <2>3. ThreadOK(t)' /\ Held(t)' = {} BY <2>2, Idle
  <2>4. \A r \in Slots \ {s} : owner'[r] = owner[r] BY <2>1 DEF Give, RestOfTypes
  <2>5. BlockOK(s)' BY <1>1, <2>1 DEF BlockOK, Disc
  <2>6. \A u \in Threads \ {t} : DependsOn(u) \cap {s} = {} BY <2>1, NobodyElses
  <2>7. Running' BY <1>0, <1>1 DEF Running
  <2> QED BY <1>1, <2>2, <2>3, <2>4, <2>5, <2>6, <2>7, DiscFrame
<1> QED BY <1>2, <1>3

LEMMA RealFreeDisc ==
    ASSUME IInv, Disc, NEW t \in Threads, RealFree(t) PROVE Disc'
<1>0. TypeInv /\ LocalsOK /\ Running /\ ThreadOK(t) /\ Ownership BY DEF IInv, Shared, Disc
<1>s. pc[t] = "realfree" /\ loc[t].ptr \in Slots BY <1>0 DEF RealFree, At, LocalsOK
<1> PICK s \in Slots : s = loc[t].ptr BY <1>s
<1>1. /\ Goto(t, "release") /\ UNCHANGED <<loc, hdr, registry, owner, aborted>>
      /\ heapError' = (s \notin foreign \/ loc[t].off # 0) /\ foreign' = foreign \ {s}
  BY DEF RealFree, regVars, progVars
<1>2. s \in foreign /\ loc[t].off = 0 /\ s \in Held(t) /\ owner[s] = NoThread
  BY <1>0, <1>s DEF ThreadOK, Held
<1>3. Running' BY <1>0, <1>1, <1>2 DEF Running
<1>4. /\ pc'[t] = "release" /\ loc'[t] = loc[t]
      /\ \A u \in Threads \ {t} : pc'[u] = pc[u] /\ loc'[u] = loc[u]
  BY <1>0, <1>1, PcSet DEF PCs
<1>5. /\ Named(t)' = {} /\ Held(t)' \subseteq Held(t) \ {s}
  BY <1>0, <1>s, <1>4 DEF Held, Named, Reallocs, ThreadOK
<1>6. BlockOK(s)'
  <2>1. s \notin registry BY <1>0, <1>2 DEF Ownership
  <2> QED BY <1>1, <1>2, <2>1 DEF BlockOK
<1>7. ThreadOK(t)'
  <2>1. \A r \in Held(t)' : /\ owner'[r] = NoThread
                            /\ r \in foreign' \/ (r \in registry' /\ hdr'[r].state = "live")
    BY <1>0, <1>1, <1>5 DEF ThreadOK
  <2>2. Reallocs(t, {"realfree"}) =>
          /\ loc[t].new \in registry' /\ hdr'[loc[t].new].data # "poison"
          /\ Copies(t) => hdr'[loc[t].new].data = loc[t].saved
    BY <1>0, <1>1 DEF ThreadOK, Reallocs
  <2>3. Copies(t)' <=> Copies(t) BY <1>4 DEF Copies
  <2> QED BY <1>s, <1>4, <1>5, <2>1, <2>2, <2>3 DEF ThreadOK, Reallocs
<1>8. \A u \in Threads \ {t} : DependsOn(u) \cap {s} = {} BY <1>2, NobodyElses
<1>9. \A u \in Threads \ {t} : Held(t)' \cap Held(u) = {} BY <1>5 DEF Disc
<1> QED BY <1>1, <1>3, <1>4, <1>6, <1>7, <1>8, <1>9, DiscFrame

(* realloc's memcpy: the thread owns the source and alone knows the        *)
(* destination.                                                            *)
LEMMA CopyDisc ==
    ASSUME IInv, Disc, RestOfTypes, Disciplined, NEW t \in Threads, Copy(t)
    PROVE  Disc'
<1>0. TypeInv /\ LocalsOK /\ Running /\ ThreadOK(t) /\ Ownership BY DEF IInv, Shared, Disc
<1>s. /\ pc[t] = "copy" /\ loc[t].op = "realloc"
      /\ loc[t].ptr \in Slots /\ loc[t].new \in Slots
  BY <1>0 DEF Copy, At, LocalsOK, ThreadOK
<1> PICK s \in Slots : s = loc[t].ptr BY <1>s
<1> PICK n \in Slots : n = loc[t].new BY <1>s
<1>1. /\ Goto(t, "free") /\ UNCHANGED <<loc, registry, foreign, heapError, aborted>>
      /\ owner' = [owner EXCEPT ![s] = NoThread]
      /\ hdr' = IF Copies(t) THEN [hdr EXCEPT ![n].data = hdr[s].data] ELSE hdr
  BY DEF Copy, Give, heapVars
<1>2. /\ s \in Named(t) /\ owner[s] = t /\ n \in Held(t) /\ owner[n] = NoThread
      /\ s \in registry /\ n \in registry /\ hdr[s].data = loc[t].saved
      /\ hdr[n].data # "poison"
  <2>1. s \in Named(t) /\ n \in Held(t) BY <1>s DEF Named, Held, Reallocs
  <2> QED BY <1>0, <1>s, <2>1 DEF ThreadOK, Reallocs
<1>3. t # NoThread /\ s # n BY <1>2, SafeHeapConstants
<1>4. /\ hdr[s].state = "live" /\ hdr[n].state = "live" /\ hdr[s].data # "poison"
      /\ s \notin foreign
  <2>1. s \notin foreign BY <1>0, <1>2 DEF Ownership
  <2>2. hdr[s].state = "live" /\ hdr[n].state = "live" BY <1>2, WhatACallNeeds
  <2>3. BlockOK(s) BY DEF Disc
  <2> QED BY <1>2, <1>3, <2>1, <2>2, <2>3 DEF BlockOK
<1>5. /\ hdr'[n].state = hdr[n].state /\ hdr'[n].valid = hdr[n].valid
      /\ hdr'[n].canary = hdr[n].canary
      /\ Copies(t) => hdr'[n].data = hdr[s].data
      /\ ~Copies(t) => hdr'[n] = hdr[n]
      /\ \A r \in Slots \ {n} : hdr'[r] = hdr[r]
  BY <1>0, <1>1 DEF TypeInv, BlockType
<1>6. /\ owner'[s] = NoThread /\ \A r \in Slots \ {s} : owner'[r] = owner[r]
  BY <1>1 DEF RestOfTypes
<1>7. /\ pc'[t] = "free" /\ loc'[t] = loc[t]
      /\ \A u \in Threads \ {t} : pc'[u] = pc[u] /\ loc'[u] = loc[u]
  BY <1>0, <1>1, PcSet DEF PCs
<1>8. Named(t)' = {} /\ Held(t)' = {s, n} BY <1>s, <1>7 DEF Named, Held, Reallocs
<1>9. BlockOK(s)' /\ BlockOK(n)'
  <2>1. BlockOK(s) /\ BlockOK(n) BY DEF Disc
  <2>2. owner'[s] = NoThread /\ owner'[n] = NoThread BY <1>2, <1>3, <1>6
  <2>3. hdr'[s] = hdr[s] /\ registry' = registry BY <1>1, <1>3, <1>5
  <2> QED BY <1>5, <2>1, <2>2, <2>3 DEF BlockOK
<1>10. ThreadOK(t)'
  <2>1. /\ loc[t].new \in registry' /\ hdr'[loc[t].new].data # "poison"
        /\ loc[t].new # loc[t].ptr
        /\ Copies(t) => hdr'[loc[t].new].data = loc[t].saved
    BY <1>1, <1>2, <1>3, <1>4, <1>5
  <2>2. Copies(t)' <=> Copies(t) BY <1>7 DEF Copies
  <2>3. \A r \in Held(t)' : /\ owner'[r] = NoThread
                            /\ r \in foreign' \/ (r \in registry' /\ hdr'[r].state = "live")
    BY <1>1, <1>2, <1>3, <1>4, <1>5, <1>6, <1>8
  <2>4. loc[t].off = 0 BY <1>0, <1>s DEF ThreadOK, Reallocs
  <2> QED BY <1>7, <1>8, <2>1, <2>2, <2>3, <2>4 DEF ThreadOK, Reallocs
<1>11. \A u \in Threads \ {t} : DependsOn(u) \cap {s, n} = {} BY <1>2, NobodyElses
<1>12. \A u \in Threads \ {t} : Held(t)' \cap Held(u) = {} BY <1>8, <1>11 DEF DependsOn
<1>13. Running' BY <1>0, <1>1 DEF Running
<1>14. {s, n} \in SUBSET Slots /\ \A r \in {s, n} : BlockOK(r)' BY <1>9
<1> QED BY ZenonT(60), <1>1, <1>5, <1>6, <1>7, <1>10, <1>11, <1>12, <1>13, <1>14, DiscFrame

LEMMA ReallocForeignDisc ==
    ASSUME IInv, Disc, RestOfTypes, Disciplined, NEW t \in Threads, NEW s \in Slots,
           ReallocForeign(t, s)
    PROVE  Disc'
<1>0. TypeInv /\ LocalsOK /\ Running /\ ThreadOK(t) /\ Ownership BY DEF IInv, Shared, Disc
<1>s. pc[t] = "lookup" /\ loc[t].ptr \in Slots BY <1>0 DEF ReallocForeign, At, LocalsOK
<1> PICK p \in Slots : p = loc[t].ptr BY <1>s
<1>1. /\ p \notin registry /\ (s \notin used \/ s = p) /\ Return(t)
      /\ heapError' = (p \notin foreign \/ loc[t].off # 0)
      /\ foreign' = (foreign \ {p}) \cup {s}
      /\ owner' = [owner EXCEPT ![p] = NoThread, ![s] = t]
      /\ UNCHANGED <<hdr, registry, aborted>>
  BY DEF ReallocForeign, FoundContaining, regVars
<1>2. p \in Named(t) /\ owner[p] = t /\ loc[t].off = 0
  BY <1>0, <1>s DEF Named, ThreadOK
<1>3. p \in foreign BY <1>1, <1>2, WhatACallNeeds
<1>4. s \notin registry BY <1>0, <1>1, <1>3 DEF Ownership
<1>5. Running' BY <1>0, <1>1, <1>2, <1>3 DEF Running
<1>6. /\ pc'[t] = "idle" /\ \A u \in Threads \ {t} : pc'[u] = pc[u] /\ loc'[u] = loc[u]
  BY <1>0, <1>1, ReturnEffect
<1>7. ThreadOK(t)' /\ Held(t)' = {} BY <1>6, Idle
<1>8. /\ \A r \in Slots \ {p, s} : owner'[r] = owner[r]
      /\ s # p => owner'[p] = NoThread
  BY <1>1 DEF RestOfTypes
<1>9. BlockOK(s)' BY <1>1, <1>4 DEF BlockOK
<1>10. BlockOK(p)' BY <1>1, <1>8, <1>9 DEF BlockOK
<1>11. \A u \in Threads \ {t} : DependsOn(u) \cap {p, s} = {}
  BY <1>1, <1>2, NobodyElses
<1>12. {p, s} \in SUBSET Slots /\ \A r \in {p, s} : BlockOK(r)' BY <1>9, <1>10
<1>13. \A r \in Slots \ {p, s} : r \in foreign' <=> r \in foreign BY <1>1
<1> QED BY ZenonT(60), <1>1, <1>5, <1>6, <1>7, <1>8, <1>11, <1>12, <1>13, DiscFrame

(* None of the refusals meets a memory-safe program. *)
LEMMA NothingRefused ==
    ASSUME IInv, Disc, NEW t \in Threads
    PROVE  ~FreeRefused(t) /\ ~ReallocRefused(t) /\ ~CheckRefused(t)
<1>0. TypeInv /\ LocalsOK /\ Running /\ ThreadOK(t) /\ IndexesAgree BY DEF IInv, Shared, Disc
<1>1. \A s \in Slots : s \in hash[BucketOf[s]] <=> s \in registry
  BY <1>0, SafeHeapConstants DEF IndexesAgree
<1>2. ASSUME pc[t] \in {"free", "lookup"}
      PROVE  FreeRefusal(loc[t].ptr, loc[t].off) = "no"
  <2>1. loc[t].ptr \in Slots /\ loc[t].off = 0 BY <1>0, <1>2 DEF LocalsOK, ThreadOK
  <2>2. loc[t].ptr \in registry =>
          hdr[loc[t].ptr].state = "live" /\ hdr[loc[t].ptr].valid /\ hdr[loc[t].ptr].canary
    <3>1. loc[t].ptr \in Named(t) \cup Held(t) BY <1>2 DEF Named, Held
    <3> QED BY <2>1, <3>1, WhatACallNeeds DEF Disc, BlockOK
  <2> QED BY <1>1, <2>1, <2>2 DEF FreeRefusal, FoundExact, FoundContaining
<1>3. ~FreeRefused(t) BY <1>2 DEF FreeRefused, At
<1>4. ~ReallocRefused(t) BY <1>2 DEF ReallocRefused, ReallocRefusal, At
<1>5. ~CheckRefused(t)
  <2> SUFFICES ASSUME pc[t] = "check"
               PROVE  CheckRefusal(loc[t].ptr, loc[t].off, loc[t].size) = "no"
    BY DEF CheckRefused, At
  <2>1. loc[t].ptr \in Slots /\ loc[t].ptr \in Named(t) BY <1>0 DEF LocalsOK, Named
  <2>2. loc[t].ptr \in registry =>
          /\ hdr[loc[t].ptr].state = "live" /\ hdr[loc[t].ptr].valid
          /\ InBounds(loc[t].off, loc[t].size, hdr[loc[t].ptr].size)
    BY ZenonT(60), <1>0, <2>1, WhatACallNeeds DEF Disc, BlockOK, ThreadOK
  <2> QED BY <2>2 DEF CheckRefusal, FoundContaining
<1> QED BY <1>3, <1>4, <1>5
-----------------------------------------------------------------------------
(* The program's own steps. *)

LEMMA CallFreeDisc ==
    ASSUME IInv, Disc, RestOfTypes, Disciplined, NEW t \in Threads, NEW s \in Slots,
           NEW off \in Offsets, CallFree(t, s, off)
    PROVE  Disc'
<1> DEFINE r == [NoCall EXCEPT !.op = "free", !.ptr = s, !.off = off]
<1>1. /\ pc[t] = "idle" /\ owner[s] = t /\ off = 0 /\ Goto(t, "free")
      /\ loc' = [loc EXCEPT ![t] = r]
      /\ owner' = [owner EXCEPT ![s] = NoThread]
      /\ UNCHANGED <<hdr, registry, foreign, heapError, aborted>>
  BY DEF CallFree, At, MayName, Give, regVars, heapVars
<1>2. r \in LocalType /\ r.op = "free" /\ r.ptr = s /\ r.off = off
  BY Zenon, SafeHeapConstants DEF NoCall, LocalType, Ops, Data
<1> HIDE DEF r
<1>0. TypeInv /\ Running /\ Ownership /\ BlockOK(s) BY DEF IInv, Shared, Disc
<1>3. /\ pc'[t] = "free" /\ \A u \in Threads \ {t} : pc'[u] = pc[u]
  BY <1>0, <1>1, PcSet DEF PCs
<1>4. loc'[t] = r /\ \A u \in Threads \ {t} : loc'[u] = loc[u] BY <1>0, <1>1, <1>2, LocSet
<1>5. owner'[s] = NoThread /\ \A q \in Slots \ {s} : owner'[q] = owner[q] BY <1>1 DEF RestOfTypes
<1>6. s \in foreign \/ (s \in registry /\ hdr[s].state = "live")
  BY <1>0, <1>1, SafeHeapConstants DEF BlockOK
<1>7. Named(t)' = {} /\ Held(t)' = {s} BY <1>2, <1>3, <1>4 DEF Named, Held, Reallocs
<1>8. ThreadOK(t)' BY <1>1, <1>2, <1>3, <1>4, <1>5, <1>6, <1>7 DEF ThreadOK, Reallocs
<1>9. BlockOK(s)' BY <1>0, <1>1, <1>5 DEF BlockOK
<1>10. \A u \in Threads \ {t} : DependsOn(u) \cap {s} = {} BY <1>1, NobodyElses
<1>11. \A u \in Threads \ {t} : Held(t)' \cap Held(u) = {} BY <1>7, <1>10 DEF DependsOn
<1>12. Running' BY <1>0, <1>1 DEF Running
<1>13. UNCHANGED <<hdr, registry, foreign>> BY <1>1
<1> QED BY <1>3, <1>4, <1>5, <1>8, <1>9, <1>10, <1>11, <1>12, <1>13, DiscFrame

(* An idle thread gets, gives up or writes a slot. *)
LEMMA IdleDisc ==
    ASSUME IInv, Disc, NEW t \in Threads, NEW s \in Slots, pc[t] = "idle",
           s \notin used \/ owner[s] = t, UNCHANGED <<pc, loc, registry, heapError, aborted>>,
           \A r \in Slots \ {s} : /\ hdr'[r] = hdr[r] /\ owner'[r] = owner[r]
                                  /\ r \in foreign' <=> r \in foreign,
           BlockOK(s)'
    PROVE  Disc'
<1>1. ThreadOK(t)' /\ Held(t)' = {} BY Idle
<1>2. \A u \in Threads \ {t} : DependsOn(u) \cap {s} = {} BY NobodyElses
<1>3. Running' BY DEF Disc, Running
<1> QED BY <1>1, <1>2, <1>3, DiscFrame

LEMMA ForeignAllocDisc ==
    ASSUME IInv, Disc, RestOfTypes, NEW t \in Threads, NEW s \in Slots, ForeignAlloc(t, s)
    PROVE  Disc'
<1>1. /\ pc[t] = "idle" /\ s \notin used /\ foreign' = foreign \cup {s} /\ Give(s, t)
      /\ UNCHANGED <<pc, loc, hdr, registry, heapError, aborted>>
  BY DEF ForeignAlloc, At, regVars
<1>2. \A r \in Slots \ {s} : owner'[r] = owner[r] BY <1>1 DEF Give, RestOfTypes
<1>3. s \notin registry BY <1>1 DEF IInv, Shared, Ownership, Disc
<1>4. BlockOK(s)' BY <1>1, <1>3 DEF BlockOK
<1> QED BY <1>1, <1>2, <1>4, IdleDisc

LEMMA WriteDisc ==
    ASSUME IInv, Disc, NEW t \in Threads, NEW s \in Slots, Write(t, s) PROVE Disc'
<1>1. /\ pc[t] = "idle" /\ owner[s] = t /\ s \in registry /\ hdr[s].state = "live"
      /\ hdr' = [hdr EXCEPT ![s].data = "value"]
      /\ UNCHANGED <<pc, loc, registry, foreign, owner, heapError, aborted>>
  BY DEF Write, At, heapVars, progVars
<1>2. /\ hdr'[s].state = hdr[s].state /\ hdr'[s].valid = hdr[s].valid
      /\ hdr'[s].canary = hdr[s].canary /\ hdr'[s].data = "value"
      /\ \A r \in Slots \ {s} : hdr'[r] = hdr[r]
  BY <1>1 DEF IInv, TypeInv, BlockType
<1>3. BlockOK(s)' BY <1>1, <1>2 DEF Disc, BlockOK
<1> QED BY <1>1, <1>2, <1>3, IdleDisc

LEMMA HandOverDisc ==
    ASSUME IInv, Disc, RestOfTypes, NEW t \in Threads, NEW u \in Threads, NEW s \in Slots,
           HandOver(t, u, s)
    PROVE  Disc'
<1>1. /\ pc[t] = "idle" /\ owner[s] = t /\ Give(s, u)
      /\ UNCHANGED <<pc, loc, hdr, registry, foreign, heapError, aborted>>
  BY DEF HandOver, At, regVars, heapVars
<1>2. \A r \in Slots \ {s} : owner'[r] = owner[r] BY <1>1 DEF Give, RestOfTypes
<1>3. BlockOK(s)' BY <1>1, SafeHeapConstants DEF Disc, BlockOK
<1> QED BY <1>1, <1>2, <1>3, IdleDisc

LEMMA ProgramDisc ==
    ASSUME IInv, Disc, RestOfTypes, Disciplined, NEW t \in Threads, ProgramStep(t)
    PROVE  Disc'
<1>0. pending[t] \in Nat /\ TypeInv BY DEF IInv, TypeInv
<1>1. CASE CallRejected(t)
  <2>1. SlotsSame /\ Return(t) BY <1>1 DEF CallRejected, SlotsSame, regVars, heapVars, progVars
  <2> QED BY <2>1, QuietReturn
<1>2. ASSUME NEW site \in Sites, SetNextSite(t, site) PROVE Disc'
  <2>1. /\ SlotsSame /\ Goto(t, "armed") /\ loc' = loc
    BY <1>2 DEF SetNextSite, SlotsSame, regVars, heapVars, progVars
  <2>2. /\ pc'[t] = "armed" /\ \A u \in Threads \ {t} : pc'[u] = pc[u] /\ loc'[u] = loc[u]
    BY <1>0, <2>1, PcSet DEF PCs
  <2> QED BY <2>1, <2>2, Idle, QuietDisc
<1>3. ASSUME NEW n \in Sizes, NEW zero \in BOOLEAN, CallAlloc(t, n, zero) PROVE Disc'
  <2> DEFINE r == [NoCall EXCEPT !.op = IF zero THEN "calloc" ELSE "malloc",
                                 !.size = n, !.site = pending[t]]
  <2>1. r \in LocalType /\ r.op # "realloc"
    BY Zenon, <1>0, SafeHeapConstants DEF NoCall, LocalType, Ops, Data
  <2>2. SlotsSame /\ Goto(t, "allocate") /\ loc' = [loc EXCEPT ![t] = r]
    BY <1>3 DEF CallAlloc, SlotsSame, regVars, heapVars, progVars
  <2> HIDE DEF r
  <2> QED BY <2>1, <2>2, QuietStart
<1>4. ASSUME NEW s \in Slots, NEW off \in Offsets, CallFree(t, s, off) PROVE Disc'
  BY <1>4, CallFreeDisc
<1>5. ASSUME NEW s \in Slots, NEW off \in Offsets, CallDerive(t, s, off) PROVE Disc'
  <2> DEFINE r == [NoCall EXCEPT !.op = "derive", !.ptr = s, !.off = off]
  <2>1. r \in LocalType /\ r.ptr = s /\ r.off = off /\ r.size = 0
    BY Zenon, SafeHeapConstants DEF NoCall, LocalType, Ops, Data
  <2>2. /\ SlotsSame /\ Goto(t, "check") /\ loc' = [loc EXCEPT ![t] = r] /\ owner[s] = t
        /\ s \in registry => InBounds(off, 0, hdr[s].size)
    BY <1>5 DEF CallDerive, MayName, SlotsSame, regVars, heapVars, progVars
  <2> HIDE DEF r
  <2> QED BY <2>1, <2>2, QuietStart
<1>6. ASSUME NEW s \in Slots, NEW off \in Offsets, NEW n \in Sizes, CallRealloc(t, s, off, n)
      PROVE  Disc'
  <2> DEFINE r == [NoCall EXCEPT !.op = "realloc", !.ptr = s, !.off = off, !.size = n,
                                 !.site = pending[t],
                                 !.saved = IF Disciplined THEN hdr[s].data ELSE "junk"]
  <2>0. hdr[s].data \in Data BY <1>0 DEF TypeInv, BlockType
  <2>1. r \in LocalType /\ r.ptr = s /\ r.off = off /\ r.saved = hdr[s].data
    BY Zenon, <1>0, <2>0, SafeHeapConstants DEF NoCall, LocalType, Ops, Data
  <2>2. /\ SlotsSame /\ Goto(t, "lookup") /\ loc' = [loc EXCEPT ![t] = r] /\ owner[s] = t
        /\ off = 0
    BY <1>6 DEF CallRealloc, MayName, SlotsSame, regVars, heapVars, progVars
  <2> HIDE DEF r
  <2> QED BY <2>1, <2>2, QuietStart
<1>7. ASSUME NEW s \in Slots, NEW off \in Offsets, NEW n \in Sizes, CallCheck(t, s, off, n)
      PROVE  Disc'
  <2> DEFINE r == [NoCall EXCEPT !.op = "check", !.ptr = s, !.off = off, !.size = n]
  <2>1. r \in LocalType /\ r.ptr = s /\ r.off = off /\ r.size = n
    BY Zenon, SafeHeapConstants DEF NoCall, LocalType, Ops, Data
  <2>2. /\ SlotsSame /\ Goto(t, "check") /\ loc' = [loc EXCEPT ![t] = r] /\ owner[s] = t
        /\ s \in registry => InBounds(off, n, hdr[s].size)
    BY <1>7 DEF CallCheck, MayName, SlotsSame, regVars, heapVars, progVars
  <2> HIDE DEF r
  <2> QED BY <2>1, <2>2, QuietStart
<1>8. ASSUME NEW s \in Slots, ForeignAlloc(t, s) \/ Write(t, s) PROVE Disc'
  BY <1>8, ForeignAllocDisc, WriteDisc
<1>9. ASSUME NEW s \in Slots, NEW u \in Threads, HandOver(t, u, s) PROVE Disc'
  BY <1>9, HandOverDisc
<1> QED BY <1>1, <1>2, <1>3, <1>4, <1>5, <1>6, <1>7, <1>8, <1>9 DEF ProgramStep

LEMMA NextDisc ==
    ASSUME IInv, RestOfTypes, Disciplined, Disc, [Next]_vars PROVE Disc'
<1>1. ASSUME NEW t \in Threads, LockedStep(t) PROVE Disc'
  <2>1. CASE FreeRefused(t) \/ ReallocRefused(t) \/ CheckRefused(t) BY <2>1, NothingRefused
  <2>2. CASE CheckPasses(t)
    <3>1. SlotsSame /\ Return(t)
      BY <2>2 DEF CheckPasses, SlotsSame, regVars, heapVars, progVars
    <3> QED BY <3>1, QuietReturn
  <2>3. CASE Publish(t) BY <2>3, PublishDisc
  <2>4. CASE FreeForeign(t) BY <2>4, FreeForeignDisc
  <2>5. CASE FreeMark(t) BY <2>5, FreeMarkDisc
  <2>6. CASE ReallocAccepted(t) BY <2>6, ReallocAcceptedDisc
  <2>7. ASSUME NEW s \in Slots, ReallocForeign(t, s) PROVE Disc' BY <2>7, ReallocForeignDisc
  <2> QED BY <1>1, <2>1, <2>2, <2>3, <2>4, <2>5, <2>6, <2>7 DEF LockedStep
<1>2. ASSUME NEW t \in Threads, LocalStep(t) PROVE Disc'
  <2>1. CASE AllocateFails(t)
    <3>1. SlotsSame /\ Return(t)
      BY <2>1 DEF AllocateFails, SlotsSame, regVars, heapVars, progVars
    <3> QED BY <3>1, QuietReturn
  <2>2. CASE RealFree(t) BY <2>2, RealFreeDisc
  <2>3. CASE EvictOne(t) BY <2>3, EvictOneDisc
  <2>4. CASE FreePublish(t) BY <2>4, FreePublishDisc
  <2>5. CASE ReleaseDone(t) BY <2>5, ReleaseDoneDisc
  <2>6. CASE Copy(t) BY <2>6, CopyDisc
  <2>7. ASSUME NEW s \in Slots, RealMalloc(t, s) \/ ReleaseOne(t, s) PROVE Disc'
    BY <2>7, RealMallocDisc, ReleaseOneDisc
  <2> QED BY <1>2, <2>1, <2>2, <2>3, <2>4, <2>5, <2>6, <2>7 DEF LocalStep
<1>3. ASSUME NEW t \in Threads, ProgramStep(t) PROVE Disc' BY <1>3, ProgramDisc
<1>4. ASSUME NEW s \in Slots, StrayWrite(s) PROVE Disc' BY <1>4 DEF StrayWrite
<1>5. CASE UNCHANGED vars
  <2>1. UNCHANGED <<pc, loc, hdr, registry, foreign, owner, heapError, aborted>>
    BY <1>5 DEF vars, regVars, heapVars, progVars
  <2>2. \A t \in Threads : Named(t)' = Named(t) /\ Held(t)' = Held(t) /\ Copies(t)' = Copies(t)
    BY <2>1 DEF Named, Held, Reallocs, Copies
  <2>3. \A t \in Threads : ThreadOK(t)'
    BY ZenonT(60), <2>1, <2>2 DEF Disc, ThreadOK, Reallocs, InBounds
  <2>4. \A s \in Slots : BlockOK(s)' BY <2>1 DEF Disc, BlockOK
  <2> QED BY <2>1, <2>2, <2>3, <2>4 DEF Disc, Running
<1> QED BY <1>1, <1>2, <1>3, <1>4, <1>5 DEF Next

LEMMA InitDisc == ASSUME Init PROVE Disc
<1>1. \A t \in Threads : pc[t] = "idle" BY DEF Init
<1>2. \A t \in Threads : ThreadOK(t) /\ Held(t) = {}
  BY <1>1 DEF ThreadOK, Named, Held, Reallocs
<1>3. \A s \in Slots : BlockOK(s) BY DEF Init, BlockOK
<1> QED BY <1>2, <1>3 DEF Init, Disc, Running

(* cgf_safe_abort never stops a program that frees, reallocates and uses   *)
(* only what it owns; what a thread owns stays live and unpoisoned until   *)
(* that thread gives it up, also when its realloc fails; and               *)
(* cgf_safe_realloc hands back the old contents.  This holds for any       *)
(* number of threads, whatever addresses the C library reuses.             *)
THEOREM DisciplinedProgramsAreServed == Spec => []DisciplineIsServed
<1> DEFINE D == Disciplined => Disc
<1>1. Init => D BY InitDisc
<1>2. IInv /\ RestOfTypes /\ D /\ [Next]_vars => D' BY NextDisc
<1>3. IInv /\ D => DisciplineIsServed
  <2> SUFFICES ASSUME IInv, Disciplined, Disc PROVE NoFalseAlarm /\ OwnedIsIntact
    BY DEF DisciplineIsServed, NoFalseAlarm, OwnedIsIntact
  <2>1. NoFalseAlarm BY DEF NoFalseAlarm, Disc
  <2>2. \A s \in Slots : owner[s] # NoThread =>
           \/ s \in foreign
           \/ s \in registry /\ hdr[s].state = "live" /\ hdr[s].data # "poison"
    BY DEF Disc, BlockOK
  <2>3. \A t \in Threads : ThreadOK(t) BY DEF Disc
  <2> QED BY <2>1, <2>2, <2>3 DEF OwnedIsIntact, ThreadOK, Reallocs, Copies
<1>4. Spec => []RestOfTypes BY InitRest, NextRest, AlwaysIInv, PTL DEF Spec
<1> QED BY <1>1, <1>2, <1>3, <1>4, AlwaysIInv, PTL DEF Spec
-----------------------------------------------------------------------------
(* The site number of cgf_safe_set_next_site is taken by the very next     *)
(* allocation call of its thread, refused or not, and never reaches one    *)
(* the compiler did not number.                                            *)
THEOREM SitesAreHandedOff == Spec => []SiteHandOff
<1>1. Init => SiteHandOff BY DEF Init, SiteHandOff
<1>2. ASSUME IInv, SiteHandOff, [Next]_vars PROVE SiteHandOff'
  <2>0. TypeInv /\ \A t \in Threads : pending[t] # 0 => pc[t] = "armed"
    BY <1>2 DEF IInv, SiteHandOff
  <2>1. ASSUME NEW t \in Threads, pc[t] # "armed", pending' = pending,
               \A u \in Threads \ {t} : pc'[u] = pc[u]
        PROVE  SiteHandOff'
    BY <2>0, <2>1 DEF SiteHandOff
  <2>2. ASSUME NEW t \in Threads, NEW where \in PCs, TakePendingSite(t), Goto(t, where)
        PROVE  SiteHandOff'
    <3>1. pending'[t] = 0 /\ \A u \in Threads \ {t} : pending'[u] = pending[u] /\ pc'[u] = pc[u]
      BY <2>0, <2>2, PcSet DEF TypeInv, TakePendingSite
    <3> QED BY <2>0, <3>1 DEF SiteHandOff
  <2>3. ASSUME pending' = pending, pc' = pc PROVE SiteHandOff' BY <1>2, <2>3 DEF SiteHandOff
  <2>4. ASSUME NEW t \in Threads, NEW where \in PCs, pc[t] # "armed", pending' = pending,
               Goto(t, where)
        PROVE  SiteHandOff'
    <3>1. \A u \in Threads \ {t} : pc'[u] = pc[u] BY <2>0, <2>4, PcSet
    <3> QED BY <2>1, <2>4, <3>1
  <2>5. {"idle", "armed", "allocate", "publish", "free", "realfree", "evict", "release",
         "lookup", "copy", "check"} \subseteq PCs
    BY DEF PCs
  <2>6. ASSUME NEW t \in Threads, LockedStep(t) PROVE SiteHandOff'
    <3>1. CASE Publish(t)
      <4>1. /\ pc[t] = "publish" /\ pending' = pending /\ (Goto(t, "copy") \/ Goto(t, "idle"))
        BY <3>1 DEF Publish, At, Return
      <4> QED BY <2>4, <2>5, <4>1
    <3>2. CASE FreeRefused(t) \/ ReallocRefused(t) \/ CheckRefused(t)
      BY <2>3, <3>2 DEF FreeRefused, ReallocRefused, CheckRefused, Abort
    <3>3. CASE FreeForeign(t) BY <2>4, <2>5, <3>3 DEF FreeForeign, At
    <3>4. CASE FreeMark(t) BY <2>4, <2>5, <3>4 DEF FreeMark, At
    <3>5. CASE ReallocAccepted(t)
      <4>1. pc[t] = "lookup" /\ pending' = pending /\ Goto(t, "allocate")
        BY <3>5 DEF ReallocAccepted, At
      <4> QED BY <2>4, <2>5, <4>1
    <3>6. CASE CheckPasses(t) BY <2>4, <2>5, <3>6 DEF CheckPasses, At, Return
    <3>7. ASSUME NEW s \in Slots, ReallocForeign(t, s) PROVE SiteHandOff'
      BY <2>4, <2>5, <3>7 DEF ReallocForeign, At, Return
    <3> QED BY <2>6, <3>1, <3>2, <3>3, <3>4, <3>5, <3>6, <3>7 DEF LockedStep
  <2>7. ASSUME NEW t \in Threads, LocalStep(t) PROVE SiteHandOff'
    <3>1. CASE AllocateFails(t) BY <2>4, <2>5, <3>1 DEF AllocateFails, At, Return
    <3>2. CASE RealFree(t) BY <2>4, <2>5, <3>2 DEF RealFree, At
    <3>3. CASE EvictOne(t) BY <2>3, <3>3 DEF EvictOne
    <3>4. CASE FreePublish(t) BY <2>4, <2>5, <3>4 DEF FreePublish, At
    <3>5. CASE ReleaseDone(t) BY <2>4, <2>5, <3>5 DEF ReleaseDone, At, Return
    <3>6. CASE Copy(t) BY <2>4, <2>5, <3>6 DEF Copy, At
    <3>7. ASSUME NEW s \in Slots, RealMalloc(t, s) PROVE SiteHandOff'
      <4>1. pc[t] = "allocate" /\ pending' = pending /\ Goto(t, "publish")
        BY <3>7 DEF RealMalloc, At
      <4> QED BY <2>4, <2>5, <4>1
    <3>8. ASSUME NEW s \in Slots, ReleaseOne(t, s) PROVE SiteHandOff'
      BY <2>3, <3>8 DEF ReleaseOne
    <3> QED BY <2>7, <3>1, <3>2, <3>3, <3>4, <3>5, <3>6, <3>7, <3>8 DEF LocalStep
  <2>8. ASSUME NEW t \in Threads, ProgramStep(t) PROVE SiteHandOff'
    <3>1. CASE CallRejected(t) BY <2>2, <2>5, <3>1 DEF CallRejected, Return
    <3>2. ASSUME NEW site \in Sites, SetNextSite(t, site) PROVE SiteHandOff'
      <4>1. pending' = [pending EXCEPT ![t] = site] /\ Goto(t, "armed")
        BY <3>2 DEF SetNextSite
      <4>2. /\ pc'[t] = "armed"
            /\ \A u \in Threads \ {t} : pending'[u] = pending[u] /\ pc'[u] = pc[u]
        BY <2>0, <2>5, <4>1, PcSet DEF TypeInv
      <4> QED BY <2>0, <4>2 DEF SiteHandOff
    <3>3. ASSUME NEW n \in Sizes, NEW zero \in BOOLEAN, CallAlloc(t, n, zero) PROVE SiteHandOff'
      <4>1. TakePendingSite(t) /\ Goto(t, "allocate") BY <3>3 DEF CallAlloc
      <4> QED BY <2>2, <2>5, <4>1
    <3>4. ASSUME NEW s \in Slots, NEW off \in Offsets, NEW n \in Sizes, CallRealloc(t, s, off, n)
          PROVE  SiteHandOff'
      <4>1. TakePendingSite(t) /\ Goto(t, "lookup") BY <3>4 DEF CallRealloc
      <4> QED BY <2>2, <2>5, <4>1
    <3>5. ASSUME NEW s \in Slots, NEW off \in Offsets, CallFree(t, s, off) PROVE SiteHandOff'
      <4>1. pc[t] = "idle" /\ pending' = pending /\ Goto(t, "free") BY <3>5 DEF CallFree, At
      <4> QED BY <2>4, <2>5, <4>1
    <3>6. ASSUME NEW s \in Slots, NEW off \in Offsets, CallDerive(t, s, off) PROVE SiteHandOff'
      <4>1. pc[t] = "idle" /\ pending' = pending /\ Goto(t, "check") BY <3>6 DEF CallDerive, At
      <4> QED BY <2>4, <2>5, <4>1
    <3>7. ASSUME NEW s \in Slots, NEW off \in Offsets, NEW n \in Sizes, CallCheck(t, s, off, n)
          PROVE  SiteHandOff'
      <4>1. pc[t] = "idle" /\ pending' = pending /\ Goto(t, "check") BY <3>7 DEF CallCheck, At
      <4> QED BY <2>4, <2>5, <4>1
    <3>8. ASSUME NEW s \in Slots, ForeignAlloc(t, s) \/ Write(t, s) PROVE SiteHandOff'
      BY <2>3, <3>8 DEF ForeignAlloc, Write
    <3>9. ASSUME NEW s \in Slots, NEW u \in Threads, HandOver(t, u, s) PROVE SiteHandOff'
      BY <2>3, <3>9 DEF HandOver
    <3> QED BY <2>8, <3>1, <3>2, <3>3, <3>4, <3>5, <3>6, <3>7, <3>8, <3>9 DEF ProgramStep
  <2>9. ASSUME NEW s \in Slots, StrayWrite(s) PROVE SiteHandOff' BY <2>3, <2>9 DEF StrayWrite
  <2>10. CASE UNCHANGED vars BY <2>3, <2>10 DEF vars
  <2> QED BY <1>2, <2>6, <2>7, <2>8, <2>9, <2>10 DEF Next
<1> QED BY <1>1, <1>2, AlwaysIInv, PTL DEF Spec
=============================================================================
