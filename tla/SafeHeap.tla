------------------------------ MODULE SafeHeap ------------------------------
(***************************************************************************)
(* The opt-in heap-safety runtime, src/rt/cgf_safe_alloc.c: an ownership   *)
(* registry, a FIFO quarantine of freed blocks, a generation counter, and  *)
(* one per-thread cache of the last block found live, all used by several  *)
(* threads at once.                                                        *)
(*                                                                         *)
(* A slot is the address of a raw allocation.  The C library may hand the  *)
(* same slot out again after it was released, so a stale pointer can come  *)
(* to name a newer block.  A pointer is a slot and an offset into it.      *)
(*                                                                         *)
(* What the registry lock protects is invisible to the other threads until *)
(* unlock_registry(), except the generation counter, which cgf_safe_check  *)
(* reads without the lock.  A locked section is therefore one step when it *)
(* ends by publishing the generation or changes nothing shared, and        *)
(* several steps (FreeMark, EvictOne, FreePublish) when it changes a block *)
(* first and publishes the generation later.  The lock itself is the       *)
(* subject of TicketLock.                                                  *)
(***************************************************************************)
EXTENDS Naturals, Sequences, FiniteSets

CONSTANTS
    Threads,      \* threads of the instrumented program
    Slots,        \* addresses the C library can return
    Sizes,        \* requested block sizes
    Offsets,      \* offsets of pointers into a block
    Sites,        \* allocation site numbers the compiler assigned (never 0)
    Buckets,      \* hash buckets of the registry
    BucketOf,     \* the bucket of each slot's user pointer
    QBlocks,      \* CGF_SAFE_Q_BLOCKS
    QBytes,       \* CGF_SAFE_Q_BYTES
    MaxGen,       \* bound: calls stop before the generation could pass it
    Disciplined,  \* TRUE: the program is race-free and memory-safe
    NoSlot, NoThread

ASSUME SafeHeapConstants ==
    /\ Sizes \subseteq Nat /\ Offsets \subseteq Nat
    /\ Sites \subseteq Nat \ {0}
    /\ BucketOf \in [Slots -> Buckets]
    /\ QBlocks \in Nat /\ QBytes \in Nat /\ MaxGen \in Nat
    /\ Disciplined \in BOOLEAN
    /\ NoSlot \notin Slots /\ NoThread \notin Threads

VARIABLES
    pc, loc,       \* control point and locals of each thread
    pending,       \* cgf_safe_pending_site, thread-local
    cache,         \* cgf_safe_last_live, thread-local
    holder,        \* the thread inside a locked section of several steps
    generation,    \* cgf_safe_generation
    registry,      \* the blocks on cgf_safe_all
    hash,          \* the blocks on each chain of cgf_safe_hash
    hdr,           \* header, canary and user bytes of each slot
    quarantine,    \* cgf_safe_q_head .. cgf_safe_q_tail
    qBytes,        \* cgf_safe_q_bytes
    freeLog,       \* history: the last QBlocks + 1 blocks freed, oldest first,
                   \* each with the bytes freed since, its own included
    used,          \* slots the C library considers allocated
    foreign,       \* those among them that objects outside the runtime hold
    heapError,     \* the program freed what the C library never gave it
    aborted,       \* why the runtime stopped the process, or "no"
    owner,         \* the thread entitled to use each slot
    known          \* slots whose address the program has seen

quarVars == <<quarantine, qBytes, freeLog>>
regVars  == <<holder, generation, registry, hash, hdr, quarVars>>
heapVars == <<used, foreign, heapError, aborted>>
progVars == <<owner, known>>
vars == <<pc, loc, pending, cache, regVars, heapVars, progVars>>

NoCall == [op |-> "none", ptr |-> NoSlot, off |-> 0, size |-> 0, new |-> NoSlot,
           old |-> 0, site |-> 0, evicted |-> {}, saved |-> "junk"]

NoBlock == [state |-> "none", size |-> 0, site |-> 0, valid |-> FALSE,
            canary |-> FALSE, data |-> "junk"]

NoCache == [valid |-> FALSE, base |-> NoSlot, size |-> 0, gen |-> 0]

Init ==
    /\ pc = [t \in Threads |-> "idle"]
    /\ loc = [t \in Threads |-> NoCall]
    /\ pending = [t \in Threads |-> 0]
    /\ cache = [t \in Threads |-> NoCache]
    /\ holder = NoThread
    /\ generation = 0
    /\ registry = {}
    /\ hash = [b \in Buckets |-> {}]
    /\ hdr = [s \in Slots |-> NoBlock]
    /\ quarantine = <<>> /\ qBytes = 0 /\ freeLog = <<>>
    /\ used = {} /\ foreign = {}
    /\ heapError = FALSE
    /\ aborted = "no"
    /\ owner = [s \in Slots |-> NoThread]
    /\ known = {}
-----------------------------------------------------------------------------
(* Building blocks. *)

Running == aborted = "no" /\ ~heapError

At(t, where) == Running /\ pc[t] = where

Goto(t, where) == pc' = [pc EXCEPT ![t] = where]

(* The call of thread t returns to the program. *)
Return(t) == Goto(t, "idle") /\ loc' = [loc EXCEPT ![t] = NoCall]

(* The program may name slot s: any address it has seen or, when it is     *)
(* memory-safe, only a block it owns.                                      *)
MayName(t, s) == s \in known /\ (Disciplined => owner[s] = t)

(* Who is entitled to a slot; tracked for a memory-safe program only. *)
Give(s, t) == owner' = IF Disciplined THEN [owner EXCEPT ![s] = t] ELSE owner

(* How often the call in progress may still raise the generation, and the  *)
(* bound that keeps a new call from starting.                              *)
Rises(t) == CASE pc[t] \in {"idle", "check"} -> 0
              [] pc[t] = "armed" \/ loc[t].op = "realloc" -> 2
              [] OTHER -> 1
Budget(n) ==
    generation + n + Cardinality({p \in Threads \X {1, 2} : p[2] <= Rises(p[1])}) <= MaxGen

LockFree == holder = NoThread

(* find_prefix_exact_locked: the chain of the pointer's bucket. *)
FoundExact(s, off) == off = 0 /\ s \in hash[BucketOf[s]]

(* find_containing_locked: the list of all blocks. *)
FoundContaining(s) == s \in registry

(* cgf_safe_generation++ *)
MutNextGeneration == UNCHANGED generation
NextGeneration == generation' = generation + 1

(* unlock_registry() *)
MutUnlockRegistry == UNCHANGED holder
UnlockRegistry == holder' = NoThread

(* Onto, and off, the list of all blocks and the hash chain. *)
Register(s) ==
    /\ registry' = registry \cup {s}
    /\ hash' = [hash EXCEPT ![BucketOf[s]] = @ \cup {s}]

MutUnregisterChain(s) == registry' = registry \ {s} /\ UNCHANGED hash
MutUnregisterAll(s) == UNCHANGED registry /\ hash' = [hash EXCEPT ![BucketOf[s]] = @ \ {s}]
Unregister(s) ==
    /\ registry' = registry \ {s}
    /\ hash' = [hash EXCEPT ![BucketOf[s]] = @ \ {s}]

(* The tail of the quarantine. *)
Log(s) ==
    LET older == [i \in DOMAIN freeLog |-> [freeLog[i] EXCEPT !.since = @ + hdr[s].size]]
        log   == Append(older, [slot |-> s, since |-> hdr[s].size])
    IN  freeLog' = IF Len(log) > QBlocks + 1 THEN Tail(log) ELSE log
MutEnqueue(s) == quarantine' = Append(quarantine, s) /\ UNCHANGED qBytes /\ Log(s)
Enqueue(s) ==
    /\ quarantine' = Append(quarantine, s)
    /\ qBytes' = qBytes + hdr[s].size
    /\ Log(s)

(* cgf_safe_fail_*: write the message and do not return. *)
Abort(why) ==
    /\ aborted' = why
    /\ UNCHANGED <<pc, loc, pending, cache, regVars, used, foreign, heapError, progVars>>

(* cgf_safe_set_next_site, which the compiler places directly before an    *)
(* instrumented allocation call; a call from a foreign object lacks it.    *)
SetNextSite(t, site) ==
    /\ At(t, "idle")
    /\ Budget(2)
    /\ pending' = [pending EXCEPT ![t] = site]
    /\ Goto(t, "armed")
    /\ UNCHANGED <<loc, cache, regVars, heapVars, progVars>>

AtAllocCall(t, n) == At(t, "armed") \/ (At(t, "idle") /\ Budget(n))

TakePendingSite(t) == pending' = [pending EXCEPT ![t] = 0]
-----------------------------------------------------------------------------
(* Allocation: malloc, calloc, aligned_alloc, posix_memalign, strdup,      *)
(* strndup and realloc(NULL, n).                                           *)

CallAlloc(t, size, zero) ==
    /\ AtAllocCall(t, 1)
    /\ TakePendingSite(t)
    /\ loc' = [loc EXCEPT ![t] = [NoCall EXCEPT !.op = IF zero THEN "calloc" ELSE "malloc",
                                                !.size = size, !.site = pending[t]]]
    /\ Goto(t, "allocate")
    /\ UNCHANGED <<cache, regVars, heapVars, progVars>>

(* A call refused before any allocation: the product of calloc or          *)
(* reallocarray overflows, or an alignment is not acceptable.              *)
MutCallRejected(t) ==
    AtAllocCall(t, 1) /\ Return(t) /\ UNCHANGED <<pending, cache, regVars, heapVars, progVars>>
CallRejected(t) ==
    /\ AtAllocCall(t, 1)
    /\ TakePendingSite(t)
    /\ Return(t)
    /\ UNCHANGED <<cache, regVars, heapVars, progVars>>

(* safe_allocate returns NULL: the total overflows, or __real_malloc fails.*)
(* realloc then leaves the old block alone.                                *)
AllocateFails(t) ==
    /\ At(t, "allocate")
    /\ Return(t)
    /\ UNCHANGED <<pending, cache, regVars, heapVars, progVars>>

(* safe_allocate up to the lock: the block is laid out in private memory. *)
RealMalloc(t, s) ==
    /\ At(t, "allocate")
    /\ s \notin used
    /\ used' = used \cup {s}
    /\ hdr' = [hdr EXCEPT ![s] =
                 [state |-> "live", size |-> loc[t].size, site |-> loc[t].site,
                  valid |-> TRUE, canary |-> TRUE,
                  data |-> IF loc[t].op = "calloc" /\ loc[t].size > 0
                           THEN "zero" ELSE "junk"]]
    /\ loc' = [loc EXCEPT ![t].new = s]
    /\ Goto(t, "publish")
    /\ UNCHANGED <<pending, cache, holder, generation, registry, hash, quarVars,
                   foreign, heapError, aborted, progVars>>

(* safe_allocate's locked section. *)
Publish(t) ==
    /\ At(t, "publish")
    /\ LockFree
    /\ LET s == loc[t].new IN
         /\ Register(s)
         /\ IF loc[t].op = "realloc"
            THEN Goto(t, "copy") /\ UNCHANGED <<loc, progVars>>
            ELSE /\ Return(t)
                 /\ Give(s, t)
                 /\ known' = known \cup {s}
    /\ NextGeneration
    /\ UNCHANGED <<pending, cache, holder, hdr, quarVars, heapVars>>
-----------------------------------------------------------------------------
(* free *)

CallFree(t, s, off) ==
    /\ At(t, "idle")
    /\ Budget(1)
    /\ MayName(t, s)
    /\ Disciplined => off = 0
    /\ loc' = [loc EXCEPT ![t] = [NoCall EXCEPT !.op = "free", !.ptr = s, !.off = off]]
    /\ Give(s, NoThread)
    /\ Goto(t, "free")
    /\ UNCHANGED <<pending, cache, regVars, heapVars, known>>

(* What the free path refuses, and why. *)
FreeRefusal(s, off) ==
    IF FoundExact(s, off)
    THEN CASE ~hdr[s].valid           -> "header"
           [] hdr[s].valid /\ hdr[s].state # "live" -> "double-free"
           [] hdr[s].valid /\ hdr[s].state = "live" /\ ~hdr[s].canary -> "overflow"
           [] OTHER                   -> "no"
    ELSE CASE ~FoundContaining(s)     -> "no"
           [] FoundContaining(s) /\ ~hdr[s].valid -> "header"
           [] OTHER                   -> "interior"

FreeRefused(t) ==
    /\ At(t, "free")
    /\ LockFree
    /\ FreeRefusal(loc[t].ptr, loc[t].off) # "no"
    /\ Abort(FreeRefusal(loc[t].ptr, loc[t].off))

(* Nothing registered contains the pointer: it is somebody else's. *)
FreeForeign(t) ==
    /\ At(t, "free")
    /\ LockFree
    /\ ~FoundContaining(loc[t].ptr)
    /\ ~FoundExact(loc[t].ptr, loc[t].off)
    /\ Goto(t, "realfree")
    /\ UNCHANGED <<loc, pending, cache, regVars, heapVars, progVars>>

(* __real_free(ptr) after the unlock.  Freeing what the C library did not  *)
(* hand out to that program is undefined, and ends the run.                *)
RealFree(t) ==
    /\ At(t, "realfree")
    /\ heapError' = (loc[t].ptr \notin foreign \/ loc[t].off # 0)
    /\ used' = used \ {loc[t].ptr}
    /\ foreign' = foreign \ {loc[t].ptr}
    /\ Goto(t, "release")
    /\ UNCHANGED <<loc, pending, cache, regVars, aborted, progVars>>

(* The locked section of safe_free, up to the eviction loop: the block is  *)
(* marked, poisoned and queued, and the generation is still the old one.   *)
FreeMark(t) ==
    /\ At(t, "free")
    /\ LockFree
    /\ LET s == loc[t].ptr IN
         /\ FoundExact(s, loc[t].off)
         /\ FreeRefusal(s, loc[t].off) = "no"
         /\ hdr' = [hdr EXCEPT ![s].state = "freed",
                               ![s].data = IF hdr[s].size > 0 THEN "poison" ELSE @]
         /\ Enqueue(s)
    /\ holder' = t
    /\ Goto(t, "evict")
    /\ UNCHANGED <<loc, pending, cache, generation, registry, hash, heapVars, progVars>>

MutOverLimit == Len(quarantine) >= QBlocks \/ qBytes > QBytes
OverLimit == Len(quarantine) > QBlocks \/ qBytes > QBytes

(* One turn of quarantine_evict_locked's loop. *)
EvictOne(t) ==
    /\ At(t, "evict")
    /\ quarantine # <<>>
    /\ OverLimit
    /\ LET s == Head(quarantine) IN
         /\ qBytes' = qBytes - hdr[s].size
         /\ Unregister(s)
         /\ hdr' = [hdr EXCEPT ![s].valid = FALSE]
         /\ loc' = [loc EXCEPT ![t].evicted = @ \cup {s}]
    /\ quarantine' = Tail(quarantine)
    /\ UNCHANGED <<pc, pending, cache, holder, generation, freeLog, heapVars, progVars>>

(* cgf_safe_generation++; unlock_registry(); *)
FreePublish(t) ==
    /\ At(t, "evict")
    /\ quarantine = <<>> \/ ~OverLimit
    /\ NextGeneration
    /\ UnlockRegistry
    /\ Goto(t, "release")
    /\ UNCHANGED <<loc, pending, cache, registry, hash, hdr, quarVars, heapVars, progVars>>

(* __real_free of an evicted block, after the unlock.  The list's order is *)
(* abstracted: nothing depends on which block goes first.  What the C      *)
(* library then keeps in the slot is its own affair.                       *)
ReleaseOne(t, s) ==
    /\ At(t, "release")
    /\ s \in loc[t].evicted
    /\ used' = used \ {s}
    /\ hdr' = [hdr EXCEPT ![s] = NoBlock]
    /\ loc' = [loc EXCEPT ![t].evicted = @ \ {s}]
    /\ UNCHANGED <<pc, pending, cache, holder, generation, registry, hash, quarVars,
                   foreign, heapError, aborted, progVars>>

(* free returns; realloc returns its new block. *)
ReleaseDone(t) ==
    /\ At(t, "release")
    /\ loc[t].evicted = {}
    /\ Return(t)
    /\ IF loc[t].op = "realloc"
       THEN /\ Give(loc[t].new, t)
            /\ known' = known \cup {loc[t].new}
       ELSE UNCHANGED progVars
    /\ UNCHANGED <<pending, cache, regVars, heapVars>>
-----------------------------------------------------------------------------
(* realloc of a non-null pointer, reallocarray *)

CallRealloc(t, s, off, size) ==
    /\ AtAllocCall(t, 2)
    /\ MayName(t, s)
    /\ Disciplined => off = 0
    /\ TakePendingSite(t)
    /\ loc' = [loc EXCEPT ![t] = [NoCall EXCEPT !.op = "realloc", !.ptr = s, !.off = off,
                                                !.size = size, !.site = pending[t],
                                                !.saved = IF Disciplined THEN hdr[s].data
                                                                      ELSE "junk"]]
    /\ Goto(t, "lookup")
    /\ UNCHANGED <<cache, regVars, heapVars, progVars>>

(* The same conditions as free, but realloc does not look at the canary. *)
ReallocRefusal(s, off) ==
    LET why == FreeRefusal(s, off) IN
      CASE why = "double-free" -> "realloc-after-free"
        [] why = "overflow"    -> "no"
        [] OTHER               -> why

ReallocRefused(t) ==
    /\ At(t, "lookup")
    /\ LockFree
    /\ ReallocRefusal(loc[t].ptr, loc[t].off) # "no"
    /\ Abort(ReallocRefusal(loc[t].ptr, loc[t].off))

(* A foreign block: __real_realloc moves it to s, or keeps it in place. *)
ReallocForeign(t, s) ==
    /\ At(t, "lookup")
    /\ LockFree
    /\ ~FoundContaining(loc[t].ptr)
    /\ ~FoundExact(loc[t].ptr, loc[t].off)
    /\ LET p == loc[t].ptr IN
         /\ s \notin used \/ s = p
         /\ heapError' = (p \notin foreign \/ loc[t].off # 0)
         /\ used' = (used \ {p}) \cup {s}
         /\ foreign' = (foreign \ {p}) \cup {s}
         /\ owner' = IF Disciplined THEN [owner EXCEPT ![p] = NoThread, ![s] = t] ELSE owner
         /\ known' = known \cup {s}
    /\ Return(t)
    /\ UNCHANGED <<pending, cache, regVars, aborted>>

(* The block is ours and live: keep its size and drop the lock. *)
ReallocAccepted(t) ==
    /\ At(t, "lookup")
    /\ LockFree
    /\ FoundExact(loc[t].ptr, loc[t].off)
    /\ ReallocRefusal(loc[t].ptr, loc[t].off) = "no"
    /\ loc' = [loc EXCEPT ![t].old = hdr[loc[t].ptr].size]
    /\ Goto(t, "allocate")
    /\ UNCHANGED <<pending, cache, regVars, heapVars, progVars>>

(* memcpy of the common prefix, without the lock; safe_free(ptr) is next. *)
MutCopies(t) == loc[t].old >= loc[t].size /\ loc[t].size > 0
Copies(t) == loc[t].old > 0 /\ loc[t].size > 0

Copy(t) ==
    /\ At(t, "copy")
    /\ hdr' = IF Copies(t) THEN [hdr EXCEPT ![loc[t].new].data = hdr[loc[t].ptr].data]
                           ELSE hdr
    /\ Give(loc[t].ptr, NoThread)
    /\ Goto(t, "free")
    /\ UNCHANGED <<loc, pending, cache, holder, generation, registry, hash, quarVars,
                   heapVars, known>>
-----------------------------------------------------------------------------
(* The checks before an access, and after pointer arithmetic. *)

InBounds(off, n, size) == off <= size /\ n <= size - off

(* cgf_safe_check's path without the lock. *)
CacheHit(t, s, off, n) ==
    /\ cache[t].valid
    /\ cache[t].gen = generation
    /\ cache[t].base = s
    /\ InBounds(off, n, cache[t].size)

(* A hit accepts at once and changes nothing: only a miss goes on. *)
CallCheck(t, s, off, n) ==
    /\ At(t, "idle")
    /\ MayName(t, s)
    /\ Disciplined /\ s \in registry => InBounds(off, n, hdr[s].size)
    /\ ~CacheHit(t, s, off, n)
    /\ loc' = [loc EXCEPT ![t] = [NoCall EXCEPT !.op = "check", !.ptr = s,
                                                !.off = off, !.size = n]]
    /\ Goto(t, "check")
    /\ UNCHANGED <<pending, cache, regVars, heapVars, progVars>>

(* cgf_safe_check_derive, _round_trip and _index of a pointer to s whose   *)
(* result is off bytes into the block; one past the end is good.           *)
CallDerive(t, s, off) ==
    /\ At(t, "idle")
    /\ MayName(t, s)
    /\ Disciplined /\ s \in registry => InBounds(off, 0, hdr[s].size)
    /\ loc' = [loc EXCEPT ![t] = [NoCall EXCEPT !.op = "derive", !.ptr = s, !.off = off]]
    /\ Goto(t, "check")
    /\ UNCHANGED <<pending, cache, regVars, heapVars, progVars>>

CheckRefusal(s, off, n) ==
    CASE ~FoundContaining(s) -> "no"
      [] FoundContaining(s) /\ ~hdr[s].valid -> "header"
      [] FoundContaining(s) /\ hdr[s].valid /\ hdr[s].state # "live" -> "use-after-free"
      [] OTHER -> IF InBounds(off, n, hdr[s].size) THEN "no" ELSE "out-of-bounds"

CheckRefused(t) ==
    /\ At(t, "check")
    /\ LockFree
    /\ CheckRefusal(loc[t].ptr, loc[t].off, loc[t].size) # "no"
    /\ Abort(CheckRefusal(loc[t].ptr, loc[t].off, loc[t].size))

(* An unregistered pointer is never an error; cgf_safe_check remembers a   *)
(* good one.                                                               *)
CheckPasses(t) ==
    /\ At(t, "check")
    /\ LockFree
    /\ LET s == loc[t].ptr IN
         /\ CheckRefusal(s, loc[t].off, loc[t].size) = "no"
         /\ cache' = IF loc[t].op = "check" /\ FoundContaining(s)
                     THEN [cache EXCEPT ![t] = [valid |-> TRUE, base |-> s,
                                                size |-> hdr[s].size, gen |-> generation]]
                     ELSE cache
    /\ Return(t)
    /\ UNCHANGED <<pending, regVars, heapVars, progVars>>
-----------------------------------------------------------------------------
(* The rest of the program. *)

(* A foreign object gets a block straight from the C library and gives it  *)
(* to thread t.                                                            *)
ForeignAlloc(t, s) ==
    /\ At(t, "idle")
    /\ s \notin used
    /\ used' = used \cup {s}
    /\ foreign' = foreign \cup {s}
    /\ Give(s, t)
    /\ known' = known \cup {s}
    /\ UNCHANGED <<pc, loc, pending, cache, regVars, heapError, aborted>>

(* A thread writes its block, or hands it to another thread; of interest   *)
(* only while ownership means something.                                   *)
Write(t, s) ==
    /\ At(t, "idle")
    /\ Disciplined
    /\ owner[s] = t
    /\ s \in registry
    /\ hdr[s].state = "live"
    /\ hdr[s].size > 0
    /\ hdr' = [hdr EXCEPT ![s].data = "value"]
    /\ UNCHANGED <<pc, loc, pending, cache, holder, generation, registry, hash, quarVars,
                   heapVars, progVars>>

HandOver(t, u, s) ==
    /\ At(t, "idle")
    /\ Disciplined
    /\ owner[s] = t
    /\ Give(s, u)
    /\ UNCHANGED <<pc, loc, pending, cache, regVars, heapVars, known>>

(* Unchecked code overruns a block, or overwrites its header. *)
StrayWrite(s) ==
    /\ Running
    /\ ~Disciplined
    /\ s \in registry
    /\ \/ hdr' = [hdr EXCEPT ![s].canary = FALSE]
       \/ hdr' = [hdr EXCEPT ![s].valid = FALSE]
    /\ UNCHANGED <<pc, loc, pending, cache, holder, generation, registry, hash, quarVars,
                   heapVars, progVars>>

(* Steps that wait for the registry lock, and steps that do not. *)
LockedStep(t) ==
    \/ Publish(t) \/ FreeRefused(t) \/ FreeForeign(t) \/ FreeMark(t)
    \/ ReallocRefused(t) \/ ReallocAccepted(t) \/ CheckRefused(t) \/ CheckPasses(t)
    \/ \E s \in Slots : ReallocForeign(t, s)

LocalStep(t) ==
    \/ AllocateFails(t) \/ RealFree(t) \/ EvictOne(t) \/ FreePublish(t)
    \/ ReleaseDone(t) \/ Copy(t)
    \/ \E s \in Slots : RealMalloc(t, s) \/ ReleaseOne(t, s)

ProgramStep(t) ==
    \/ CallRejected(t)
    \/ \E site \in Sites : SetNextSite(t, site)
    \/ \E n \in Sizes, zero \in BOOLEAN : CallAlloc(t, n, zero)
    \/ \E s \in Slots, off \in Offsets : CallFree(t, s, off) \/ CallDerive(t, s, off)
    \/ \E s \in Slots, off \in Offsets, n \in Sizes :
         CallRealloc(t, s, off, n) \/ (n > 0 /\ CallCheck(t, s, off, n))
    \/ \E s \in Slots : ForeignAlloc(t, s) \/ Write(t, s)
    \/ \E s \in Slots, u \in Threads : HandOver(t, u, s)

Next ==
    \/ \E t \in Threads : LockedStep(t) \/ LocalStep(t) \/ ProgramStep(t)
    \/ \E s \in Slots : StrayWrite(s)

Spec == Init /\ [][Next]_vars

(* The scheduler runs every thread, and the ticket lock is starvation-free *)
(* (TicketLock!StarvationFree): a thread waiting for the registry gets it. *)
FairSpec ==
    Spec /\ \A t \in Threads : WF_vars(LocalStep(t)) /\ SF_vars(LockedStep(t))
-----------------------------------------------------------------------------
(* Properties. *)

Ops == {"none", "malloc", "calloc", "realloc", "free", "check", "derive"}
PCs == {"idle", "armed", "allocate", "publish", "free", "realfree", "evict", "release",
        "lookup", "copy", "check"}
Data == {"junk", "zero", "value", "poison"}
Reasons == {"no", "header", "double-free", "overflow", "interior", "realloc-after-free",
            "use-after-free", "out-of-bounds"}
LocalType == [op : Ops, ptr : Slots \cup {NoSlot}, off : Nat, size : Nat,
              new : Slots \cup {NoSlot}, old : Nat, site : Nat,
              evicted : SUBSET Slots, saved : Data]
CacheType == [valid : BOOLEAN, base : Slots \cup {NoSlot}, size : Nat, gen : Nat]
BlockType == [state : {"none", "live", "freed"}, size : Nat, site : Nat,
              valid : BOOLEAN, canary : BOOLEAN, data : Data]

(* Every variable of the runtime keeps its type. *)
TypeOK ==
    /\ pc \in [Threads -> PCs]
    /\ loc \in [Threads -> LocalType]
    /\ pending \in [Threads -> Nat]
    /\ cache \in [Threads -> CacheType]
    /\ holder \in Threads \cup {NoThread}
    /\ generation \in Nat
    /\ registry \in SUBSET Slots
    /\ hash \in [Buckets -> SUBSET Slots]
    /\ hdr \in [Slots -> BlockType]
    /\ quarantine \in Seq(Slots)
    /\ qBytes \in Nat
    /\ freeLog \in Seq([slot : Slots, since : Nat])
    /\ used \in SUBSET Slots
    /\ foreign \in SUBSET Slots
    /\ heapError \in BOOLEAN
    /\ aborted \in Reasons
    /\ owner \in [Slots -> Threads \cup {NoThread}]
    /\ known \in SUBSET Slots

(* What cgf_safe_check accepts without the lock is right: as long as a     *)
(* thread's cached block carries the current generation, that block is     *)
(* registered, live and of the cached size, unless another thread is still *)
(* inside the free of that very block; even then its memory has not gone   *)
(* back to the C library.                                                  *)
CacheSound ==
    Running => \A t \in Threads :
      cache[t].valid /\ cache[t].gen = generation =>
        LET s == cache[t].base IN
          /\ s \in used
          /\ \/ s \in registry /\ hdr[s].state = "live" /\ hdr[s].size = cache[t].size
             \/ holder # NoThread /\ pc[holder] = "evict" /\ loc[holder].ptr = s

(* Every allocated slot has exactly one place that will answer for it: the *)
(* registry, an allocation about to be registered, one thread's list of    *)
(* evicted blocks, or a foreign object.  So nothing is released twice,     *)
(* nothing is forgotten, and no registered block has lost its memory.      *)
InFlight(t) == loc[t].evicted \cup (IF pc[t] = "publish" THEN {loc[t].new} ELSE {})

Ownership ==
    Running =>
      /\ \A s \in Slots : s \in used <=> \/ s \in registry \cup foreign
                                         \/ \E t \in Threads : s \in InFlight(t)
      /\ registry \cap foreign = {}
      /\ \A t \in Threads : InFlight(t) \cap (registry \cup foreign) = {}
      /\ \A t, u \in Threads : t # u => InFlight(t) \cap InFlight(u) = {}

Queued(q) == {q[i] : i \in DOMAIN q}
Once(q) == \A i, j \in DOMAIN q : q[i] = q[j] => i = j

(* The two indexes of the registry and the quarantine tell one story: a    *)
(* block is on the chain of its bucket exactly when it is on the list of   *)
(* all blocks, and queued, once, exactly when it is registered as freed.   *)
IndexesAgree ==
    /\ \A b \in Buckets : hash[b] = {s \in registry : BucketOf[s] = b}
    /\ Queued(quarantine) = {s \in registry : hdr[s].state = "freed"}
    /\ Once(quarantine)

(* The quarantine is the longest run of most recent frees that fits both   *)
(* limits: a use after free is caught as long as its block is among them,  *)
(* and no block stays longer.                                              *)
Freed(n) == freeLog[Len(freeLog) - n + 1]   \* the n-th last block freed
Fits(n) == n <= QBlocks /\ (n > 0 => Freed(n).since <= QBytes)

QuarantineIsWindow ==
    LockFree =>
      LET n == Len(quarantine) IN
        /\ n <= Len(freeLog)
        /\ \A i \in 1..n : quarantine[i] = Freed(n - i + 1).slot
        /\ Fits(n)
        /\ n < Len(freeLog) => ~Fits(n + 1)

(* A site number set for one call is never left over for another:          *)
(* allocations of foreign code always see site zero.                       *)
SiteHandOff == \A t \in Threads : pending[t] # 0 => pc[t] = "armed"

(* A memory-safe, race-free program is never stopped, however its threads  *)
(* interleave and whichever addresses the C library reuses.                *)
NoFalseAlarm == Disciplined => Running

(* A block that a thread owns stays allocated, live and intact until that  *)
(* thread gives it up, also when its realloc fails; and realloc hands back *)
(* the old contents.                                                       *)
OwnedIsIntact ==
    Disciplined =>
      /\ \A s \in Slots : owner[s] # NoThread =>
           \/ s \in foreign
           \/ s \in registry /\ hdr[s].state = "live" /\ hdr[s].data # "poison"
      /\ \A t \in Threads :
           pc[t] \in {"free", "evict", "release"} /\ loc[t].op = "realloc"
             /\ loc[t].old > 0 /\ loc[t].size > 0
           => hdr[loc[t].new].data = loc[t].saved

(* cgf_safe_abort never stops a disciplined program, a block stays as it   *)
(* is until its owner gives it up, and cgf_safe_realloc hands back its     *)
(* contents.                                                               *)
DisciplineIsServed == NoFalseAlarm /\ OwnedIsIntact

(* Every call of the runtime returns or stops the process: no path leaves  *)
(* the registry locked, and the eviction loop ends.                        *)
CallsReturn ==
    \A t \in Threads : pc[t] \notin {"idle", "armed"} ~> (pc[t] = "idle" \/ ~Running)
=============================================================================
