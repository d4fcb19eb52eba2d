----------------------------- MODULE MCSafeHeap -----------------------------
(***************************************************************************)
(* Instances of SafeHeap: two threads, two slots in one bucket.            *)
(* Quarantine limits are small enough that both the count and the byte     *)
(* limit evict, and that a single block can exceed the byte limit alone.   *)
(***************************************************************************)
EXTENDS SafeHeap, TLC

CONSTANTS t1, t2, s1, s2

MCThreads == {t1, t2}
TwoSlots == {s1, s2}
MCBuckets == {1, 2}
TwoSlotBuckets == s1 :> 1 @@ s2 :> 1
NoSites == {}
TwoSlotSymmetry == Permutations(MCThreads) \cup Permutations(TwoSlots)
=============================================================================
