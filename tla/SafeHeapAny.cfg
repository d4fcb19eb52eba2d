CONSTANTS
    t1 = t1
    t2 = t2
    s1 = s1
    s2 = s2
    Threads <- MCThreads
    Slots <- TwoSlots
    Sizes = {1}
    Offsets = {0, 1}
    Sites <- NoSites
    Buckets <- MCBuckets
    BucketOf <- TwoSlotBuckets
    QBlocks = 1
    QBytes = 1
    MaxGen = 4
    Disciplined = FALSE
    NoSlot = NoSlot
    NoThread = NoThread
SPECIFICATION Spec
SYMMETRY TwoSlotSymmetry
INVARIANTS
  CacheSound
  Ownership
  IndexesAgree
CHECK_DEADLOCK FALSE
