CONSTANTS
    t1 = t1
    t2 = t2
    s1 = s1
    s2 = s2
    Threads <- MCThreads
    Slots <- TwoSlots
    Sizes = {0, 2, 4}
    Offsets = {0}
    Sites <- NoSites
    Buckets <- MCBuckets
    BucketOf <- TwoSlotBuckets
    QBlocks = 1
    QBytes = 3
    MaxGen = 4
    Disciplined = TRUE
    NoSlot = NoSlot
    NoThread = NoThread
SPECIFICATION Spec
SYMMETRY TwoSlotSymmetry
INVARIANTS
  TypeOK
  QuarantineIsWindow
  DisciplineIsServed
CHECK_DEADLOCK FALSE
