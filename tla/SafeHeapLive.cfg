CONSTANTS
    t1 = t1
    t2 = t2
    s1 = s1
    s2 = s2
    Threads <- MCThreads
    Slots <- TwoSlots
    Sizes = {2}
    Offsets = {0}
    Sites = {7}
    Buckets <- MCBuckets
    BucketOf <- TwoSlotBuckets
    QBlocks = 1
    QBytes = 1
    MaxGen = 3
    Disciplined = TRUE
    NoSlot = NoSlot
    NoThread = NoThread
SPECIFICATION FairSpec
CHECK_DEADLOCK FALSE
INVARIANT SiteHandOff
PROPERTY CallsReturn
