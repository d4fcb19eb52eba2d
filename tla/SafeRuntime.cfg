CONSTANTS
  Threads = {t1, t2, t3}
  TicketMod = 4
SPECIFICATION MCSpec
INVARIANTS
  MutualExclusion
  ChecksExact
PROPERTIES
  ImplementsFifoLock
  StarvationFree
