SPECIFICATION FairSpec
CONSTANTS
  t1 = t1
  t2 = t2
  l1 = l1
  l2 = l2
  Irq = Irq
  Threads = {t1, t2}
  Spinlocks = {l1, l2}
  Uses <- MCUses
  Timeouts = {0, 1}
  Forever = Forever
  TURNS = 1
  MAX_WORK_ITEMS = 3
  MaxLocks = 3
  MaxPosted = 3
  MaxSignals = 2
INVARIANTS Exclusion WorkExact EventExact
PROPERTIES WaitsEnd
