CONSTANTS
  Threads = {t1, t2}
  NULL = null
  PGSIZE = 12
  ArenaSize = 5
  MinBlock = 2
  KernelPages = 3
  UserPages = 1
  Sizes = {2, 9}
  MaxHeld = 2
SPECIFICATION FairSpec
INVARIANTS Disjoint NoLeak
PROPERTIES Returns
