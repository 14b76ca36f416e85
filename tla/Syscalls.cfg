CONSTANTS
  t1 = t1
  t2 = t2
  t3 = t3
  p1 = p1
  p2 = p2
  a = a
  b = b
  Threads = {t1, t2, t3}
  Processes = {p1, p2}
  NULL = null
  Setups <- MCSetups
  MaxDesc = 3
SPECIFICATION FairSpec
INVARIANTS OwnFile Reclaimed RegisteredOnce
PROPERTIES FileSystemFree
