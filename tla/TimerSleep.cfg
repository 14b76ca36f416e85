SPECIFICATION Spec
CONSTANTS
  t1 = t1
  t2 = t2
  t3 = t3
  Threads <- MCThreads
  Naps <- MCNaps
  Millis = {5, 25}
  Holders <- MCHolders
  HighPri = 2
  TIMER_FREQ = 100
  MaxTick = 3
SYMMETRY MCSymmetry
INVARIANT OnTime
PROPERTY NotEarly
