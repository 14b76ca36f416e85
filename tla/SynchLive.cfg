CONSTANTS
  mid = mid
  low = low
  high = high
  A = A
  B = B
  S = S
  Main = mid
  Idle = Idle
  NULL = NULL
  Ready = Ready
  Pri = {1, 2, 3}
  PRI_DEFAULT = 2
  CreatePri <- MCCreatePri
  Rank <- MCRank
  SemaInit <- MCSemaInit
  MaxValue = 1
  Threads = {mid, low, high}
  Locks = {A}
  Semas = {S}
  Policy = "FIFO"
  SetPri = {}
  MayExit = {low}
SPECIFICATION FairSpec
PROPERTIES ReadyRuns FreeLockTaken
