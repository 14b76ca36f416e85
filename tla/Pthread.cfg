CONSTANTS
  Main = main
  Worker1 = w1
  Worker2 = w2
  Threads = {main, w1, w2}
  NULL = null
  Setups <- MCSetups
SPECIFICATION FairSpec
INVARIANTS TailAlone NoPanic StackExclusive OneExiter
PROPERTIES JoinReturns MainLeaves
