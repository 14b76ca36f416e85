CONSTANTS
  p1 = p1
  p2 = p2
  c1 = c1
  c2 = c2
  Threads = {p1, p2}
  Children = {c1, c2}
  NULL = null
  Codes <- MCCodes
  Setups <- MCSetups
SPECIFICATION FairSpec
INVARIANTS NoFreedUse WaitCode
PROPERTIES ExecReturns WaitReturns ParentLeaves
