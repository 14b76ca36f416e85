CONSTANTS
  Names = {a, b}
  BadNames = {toolong}
  Handles = {h1, h2}
  NONE = none
  SectorCnt = 9
  EntryCnt = 2
  Lengths = {0, 2}
  Values = {0, 1}
  MaxCrash = 1
  MaxOps = 5
SPECIFICATION Spec
INVARIANTS DiskSafe NoLostSectors
PROPERTIES StoreSpec
