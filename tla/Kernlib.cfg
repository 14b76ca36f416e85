SPECIFICATION Spec
INVARIANTS Computes Placed
PROPERTY TableFaithful
CONSTANTS
  Keys = {0, 1, 2}
  MaxLen = 5
  WordBits = 4
  ELEM_BITS = 3
  MaxBits = 5
  GenSize = 5
  Width = 13
  Caps <- MCCaps
  Chars = {1,2,3}
  MaxString = 4
  INT_BITS = 7
  OctalDigits = 3
  PGSIZE = 4
  PTES = 2
  UserPages = 6
  AddrBits = 5
  FileLen = 8
  StackSize = 64
  DevSize = 5
  SectorBits = 3
  SECTOR = 2
  MaxNesting = 4
  MapHeader = 3
  MapWord = 1

  COL_CNT = 3
  ROW_CNT = 2
  TabStop = 2

 HashKeys = {0,1,2,4}
 Tags = {1,2}
 MinBuckets = 2
 BEST_ELEMS_PER_BUCKET = 1
