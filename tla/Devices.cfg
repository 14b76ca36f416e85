CONSTANTS
  Readers = {r1, r2}
  Writers = {w1, w2}
  NULL = null
  Nil = nil
  INTQ_BUFSIZE = 3
  MaxIn = 3
  MaxGet = 2
  Users = {u1, u2}
  Sectors = {s1, s2}
  Data = {d1}
  MaxRequests = 3
  MaxStray = 1
SPECIFICATION Spec
INVARIANTS BytesInOrder DiskData
PROPERTIES Progress
CHECK_DEADLOCK FALSE
