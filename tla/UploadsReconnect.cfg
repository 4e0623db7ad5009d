SPECIFICATION FairSpec
CONSTANTS
  Put = {p1, p2}
  Deploy = {}
  Empty = {}
  Small = {p2}
  Size <- MCSize
  MaxConn = 2
  None = None
  Old = Old
  Mixed = Mixed
CHECK_DEADLOCK FALSE
INVARIANT
  OneWriter
PROPERTIES
  LockReturned
  PutCompleted
