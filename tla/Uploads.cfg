SPECIFICATION Spec
CONSTANTS
  Put = {p1, p2}
  Deploy = {d1}
  Empty = {}
  Small = {d1, p2}
  Size <- MCSize
  MaxConn = 1
  None = None
  Old = Old
  Mixed = Mixed
CHECK_DEADLOCK FALSE
INVARIANTS
  PutIsThere
  
