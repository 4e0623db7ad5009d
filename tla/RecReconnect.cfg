SPECIFICATION Spec
CONSTANTS
  Agent = {a1}
  File = {f1}
  Job = {j1, j2}
  MaxConn = 2
  MaxValues = {0, 2}
  InitialMax = 1
  QueueBound = 2
  Commands = {"START", "STOP"}
  CommandBound = 3
  None = None
CHECK_DEADLOCK FALSE
SYMMETRY MCSymmetry
PROPERTY
  ImplementsSlotPool
