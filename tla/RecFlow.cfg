SPECIFICATION Spec
CONSTANTS
  Agent = {a1, a2}
  File = {f1}
  Job = {j1, j2}
  MaxConn = 1
  MaxValues = {}
  InitialMax = 1
  QueueBound = 2
  Commands = {"START"}
  CommandBound = 1
  None = None
CHECK_DEADLOCK FALSE
SYMMETRY MCSymmetry
INVARIANTS
  SlotAccounting
  NoForgottenWaiter
  ReportedOnce
