SPECIFICATION FairSpec
CONSTANTS
  Agent = {a1}
  File = {f1, f2}
  Job = {j1, j2}
  MaxConn = 1
  MaxValues = {}
  InitialMax = 1
  QueueBound = 2
  Commands = {"START"}
  CommandBound = 1
  None = None
CHECK_DEADLOCK FALSE
PROPERTIES
  QueuedIsChecked
  SlotReturned
