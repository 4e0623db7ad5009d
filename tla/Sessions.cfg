SPECIFICATION FairSpec
CONSTANTS
  Agent = {a1, a2}
  MaxConn = 2
  MaxAgents = 1
  None = None
CHECK_DEADLOCK FALSE
INVARIANT
  NoOrphanSession
PROPERTY
  StaleSessionEnds
