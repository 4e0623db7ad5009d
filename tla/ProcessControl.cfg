SPECIFICATION FairSpec
CONSTANTS
  Server = {s1}
  DayLength = 1
  LastMinute = 1
  CommandBound = 3
  FaultBound = 1
PROPERTIES
  
  Recovered
  
CHECK_DEADLOCK FALSE
