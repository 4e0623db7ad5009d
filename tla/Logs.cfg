SPECIFICATION Spec
CONSTANTS
  Followed = {f1}
  WriteBound = 4
  QueueBound = 2
  RotateBound = 1
  ReloadBound = 1
  ReadFaults = 1
  Full = 4
  Kept = 2
  LineBound = 8
  ReturnBound = 2
 
PROPERTIES FollowedToTheEnd ShownInTheEnd
CHECK_DEADLOCK FALSE
