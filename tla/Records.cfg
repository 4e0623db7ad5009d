SPECIFICATION RecordsSpec
CONSTANTS
  Day = {1, 2}
  File <- Files
  TooLarge <- LargeFiles
  VersionBound = 2
  RequestBound = 2
  LossBound = 1
  Chan = {"c1"}
  Ext = {"e1"}
  Thread = {"t1"}
  Window <- Windows
  IaTimeout = 1
  Lag = 1
  TimeBound = 4
  EventBound = 3
  Base = 6
  MaxPayload = 12
  Exchanged <- WireCases
INVARIANTS  IaAccounted
PROPERTIES  PeersAgree
CHECK_DEADLOCK FALSE
