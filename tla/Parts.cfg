SPECIFICATION AllSpec
CONSTANTS
  Recording <- Recordings
  Engine <- Engines
  Preprocess = TRUE
  Learning = TRUE
  Interval = 2
  ChunkBound = 3
  PollBound = 2
  Chan = {"c1", "c2"}
  Version = {"v1", "v2"}
  RestartGap = 0
  Window = 2
  LineBound = 3
  TimeBound = 1
  Input <- Inputs
  SuffixLen = 2
  Confident = 1
  OverlapTol = 1
  DirPenalty = 100
  MatchWindow = 8
  GraceWindow = 1
  GraceDiff = 2
  PartialMin = 3
  BeforeGap = 2
  Minute = 6
  Did <- VirtualExt
  TrunkExt = {"t"}
  IvrExt = {"e"}
  Heard <- HeardInputs
  MaxLength = 10
  Gap = 4
  MapTol = 2
  CutTol = 1
  Agent = {"a1", "a2"}
  File = {"f1", "f2"}
  InOut = {1}
  MaxRecords = 2
  Served = {"f1"}
  Size = {1, 3}
  Start <- FirstBytes
  End <- LastBytes
  DayBound = 2
  WriteBound = 2
  ConnectBound = 2
  Editor = {"e"}
  Value = {"b"}
  ItemBound = 1
  ApplyBound = 2
  AutoStart = TRUE
  StartBound = 3
  PipeBound = 1
  Target = {"a1", "a2"}
  AskBound = 2
  FileBound = 1
  JobBound = 2
INVARIANTS  NoneOverlooked  VocabularyKept 
  WorseScoresLess DirectionKnown BodyAsPromised  ServerKnown SentAsShown
CHECK_DEADLOCK FALSE
