SPECIFICATION AllSpec
CONSTANTS
  Agent <- Agents
  Request <- Questions
  IdStarts <- Starts
  LossBound = 1
  Peer = {"a", "b"}
  Unsteady = {"a"}
  Pieces <- OneThenTwo
  Download <- ThreeFiles
  Thread = {t1, t2}
  Name = {"admin", "kim"}
  Secret = {"p", "q"}
  Configured <- Account
  DefaultName = "admin"
  DefaultSecret = "p"
  Operation <- Operations
  ByGui <- AgentsAndUpdate
  Listed = {"a1", "a2"}
  RequestBound = 3
SYMMETRY Symmetry
INVARIANTS  SavedIsWhole RefusedIsUnknown OnlyWhatIsShown
CHECK_DEADLOCK FALSE
