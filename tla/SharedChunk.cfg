SPECIFICATION MCSpec
CONSTANTS
  Value = {block}
  Nil = Nil
  Wrap = 4
  MaxRetains = 3
  Parts = {"loading"}
  HostAsks = TRUE
  StepLimit = 0
  StepWrap = 16
  MemoryLimited = TRUE
  MaxCalls = 4
  MaxFailures = 3
  MaxLate = 2
  MaxSteps = 8
  Address = {"p", "q"}
  Global = {"x", "y"}
  Real <- MCReal
  Unusable = Unusable
  Programs <- MCPrograms
  Block <- MCBlock
  Texts <- MCFiles
  MaxFrames = 2
  MaxMachines = 3
  Entry = {"a", "b", "long", "full"}
  Empty = ""
  LastPiece <- MCLastPiece
  Limit = 2
  MaxEntered = 3
  Path = {"in", "log"}
  Requests <- MCRequests
  Standings <- MCStandings
  PipeHolds = 1
  MaxWritten = 3
INVARIANTS
  NamesOwn
CHECK_DEADLOCK FALSE
