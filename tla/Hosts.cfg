SPECIFICATION MCSpec
CONSTANTS
  Value = {block, dict}
  Nil = Nil
  Wrap = 4
  MaxRetains = 3
  Parts = {"retaining", "unwinding", "loading", "remembering", "running"}
  HostAsks = FALSE
  StepLimit = 0
  StepWrap = 16
  MemoryLimited = TRUE
  MaxCalls = 4
  MaxFailures = 3
  MaxLate = 2
  MaxSteps = 8
  Address = {"p", "q"}
  Global = {"x", "y"}
  Real <- MCReal
  Unusable = Unusable
  Programs <- MCPrograms
  Block <- MCBlock
  Texts <- MCFiles
  MaxFrames = 2
  MaxMachines = 3
  Entry = {"a", "b", "long", "full"}
  Empty = ""
  LastPiece <- MCLastPiece
  Limit = 2
  MaxEntered = 3
  Path = {"in", "log"}
  Requests <- MCRequests
  Standings <- MCStandings
  PipeHolds = 1
  MaxWritten = 3
INVARIANTS
  FreeListExact
  NamesOwn
  LoadedOnce
  FailuresAccounted
  HistoryKept
  ChildrenServed
PROPERTIES
  KeepsPromise
CHECK_DEADLOCK FALSE
