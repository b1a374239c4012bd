SPECIFICATION MCSpec
CONSTANTS
  x = x
  y = y
  l1 = l1
  Name = {x, y}
  List = {l1}
  None = None
  Threshold = 0
  MinSeats = 2
  MaxObjects = 2
  MaxSlots = 4
  CallocFails = TRUE
  a = a
  b = b
  nan = nan
  Key = {a, b, nan}
  Nan = {nan}
  Value = {1, 2}
  Nil = Nil
  Hash <- MCHash
  MinCapacity = 4
  MaxCapacity = 8
  MaxStrays = 2
  MaxWalks = 1
  Elem <- MCElem
  Rank <- MCRank
  Starts <- MCStarts
  Stale = Stale
  MaxLength = 3
  MaxChanges = 2
SYMMETRY Renamed
INVARIANTS
  IndexAgrees
  SurfaceAgrees
  CountsExact
  AnswersHold
PROPERTIES
  OutsidersKeepOff
  KeepsPromise
