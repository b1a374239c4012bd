SPECIFICATION FairSpec
CONSTANTS
  c0 = c0
  c1 = c1
  c2 = c2
  c3 = c3
  Cell = {c0, c1, c2}
  Root = c0
  None = None
  Name = {x}
  StackMax = 3
  TempsMax = 2
  MaxCalls = 3
  MaxKept = 1
  MaxHandles = 2
INVARIANTS
  NothingDangles
  ReleasedOnce
  TempsBalanced
PROPERTIES
  CollectionEnds
CHECK_DEADLOCK FALSE
