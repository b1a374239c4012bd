SPECIFICATION Spec
CONSTANTS
  c0 = c0
  c1 = c1
  c2 = c2
  c3 = c3
  Cell = {c0, c1, c2, c3}
  Root = c0
  None = None
  Name = {x}
  StackMax = 3
  TempsMax = 2
  MaxCalls = 1
  MaxKept = 0
  MaxHandles = 1
SYMMETRY Symmetry
INVARIANTS
  SymbolsUnique
PROPERTIES
  FreesExactlyGarbage
CHECK_DEADLOCK FALSE
