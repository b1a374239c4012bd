SPECIFICATION Spec
CONSTANTS
  MaxNesting = 8
  MaxU8 = 255
  MaxLocals = 4
  MaxCalls = 6
  MaxSteps = 100
  Idents = {"a"}
  Digits = {"2"}
  Programs <- MCStrays
  Regions = {}
  Codes = {}
  Methods = {}
CHECK_DEADLOCK FALSE
INVARIANT MeaningPreserved
