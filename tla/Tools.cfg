SPECIFICATION MCSpec
CONSTANTS
  MaxNesting = 8
  MaxU8 = 255
  MaxLocals = 4
  MaxCalls = 6
  MaxSteps = 60
  Idents = {"a"}
  Digits = {"2"}
  Programs <- MCPrograms
  Regions <- MCRegions
  Codes <- MCCodes
  Methods <- MCMethods
  Global = {"x"}
  Options <- MCNowhere
  Environment <- MCNowhere
  Shipped <- MCShipped
  Missing = Missing
  Layouts <- MCLayouts
  Texts <- MCTexts
  Main <- MCMain
  Limits = {1, 64}
  Line = {l1, l2}
  MaxDepth = 3
  MaxEntered = 4
  Capacity = 2
  MaxTyped = 4
SYMMETRY Renamed
CHECK_DEADLOCK FALSE
INVARIANTS
  HeightsAgree
  WrittenIsRead
  MeaningPreserved
  NotationOnly
  
  InputShared
  FormsKept
PROPERTY
  StopsWhereAsked
