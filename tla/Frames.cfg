SPECIFICATION Spec
CONSTANTS
  main = main
  outer = outer
  inner = inner
  lib = lib
  NoCode = NoCode
  Code <- MCCode
  Encloser <- MCEncloser
  Nesting <- MCNesting
  Arity <- MCArity
  SlotCount <- MCSlotCount
  Halts <- MCHalts
  FramesMax = 3
  StackMax = 8
  MaxOperands = 2
  MaxActivations = 5
INVARIANTS
  ActivationsApart
  RunsNested
  LexicalReach
  ChainDescends
PROPERTIES
  CallersKept
  CallsBalanced
CHECK_DEADLOCK FALSE
