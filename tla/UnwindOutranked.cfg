SPECIFICATION Spec
CONSTANTS
  StepLimit = 5
  Wrap = 16
  MemoryLimited = FALSE
  MaxCalls = 2
  MaxFailures = 1
  MaxLate = 1
  MaxSteps = 8
INVARIANTS
  StopIsAnswered
