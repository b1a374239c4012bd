SPECIFICATION Spec
CONSTANTS
  StepLimit = 0
  Wrap = 16
  MemoryLimited = TRUE
  MaxCalls = 2
  MaxFailures = 1
  MaxLate = 1
  MaxSteps = 8
PROPERTIES
  StopNotCaught
CHECK_DEADLOCK FALSE
