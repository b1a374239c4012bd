SPECIFICATION Spec
CONSTANTS
  StepLimit = 9
  Wrap = 16
  MemoryLimited = FALSE
  MaxCalls = 4
  MaxFailures = 3
  MaxLate = 2
  MaxSteps = 12
INVARIANTS
  StepsCounted
  FailuresAccounted
  FirstFailureWins
  CleanupsRun
  AnswersAgree
PROPERTIES
  StopIsFinal
  RunsEnd
