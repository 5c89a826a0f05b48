\* Two steps of up to two calls, a crash anywhere and the repair of the log.
SPECIFICATION Spec
CONSTANTS
  MaxCalls = 2
  MaxSteps = 2
  maxParallelToolCalls = 2
INVARIANTS EveryCallAnswered Balanced CodesTellTheTruth ShownResultsSurvive
CHECK_DEADLOCK FALSE
