\* One step of three calls with a pool of two.
SPECIFICATION FairSpec
CONSTANTS
  MaxCalls = 3
  MaxSteps = 1
  maxParallelToolCalls = 2
INVARIANTS SchedulerSafe ExclusiveAlone ResultsInModelOrder
PROPERTIES StepSettles
CHECK_DEADLOCK FALSE
