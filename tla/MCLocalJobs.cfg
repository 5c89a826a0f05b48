SPECIFICATION FairSpec
CONSTANTS
  Jobs = {"a", "b"}
  Owners = {"o"}
  Owner <- MCOwner
  Pulled = {"a"}
  Waits = {"w"}
  MaxConcurrentJobsPerOwner = 1
  RetainBytes = 3
  SettledRetainBytes = 1
  MaxBytes <- MCMaxBytes
  Outcomes = {"completed"}
  Sizes = {2}
INVARIANTS JobsInv OutputAccounted LimitHolds
PROPERTIES NothingCutOff JobsSettle
CHECK_DEADLOCK FALSE
