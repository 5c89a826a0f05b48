SPECIFICATION FairSpec
CONSTANTS
  c1 = c1
  c2 = c2
  Callers <- MCCallers
  MaxPending = 2
  MaxEvents = 4
  MaxSeed = 1
  Materializing = {2}
  Gateway = FALSE
  MaxStray = 0
INVARIANTS
  FlushIsDurable
  NoStranding
  ReleaseIsDurable
PROPERTIES
  Drains
  FlushSettles
CHECK_DEADLOCK FALSE
