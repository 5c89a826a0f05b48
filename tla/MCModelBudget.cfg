SPECIFICATION FairSpec
CONSTANTS
  p1 = p1
  p2 = p2
  o1 = o1
  o2 = o2
  Owners <- TwoOwners
  Ops <- TwoOps
  Actor <- OneUser
  Project <- OneProject
  AdminOwners = {p1}
  MaxQueued = 2
  MaxQueuedPerUser = 1
  MaxQueuedPerProject = 2
  MaxCredits = 1
  MaxFaults = 1
  MaxCrashes = 1
INVARIANTS RunningIsAccounted NoLeakedRow Recoverable SequenceContiguous
PROPERTIES CloseSettles
CHECK_DEADLOCK FALSE
