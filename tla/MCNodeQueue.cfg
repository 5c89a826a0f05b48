SPECIFICATION Spec
CONSTANTS
  Owners <- MCOwners
  Ops <- MCOps
  Actor <- MCActor
  Project <- MCProject
  OwnerOf <- MCOwnerOf
  MaxQueued = 3
  MaxQueuedPerUser = 3
  MaxQueuedPerProject = 2
  MaxCredits = 2
  MaxRequests = 2
INVARIANTS FairTurns
PROPERTIES GrantsAreCurrent NoIdleCredit
CHECK_DEADLOCK FALSE
