SPECIFICATION FairSpec
CONSTANTS
  Sockets = {"e", "p"}
  EventSockets = {"e"}
  Named = {"e"}
  MaxRevisions = 2
  MaxDrops = 1
  MaxFailures = 1
  MaxRenewals = 1
INVARIANTS AppliedIsClosed AdmittedIsCurrent StreamsGuarded
PROPERTIES LeasesAreLive SynchronizeSettles RevocationCloses
CHECK_DEADLOCK FALSE
