SPECIFICATION FairSpec
CONSTANTS
  Messages = {m1, m2}
  Reentrant = {"inserted"}
  Rewrites = FALSE
INVARIANTS Consistent NoLostWake CancelParks DetachedIsQuiet
PROPERTIES DisposeSettles SteeringClaimed
CHECK_DEADLOCK FALSE
