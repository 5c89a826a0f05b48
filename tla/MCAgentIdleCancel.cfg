SPECIFICATION Spec
CONSTANTS
  Messages = {m1, m2}
  Reentrant = {"idle"}
  Rewrites = FALSE
SYMMETRY Symmetry
INVARIANT CancelParks
CHECK_DEADLOCK FALSE
