SPECIFICATION Spec
CONSTANTS
  Messages = {m1, m2}
  Reentrant = {}
  Rewrites = TRUE
SYMMETRY Symmetry
INVARIANT NoLostWake
CHECK_DEADLOCK FALSE
