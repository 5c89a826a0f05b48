SPECIFICATION Spec
CONSTANTS
  c1 = c1
  c2 = c2
  Callers <- MCCaller
  MaxPending = 2
  MaxEvents = 4
  MaxSeed = 1
  Materializing = {2}
  Gateway = TRUE
  MaxStray = 2
INVARIANTS
  IndInv
PROPERTIES
  ImplementsDurableLog
CHECK_DEADLOCK FALSE
