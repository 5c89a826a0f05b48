SPECIFICATION Spec
CONSTANTS
  c1 = c1
  c2 = c2
  Callers <- MCCaller
  MaxPending = 2
  MaxEvents = 2
  MaxSeed = 0
  Materializing = {0}
  Gateway = TRUE
  MaxStray = 1
INVARIANTS
  RetryIsIdempotent
CHECK_DEADLOCK FALSE
