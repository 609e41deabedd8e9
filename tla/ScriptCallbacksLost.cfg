SPECIFICATION Spec
CONSTANTS
  MaxCalls = 4
  MaxTime = 3
  Delays = {1, 2}
  MaxReentrant = 2
INVARIANT NothingLost
CHECK_DEADLOCK FALSE
