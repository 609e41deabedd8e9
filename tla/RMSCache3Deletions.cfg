SPECIFICATION Spec
CONSTANTS
  Keys = {k1, k2}
  Values = {v1, v2}
  None = None
  EraseAll = EraseAll
  IsMaster = FALSE
  MaxCalls = 3
  MaxRestarts = 1
INVARIANTS
  ModificationsAreDumped
CHECK_DEADLOCK FALSE
