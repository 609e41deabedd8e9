SPECIFICATION Spec
CONSTANTS
  Scenes = {1}
  Urls = {u1, u2}
  MaxRequests = 3
  MaxWorkers = 2
  MaxSessions = 2
  MaxErrors = 0
INVARIANTS
  OneFileAtATime
CHECK_DEADLOCK FALSE
