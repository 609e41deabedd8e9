SPECIFICATION SceneFairSpec
CONSTANTS
  MaxCalls = 4
  MaxTime = 4
  Delays = {1, 2}
  MaxReentrant = 2
  MaxScenes = 2
  Plays <- MCPlays
INVARIANTS
  SceneTypeOK
  SleepsUntilNeeded
  StartedAsShown
PROPERTIES
  InvokedInOrder
  EveryRequestInvoked
  InlineSettles
  SensorsInTime
CHECK_DEADLOCK FALSE
