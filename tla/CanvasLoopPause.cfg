SPECIFICATION Spec
CONSTANTS
  Devices = {"mouse"}
  Screens <- MCScreens
  FirstScreen <- MCFirst
  MaxInputs = 2
INVARIANTS
  PausesOnlyWhenIdle
CHECK_DEADLOCK FALSE
