SPECIFICATION FairSpec
CONSTANTS
  Devices = {"mouse"}
  Screens <- MCScreens
  FirstScreen <- MCFirst
  MaxInputs = 3
INVARIANTS
  TypeOK
  EventsInOrder
  PressesAreReleased
  MessagesOnceInOrder
PROPERTIES
  WorkIsDone
  ScenePaintedInItsSize
CHECK_DEADLOCK FALSE
