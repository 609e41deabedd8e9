SPECIFICATION FairSpec
CONSTANTS
  Scenes = {1}
  Urls = {u1, u2}
  MaxRequests = 2
  MaxWorkers = 2
  MaxSessions = 2
  MaxErrors = 1
INVARIANTS
  TypeOK
  NoWantedFileDropped
PROPERTIES
  EveryRequestAnswered
  ThreadEnds
CHECK_DEADLOCK FALSE
