SPECIFICATION FairSpec
CONSTANTS
  MaxOpens = 1
  MaxIncidents = 1
  IsVideo = TRUE
  MaxTime = 1
  MaxRequests = 1
  StartTimes <- MCStartTimes
  StopTimes <- MCStopTimes
  Requests <- MCRequests

CHECK_DEADLOCK FALSE
INVARIANTS TypeOK NoPlayerLeft
PROPERTIES ClosedMediaEnds SeekEnds StopsInTime
