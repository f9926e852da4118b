SPECIFICATION FairLiveSpec
CONSTANTS
  ChCap = 1
  BatchSize = 2
  MaxOffered = 3
  InsertFails = FALSE
  MaxClock = 1
  MaxSessions = 1
  MaxLap = 2
  Filters = {0, 1}
  Lookback = 1
  MaxIdleTicks = 2
INVARIANTS
  StreamTypeOK
  SentOnceInOrder
  NothingSkipped
PROPERTIES
  RowReachesClient
  StreamEnds
CHECK_DEADLOCK FALSE
