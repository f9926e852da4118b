SPECIFICATION RaceSpec
CONSTANTS
  s1 = s1
  s2 = s2
  Sessions = {s1, s2}
  LapNums = {1, 2, 3}
  LapTimes = {0, 1, 2, 3}
  LapPackets <- RacePackets
  FrameIDs = {0, 1, 2, 3, 4, 5}
  Kinds = {"Telemetry"}
  Tracks = {"Monza"}
  Drivers = {}
  Fallible = {}
  WriteChMayFill = FALSE
  MaxStamps = 2
  MaxRows = 9
  None = None
  PerFrame <- LapAndTelemetry
  MaxFrame = 5
  MaxRaces = 1
  PacketLoss = TRUE
  EventLoss = TRUE
SYMMETRY Symmetric
INVARIANTS
  LapTimeWasDriven
  LapTimeIsExact
  HandlerFollowsGame
PROPERTIES
  LapTimeWrittenOnce
CHECK_DEADLOCK FALSE
