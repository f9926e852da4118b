CONSTANTS
  s1 = s1
  s2 = s2
  Sessions = {s1, s2}
  LapNums = {1, 2}
  LapTimes = {0}
  LapPackets <- FailurePackets
  FrameIDs = {0, 1, 2}
  Kinds = {"Motion"}
  Tracks = {}
  Drivers = {}
  Fallible = {"CloseSession", "OpenLap"}
  WriteChMayFill = TRUE
  MaxStamps = 2
  MaxRows = 1
  None = None
SPECIFICATION OrderSpec
SYMMETRY Symmetric
INVARIANTS
  LapCursorRecorded
  RecordsIntoOpenSession
  RowIsOneFrame
PROPERTIES
  RowsInFrameOrder
  EndedSessionFrozen
