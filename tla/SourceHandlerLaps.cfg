CONSTANTS
  s1 = s1
  s2 = s2
  Sessions = {s1, s2}
  LapNums = {1, 2}
  LapTimes = {0}
  LapPackets <- LifecyclePackets
  FrameIDs = {0}
  Kinds = {}
  Tracks = {}
  Drivers = {"Player"}
  Fallible = {}
  WriteChMayFill = FALSE
  MaxStamps = 2
  MaxRows = 1
  None = None
SPECIFICATION Spec
SYMMETRY Symmetric
INVARIANTS
  TypeOK
  OneSessionInProgress
  OneLapInProgress
  TrackedSector
PROPERTIES
  EndClosesLaps
