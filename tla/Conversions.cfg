SPECIFICATION ConversionsSpec
CONSTANTS
  Frames = 4
  MaxDelay = 1
  Places = 6
  MaxRows = 3
INVARIANTS
  PayloadAsDocumented
  ClientReadsEngineRow
  IdealLapCharts
