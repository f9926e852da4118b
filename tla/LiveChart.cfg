SPECIFICATION ConversionsSpec
CONSTANTS
  Frames = 2
  MaxDelay = 1
  Places = 6
  MaxRows = 3
INVARIANT
  LiveRowsPlotted
