SPECIFICATION LibrarySpec
CONSTANTS
  None = None
  s1 = s1
  Keys <- MCKeys
  MaxMonth = 2
  MaxCopies = 2
INVARIANTS
  LibraryTypeOK
  NoDuplicateTelemetry
  StartsUnlessOverran
PROPERTIES
  BackupRestores
  ListedLapStays
