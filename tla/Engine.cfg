SPECIFICATION FairEngineSpec
CONSTANTS
  Main = Main
  None = None
  Clients = {c1, c2}
  Listeners = {l1, l2}
  Ports = {p1, p2}
  ChCap = 1
  BatchSize = 2
  MaxOffered = 2
  InsertFails = TRUE
INVARIANTS
  EngineTypeOK
  NoOrphanListener
  PoolOutlivesListeners
PROPERTIES
  ShutdownEnds
  ImplementsRowLog
  AcceptedIsStored
CHECK_DEADLOCK FALSE
