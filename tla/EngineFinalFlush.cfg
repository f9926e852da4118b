SPECIFICATION EngineSpec
CONSTANTS
  Main = Main
  None = None
  Clients = {c1}
  Listeners = {l1}
  Ports = {p1}
  ChCap = 2
  BatchSize = 2
  MaxOffered = 1
  InsertFails = FALSE
INVARIANTS
  AcceptedRowsFlushed
CHECK_DEADLOCK FALSE
