SPECIFICATION FairListenerSpec
CONSTANTS
  a1 = a1
  h1 = h1
  h2 = h2
  w1 = w1
  w2 = w2
  None = None
  Keys = {a1}
  Workers = {w1, w2}
  Handlers = {h1, h2}
  Kinds = {"Event", "Frame", "Bad"}
  RawCap = 1
  RouterCap = 1
  InCap = 1
  MaxPackets = 2
INVARIANTS
  ListenerTypeOK
  NoPanic
  NothingRunsAfterStart
  EventsAccountedFor
PROPERTIES
  IdleHandlerWasSilent
  StopsUnlessEventStuck
  QueuedIsHandled
CHECK_DEADLOCK FALSE
