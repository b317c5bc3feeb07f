\* The loop's own callbacks and one other thread, both of which send and shut down.
CONSTANTS
  m1 = m1
  m2 = m2
  Callers = {p1}
  ShutdownCallers = {p1}
  Messages = {m1, m2}
  Length <- MCLength
  highWaterMark_ = 2
  CallersWait = TRUE
SPECIFICATION Spec
INVARIANTS
  TypeOK
  StreamIntegrity
  WatchesWhileBuffered
  FinAfterData
  DownOnce
  RemovedBeforeDestroyed
PROPERTIES
  NoDataAfterDown
  ShutdownSendsFin
CHECK_DEADLOCK FALSE
