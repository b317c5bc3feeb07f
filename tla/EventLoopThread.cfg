\* One start, use and destruction, with a loop that may also stop itself.
CONSTANTS
  Owner = owner
  Tasks = {t1, t2}
  SetupTasks = {t1}
  IoChannels = {c1}
  Wakeup = wakeupChannel_
SPECIFICATION Spec
INVARIANTS
  TypeOK
  LoopOutlivesCalls
  NoThreadLeftBehind
PROPERTIES
  StartReturns
  DestructorEnds
CHECK_DEADLOCK FALSE
