CONSTANTS
  Threads = {p1, p2}
  Tasks = {t1, t2, t3}
  SetupTasks = {}
  IoChannels = {c1}
  Wakeup = wakeupChannel
SPECIFICATION Spec
INVARIANTS TypeOK NoLostWakeup NoLostQuit
PROPERTIES QuitEndsLoop ImplementsTaskQueue
