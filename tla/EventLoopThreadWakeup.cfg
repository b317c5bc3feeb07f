\* The second half of quit() against the end of the loop it stops.
CONSTANTS
  Owner = owner
  Tasks = {t1, t2}
  SetupTasks = {t1}
  IoChannels = {c1}
  Wakeup = wakeupChannel_
SPECIFICATION SafetySpec
INVARIANT WakeupReachesLoop
CHECK_DEADLOCK FALSE
