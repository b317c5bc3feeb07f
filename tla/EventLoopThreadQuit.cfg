\* quit() may come between the publication of loop_ and loop().
CONSTANTS
  Owner = owner
  Tasks = {t1, t2}
  SetupTasks = {t1}
  IoChannels = {c1}
  Wakeup = wakeupChannel_
SPECIFICATION Spec
PROPERTY DestructorAlwaysEnds
CHECK_DEADLOCK FALSE
