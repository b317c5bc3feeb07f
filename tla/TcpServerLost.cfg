CONSTANTS
  MaxThreads = 1
  MaxConns = 1
  MaxFds = 1
  MaxId = 1
  Callers = {}
  MaxSends = 0
SPECIFICATION SafetySpec
INVARIANT EveryConnectionDestroyed
CHECK_DEADLOCK FALSE
