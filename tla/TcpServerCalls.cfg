\* Another thread's send() and shutdown(); the second connection takes the name of the
\* first.
CONSTANTS
  MaxThreads = 1
  MaxConns = 2
  MaxFds = 2
  MaxId = 1
  Callers = {p1}
  MaxSends = 1
SPECIFICATION Spec
INVARIANTS
  OneDestructionAhead
  NoDanglingChannel
  DestroyedStaysOut
  ToldOfEnd
PROPERTY DownConnectionsAreFreed
CHECK_DEADLOCK FALSE
