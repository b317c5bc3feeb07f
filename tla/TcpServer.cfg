CONSTANTS
  MaxThreads = 2
  MaxConns = 3
  MaxFds = 2
  MaxId = 2
  Callers = {}
  MaxSends = 0
SPECIFICATION Spec
INVARIANTS
  TypeOK
  OneDestructionAhead
  NoDanglingChannel
  ToldOfEnd
  ServerOutlivesLoops
  RoundRobin
  StartsOnce
PROPERTIES
  DestructorCompletes
  ClientsServed
CHECK_DEADLOCK FALSE
