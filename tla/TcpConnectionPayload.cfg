\* Callers that go on as soon as send() returns.
CONSTANTS
  m1 = m1
  m2 = m2
  Callers = {p1}
  ShutdownCallers = {}
  Messages = {m1, m2}
  Length <- MCLength
  highWaterMark_ = 2
  CallersWait = FALSE
SPECIFICATION SafetySpec
INVARIANT StreamIntegrity
CHECK_DEADLOCK FALSE
