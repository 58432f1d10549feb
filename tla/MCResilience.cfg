SPECIFICATION ResilienceSpec
CONSTANTS
  Callers = {c1, c2}
  FailureThreshold = 2
  SuccessThreshold = 2
  Timeout = 2
  WindowSize = 3
  RemoteStates <- MCOthers
  MaxNews = 1
  Idle = Idle
  Never = Never
  NoNews = NoNews
  Threads = {m, t1}
  Main = m
  Concurrent = 1
  MaxAttempts = 2
  Seconds = 1
CHECK_DEADLOCK FALSE
INVARIANTS
  CountsFitState
  PermitsKept
  KilledByLeftover
PROPERTIES
  TripsAfterThreshold
  OpenIsTemporary
  ClosesAfterRecovery
  CallEnds
