SPECIFICATION Spec
CONSTANTS
  Workers = {w1, w2}
  Keys <- MCKeys
  Paths <- MCPaths
  Limits <- MCLimits
  MaxRequests = 4
  NoKey = NoKey
  c1 = c1
  c2 = c2
  p1 = p1
  p2 = p2
  i1 = i1
  i2 = i2
  Processes = {p1, p2}
  Callers = {c1, c2}
  ProcessOf <- MCApart
  Instances = {i1, i2}
  Registries <- MCRegistries
  Threshold = 2
  MaxRetries = 1
  MaxEvents = 3
  None = None
INVARIANTS
  OverrunBounded
  CountsAsOne
  TakeTurns
PROPERTIES
  WindowEnds
CHECK_DEADLOCK FALSE
