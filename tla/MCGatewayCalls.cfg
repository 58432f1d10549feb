SPECIFICATION Spec
CONSTANTS
  Workers = {w1, w2}
  Keys <- MCKeys
  Paths <- MCPaths
  Limits <- MCLimits
  MaxRequests = 0
  NoKey = NoKey
  c1 = c1
  c2 = c2
  p1 = p1
  p2 = p2
  i1 = i1
  i2 = i2
  Processes = {p1}
  Callers = {c1, c2, c3}
  ProcessOf <- MCTogether
  Instances = {i1, i2}
  Registries <- MCRegistries
  Threshold = 2
  MaxRetries = 1
  MaxEvents = 4
  None = None
PROPERTIES
  CallsEnd
CHECK_DEADLOCK FALSE
