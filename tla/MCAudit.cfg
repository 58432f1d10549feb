SPECIFICATION Spec
SYMMETRY Identifiers
CONSTANTS
  w1 = w1
  w2 = w2
  p1 = p1
  s1 = s1
  s2 = s2
  Clerks = {w1, w2}
  Homes = {p1}
  HomeOf <- MCHomeOf
  Tables = {"audit_logs", "api_audit_logs", "security_events"}
  Services = {s1, s2}
  RowIds = {i1, i2}
  Batches <- MCBatches
  MaxTrail = 3
  MaxBucket = 2
  Absent = Absent
  Agents = {w1, w2}
  Traces = {t1, t2}
  Incidents = {e1}
  MaxTracing = 4
  Missing = Missing
CHECK_DEADLOCK FALSE
INVARIANTS
  LoggedAsConfigured
  StatsWithin
  ColumnsAgree
PROPERTIES
  EndedStays
