SPECIFICATION DiscoverySpec
CONSTANTS
  w1 = w1
  w2 = w2
  p1 = p1
  p2 = p2
  quoted = quoted
  plain = plain
  decoded = decoded
  Handlers = {w1, w2}
  InstanceIds = {i1, i2}
  Reported = {"healthy", "maintenance"}
  MaxRegistry = 4
  NoRow = NoRow
  Readers = {w1, w2}
  Hosts = {p1, p2}
  HostOf <- MCHostOf
  Texts = {quoted, plain}
  Decode <- MCDecode
  Descriptions = {"a", "b"}
  Failure = Failure
  MaxConfig = 4
  Nothing = Nothing
CHECK_DEADLOCK FALSE
INVARIANTS
  EmptyIsInactive
  RedisIsCurrent
  HistoryChains
PROPERTIES
  NoneRevived
