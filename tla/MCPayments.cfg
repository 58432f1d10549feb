SPECIFICATION FairSpec
CONSTANTS
  Ids = {p1}
  Workers = {w1, w2}
  Hooks = {h1, h2}
  Prices = {2}
  Amounts <- MCAmounts
  MaxRequests = 3
  Missing = Missing
INVARIANTS
  NeverOverRefunded
  UndisturbedRefunds
PROPERTIES
  WebhooksSettle
CHECK_DEADLOCK FALSE
