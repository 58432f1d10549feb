SPECIFICATION FairSpec
CONSTANTS
  Events = {e1}
  Subs = {s1, s2}
  Workers = {w1, w2}
  MaxRetries = 2
  MaxAttempts = 2
  MaxRequests = 3
  Missing = Missing
INVARIANTS
  CompletedWasReceived
  ReceivedOnce
PROPERTIES
  ProcessingEnds
CHECK_DEADLOCK FALSE
