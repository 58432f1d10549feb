SPECIFICATION Spec
CONSTANTS
  N = 4
  MaxRetries = 1
  Tolerant <- MCTolerant
  Swallows <- MCSwallows
  NoRecord = NoRecord
INVARIANTS
  SuccessMeansCompleted
CHECK_DEADLOCK FALSE
