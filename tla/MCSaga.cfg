SPECIFICATION FairSpec
CONSTANTS
  N = 4
  MaxRetries = 1
  Tolerant <- MCTolerant
  Swallows <- MCSwallows
  NoRecord = NoRecord
INVARIANTS
  EffectsBounded
  CleanStepsUndone
PROPERTIES
  KeepsContract
  SagaAnswers
CHECK_DEADLOCK FALSE
