SPECIFICATION FairSpec
CONSTANTS
  MaxRetries = 3
  Base = 2
  Cap = 3
  WordBits = 2
INVARIANTS
  TypeOK
  OkMeansStored
  ResentOnlyIfTransient
  GivesUpWhenSpent
  BackoffBudget
PROPERTY PostReturns
CHECK_DEADLOCK FALSE
