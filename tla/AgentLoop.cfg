SPECIFICATION FairSpec
CONSTANTS
  MaxRequeries = 2
  MaxTimeouts = 2
  ExecLimit = 3
  ActionTimeout = 2
  InterruptTime = 1
  CostLimit = 4
  MaxWork = 2
  HasRepo = TRUE
  HasDiff = TRUE
INVARIANTS
  TypeOK
  StatusHonest
  TimeoutStreak
  ExecBudget
  SubmissionIsCurrent
PROPERTIES
  KeepsContract
  Terminates
