SPECIFICATION Spec
CONSTANTS
  MaxRequeries = 2
  MaxTimeouts = 2
  ExecLimit = 3
  ActionTimeout = 2
  InterruptTime = 1
  CostLimit = 2
  MaxWork = 2
  HasRepo = TRUE
  HasDiff = TRUE
INVARIANTS
  SalvageIsRecorded
