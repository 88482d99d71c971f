SPECIFICATION Spec
CONSTANTS
  LoopTypes = {"chooser"}
  AttemptLimits <- OneConfig
  CostLimit = 6
  MinBudget = 0
  MaxAttempts = 3
  MaxAccepts = 0
  Scores = {2, 6}
  AcceptScore = 5
  Penalty = 2
  HasPreselector = FALSE
  MaxPrice = 2
  MaxCalls = 1
INVARIANTS
  OnlySubmitted
