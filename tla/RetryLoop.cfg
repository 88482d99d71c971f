SPECIFICATION FairSpec
CONSTANTS
  LoopTypes = {"score", "chooser"}
  AttemptLimits <- TwoConfigs
  CostLimit = 3
  MinBudget = 0
  MaxAttempts = 3
  MaxAccepts = 1
  Scores = {6}
  AcceptScore = 5
  Penalty = 2
  HasPreselector = TRUE
  MaxPrice = 2
  MaxCalls = 4
INVARIANTS
  FailsafeUnreachable
  BudgetHolds
  AcceptsBounded
  ChoiceIsCandidate
PROPERTIES
  RunEnds
