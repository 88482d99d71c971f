SPECIFICATION FairSpec
CONSTANTS
  N = 2
  MaxWorkers = 2
  MaxSessions = 2
INVARIANTS
  PredictionMatches
  MergeIsComplete
  MergeIsFresh
  SkippedIsPredicted
PROPERTIES
  FinalKept
  NoLateStart
  LaunchEnds
  PoolGoesOn
