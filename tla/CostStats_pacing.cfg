CONSTANTS
  Threads = {t1, t2}
  Prices = {1}
  TotalLimit = 2
  InstanceLimit = 1
  CallLimit = 2
  Delay = 2
  Retries = 2
  MaxSamples = 2
  MaxModels = 1
  MaxAsks = 1
SPECIFICATION FairSpec
INVARIANT QuerySpacing
PROPERTY QueryEnds
