SPECIFICATION Spec
CONSTANTS
  Threads = {t1, t2}
  Prices = {1}
  TotalLimit = 2
  InstanceLimit = 1
  CallLimit = 2
  Delay = 0
  Retries = 2
  MaxSamples = 2
  MaxModels = 2
  MaxAsks = 2
INVARIANTS
  TotalIsSum
  LateChargeOnce
