SPECIFICATION Spec
CONSTANTS
  N = 2
  MaxWorkers = 1
  MaxSessions = 2
INVARIANTS
  AllPatchesMerged
