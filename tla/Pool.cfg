CONSTANTS
  MaxBatches = 3
  Size = 2
  MaxWorkers = 3
  MaxDeaths = 1
  MaxDowns = 1
  NoJob = NoJob
SPECIFICATION Spec
INVARIANT NoCallLost
INVARIANT WaitsForWorkers
PROPERTY AbortIsOwn
PROPERTY EveryCallEnds
CHECK_DEADLOCK FALSE
