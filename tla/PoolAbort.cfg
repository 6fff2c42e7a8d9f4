CONSTANTS
  MaxBatches = 2
  Size = 2
  MaxWorkers = 2
  MaxDeaths = 0
  MaxDowns = 0
  NoJob = NoJob
SPECIFICATION Spec
PROPERTY AbortReachesAll
CHECK_DEADLOCK FALSE
