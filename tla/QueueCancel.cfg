CONSTANTS
  NJobs = 2
  Lanes = {l1}
  NoLane = NoLane
  Kinds <- WorkersOnly
  Dispatchers = {d1, d2}
  MaxGlobal = 1
  MaxAttempts = 2
  MaxRetries = 1
  MaxBoots = 2
  MaxFaults = 0
  LeaseMayLapse = FALSE
  CancelsAllowed = TRUE
SPECIFICATION Spec
INVARIANT OneExecutorPerJob
INVARIANT NotifiedOnce
SYMMETRY OneLane
