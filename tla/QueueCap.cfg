CONSTANTS
  NJobs = 3
  Lanes = {l1}
  NoLane = NoLane
  Kinds <- AllKinds
  Dispatchers = {d1, d2}
  MaxGlobal = 1
  MaxAttempts = 1
  MaxRetries = 0
  MaxBoots = 1
  MaxFaults = 0
  LeaseMayLapse = FALSE
  CancelsAllowed = FALSE
SPECIFICATION Spec
SYMMETRY OneLane
INVARIANT OverrunBounded
INVARIANT FifoStarts
