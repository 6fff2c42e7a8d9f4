CONSTANTS
  NJobs = 2
  Lanes = {l1, l2}
  NoLane = NoLane
  Kinds <- WorkersOnly
  Dispatchers = {d1}
  MaxGlobal = 1
  MaxAttempts = 2
  MaxRetries = 0
  MaxBoots = 2
  MaxFaults = 1
  LeaseMayLapse = FALSE
  CancelsAllowed = FALSE
SPECIFICATION FairSpec
INVARIANT TypeOK
PROPERTY EveryJobEnds
