CONSTANTS
  NJobs = 1
  Lanes = {l1}
  NoLane = NoLane
  Kinds <- WorkersOnly
  Dispatchers = {d1, d2}
  MaxGlobal = 1
  MaxAttempts = 2
  MaxRetries = 1
  MaxBoots = 2
  MaxFaults = 1
  LeaseMayLapse = TRUE
  CancelsAllowed = TRUE
SPECIFICATION Spec
INVARIANT StartBudget
INVARIANT RunningIsOwned
INVARIANT RunningIsHeld
INVARIANT SlotsMatchExecutions
PROPERTY FinalStays
PROPERTY ImplementsLifecycle
