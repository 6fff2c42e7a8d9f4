CONSTANTS
  Tasks = {t1}
  Execs = {e1, e2}
  Clients = {c1, c2}
  MaxErrors = 2
  MaxOps = 2
  MaxCrashes = 1
  MaxFaults = 1
  NoTask = NoTask
  Patches = {"active"}
SPECIFICATION Spec
INVARIANT RunsSettle
INVARIANT CountsHonest
INVARIANT FailingIsPaused
INVARIANT BootQuiet
PROPERTY SettledStays
SYMMETRY Symmetric
CHECK_DEADLOCK FALSE
