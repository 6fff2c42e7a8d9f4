CONSTANTS
  Tasks = {t1, t2}
  NoTask = NoTask
  Rounds = 2
  MaxTurnRuns = 2
  MaxCrashes = 1
  MaxFaults = 1
SPECIFICATION Spec
INVARIANT ClaimIsExclusive
INVARIANT SummaryIsKnown
PROPERTY ImplementsFanIn
SYMMETRY Symmetric
CHECK_DEADLOCK FALSE
