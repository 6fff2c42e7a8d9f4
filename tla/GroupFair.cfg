CONSTANTS
  Tasks = {t1, t2}
  NoTask = NoTask
  Rounds = 2
  MaxTurnRuns = 1
  MaxCrashes = 0
  MaxFaults = 0
SPECIFICATION FairSpec
PROPERTY FanInArrives
CHECK_DEADLOCK FALSE
