CONSTANTS
  MaxTasks = 3
  Turns = {t1}
  Admins = {a1}
  Closers = {k1, k2}
  MaxConns = 2
  MaxFaults = 1
  NoOne = NoOne
SPECIFICATION Spec
INVARIANT RefsHaveHolders
INVARIANT IdleLeaseIsTimed
INVARIANT ConnectedIsNotClosed
INVARIANT LeaseKeepsClient
PROPERTY IdleLeaseEnds
CHECK_DEADLOCK FALSE
