SPECIFICATION Spec
SYMMETRY Symmetry
CONSTANTS
  e1 = e1
  e2 = e2
  NoExec = NoExec
  Execs = {e1, e2}
  Kinds = {"worker", "chat", "goal"}
  MaxIterations = 2
  MaxTurns = 2
  MaxAttempts = 3
  MaxClaims = 2
  MaxRetries = 1
  MaxTroubles = 1
CONSTRAINT FewTroubles
INVARIANT EffectsKnown
INVARIANT RunIsSettled
INVARIANT GoalBudget
INVARIANT RoundsBounded
PROPERTY OncePerCall
PROPERTY CompletedStays
CHECK_DEADLOCK FALSE
