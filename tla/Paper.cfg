CONSTANTS
  Calls = {c1, c2, c3, c4}
  Symbols = {s1, s2}
  NoSymbol = NoSymbol
  Sizes = {1, 2}
  Asks <- SomeAsks
  Bids <- SomeBids
  FeeNum = 1
  FeeDen = 2
  Initial = 12
  Modes = {"readonly", "paper"}
  Whitelist = {s1, s2}
  MaxNotional = 2
  MaxCrashes = 1
  MaxFaults = 1
SPECIFICATION Spec
INVARIANT Solvent
INVARIANT LedgerAgrees
INVARIANT FillIsBest
PROPERTY ReadonlyBuysNothing
SYMMETRY Symmetric
CHECK_DEADLOCK FALSE
