SPECIFICATION WholeSpec
CONSTANTS
  c1 = c1
  c2 = c2
  c3 = c3
  c4 = c4
  k1 = k1
  k2 = k2
  None = None
  Call = {c1, c2, c3, c4}
  ClientId = {k1, k2}
  Plans <- Mixed
  Cleans = {c1, c2, c3}
  Cap = 1
  Models <- TwoModels
  Providers = {"postgresql", "mysql", "sqlite"}
  Edits = 2
INVARIANTS
  NoDangling
  NothingOrphaned
  CapHeld
PROPERTY CompletesAndKeeps
CHECK_DEADLOCK FALSE
