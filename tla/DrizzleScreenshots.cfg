SPECIFICATION FairSpec
CONSTANTS
  c1 = c1
  c2 = c2
  c3 = c3
  k1 = k1
  k2 = k2
  None = None
  Call = {c1, c2, c3}
  ClientId = {k1, k2}
  Asks <- Mixed
  Cleans = {c1, c3}
  ChunkSize = 1
  Protected = {c2}
  LateCommits = {c2}
INVARIANTS
  NoDangling
  NothingOrphaned
PROPERTIES
  Answered
CHECK_DEADLOCK FALSE
