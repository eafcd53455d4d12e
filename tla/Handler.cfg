SPECIFICATION Spec
CONSTANTS
  r1 = r1
  r2 = r2
  r3 = r3
  k1 = k1
  k2 = k2
  p1 = p1
  p2 = p2
  i1 = i1
  i2 = i2
  i3 = i3
  Request = {r1, r2, r3}
  Instance = {i1, i2, i3}
  ClientId = {k1}
  Project = {p1, p2}
  Status = {"open", "resolved"}
  Settings <- TwoSettings
  HasIfAbsent = {i3}
  HasOwnership = TRUE
  StoreFails = TRUE
  Crashes = TRUE
  None = None
INVARIANTS
  CreatedOnce
  ReplaysAgree
  NobodyStranded
PROPERTIES
  WritesStayInProject
CHECK_DEADLOCK FALSE
