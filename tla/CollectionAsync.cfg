SPECIFICATION FairSpec
CONSTANTS
  c1 = c1
  c2 = c2
  c3 = c3
  c4 = c4
  k1 = k1
  k2 = k2
  p1 = p1
  p2 = p2
  s1 = s1
  s2 = s2
  Call = {c1, c2, c3}
  ClientId = {k1, k2}
  Project = {p1, p2}
  Status = {"open", "resolved"}
  Role = {"client", "team"}
  MaxClientComments = 1
  None = None
  Store = {s1}
  Requests <- FeedbackRequests
  NoRequest = NoRequest
  AsyncBackend = TRUE
PROPERTIES
  Answered
  AtomicMutations
CHECK_DEADLOCK FALSE
