SPECIFICATION Spec
CONSTANTS
  r1 = r1
  r2 = r2
  r3 = r3
  r4 = r4
  p1 = p1
  p2 = p2
  f1 = f1
  f2 = f2
  f3 = f3
  None = None
  Request = {r1, r2, r3}
  Project = {p1}
  Feedback = {f1, f2}
  ProjectOf <- OneProject
  Existing = {f1}
  Status = {"open", "resolved"}
  Asks <- Deletions
  Fails = TRUE
  Late = TRUE
  SearchLags = TRUE
  AnswersInOrder = TRUE
  Crashes = TRUE
SYMMETRY Symmetry
INVARIANTS
  CommentedOnce
  IssuesInSync
PROPERTIES
  ToldBeforeGone
CHECK_DEADLOCK FALSE
