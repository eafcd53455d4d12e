SPECIFICATION Spec
CONSTANTS
  f1 = f1
  f2 = f2
  None = None
  Feedback = {f1, f2}
  Created <- Times
  Listed <- Tabs
  Text = {"hello", "thanks"}
  Budgets <- Bounds
INVARIANTS
  ListAgrees
  RepliesStay
  LockedWhileRunning
PROPERTIES
  TextStored
CHECK_DEADLOCK FALSE
