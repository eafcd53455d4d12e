SPECIFICATION Spec
CONSTANTS
  f1 = f1
  f2 = f2
  b1 = b1
  b2 = b2
  b3 = b3
  p1 = p1
  p2 = p2
  None = None
  Feedback = {f1, f2}
  Created <- Times
  Owner <- Owners
  Start <- Opening
  Status = {"open", "resolved"}
  Base = {b1, b2, b3}
  ProjectOf <- Projects
  ServerMatch <- Matches
  LocalMatch <- LocalMatches
  Filters = {"open", "all"}
  Budgets <- Bounds
INVARIANTS
  RowsAgree
  CountsAgree
  
  UndoOffered
CHECK_DEADLOCK FALSE
