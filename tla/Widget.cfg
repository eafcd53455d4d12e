SPECIFICATION WholeSpec
CONSTANTS
  u1 = u1
  u2 = u2
  f1 = f1
  f2 = f2
  o1 = o1
  o2 = o2
  h1 = h1
  h2 = h2
  a1 = a1
  a2 = a2
  a3 = a3
  None = None
  Nowhere = Nowhere
  Anchor = {a1, a2, a3}
  Element = {1, 2, 3, 4, 5}
  Allowance = 2
  RecheckTicks = 1
  Scenes <- Pages
  Url = {u1, u2}
  Form = {f1, f2}
  Posted = {o1, o2}
  PostedAt <- OnePerPage
  Handle = {h1, h2}
  Budgets <- Bounds
INVARIANTS
  PinsFollow
  SentMeansOwn
  OpenAsAsked
  BestPlace
  NobodyStarves
PROPERTIES
  CacheTrusted
  BreakpointHealed
CHECK_DEADLOCK FALSE
