SPECIFICATION Spec
CONSTANTS
  s1 = s1
  s2 = s2
  t1 = t1
  t2 = t2
  ep1 = ep1
  ep2 = ep2
  ann = ann
  bob = bob
  None = None
  Submission = {s1, s2}
  Page = {t1, t2}
  Endpoint = {ep1, ep2}
  Person = {ann, bob}
  Settings <- SettingsChecked
  MaxVersions = 2
  MaxQueue = 2
  HasLocks = TRUE
INVARIANTS
  QueuedIsLatest
  NobodyStranded
PROPERTIES
  NothingForgotten
  OldestFirst
CHECK_DEADLOCK FALSE
