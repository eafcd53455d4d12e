SPECIFICATION FairSpec
CONSTANTS
  t1 = t1
  t2 = t2
  t3 = t3
  t4 = t4
  p1 = p1
  p2 = p2
  f1 = f1
  f2 = f2
  NoTask = NoTask
  Task = {t1, t2, t3}
  Project = {p1, p2}
  Feedback = {f1, f2}
INVARIANTS
  SetStaysProjects
PROPERTIES
  OrderedTasks
  EveryTaskEnds
CHECK_DEADLOCK FALSE
