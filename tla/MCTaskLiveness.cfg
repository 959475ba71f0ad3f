CONSTANTS
  t1 = t1
  t2 = t2
  NoTask = NoTask
  Tasks = {t1, t2}
  Scenarios <- LivenessCases
  MaxCrashes = 1
SPECIFICATION FairSpec
PROPERTIES TasksEnd WaitersServed CancelStopsChild
CHECK_DEADLOCK FALSE
