CONSTANTS
  t1 = t1
  t2 = t2
  NoTask = NoTask
  Tasks = {t1, t2}
  Scenarios <- SafetyCases
  MaxCrashes = 2
SPECIFICATION Spec
INVARIANTS AtMostOnce VerdictAfterChild InterruptedHasNoWorker ChildHoldsLease NeverRunsAfterQueue
CHECK_DEADLOCK FALSE
