CONSTANTS
  k1 = k1
  k2 = k2
  k3 = k3
  k4 = k4
  Calls = {k1, k2, k3, k4}
  Tools = 2
  Children <- CommandLimit
  Paths = {1, 2, 3}
  Scenarios <- Cases
  None = None
SPECIFICATION Spec
INVARIANTS SlotsExact PathsExclusive OriginalsKept
PROPERTIES AllOrNothing EveryCallEnds
CHECK_DEADLOCK FALSE
