CONSTANTS
  t1 = t1
  t2 = t2
  t3 = t3
  r1 = r1
  r2 = r2
  Tasks = {t1, t2, t3}
  Resources = {r1, r2}
  Total = 2
  Builds = 1
  Privileged = 1
  Timers = TRUE
SPECIFICATION OnceSpec
INVARIANTS CountersExact WorkConserving
PROPERTIES AdmissionWithinCaps RivalsInOrder
CHECK_DEADLOCK FALSE
