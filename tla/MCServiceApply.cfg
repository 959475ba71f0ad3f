SPECIFICATION ServiceSpec
CONSTANTS
  c1 = c1 c2 = c2 x1 = x1 x2 = x2 o1 = o1 o2 = o2
  p1 = p1 p2 = p2 p3 = p3 p4 = p4 p5 = p5 p6 = p6
  Calls = {c1, c2}
  PlanIds = {x1, x2}
  Owners = {o1}
  Catalog <- MCCatalog
  Requires <- MCRequires
  Requests <- MCRequests
  Privileged = {"buildtools", "workload"}
  Visible = {"sdk"}
  BrokerReady = TRUE
  Pids = {p1, p2, p3, p4, p5, p6}
  Cases <- NoFaults
INVARIANT AppliedToTheEnd
CHECK_DEADLOCK FALSE
