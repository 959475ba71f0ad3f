CONSTANTS
  c1 = c1
  c2 = c2
  r1 = r1
  r2 = r2
  a1 = a1
  a2 = a2
  Calls <- MCCalls
  Runs <- MCRuns
  Apks <- MCApks
  Scenarios <- MCScenarios
SPECIFICATION FairSpec
INVARIANTS CompletedVerified TunnelClosed
PROPERTIES RunsFollowGraph ResumesComplete
CHECK_DEADLOCK FALSE
