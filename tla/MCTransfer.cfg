CONSTANTS
  s1 = s1
  s2 = s2
  Sessions = {s1, s2}
  Pieces <- WithEmpty
  Old <- OldText
  MaxSessions = 1
  Scenarios <- Cases
  None = None
  Torn = Torn
SPECIFICATION Spec
INVARIANTS StagedAsSent NothingLost
PROPERTY CommitWritesDeclared
CHECK_DEADLOCK FALSE
