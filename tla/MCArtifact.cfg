CONSTANTS
  u1 = u1
  u2 = u2
  Ids = {u1, u2}
  Pieces <- TwoPieces
  Old <- OldFile
  MaxUploads = 1
  MaxBytes = 2
  Scenarios <- Cases
  None = None
SPECIFICATION Spec
INVARIANTS StoresTheArtifact StoredReadable ImportsLeaveNothing
PROPERTY TargetIntact
CHECK_DEADLOCK FALSE
