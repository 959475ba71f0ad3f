SPECIFICATION Spec
CONSTANTS
  Call <- MCCall
  Scenarios <- SessionScenarios
  Files <- MCFiles
  Pieces <- MCPieces
  DirOf <- MCDirOf
  Asks = {"c", "x", "y"}
  Paths = {"a", "b", "c", "x", "y"}
  Static = {"in"}
  Owner = "owner"
  OwnerDirs = {"home"}
  Nobody = "nobody"
  Roots = {"root"}
  SweepAt = 2
  NonceLimit = 3
  MaxSessions = 1
  MaxCommands = 2
  MaxTasks = 3
  Catalogs <- MCCatalogs
  Workspaces <- MCWorkspaces
  MaxContexts = 2
  Absent = Absent
INVARIANT AllowedGoesOn
CHECK_DEADLOCK FALSE
