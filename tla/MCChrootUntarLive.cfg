CONSTANTS
  Paths <- MCPaths
  InitDirs <- MCInitDirs
  CanFail = TRUE
  ChildFallible <- MCChildFallible
SPECIFICATION UntarFairSpec
PROPERTY ChildReturns
