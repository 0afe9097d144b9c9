CONSTANTS
  Paths <- MCPaths
  InitDirs <- MCInitDirs
  CanFail = TRUE
  ChildFallible <- MCChildFallible
SPECIFICATION UntarSpec
INVARIANT ChildIsolated
INVARIANT ChildOldRootReleased
INVARIANT ChildPivotDirCleaned
INVARIANT WorkOnlyConfined
