CONSTANTS
  Paths <- MCPaths
  InitDirs <- MCInitDirs
  CanFail = TRUE
SPECIFICATION Spec
INVARIANT ResolvedPathIsPath
