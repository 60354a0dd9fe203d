SPECIFICATION Spec
CONSTANTS
  Base = 8
  Configs <- MCConfigs
  NumFiles = 2
  MaxRuns = 2
  LineLen = 12
  PKG <- MCPKG
INVARIANTS
  LoadedIsWhole
  ParamsAreLast
  KeyIsRight
CHECK_DEADLOCK FALSE
