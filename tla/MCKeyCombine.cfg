CONSTANTS
  a = a
  b = b
  c = c
  Pkg <- MCPkg
  Servers <- MCServers
  T = 2
  Reach <- MCReach
  Answering <- MCAnswering
  Years <- MCYears
  MaxRequests = 2

SPECIFICATION Spec

INVARIANT CombineMakesKey

CHECK_DEADLOCK FALSE
