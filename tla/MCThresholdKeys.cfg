CONSTANTS
  Q = 5
  IntBase = 8
  alice = alice
  bob = bob
  Ids <- MCIds
  PointOf <- MCPointOf
  Masters <- MCMasters
  Thresholds = {1, 2, 3}
  Sizes = {3}

SPECIFICATION Spec

INVARIANTS
  TypeOK
  QuorumMakesKey
  QuorumMakesMaster
  ForeignShareSpoils
  FewerTellNothing

CHECK_DEADLOCK FALSE
