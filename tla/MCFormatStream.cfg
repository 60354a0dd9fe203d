CONSTANTS
  alice = alice
  bob = bob
  carol = carol
  Ids <- MCIds
  Pieces = 2
  MaxTo = 2
  MaxFed = 4

SPECIFICATION Spec

INVARIANTS
  OneMeansWhole
  NothingWithoutKey
  ClearedOnce

PROPERTIES
  RecipientsRead
  EndsIfClosed

CHECK_DEADLOCK FALSE
