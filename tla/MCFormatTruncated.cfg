CONSTANTS
  alice = alice
  bob = bob
  carol = carol
  Ids <- MCIds
  Pieces = 2
  MaxTo = 2
  MaxFed = 4

SPECIFICATION Spec

PROPERTY Ends

CHECK_DEADLOCK FALSE
