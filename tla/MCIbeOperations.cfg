CONSTANTS
  Systems <- MCSystems
  RandomY <- MCRandomY
  Scalars <- MCScalars
  Sharings <- MCSharings

SPECIFICATION Spec

INVARIANTS
  TypeOK
  MultipleIsRight
  SecretsAgree
  CombinedIsKey
  VerdictIsRight

CHECK_DEADLOCK FALSE
