CONSTANTS
  IvLen = 2
  MdLen = 3
  Junk = Junk
  Byte <- MCByte
  Files <- MCFiles
  Key <- MCKey
  MacOf <- MCMacOf

SPECIFICATION Spec

INVARIANTS
  BuffersFit
  MacBeforeCipher
  VerdictIsSound

PROPERTIES
  Refines

CHECK_DEADLOCK FALSE
