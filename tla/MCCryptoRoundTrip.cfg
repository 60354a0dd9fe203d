CONSTANTS
  IvLen = 2
  MdLen = 3
  Block = 2
  Junk = Junk
  Byte <- MCByte
  Texts <- MCTexts
  Ivs <- MCIvs
  Key <- MCKey
  MacOf <- MCMacOf
  CipherOf <- MCCipherOf

SPECIFICATION Spec
INVARIANTS
  OutFits
  SealsExactly
  RoundTrip
  NothingElseDeciphered

CHECK_DEADLOCK FALSE
