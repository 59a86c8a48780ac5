SPECIFICATION Spec
CONSTANTS
  Byte <- MCByte
  XorByte <- MCXor
  BlockSize = 2
  SizeMax = 5
  Key = {0, 1}
  Enc <- MCEnc
  Dec <- MCDec
  IVs <- MCIVs
  Messages <- MCMessages
  Strays <- MCStrays
  MaxCalls = 2
  Junk = Junk
  Zeroed = Zeroed
  NoIV = NoIV
INVARIANTS
  TypeOK
  InBounds
  CleanExit
  FailureLeavesLength
  BlockLocality
PROPERTY ImplementsBox
CHECK_DEADLOCK FALSE
