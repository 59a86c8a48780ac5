SPECIFICATION Spec
CONSTANTS
  ByteBits = 3
  XorByte <- MCXor
  BlockSize = 2
  CounterSize = 1
  Reduction = 6
  SizeMax = 15
  Key = {0, 1}
  Enc <- MCEnc
  IVs <- MCIVs
  AADs <- MCAADs
  Messages <- MCMessages
  Strays <- MCStrays
  MaxCalls = 2
  Junk = Junk
  Zeroed = Zeroed
INVARIANTS
  TypeOK
  InBounds
  CleanExit
  OnlyAuthenticPlaintext
  NoKeystreamReuse
  HashInputInjective
  MatchesDefinition
PROPERTY ImplementsBox
CHECK_DEADLOCK FALSE
