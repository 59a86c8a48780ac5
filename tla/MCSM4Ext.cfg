SPECIFICATION Spec
CONSTANTS
  KeyArgs <- MCKeyArgs
  IvArgs <- MCIvArgs
  AadArgs <- MCAadArgs
  PlainArgs <- MCPlainArgs
  StrayArgs <- MCStrayArgs
  Foreign <- MCForeign
  Garbage <- MCGarbage
  RandomIVs <- MCRandomIVs
  BlockSize = 2
  IvSize = 1
  TagSize = 2
  MaxSealed = 1
  MaxOpened = 1
  k1 = k1
  k2 = k2
  a = a
  b = b
  x = x
  Nul = Nul
  Null = Null
  NotHex = NotHex
  Malformed = Malformed
  Failure = Failure
  Junk = Junk
  Partial = Partial
  Zeroed = Zeroed
INVARIANTS
  TypeOK
  HeapBalanced
  SecretsWiped
  LengthsFit
  RoundTrip
  Authentic
  EmptyGivesNull
CHECK_DEADLOCK FALSE
