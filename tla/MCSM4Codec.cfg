SPECIFICATION Spec
CONSTANTS
  ByteBits = 4
  DigitBits = 3
  NibbleBits = 2
  Pad = Pad
  Bad = Bad
  Nul = Nul
  Junk = Junk
  Failure = Failure
  Nothing = Nothing
  Data <- MCData
  HexTexts <- MCHexTexts
  Base64Texts <- MCBase64Texts
INVARIANTS
  TypeOK
  InBounds
  RoundTrip
  MatchesDefinition
