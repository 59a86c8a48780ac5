SPECIFICATION Spec
CONSTANTS
  Word <- MCWord
  Zero = 0
  Xor <- MCXor
  T <- MCT
  TPrime <- MCTPrime
  FK <- MCFK
  CK <- MCCK
  NumRounds = 5
  Keys <- MCKeys
  Blocks <- MCBlocks
  Junk = Junk
  NoKey = NoKey
  MaxRuns = 3
INVARIANTS
  TypeOK
  Bijective
  NoResidue
CHECK_DEADLOCK FALSE
