SPECIFICATION Spec
CONSTANTS
  Texts <- MCTexts
  Short <- MCShort
  Plain <- MCPlain
  SecretKeys <- MCSecretKeys
  IvArgs <- MCIvArgs
  ZeroIv = zero
  NullWord = NullWord
  Garbage = Garbage
  Null = Null
  Empty = Empty
  Carried = Carried
  Failure = Failure
  t1 = t1
  t2 = t2
  k1 = k1
  k2 = k2
  v = v
  zero = zero
INVARIANTS
  ColumnKept
  
CHECK_DEADLOCK FALSE
