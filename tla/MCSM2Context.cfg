SPECIFICATION Spec
CONSTANTS
  d1 = d1
  d2 = d2
  p1 = p1
  p2 = p2
  Zero = Zero
  PrivateKeys <- MCPrivateKeys
  Pub <- MCPub
  Infinity = Infinity
  Off = Off
  None = None
  NULL = NULL
  Capacities = {1, 2}
  Needed = 2
INVARIANTS TypeOK HeapOwned FlagsAgree AllOrNothing PairMatches
