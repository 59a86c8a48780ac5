SPECIFICATION Spec
CONSTANTS
  PrivateArgs <- MCPrivateArgs
  PublicArgs <- MCPublicArgs
  PlainArgs <- MCPlainArgs
  IdArgs <- MCIdArgs
  StrayArgs <- MCStrayArgs
  Foreign <- MCForeign
  Generated <- MCGenerated
  Pub <- MCPub
  Infinity <- Infty
  Offered = 2
  Slack = 2
  Overhead = 2
  SigRoom = 4
  SigLeast = 2
  SigSizes = {3, 4}
  ShortMax = 3
  MaxLog = 1
  d1 = d1
  d2 = d2
  x = x
  alice = alice
  Zero = Zero
  Off = Off
  NotHex = NotHex
  Nul = Nul
  Null = Null
  Malformed = Malformed
  Failure = Failure
  Junk = Junk
  Unread = Unread
INVARIANTS
  TypeOK
  MemorySafe
  RoundTrip
  SignatureBinds
CHECK_DEADLOCK FALSE
