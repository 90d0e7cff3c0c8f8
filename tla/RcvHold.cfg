SPECIFICATION FairSpec

CONSTANTS
  b1 = b1
  b2 = b2
  Byte = {b1, b2}
  ErrorChar = b1
  Length = 5
  XoffThreshold = 1
  XonThreshold = 4
  ErrorRepl = TRUE
  Word = 6
  Calls = {}

INVARIANTS
  FullOnlyAfterSlack
  HandshakeInParallel

PROPERTIES
  FifoRefined
  PeerReleased
