SPECIFICATION FairSpec
CONSTANTS
  Byte <- MCByte
  ErrorChar = 0
  Length = 2
  ErrorRepl = FALSE
  Stripped = {2}
  Sizes = {2}
  Modes = {"norm", "something", "none"}
  HasFifo = TRUE
  Depth = 2
  Start = 2
  MaxPkt = 1
PROPERTIES HandsOutStream ShortAfterSilence ReadReturns
CHECK_DEADLOCK FALSE
