SPECIFICATION FairSpec

CONSTANTS
  Sizes = {4}
  Buf = 3
  Depth = 2
  Start = 2
  Infinite = FALSE
  ModemInts = TRUE
  Events = {"xon", "cts", "flush", "force"}

INVARIANTS
  StreamHasDriver

PROPERTIES
  WriteReturns
