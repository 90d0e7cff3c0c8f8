SPECIFICATION FairSpec

CONSTANTS
  Sizes = {3}
  Buf = 2
  Depth = 1
  Start = 2
  Infinite = TRUE
  ModemInts = FALSE
  Events = {"hold", "imm", "flush", "cts"}

INVARIANT
  BytesConserved

PROPERTY
  FlushReturns
