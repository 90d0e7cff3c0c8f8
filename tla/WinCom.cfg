SPECIFICATION Spec
CONSTANTS
  MaxRuns = 2
  MaxCommands = 3
  MaxLines = 1
  Transfers <- MasterSlaveWriter
INVARIANTS OneLoop TimeoutsRestored
PROPERTIES StopEndsLoops ExchangeGoesOn
CHECK_DEADLOCK FALSE
