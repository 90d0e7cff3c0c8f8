SPECIFICATION Spec
CONSTANTS
  Names <- MCNames
  Addrs <- MCNames
  ShortNames <- MCShort
  StdPorts <- MCStd
  MaxDcb = 2
  MaxLoads = 3
  MaxEdits = 5
INVARIANTS NamesUnique CountCovers AllServed
PROPERTY RemovesOne
CHECK_DEADLOCK FALSE
