SPECIFICATION Spec

CONSTANTS
  b1 = b1
  b2 = b2
  Byte = {b1}
  ErrorChar = b1
  Length = 6
  XoffThreshold = 1
  XonThreshold = 4
  ErrorRepl = FALSE
  Word = 7
  Calls = {"flush"}

PROPERTIES
  FlushSendsXon
