SPECIFICATION Spec
CONSTANTS
  Sessions = {a, b}
  FileSessions = {a}
  Breaks = FALSE
  MaxBlocks = 2
PROPERTIES SessionsAreFIFO
CHECK_DEADLOCK FALSE
