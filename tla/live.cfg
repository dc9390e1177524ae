SPECIFICATION MCSpec
CONSTANTS
  Sessions = {a, b}
  FileSessions = {}
  Breaks = TRUE
  MaxBlocks = 2
  u1 = u1
  f1 = f1
  w1 = w1
  w2 = w2
  NoFile = NoFile
  NoUser = NoUser
  NoSlave = NoSlave
INVARIANTS ChannelInv ChainClosedTailFirst
PROPERTIES SessionsAreFIFO AllReceived FilesReleased ReplicasMade
CHECK_DEADLOCK FALSE
