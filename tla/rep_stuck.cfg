SPECIFICATION FairSpec
CONSTANTS
  Slaves = {1, 2}
  Users = {}
  Stamps = {1, 2}
  ReplicaNum = 2
  Files = {"a", "b"}
  Dirs = {}
  NoFile = NoFile
  FileOrder <- MCTwoFiles
  Index <- MCNoIndex
  Holders <- MCAllOnOne
  Leftovers = {}
  Copies = {}
  Writable = {}
  Deletable = {}
  Faults = {}
  MaxTrans = 4
PROPERTIES ReplicasMade
CHECK_DEADLOCK FALSE
