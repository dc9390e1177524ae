SPECIFICATION Spec
CONSTANTS
  Slaves = {1, 2}
  Users = {}
  Stamps = {1, 2, 3, 4}
  ReplicaNum = 2
  Files = {"a"}
  Dirs = {}
  NoFile = NoFile
  FileOrder <- MCOneFile
  Index <- MCNoIndex
  Holders <- MCAllOnOne
  Leftovers = {}
  Copies = {}
  Writable = {"a"}
  Deletable = {}
  Faults = {}
  MaxTrans = 2
INVARIANTS RefusedReplicasRemoved
CHECK_DEADLOCK FALSE
