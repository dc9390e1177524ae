SPECIFICATION MCSpec
CONSTANTS
  Slaves = {1, 2, 3}
  Users = {}
  Stamps = {1, 2, 3}
  ReplicaNum = 3
  Files = {"a"}
  Dirs = {}
  NoFile = NoFile
  FileOrder <- MCOneFile
  Index <- MCNoIndex
  Holders <- MCAllOnOne
  Leftovers = {}
  Copies = {}
  Writable = {"a"}
  Deletable = {}
  Faults = {"second"}
  MaxTrans = 2
  s1 = s1
  s2 = s2
  ClientFiles = {f1, f2}
  LocalFiles = {f1}
  MaxSize = 2
  Unit = 1
  Ahead = 2
  MaxOps = 3
  MaxBreaks = 1
INVARIANTS CopyInv NoDoubleReplication AFaithfulCopyRemains ReportsAnswered SlaveSendsTrue
PROPERTIES RecordedReplicasFaithful JoinAccountsForAll WriterFindsTheSize
CHECK_DEADLOCK FALSE
