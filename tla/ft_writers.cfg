SPECIFICATION Spec
CONSTANTS
  Slaves = {1, 2}
  Users = {u1, u2}
  Files = {f1}
  Workers = {w1, w2}
  Stamps = {1}
  ReplicaNum = 2
  NoFile = NoFile
  NoUser = NoUser
  NoSlave = NoSlave
  Modes = {{"WRITE"}}
  InitialHolders = {{1, 2}}
  Deletes = FALSE
  Faults = {"channel"}
  MaxTrans = 2
INVARIANTS OneWriter
CHECK_DEADLOCK FALSE
