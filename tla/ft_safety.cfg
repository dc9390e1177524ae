SPECIFICATION MCSpec
CONSTANTS
  Slaves = {1, 2}
  Users = {u1, u2}
  Files = {f1}
  Workers = {w1, w2}
  Stamps = {1, 2}
  ReplicaNum = 2
  NoFile = NoFile
  NoUser = NoUser
  NoSlave = NoSlave
  Modes = {{"READ"}, {"WRITE"}}
  InitialHolders = {{1}}
  Deletes = FALSE
  Faults = {"connect", "channel"}
  MaxTrans = 3
SYMMETRY UserSymmetry
INVARIANTS IInv LockHasOwner OneCopySafe FailuresHandled
CHECK_DEADLOCK FALSE
