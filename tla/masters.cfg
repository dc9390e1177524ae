SPECIFICATION MCSpec
CONSTANTS
  Masters = {m1, m2}
  Slaves = {s1, s2}
  Founder = m1
  Mortal = {m2, s1}
  MaxKey = 3
  MaxRetry = 1
  MaxDeaths = 1
  MaxUnreached = 1
  Clients = {c1}
  Routers = {1, 2}
  Entry = 1
  Founders = {1}
  p1 = p1
  s1 = s1
  Paths = {p1}
  Hash <- MCHash
  MaxUserKey = 2
INVARIANTS ClusterInv SlavesObeyMasters KeptAlive
PROPERTIES OnlyLostMastersDropped DeadForgotten ClientsComeAndGo
CHECK_DEADLOCK FALSE
