SPECIFICATION FairSpec
CONSTANTS
  Masters = {m1, m2}
  Slaves = {s1}
  Founder = m1
  Mortal = {s1}
  MaxKey = 2
  MaxRetry = 1
  MaxDeaths = 1
  MaxUnreached = 0
PROPERTIES DeadSlavesForgotten
CHECK_DEADLOCK FALSE
