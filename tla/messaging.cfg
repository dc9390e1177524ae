SPECIFICATION MCSpec
CONSTANTS
  s1 = s1
  s2 = s2
  x1 = x1
  x2 = x2
  x3 = x3
  x4 = x4
  Msgs <- MCMsgs
  Clients = {x1}
  MaxTry = 2
  Backlog = 1
  MaxSock = 2
  MaxHandshakes = 2
  MaxRest = 1
  Servers = {s1, s2}
  Caller = m
  Threads = {t1}
  Dests <- MCOneOrBoth
  Large = TRUE
  Crashers = {s1}
  Delays = FALSE
  GiveUp = 2
  Window = 2
  MaxErr = 0
  MaxRounds = 1
  MaxSession = 2
  MaxId = 2
INVARIANTS GMPInv WholeMessagesOnce EndsAgree ArraysHold
PROPERTIES ImplementsRemoteCalls AckedWasReceived NoneGivenUp
CHECK_DEADLOCK FALSE
