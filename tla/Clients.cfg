SPECIFICATION FairSpec
CONSTANTS
  a1 = a1
  a2 = a2
  c1 = c1
  c2 = c2
  NoConn = NoConn
  Given <- GivenClients
  Addrs = {a1, a2}
  Conns = {c1, c2, c3, c4, c5, c6, c7}
  RetryLen = 1
  MaxDowns = 1
PROPERTIES OnlyBrokenAreClosed Reconnects RetrierStops
CHECK_DEADLOCK FALSE
