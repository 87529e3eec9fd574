\* Five connections from two addresses, more than the process can hold.
SPECIFICATION FairSpec
CONSTANTS
  c1 = c1
  c2 = c2
  c3 = c3
  c4 = c4
  c5 = c5
  i1 = i1
  i2 = i2
  w1 = w1
  w2 = w2
  Conns = {c1, c2, c3, c4, c5}
  Ips = {i1, i2}
  IpOf <- MCIpOf
  Workers = {w1, w2}
  Acceptor = Acceptor
  QueueDepth = 1
  ShedMax = 1
  MaxPerIp = 1
  NoConn = NoConn
INVARIANTS
  PermitsExact
PROPERTIES
  AcceptedIsClosed
