SPECIFICATION FairSpec
CONSTANTS
  a = a
  b = b
  c = c
  aOut = aOut
  aIn = aIn
  bIn = bIn
  cOut = cOut
  ip1 = ip1
  ip2 = ip2
  None = None
  IPs = {ip1, ip2}
  Sessions <- SmallSessions
  Nodes <- SmallNodes
  NodeOf <- SmallNodeOf
  IpOf <- SmallIpOf
  Inbound <- SmallInbound
  Subscribers = {}
  max_peers = 2
  MaxDials = 1
PROPERTIES
  AttemptEnds
CHECK_DEADLOCK FALSE
