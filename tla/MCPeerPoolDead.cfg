SPECIFICATION EarlySpec
CONSTANTS
  a = a
  b = b
  c = c
  aOut = aOut
  aIn = aIn
  bIn = bIn
  cOut = cOut
  ip1 = ip1
  ip2 = ip2
  None = None
  IPs = {ip1, ip2}
  Sessions <- SmallSessions
  Nodes <- SmallNodes
  NodeOf <- SmallNodeOf
  IpOf <- SmallIpOf
  Inbound <- SmallInbound
  Subscribers = {u1}
  max_peers = 2
  MaxDials = 1
INVARIANTS
  NoDeadPeer
CHECK_DEADLOCK FALSE
