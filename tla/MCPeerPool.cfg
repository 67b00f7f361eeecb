SPECIFICATION Spec
CONSTANTS
  a = a
  b = b
  c = c
  aOut = aOut
  aIn = aIn
  bIn = bIn
  cOut = cOut
  ip1 = ip1
  ip2 = ip2
  None = None
  IPs = {ip1, ip2}
  Sessions <- MCSessions
  Nodes <- MCNodes
  NodeOf <- MCNodeOf
  IpOf <- MCIpOf
  Inbound <- MCInbound
  Subscribers = {u1}
  max_peers = 2
  MaxDials = 1
INVARIANTS
  TypeOK
  WithinLimit
  OneSessionPerNode
  NoDeadPeer
  SubscribersAgree
CHECK_DEADLOCK FALSE
