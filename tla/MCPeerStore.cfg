CONSTANTS
  p1 = p1
  p2 = p2
  a1 = a1
  a2 = a2
  a3 = a3
  q1 = q1
  in1 = in1
  NoSubnet = NoSubnet
  k1 = k1
  c1 = c1
  c2 = c2
  Addr = {a1, a2, a3, q1, in1}
  Subnet <- MCSubnet
  SubnetOf <- MCSubnetOf
  PerSubnetCap = 1
  MaxAddrsPerPeer = 2
  Peer = {p1, p2}
  ConnId = {c1, c2}
  Call = {k1}
  Callee <- MCCallee
  CalleeAddrs <- MCCalleeAddrs
  InboundAddr = {in1}
  TcpAddr <- MCTcpAddr
  Advertised <- MCAdvertised
  PreferredList = {}
  Bootstrap = {}
  HighWater = 1
  ProtectedCap = 0
  Time = {0}
SPECIFICATION Spec
INVARIANTS
  PeerStoreBounded
PROPERTIES
  EvictionInOrder
SYMMETRY ConnSymmetry
CHECK_DEADLOCK FALSE
