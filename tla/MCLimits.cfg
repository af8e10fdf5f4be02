CONSTANTS
  in1 = in1
  in2 = in2
  out1 = out1
  dns1 = dns1
  NoSubnet = NoSubnet
  boot = boot
  p1 = p1
  p2 = p2
  p3 = p3
  nobody = nobody
  k1 = k1
  k2 = k2
  k3 = k3
  c1 = c1
  c2 = c2
  c3 = c3
  c4 = c4
  Addr = {in1, in2, dns1, out1}
  Subnet <- MCSubnet
  SubnetOf <- MCSubnetOf
  PerSubnetCap = 1
  MaxAddrsPerPeer = 2
  Peer = {boot, p1, p2, p3}
  ConnId = {c1, c2, c3}
  Call = {}
  Callee <- NoCallee
  CalleeAddrs <- NoCalleeAddrs
  InboundAddr = {in1, in2, dns1}
  TcpAddr <- MCTcpAddr
  Advertised = {}
  PreferredList <- MCPreferredList
  Bootstrap = {boot}
  HighWater = 2
  ProtectedCap = 1
  Time = {0}
SPECIFICATION Spec
INVARIANTS
  TypeOK
  TableMatchesSwarm
  CountersExact
  SubnetCapHonoured
  HighWaterHonoured
  ProtectedSetExact
  ScoreFollowsProtection
PROPERTIES
  ProtectedNeverClosed
SYMMETRY ConnSymmetry
CHECK_DEADLOCK FALSE
