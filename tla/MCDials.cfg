CONSTANTS
  in1 = in1
  in2 = in2
  out1 = out1
  dns1 = dns1
  NoSubnet = NoSubnet
  boot = boot
  p1 = p1
  p2 = p2
  p3 = p3
  nobody = nobody
  k1 = k1
  k2 = k2
  k3 = k3
  c1 = c1
  c2 = c2
  c3 = c3
  c4 = c4
  Addr = {in1, out1, dns1}
  Subnet <- MCSubnet
  SubnetOf <- MCSubnetOf
  PerSubnetCap = 1
  MaxAddrsPerPeer = 1
  Peer = {p1, p2}
  ConnId = {c1, c2}
  Call = {k1, k2, k3}
  Callee <- MCCallee
  CalleeAddrs <- MCCalleeAddrs
  InboundAddr = {in1}
  TcpAddr <- MCTcpAddr
  Advertised = {}
  PreferredList = {}
  Bootstrap = {}
  HighWater = 1
  ProtectedCap = 0
  Time = {0}
SPECIFICATION FairSpec
INVARIANTS
  NoCallerForgotten
PROPERTIES
  EveryDialAnswered
  ImplementsDialService
