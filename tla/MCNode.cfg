CONSTANTS
  boot = boot
  p1 = p1
  b1 = b1
  a1 = a1
  q1 = q1
  in1 = in1
  NoSubnet = NoSubnet
  c1 = c1
  c2 = c2
  k1 = k1
  m1 = m1
  m2 = m2
  Addr = {b1, a1, q1, in1}
  Subnet <- MCSubnet
  SubnetOf <- MCSubnetOf
  PerSubnetCap = 1
  MaxAddrsPerPeer = 1
  Peer = {boot, p1}
  ConnId = {c1, c2}
  Call = {k1, m1, m2}
  Callee <- MCCallee
  CalleeAddrs <- MCCalleeAddrs
  InboundAddr = {in1}
  TcpAddr <- MCTcpAddr
  Advertised <- MCAdvertised
  PreferredList <- MCPreferredList
  Bootstrap <- MCBootstrap
  HighWater = 1
  ProtectedCap = 1
  Time = {0}
  BootstrapList <- MCBootstrapList
  Undialable <- MCUndialable
  LowWater = 1
  MaxPreferredDials = 1
  Interval = 1
  DialTimeout = 1
  MaxAge = 0
  BackoffBase = 1
  BackoffCap = 1
  MaxFailures = 1
  Ids <- MCIds
  Sources <- MCSources
SPECIFICATION NodeSpec
INVARIANTS
  NoEphemeralAddrStored
PROPERTIES
  ImplementsMaintenance
SYMMETRY CallSymmetry
CHECK_DEADLOCK FALSE
