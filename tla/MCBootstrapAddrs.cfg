CONSTANTS
  boot = boot
  p1 = p1
  a1 = a1
  a2 = a2
  a3 = a3
  loopback = loopback
  Peer = {boot, p1}
  Reachable = {boot, p1}
  Addr = {a1, a2, a3, loopback}
  Undialable <- MCUndialable
  Bootstrap <- TwoAddresses
  Hints <- MCHints
  Stores <- MCStores
  Now = {1}
  MaxAge = 0
  LowWater = 1
  MaxPreferredDials = 1
  Interval = 1
  DialTimeout = 1
  BackoffBase = 1
  BackoffCap = 2
  MaxFailures = 2
  MaxAddrsPerPeer = 8
SPECIFICATION Spec
INVARIANT BootstrapDialCarriesAllAddresses
