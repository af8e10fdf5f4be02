CONSTANTS
  boot = boot
  p1 = p1
  a1 = a1
  a2 = a2
  a3 = a3
  loopback = loopback
  Peer = {boot, p1}
  Reachable = {boot, p1}
  Addr = {a1, a2, a3, loopback}
  Undialable <- MCUndialable
  Bootstrap <- MCBootstrap
  Hints <- MCHints
  Stores <- MCStores
  Now = {1, 2}
  MaxAge = 1
  LowWater = 1
  MaxPreferredDials = 1
  Interval = 1
  DialTimeout = 1
  BackoffBase = 1
  BackoffCap = 2
  MaxFailures = 2
  MaxAddrsPerPeer = 8
SPECIFICATION FairSpec
INVARIANTS
  TypeOK
PROPERTIES
  AnchorRetried
  PreferredRetried
  RefillRetried
