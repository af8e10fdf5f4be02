-------------------------------- MODULE MCNode --------------------------------
(***************************************************************************)
(* An instance of the composed node for TLC: boot is the bootstrap peer,   *)
(* p1 becomes preferred and also connects by itself.  Each can be dialed   *)
(* at one address, p1 by two calls at a time, of which one was given up.   *)
(***************************************************************************)
EXTENDS Node, Multiaddr, TLC

CONSTANTS boot, p1, b1, a1, q1, in1, c1, c2, k1, m1, m2

Components ==
  (b1 :> <<Component("dns", "example.org"), Component("tcp", 4025)>>) @@
  (a1 :> <<Component("ip4", <<203, 0, 113, 8>>), Component("tcp", 4025)>>) @@
  (q1 :> <<Component("ip4", <<203, 0, 113, 8>>), Component("udp", 4025)>>) @@
  (in1 :> <<Component("ip4", <<203, 0, 113, 7>>), Component("tcp", 50001)>>)

MCSubnetOf   == [a \in Addr |-> Slash24(Components[a], NoSubnet)]
MCSubnet     == {MCSubnetOf[a] : a \in Addr} \ {NoSubnet}
MCTcpAddr    == {a \in Addr : HasTcp(Components[a])}
MCUndialable == {a \in Addr : IsUndialable(Components[a])}

\* The configured bootstrap addresses, one of them without a peer id.
Configured == <<Append(Components[b1], Component("p2p", boot)), Components[a1]>>

MCBootstrap == BootstrapPeerIds(Configured)
MCBootstrapList ==
  [i \in 1..Len(SplitPeers(Configured)) |->
     [peer |-> SplitPeers(Configured)[i].peer,
      addr |-> CHOOSE a \in Addr : Components[a] = SplitPeers(Configured)[i].addr]]

MCCallee == (k1 :> boot) @@ (m1 :> p1) @@ (m2 :> p1)
MCCalleeAddrs == (k1 :> {b1}) @@ (m1 :> {a1}) @@ (m2 :> {a1})
MCIds == (boot :> {c1}) @@ (p1 :> {c2})
MCSources == (boot :> {}) @@ (p1 :> {in1})
MCPreferredList == {<<[peer |-> p1, addrs |-> {a1}]>>}
MCAdvertised == {<<a1, q1>>}

CallSymmetry == Permutations({m1, m2})
===============================================================================
