----------------------------- MODULE MCPeerStore -----------------------------
(***************************************************************************)
(* An instance of the event loop for TLC in which the peerstore is what    *)
(* matters: each peer has more addresses than a list holds.  p1 is dialed  *)
(* at a1 or a2, p2 only connects by itself; each may report any list.      *)
(***************************************************************************)
EXTENDS EventLoop, Multiaddr, TLC

CONSTANTS p1, p2, a1, a2, a3, q1, in1, k1, c1, c2

Ip4(d, port) == <<Component("ip4", <<203, 0, 113, d>>), port>>
Components ==
  (a1 :> Ip4(8, Component("tcp", 4025))) @@
  (a2 :> Ip4(9, Component("tcp", 4025))) @@
  (a3 :> Ip4(8, Component("tcp", 4026))) @@
  (q1 :> Ip4(8, Component("udp", 4025))) @@
  (in1 :> Ip4(8, Component("tcp", 50001)))

MCSubnetOf == [a \in Addr |-> Slash24(Components[a], NoSubnet)]
MCSubnet   == {MCSubnetOf[a] : a \in Addr} \ {NoSubnet}
MCTcpAddr  == {a \in Addr : HasTcp(Components[a])}

MCCallee      == k1 :> p1
MCCalleeAddrs == k1 :> {a1, a2}

\* Reports with a repetition, with an address that has no TCP, of known and new
\* addresses, of more addresses than a list holds, and of none that is stored.
MCAdvertised == { <<a2, q1, a2>>, <<a3>>, <<a2, a3>>, <<a3, a1>>,
                  <<a1, a2, a3, a1>>, <<q1>> }

ConnSymmetry == Permutations(ConnId)
=============================================================================
