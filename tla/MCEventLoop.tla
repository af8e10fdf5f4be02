----------------------------- MODULE MCEventLoop -----------------------------
(***************************************************************************)
(* Instances of the event loop for TLC.  The four addresses: in1 and in2   *)
(* are source addresses of inbound connections, out1 is a dialable address *)
(* in in1's subnet and dns1 one without an ip4 component.  What the loop   *)
(* tells of an address follows from its components.                        *)
(***************************************************************************)
EXTENDS EventLoopRefinement, Multiaddr, TLC

CONSTANTS in1, in2, out1, dns1,               \* addresses
          boot, p1, p2, p3, nobody,           \* peers, and an invalid peer id
          k1, k2, k3,                         \* callers
          c1, c2, c3, c4                      \* connection ids

Components ==
  (in1 :> <<Component("ip4", <<203, 0, 113, 7>>), Component("tcp", 50001)>>) @@
  (in2 :> <<Component("ip4", <<198, 51, 100, 7>>), Component("tcp", 50002)>>) @@
  (out1 :> <<Component("ip4", <<203, 0, 113, 8>>), Component("tcp", 4025)>>) @@
  (dns1 :> <<Component("dns", "example.org"), Component("tcp", 4025)>>)

MCSubnetOf == [a \in Addr |-> Slash24(Components[a], NoSubnet)]
MCSubnet   == {MCSubnetOf[a] : a \in Addr} \ {NoSubnet}
MCTcpAddr  == {a \in Addr : HasTcp(Components[a])}

\* k1 and k2 dial p1 with different addresses, k3 dials p2 with none.
MCCallee      == (k1 :> p1) @@ (k2 :> p1) @@ (k3 :> p2)
MCCalleeAddrs == (k1 :> {out1}) @@ (k2 :> {dns1}) @@ (k3 :> {})

\* A single caller, and no caller at all.
OneCallee      == k1 :> p1
OneCalleeAddrs == k1 :> {dns1}
NoCallee       == [k \in {} |-> p1]
NoCalleeAddrs  == [k \in {} |-> {}]

\* SetPreferredPeers requests as they arrive: in range, beyond the cap, with a
\* duplicate, an invalid peer id and an address that does not parse, or naming
\* a bootstrap peer.
Entry(p, as) == [peer |-> p, addrs |-> as]
Requests ==
  { <<>>,
    <<Entry(p1, {out1})>>,
    <<Entry(nobody, {out1}), Entry(p2, {dns1, nobody}), Entry(p2, {}),
      Entry(p1, {out1})>>,
    <<Entry(boot, {})>> }
MCPreferredList == {ParsePreferred(r, Peer, Addr) : r \in Requests}


ConnSymmetry == Permutations(ConnId)
=============================================================================
