---------------------------- MODULE MCMaintenance ----------------------------
(***************************************************************************)
(* Instances of the maintenance loop for TLC: boot is the bootstrap peer,  *)
(* p1 another peer.  Both may be preferred and are in the peerstore.      *)
(***************************************************************************)
EXTENDS Maintenance, Multiaddr, TLC

CONSTANTS boot, p1, a1, a2, a3, loopback

Ip4(d)     == <<Component("ip4", <<203, 0, 113, d>>), Component("tcp", 4025)>>
Components == (a1 :> Ip4(1)) @@ (a2 :> Ip4(2)) @@ (a3 :> Ip4(3)) @@
              (loopback :> <<Component("ip6", "::1"), Component("tcp", 4025)>>)

MCUndialable == {a \in Addr : IsUndialable(Components[a])}

\* The bootstrap peers of a configuration, their addresses named again.
Named(configured) ==
  LET split == SplitPeers(configured)
  IN  [i \in 1..Len(split) |->
         [peer |-> split[i].peer,
          addr |-> CHOOSE a \in Addr : Components[a] = split[i].addr]]

WithPeer(a) == Append(Components[a], Component("p2p", boot))

\* The second entry lacks the peer id, and is ignored.
MCBootstrap == Named(<<WithPeer(a1), Components[a2]>>)

\* The bootstrap peer under two addresses.
TwoAddresses == Named(<<WithPeer(a1), WithPeer(a2)>>)

MCHints == {NoHints, (p1 :> {a1, loopback}) @@ (boot :> {a2})}

\* The bootstrap peer has more addresses than a tick's refill takes and a record
\* that one clock finds too old; that of p1 is from before a clock was set back.
MCStores ==
  { (boot :> [addrs |-> <<a1, a2, a3>>, last_seen |-> 0]) @@
    (p1 :> [addrs |-> <<loopback, a1>>, last_seen |-> 2]) }
=============================================================================
