------------------------------ MODULE Multiaddr ------------------------------
(***************************************************************************)
(* What the service reads out of a multiaddress.  A multiaddress is the    *)
(* sequence of its components, each with a protocol and a value; an IPv4   *)
(* address is the sequence of its four octets.                             *)
(***************************************************************************)
EXTENDS Naturals, Sequences

LOCAL INSTANCE SequencesExt

Component(protocol, value) == [protocol |-> protocol, value |-> value]

Loopback(ip) == ip[1] = 127
Unspecified(ip) == \A i \in 1..4 : ip[i] = 0

\* SubnetLimits::subnet: the /24 of the first ip4 component, `none' if there is
\* no such component.
Slash24(addr, none) ==
  LET ip4 == SelectSeq(addr, LAMBDA c : c.protocol = "ip4")
  IN  IF ip4 = <<>> THEN none ELSE SubSeq(Head(ip4).value, 1, 3)

\* The filter on what identify reports.
HasTcp(addr) == \E i \in 1..Len(addr) : addr[i].protocol = "tcp"

\* is_undialable: one loopback or unspecified component is enough.
IsUndialable(addr) ==
  \E i \in 1..Len(addr) :
    \/ addr[i].protocol = "ip4" /\ (Loopback(addr[i].value) \/ Unspecified(addr[i].value))
    \/ addr[i].protocol = "ip6" /\ addr[i].value \in {"::1", "::"}

\* split_peer_multiaddr of every address that ends in a peer id; the others are
\* left out (filter_map).
SplitPeers(addrs) ==
  LET split == SelectSeq(addrs, LAMBDA a : a # <<>> /\ Last(a).protocol = "p2p")
  IN  [i \in 1..Len(split) |->
         [peer |-> Last(split[i]).value, addr |-> Front(split[i])]]

\* bootstrap_peer_ids
BootstrapPeerIds(addrs) ==
  {SplitPeers(addrs)[i].peer : i \in 1..Len(SplitPeers(addrs))}
=============================================================================
