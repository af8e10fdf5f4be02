---------------------------- MODULE SubnetLimits ----------------------------
(***************************************************************************)
(* The per-subnet connection counter of src/p2p/subnet.rs.                 *)
(*                                                                         *)
(* `counts' maps an IPv4 /24 subnet to its number of connections.  The     *)
(* code's HashMap drops an entry that falls to zero; here the map is total *)
(* and zero stands for "no entry", which the code cannot tell apart.       *)
(***************************************************************************)
EXTENDS Naturals

CONSTANTS
  Addr,          \* remote multiaddresses
  Subnet,        \* IPv4 /24 subnets
  SubnetOf,      \* the /24 subnet of an address, or NoSubnet
  NoSubnet,      \* what an address without an ip4 component has (DNS, IPv6)
  PerSubnetCap   \* settings.per_subnet_cap

ASSUME SubnetAssumption ==
  /\ NoSubnet \notin Subnet
  /\ SubnetOf \in [Addr -> Subnet \cup {NoSubnet}]
  /\ PerSubnetCap \in Nat \ {0}

SubnetCounts == [Subnet -> Nat]

NoCounts == [s \in Subnet |-> 0]

\* Mutant: one connection more than the cap is let in.
RejectsLate(counts, addr, exempt) ==
  /\ SubnetOf[addr] # NoSubnet
  /\ ~exempt
  /\ counts[SubnetOf[addr]] > PerSubnetCap

\* The verdict of on_connection: a connection of a peer that is not exempt is
\* rejected when its subnet already has PerSubnetCap connections.
Rejects(counts, addr, exempt) ==
  /\ SubnetOf[addr] # NoSubnet
  /\ ~exempt
  /\ counts[SubnetOf[addr]] >= PerSubnetCap

\* Mutant: connections beyond the cap are not counted.
OnConnectionUpToCap(counts, addr) ==
  [s \in Subnet |-> IF s = SubnetOf[addr] /\ counts[s] < PerSubnetCap
                    THEN counts[s] + 1 ELSE counts[s]]

\* on_connection counts the connection whatever its verdict is.
OnConnection(counts, addr) ==
  [s \in Subnet |-> IF s = SubnetOf[addr] THEN counts[s] + 1 ELSE counts[s]]

\* on_disconnection, with its saturating subtraction.
OnDisconnection(counts, addr) ==
  [s \in Subnet |-> IF s = SubnetOf[addr] /\ counts[s] > 0
                    THEN counts[s] - 1
                    ELSE counts[s]]
=============================================================================
