-------------------------------- MODULE Grpc --------------------------------
(***************************************************************************)
(* What src/grpc.rs makes of requests and answers on their way between the *)
(* clients and the event loop.  A SetPreferredPeers request is a sequence  *)
(* of entries [peer, addrs]; text that does not parse is any value outside *)
(* `peers' and `addrs'.                                                    *)
(***************************************************************************)
EXTENDS Iterators

\* The entries of a SetPreferredPeers request that survive parsing: a valid
\* peer id, at its first occurrence.
KeptEntries(request, peers) ==
  {i \in DOMAIN request :
     /\ request[i].peer \in peers
     /\ \A j \in 1..(i - 1) : request[j].peer # request[i].peer}

\* set_preferred_peers: the list that is sent to the event loop, in request
\* order, each entry with those of its addresses that parse.
ParsePreferred(request, peers, addrs) ==
  LET kept == Keep([i \in 1..Len(request) |-> i], KeptEntries(request, peers))
  IN  [n \in 1..Len(kept) |->
         [peer  |-> request[kept[n]].peer,
          addrs |-> request[kept[n]].addrs \cap addrs]]

\* map_dial_error_to_status: the status of a Dial call whose dial_and_wait
\* returned `reply'.
Status(reply) ==
  CASE reply = "ok"            -> "OK"
    [] reply = "wrong_peer_id" -> "FAILED_PRECONDITION"
    [] reply = "unreachable"   -> "NOT_FOUND"
    [] reply = "internal"      -> "INTERNAL"
=============================================================================
