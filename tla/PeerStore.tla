------------------------------ MODULE PeerStore ------------------------------
(***************************************************************************)
(* The address book of src/p2p/peerstore.rs: for every peer ever recorded, *)
(* its addresses from oldest to newest and the time it was last recorded.  *)
(* A store is a function whose domain is the set of known peers.           *)
(***************************************************************************)
EXTENDS Naturals, Sequences

CONSTANT MaxAddrsPerPeer   \* MAX_ADDRS_PER_PEER

ASSUME MaxAddrsAssumption == MaxAddrsPerPeer \in Nat \ {0}

EmptyStore == [p \in {} |-> <<>>]

Contains(seq, x) == \E i \in 1..Len(seq) : seq[i] = x

\* Mutant: an address that is stored already is stored again.
AddAddrAgain(addrs, a) ==
  IF Len(addrs) >= MaxAddrsPerPeer THEN Append(Tail(addrs), a)
  ELSE Append(addrs, a)

\* Mutant: the newest address leaves instead of the front one.
AddAddrNewestOut(addrs, a) ==
  IF Contains(addrs, a) THEN addrs
  ELSE IF Len(addrs) >= MaxAddrsPerPeer
       THEN Append(SubSeq(addrs, 1, Len(addrs) - 1), a)
  ELSE Append(addrs, a)

\* One turn of record's loop: an address already stored stays where it is, a
\* new one goes to the end, and the front one leaves when there are too many.
AddAddr(addrs, a) ==
  IF Contains(addrs, a) THEN addrs
  ELSE IF Len(addrs) >= MaxAddrsPerPeer THEN Append(Tail(addrs), a)
  ELSE Append(addrs, a)

\* record's loop over the addresses `new'.
AddAddrs(addrs, new) ==
  LET added[n \in 0..Len(new)] ==
        IF n = 0 THEN addrs ELSE AddAddr(added[n - 1], new[n])
  IN  added[Len(new)]

KnownAddrs(store, p) == IF p \in DOMAIN store THEN store[p].addrs ELSE <<>>

\* record(peer_id, addrs, now_unix)
Record(store, p, new, now) ==
  [q \in DOMAIN store \cup {p} |->
     IF q = p THEN [addrs     |-> AddAddrs(KnownAddrs(store, p), new),
                    last_seen |-> now]
              ELSE store[q]]

\* Mutant: the age of a record from the future wraps around.
DialCandidatesWrapping(store, max_age, now) ==
  UNION { { [peer |-> p, addr |-> store[p].addrs[i]] :
              i \in 1..Len(store[p].addrs) } :
          p \in { q \in DOMAIN store :
                    now \in store[q].last_seen..(store[q].last_seen + max_age) } }

\* dial_candidates(max_age_secs, now_unix): the (peer, address) pairs of the
\* peers recorded no longer than max_age ago.  A clock that went backwards
\* makes a record look fresh (saturating_sub).
DialCandidates(store, max_age, now) ==
  UNION { { [peer |-> p, addr |-> store[p].addrs[i]] :
              i \in 1..Len(store[p].addrs) } :
          p \in { q \in DOMAIN store : now <= store[q].last_seen + max_age } }
=============================================================================
