------------------------------ MODULE EventLoop ------------------------------
(***************************************************************************)
(* The network event loop of src/p2p/network.rs: one task that owns the    *)
(* libp2p swarm and handles, one at a time, the swarm's events and the     *)
(* commands that P2PClient handles send it.  An action is one turn of the  *)
(* loop (handle_event or handle_command), or one step of a party outside   *)
(* it: a caller of dial_and_wait, the remote peers, the gossipsub scorer.  *)
(*                                                                         *)
(* The swarm itself is external and is modelled by what the loop relies    *)
(* on: `conns', `closing' and `dialing' change together with the event     *)
(* that reports the change, there is one dial per peer at a time, and a    *)
(* connection asked to close stays until its ConnectionClosed event.       *)
(***************************************************************************)
EXTENDS SubnetLimits, PeerStore, Iterators, FiniteSets

CONSTANTS
  Peer,           \* remote peer ids
  ConnId,         \* connection ids; bounds the simultaneous connections
  Call,           \* callers of P2PClient::dial_and_wait
  Callee,         \* the peer that each caller dials
  CalleeAddrs,    \* the addresses that each caller passes
  InboundAddr,    \* remote addresses that inbound connections show
  TcpAddr,        \* addresses with a /tcp component
  Advertised,     \* the listen_addrs lists that identify may report
  PreferredList,  \* the parsed lists that SetPreferredPeers may carry
  Bootstrap,      \* peer ids of the configured bootstrap addresses
  HighWater,      \* settings.high_water
  ProtectedCap,   \* high_water * max_protected_share, truncated
  Time            \* the values now_unix() may return

ASSUME EventLoopAssumption ==
  /\ IsFiniteSet(Peer)
  /\ Callee \in [Call -> Peer]
  /\ CalleeAddrs \in [Call -> SUBSET Addr]
  /\ InboundAddr \subseteq Addr
  /\ TcpAddr \subseteq Addr
  /\ Advertised \subseteq Seq(Addr)
  /\ PreferredList \subseteq Seq([peer : Peer, addrs : SUBSET Addr])
  /\ \A list \in PreferredList : \A i, j \in 1..Len(list) :
       list[i].peer = list[j].peer => i = j      \* the gRPC parser sees to it
  /\ Bootstrap \subseteq Peer
  /\ HighWater \in Nat
  /\ ProtectedCap \in 0..HighWater
  /\ Time \subseteq Nat

VARIABLES
  conns,            \* the swarm's established connections
  closing,          \* those that were asked to close
  dialing,          \* addresses of the dial in flight to a peer, {} if none
  pending_dials,    \* callers to answer when the dial to a peer is over
  call,             \* where each caller of dial_and_wait stands
  gone,             \* callers that dropped their receiver
  connected,        \* peer -> its remote addresses
  subnet_counts,    \* subnet_limits.counts
  protected,        \* peers that the limits never disconnect
  dial_hints,       \* preferred peer -> its addresses
  app_score,        \* the gossipsub application score of a peer
  connected_peers,  \* the p2p_connected_peers gauge
  peerstore,        \* the shared address book
  running           \* FALSE once the loop has returned

swarmVars == <<conns, closing, dialing>>
dialVars  == <<pending_dials, call, gone>>
tableVars == <<connected, subnet_counts, connected_peers>>
prefVars  == <<protected, dial_hints, app_score>>
vars == <<swarmVars, dialVars, tableVars, prefVars, peerstore, running>>

-----------------------------------------------------------------------------
\* `exempt' remembers whether the limits spared the connection when it came up.
Connection == [id : ConnId, peer : Peer, addr : Addr, exempt : BOOLEAN]

\* The outcomes of dial_and_wait: Ok, and the three DialErrorKinds.
DialErrorKind == {"wrong_peer_id", "unreachable"}
Reply == {"ok", "internal"} \cup DialErrorKind
CallState == {"idle", "sent", "waiting"} \cup Reply

\* What set_application_score left: PREFERRED_PEER_APP_SCORE, 0, or nothing
\* because the scorer does not track the peer.
AppScore == {"untracked", "neutral", "bonus"}

ConnsOf(p) == {c \in conns : c.peer = p}
Open       == conns \ closing

NoDials == [p \in Peer |-> {}]

Init ==
  /\ conns = {}
  /\ closing = {}
  /\ dialing = NoDials
  /\ pending_dials = NoDials
  /\ call = [k \in Call |-> "idle"]
  /\ gone = {}
  /\ connected = [p \in {} |-> {}]
  /\ subnet_counts = NoCounts
  /\ protected = Bootstrap
  /\ dial_hints = [p \in {} |-> {}]
  /\ app_score = [p \in Peer |-> "untracked"]
  /\ connected_peers = 0
  /\ peerstore = EmptyStore
  /\ running = TRUE

-----------------------------------------------------------------------------
(***************************************************************************)
(* Callers of dial_and_wait                                                *)
(***************************************************************************)

\* The caller sends Command::Dial, or learns that the channel is closed.
SendDial(k) ==
  /\ call[k] = "idle"
  /\ call' = [call EXCEPT ![k] = IF running THEN "sent" ELSE "internal"]
  /\ UNCHANGED <<swarmVars, pending_dials, gone, tableVars, prefVars,
                 peerstore, running>>

\* Mutant: the sender of a caller that went away is removed at once.
AbandonDialForgetting(k) ==
  /\ call[k] \in {"sent", "waiting"}
  /\ k \notin gone
  /\ call' = [call EXCEPT ![k] = "idle"]
  /\ pending_dials' = [pending_dials EXCEPT ![Callee[k]] = @ \ {k}]
  /\ UNCHANGED <<swarmVars, gone, tableVars, prefVars, peerstore, running>>

\* A timeout or a cancelled request drops the caller's receiver; the command,
\* or the sender in pending_dials, stays.
AbandonDial(k) ==
  /\ call[k] \in {"sent", "waiting"}
  /\ k \notin gone
  /\ gone' = gone \cup {k}
  /\ UNCHANGED <<swarmVars, pending_dials, call, tableVars, prefVars,
                 peerstore, running>>

TakeReply(k) ==
  /\ call[k] \in Reply
  /\ call' = [call EXCEPT ![k] = "idle"]
  /\ UNCHANGED <<swarmVars, pending_dials, gone, tableVars, prefVars,
                 peerstore, running>>

\* sender.send(reply) for the senders of K; it fails silently for one whose
\* receiver is gone.
Answer(K, reply) ==
  /\ call' = [k \in Call |-> IF k \notin K THEN call[k]
                             ELSE IF k \in gone THEN "idle" ELSE reply]
  /\ gone' = gone \ K

(***************************************************************************)
(* Command::Dial                                                           *)
(***************************************************************************)

\* swarm.dial refuses with DialPeerConditionFalse (external).
DialConditionFalse(p) == ConnsOf(p) # {} \/ dialing[p] # {}

\* Mutant: a second caller replaces the one that waits already.
JoinDialReplacing(k) ==
  /\ pending_dials[Callee[k]] # {}
  /\ pending_dials' = [pending_dials EXCEPT ![Callee[k]] = {k}]
  /\ call' = [call EXCEPT ![k] = "waiting"]
  /\ UNCHANGED <<swarmVars, gone>>

\* A dial is in flight: wait for its outcome, whatever addresses it uses.
JoinDial(k) ==
  /\ pending_dials[Callee[k]] # {}
  /\ pending_dials' = [pending_dials EXCEPT ![Callee[k]] = @ \cup {k}]
  /\ call' = [call EXCEPT ![k] = "waiting"]
  /\ UNCHANGED <<swarmVars, gone>>

ReportConnected(k) ==
  /\ pending_dials[Callee[k]] = {}
  /\ DialConditionFalse(Callee[k])
  /\ Answer({k}, "ok")
  /\ UNCHANGED <<swarmVars, pending_dials>>

\* Mutant: every immediate refusal is reported as success.
RefuseDialAsOk(k) ==
  /\ pending_dials[Callee[k]] = {}
  /\ ~DialConditionFalse(Callee[k])
  /\ CalleeAddrs[k] = {}
  /\ Answer({k}, "ok")
  /\ UNCHANGED <<swarmVars, pending_dials>>

\* Without addresses the swarm refuses at once (DialError::NoAddresses).
RefuseDial(k) ==
  /\ pending_dials[Callee[k]] = {}
  /\ ~DialConditionFalse(Callee[k])
  /\ CalleeAddrs[k] = {}
  /\ Answer({k}, "unreachable")
  /\ UNCHANGED <<swarmVars, pending_dials>>

StartDial(k) ==
  /\ pending_dials[Callee[k]] = {}
  /\ ~DialConditionFalse(Callee[k])
  /\ CalleeAddrs[k] # {}
  /\ dialing' = [dialing EXCEPT ![Callee[k]] = CalleeAddrs[k]]
  /\ pending_dials' = [pending_dials EXCEPT ![Callee[k]] = {k}]
  /\ call' = [call EXCEPT ![k] = "waiting"]
  /\ UNCHANGED <<conns, closing, gone>>

HandleDial(k) ==
  /\ running
  /\ call[k] = "sent"
  /\ \/ JoinDial(k)
     \/ ReportConnected(k)
     \/ RefuseDial(k)
     \/ StartDial(k)
  /\ UNCHANGED <<tableVars, prefVars, peerstore, running>>

-----------------------------------------------------------------------------
(***************************************************************************)
(* SwarmEvent::ConnectionEstablished                                       *)
(***************************************************************************)

\* pending_dials.remove(&peer_id), then the reply to every sender.
DrainPending(p, reply) ==
  /\ pending_dials' = [pending_dials EXCEPT ![p] = {}]
  /\ Answer(pending_dials[p], reply)

\* Mutant: no bonus on connect.
ScoreOnConnectPlain(p) ==
  IF app_score[p] = "untracked" THEN "neutral" ELSE app_score[p]

\* The scorer tracks a peer from its first connection on (external); the
\* handler then grants the bonus.
ScoreOnConnect(p) ==
  IF p \in DOMAIN dial_hints \/ p \in Bootstrap THEN "bonus"
  ELSE IF app_score[p] = "untracked" THEN "neutral" ELSE app_score[p]

\* Mutant: the high watermark is compared before the new peer is counted.
OverHighWaterLate(c) == Cardinality(DOMAIN connected) > HighWater /\ ~c.exempt

\* Mutant: the high watermark spares nobody.
OverHighWaterAll(c) == Cardinality(DOMAIN connected') > HighWater

OverHighWater(c) == Cardinality(DOMAIN connected') > HighWater /\ ~c.exempt

\* enforce_connection_limits, after `connected' took up the connection c.
\* disconnect_peer_id starts closing all of the peer's connections,
\* close_connection only c.
EnforceConnectionLimits(c) ==
  /\ subnet_counts' = OnConnection(subnet_counts, c.addr)
  /\ closing' = closing \cup
       (IF OverHighWater(c) THEN {d \in conns' : d.peer = c.peer}
        ELSE IF Rejects(subnet_counts, c.addr, c.exempt) THEN {c} ELSE {})

\* Mutant: the gauge goes up per peer and still down per connection.
IncGaugePerPeer(p) ==
  IF p \in DOMAIN connected THEN connected_peers ELSE connected_peers + 1

IncGauge(p) == connected_peers + 1

\* The part of the handler that both directions share.
Connect(c) ==
  /\ \A d \in conns : d.id # c.id
  /\ conns' = conns \cup {c}
  /\ connected_peers' = IncGauge(c.peer)
  /\ connected' = [p \in DOMAIN connected \cup {c.peer} |->
                     (IF p \in DOMAIN connected THEN connected[p] ELSE {})
                     \cup (IF p = c.peer THEN {c.addr} ELSE {})]
  /\ app_score' = [app_score EXCEPT ![c.peer] = ScoreOnConnect(c.peer)]
  /\ EnforceConnectionLimits(c)
  /\ UNCHANGED <<protected, dial_hints, running>>

NewConnection(i, p, a) ==
  [id |-> i, peer |-> p, addr |-> a, exempt |-> p \in protected]

\* Mutant: inbound source addresses are persisted too.
InboundRecorded(i, p, a) ==
  /\ running
  /\ Connect(NewConnection(i, p, a))
  /\ \E now \in Time : peerstore' = Record(peerstore, p, <<a>>, now)
  /\ UNCHANGED <<dialing, dialVars>>

InboundEstablished(i, p, a) ==
  /\ running
  /\ Connect(NewConnection(i, p, a))
  /\ UNCHANGED <<dialing, dialVars, peerstore>>

OutboundEstablished(i, p, a) ==
  /\ running
  /\ a \in dialing[p]
  /\ dialing' = [dialing EXCEPT ![p] = {}]
  /\ \E now \in Time : peerstore' = Record(peerstore, p, <<a>>, now)
  /\ DrainPending(p, "ok")
  /\ Connect(NewConnection(i, p, a))

(***************************************************************************)
(* SwarmEvent::ConnectionClosed: the remote side, an idle timeout or an    *)
(* earlier request closes any connection.                                  *)
(***************************************************************************)

\* The scorer may forget a peer once its last connection is gone (external).
ScoresAfterClose(c) ==
  {app_score} \cup
  (IF ConnsOf(c.peer) = {c} THEN {[app_score EXCEPT ![c.peer] = "untracked"]}
                            ELSE {})

\* Mutant: num_established is ignored.
TableWithoutPeer(c) == [p \in DOMAIN connected \ {c.peer} |-> connected[p]]

\* With its last connection the peer leaves the table, otherwise the address
\* does (retain).
TableWithout(c) ==
  IF ConnsOf(c.peer) = {c}
  THEN [p \in DOMAIN connected \ {c.peer} |-> connected[p]]
  ELSE [connected EXCEPT ![c.peer] = @ \ {c.addr}]

ConnectionClosed(c) ==
  /\ running
  /\ conns' = conns \ {c}
  /\ closing' = closing \ {c}
  /\ connected_peers' = connected_peers - 1
  /\ subnet_counts' = OnDisconnection(subnet_counts, c.addr)
  /\ connected' = TableWithout(c)
  /\ app_score' \in ScoresAfterClose(c)
  /\ UNCHANGED <<dialing, dialVars, protected, dial_hints, peerstore, running>>

\* Mutant: a failed dial leaves its senders in pending_dials.
ErrorForgettingSenders(p, kind) ==
  /\ running
  /\ dialing[p] # {}
  /\ dialing' = [dialing EXCEPT ![p] = {}]
  /\ UNCHANGED <<conns, closing, dialVars, tableVars, prefVars, peerstore,
                 running>>

\* SwarmEvent::OutgoingConnectionError
OutgoingConnectionError(p, kind) ==
  /\ running
  /\ dialing[p] # {}
  /\ dialing' = [dialing EXCEPT ![p] = {}]
  /\ DrainPending(p, kind)
  /\ UNCHANGED <<conns, closing, tableVars, prefVars, peerstore, running>>

\* identify::Event::Received: the TCP addresses go to the peerstore.
IdentifyReceived(p, listen_addrs) ==
  LET tcp_addrs == Keep(listen_addrs, TcpAddr)
  IN  /\ running
      /\ ConnsOf(p) # {}
      /\ tcp_addrs # <<>>
      /\ \E now \in Time : peerstore' = Record(peerstore, p, tcp_addrs, now)
      /\ UNCHANGED <<swarmVars, dialVars, tableVars, prefVars, running>>

-----------------------------------------------------------------------------
(***************************************************************************)
(* Command::SetPreferredPeers                                              *)
(***************************************************************************)

\* Mutant: the protected share is not capped.
AcceptedAll(peers) == SubSeq(peers, 1, Len(peers))

\* peers.into_iter().take(cap)
Accepted(peers) ==
  SubSeq(peers, 1, IF Len(peers) > ProtectedCap THEN ProtectedCap
                                                ELSE Len(peers))

PeersIn(list) == {list[i].peer : i \in 1..Len(list)}

\* dial_hints after inserting the list; no peer is listed twice.
HintsOf(list) ==
  [p \in PeersIn(list) |->
     LET i == CHOOSE i \in 1..Len(list) : list[i].peer = p
     IN  list[i].addrs]

\* set_application_score reaches only the peers that the scorer tracks.
SetScores(demoted, promoted) ==
  app_score' = [p \in Peer |->
                  IF app_score[p] = "untracked" THEN "untracked"
                  ELSE IF p \in promoted THEN "bonus"
                  ELSE IF p \in demoted THEN "neutral"
                  ELSE app_score[p]]

SetPreferredPeers(peers) ==
  LET new_set == PeersIn(Accepted(peers))
      demoted == {p \in protected : p \notin new_set /\ p \notin Bootstrap}
  IN  /\ running
      /\ protected' = (protected \ demoted) \cup new_set
      /\ dial_hints' = HintsOf(Accepted(peers))
      /\ SetScores(demoted, new_set)
      /\ UNCHANGED <<swarmVars, dialVars, tableVars, peerstore, running>>

\* The scorer drops the retained score of a peer that stayed away (external).
ScoreExpires(p) ==
  /\ running
  /\ ConnsOf(p) = {}
  /\ app_score[p] # "untracked"
  /\ app_score' = [app_score EXCEPT ![p] = "untracked"]
  /\ UNCHANGED <<swarmVars, dialVars, tableVars, protected, dial_hints,
                 peerstore, running>>

\* run() returns, or its task is aborted at shutdown: the queued commands and
\* pending_dials are dropped with their senders, and every caller that still
\* waits gets ChannelClosed.
Stop ==
  /\ running
  /\ running' = FALSE
  /\ dialing' = NoDials
  /\ pending_dials' = NoDials
  /\ Answer({k \in Call : call[k] \in {"sent", "waiting"}}, "internal")
  /\ UNCHANGED <<conns, closing, tableVars, prefVars, peerstore>>

-----------------------------------------------------------------------------
Established ==
  \E i \in ConnId, p \in Peer :
    \/ \E a \in InboundAddr : InboundEstablished(i, p, a)
    \/ \E a \in dialing[p] : OutboundEstablished(i, p, a)

DialFails(p) == \E kind \in DialErrorKind : OutgoingConnectionError(p, kind)

Next ==
  \/ \E k \in Call : SendDial(k)
  \/ \E k \in Call : AbandonDial(k)
  \/ \E k \in Call : TakeReply(k)
  \/ \E k \in Call : HandleDial(k)
  \/ Established
  \/ \E c \in conns : ConnectionClosed(c)
  \/ \E p \in Peer : DialFails(p)
  \/ \E p \in Peer, list \in Advertised : IdentifyReceived(p, list)
  \/ \E list \in PreferredList : SetPreferredPeers(list)
  \/ \E p \in Peer : ScoreExpires(p)
  \/ Stop

Spec == Init /\ [][Next]_vars

\* The transport's timeout ends every dial, one way or the other.
DialEnds(p) ==
  \/ \E i \in ConnId, a \in dialing[p] : OutboundEstablished(i, p, a)
  \/ DialFails(p)

\* The loop polls its command channel again and again, and dials end.
\* Nothing is asked of the callers, of the remote peers or of the scorer.
Fairness ==
  /\ \A k \in Call : WF_vars(HandleDial(k))
  /\ \A p \in Peer : WF_vars(DialEnds(p))

FairSpec == Spec /\ Fairness

-----------------------------------------------------------------------------
(***************************************************************************)
(* Properties                                                              *)
(***************************************************************************)

\* The types of what describes connections, of what describes dials, and of
\* what describes the preferred peers.
SwarmTypeOK ==
  /\ conns \subseteq Connection /\ IsFiniteSet(conns)
  /\ closing \subseteq conns
  /\ DOMAIN connected \subseteq Peer
  /\ \A p \in DOMAIN connected : connected[p] \subseteq Addr
  /\ subnet_counts \in SubnetCounts
  /\ connected_peers \in Nat

DialTypeOK ==
  /\ dialing \in [Peer -> SUBSET Addr]
  /\ pending_dials \in [Peer -> SUBSET Call]
  /\ call \in [Call -> CallState]
  /\ gone \subseteq Call

PrefTypeOK ==
  /\ protected \subseteq Peer
  /\ DOMAIN dial_hints \subseteq Peer
  /\ \A p \in DOMAIN dial_hints : dial_hints[p] \subseteq Addr
  /\ app_score \in [Peer -> AppScore]

\* Every variable but the peerstore (see PeerStoreBounded) has its type; that
\* the gauge is a natural number and `closing' holds only live connections is
\* what the pairing of the established and closed handlers must ensure.
TypeOK == SwarmTypeOK /\ DialTypeOK /\ PrefTypeOK /\ running \in BOOLEAN

\* The loop's table `connected', kept by pushes, retains and removals, agrees
\* with the swarm: its keys are exactly the peers with a connection (so that
\* connected.len() is the number of connected peers), and it lists no address
\* that no connection of the peer has.
TableMatchesSwarm ==
  /\ DOMAIN connected = {c.peer : c \in conns}
  /\ \A p \in DOMAIN connected :
       connected[p] \subseteq {c.addr : c \in ConnsOf(p)}

\* on_connection and on_disconnection stay in balance, rejected connections
\* included: each subnet's counter is its number of connections, nothing leaks
\* and the saturating subtraction never saturates; so does the gauge.
CountersExact ==
  /\ \A s \in Subnet :
       subnet_counts[s] = Cardinality({c \in conns : SubnetOf[c.addr] = s})
  /\ connected_peers = Cardinality(conns)

\* No caller of dial_and_wait is forgotten or answered for another's dial: the
\* callers that wait are exactly those in the entry of the peer they dial, and
\* an entry exists exactly while the swarm dials that peer.
NoCallerForgotten ==
  /\ \A k \in Call, p \in Peer :
       k \in pending_dials[p] <=> call[k] = "waiting" /\ Callee[k] = p
  /\ \A p \in Peer : pending_dials[p] # {} <=> dialing[p] # {}

\* The connections that were let in under the limits and are not being closed.
Limited == {c \in Open : ~c.exempt}

\* The subnet cap: at most PerSubnetCap of the limited connections are in one
\* /24, although exempt connections and connections that are still closing
\* share the counter with them.
SubnetCapHonoured ==
  \A s \in Subnet :
    Cardinality({c \in Limited : SubnetOf[c.addr] = s}) <= PerSubnetCap

\* The high watermark: the peers that have a limited connection are never more
\* than HighWater, however events, dials and preferred sets interleave.
HighWaterHonoured == Cardinality({c.peer : c \in Limited}) <= HighWater

\* `protected', which is updated by single insertions and removals, is always
\* the bootstrap peers and the peers with dial hints, and a preferred list
\* never protects more than ProtectedCap peers besides the bootstrap ones.
ProtectedSetExact ==
  /\ protected = Bootstrap \cup DOMAIN dial_hints
  /\ Cardinality(DOMAIN dial_hints) <= ProtectedCap

\* The score bonus follows protection: of the peers that the scorer tracks,
\* exactly the protected ones have it, whether they were named before or after
\* they connected, and also when they reconnect after a change of the set.
ScoreFollowsProtection ==
  \A p \in Peer : app_score[p] # "untracked" =>
                    (app_score[p] = "bonus" <=> p \in protected)

\* An address list of the peerstore never outgrows MAX_ADDRS_PER_PEER and has
\* no address twice, whichever dials and identify reports fed it.
PeerStoreBounded ==
  /\ DOMAIN peerstore \subseteq Peer
  /\ \A p \in DOMAIN peerstore :
       LET addrs == peerstore[p].addrs
       IN  /\ peerstore[p].last_seen \in Time
           /\ Len(addrs) \in 1..MaxAddrsPerPeer
           /\ \A i, j \in 1..Len(addrs) : addrs[i] = addrs[j] => i = j

\* All but the n oldest addresses of the list `before' stay, in their order, and
\* some leave only if the list is full; what stands behind them is recorded now.
OldestLeft(n, before, after, recorded) ==
  /\ n > 0 => Len(after) = MaxAddrsPerPeer
  /\ Len(after) >= Len(before) - n
  /\ \A i \in 1..Len(after) :
       IF i <= Len(before) - n THEN after[i] = before[i + n]
                               ELSE after[i] \in recorded

\* How a list may change, and that it does not if all was known.
OldestEvicted(before, after, recorded) ==
  /\ \E n \in 0..Len(before) : OldestLeft(n, before, after, recorded)
  /\ (\A a \in recorded : Contains(before, a)) => after = before

\* At its limit a list forgets its oldest addresses and never a newer one, and
\* an address that comes again, in one report or in several, evicts nothing:
\* neither reports longer than the limit nor those that repeat what a dial
\* recorded shuffle the list.
EvictionInOrder ==
  [][/\ \A i \in ConnId, p \in Peer : \A a \in dialing[p] :
          OutboundEstablished(i, p, a) =>
            OldestEvicted(KnownAddrs(peerstore, p), KnownAddrs(peerstore', p), {a})
     /\ \A p \in Peer, list \in Advertised :
          IdentifyReceived(p, list) =>
            OldestEvicted(KnownAddrs(peerstore, p), KnownAddrs(peerstore', p),
                          {a \in TcpAddr : Contains(list, a)})]_vars

\* "Only persist addresses we successfully dialed": what the peerstore holds
\* was dialed or advertised, so an inbound source port never displaces it.
NoEphemeralAddrStored ==
  \A p \in DOMAIN peerstore : \A i \in 1..Len(peerstore[p].addrs) :
    LET a == peerstore[p].addrs[i]
    IN  \/ a \in TcpAddr /\ \E list \in Advertised : Contains(list, a)
        \/ \E k \in Call : Callee[k] = p /\ a \in CalleeAddrs[k]

\* A step of the loop never starts to close a connection of a peer that is
\* protected at that moment, not even together with the peer's other ones.
ProtectedNeverClosed ==
  [][\A c \in closing' \ closing : c.peer \notin protected]_vars

\* Every dial command is answered (or its caller went away): no interleaving of
\* inbound connections, errors and further dials strands a sender.
EveryDialAnswered ==
  \A k \in Call : call[k] = "sent" ~> call[k] \notin {"sent", "waiting"}

-----------------------------------------------------------------------------
(***************************************************************************)
(* What the repository says and the code does not do                       *)
(***************************************************************************)

\* The comment on DialPeerConditionFalse (src/p2p/network.rs): "the goal of
\* being connected to the peer is achieved".  The peer's only connection may
\* be one that the loop itself is closing.
OkMeansConnectionStays ==
  [][\A k \in Call : call[k] = "sent" /\ call'[k] = "ok" =>
       \E c \in Open : c.peer = Callee[k]]_vars
=============================================================================
