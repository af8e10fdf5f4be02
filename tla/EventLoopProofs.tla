--------------------------- MODULE EventLoopProofs ---------------------------
(***************************************************************************)
(* Proofs about the event loop for every value of its constants.  The      *)
(* state falls into three groups of variables whose invariants hardly need *)
(* each other: dials, preferred peers, connections.  Each group has its    *)
(* inductive invariant and a lemma that a step which leaves the group      *)
(* alone keeps it.  The peerstore has one more, which rests on what the    *)
(* operators on lists compute.                                             *)
(***************************************************************************)
EXTENDS EventLoop, FiniteSetTheorems, SequenceTheorems, WellFoundedInduction,
        TLAPS

-----------------------------------------------------------------------------
(***************************************************************************)
(* Dials                                                                   *)
(***************************************************************************)

dialGroup == <<dialing, pending_dials, call, gone>>

DialInv == DialTypeOK /\ NoCallerForgotten

\* The dials' invariant is about the variables of its group only.
LEMMA DialInvUnchanged ==
  ASSUME DialInv, UNCHANGED dialGroup
  PROVE  DialInv'
BY DEF DialInv, DialTypeOK, NoCallerForgotten, dialGroup

\* Answering callers keeps the types, and leaves none of them waiting.
LEMMA AnswerLemma ==
  ASSUME DialTypeOK, NEW K \in SUBSET Call, NEW reply \in Reply,
         Answer(K, reply)
  PROVE  /\ call' \in [Call -> CallState]
         /\ gone' \subseteq Call
         /\ \A k \in Call : call'[k] = "waiting" <=>
                              k \notin K /\ call[k] = "waiting"
BY DEF DialTypeOK, Answer, CallState, Reply, DialErrorKind

\* Draining a peer's entry when its dial is over keeps the invariant, whatever
\* the callers are told (ConnectionEstablished, OutgoingConnectionError).
LEMMA DrainLemma ==
  ASSUME DialInv, NEW p \in Peer, NEW reply \in Reply,
         DrainPending(p, reply), dialing' = [dialing EXCEPT ![p] = {}]
  PROVE  DialInv'
<1>1. pending_dials[p] \in SUBSET Call
  BY DEF DialInv, DialTypeOK
<1>2. /\ call' \in [Call -> CallState]
      /\ gone' \subseteq Call
      /\ \A k \in Call : call'[k] = "waiting" <=>
                           k \notin pending_dials[p] /\ call[k] = "waiting"
  BY <1>1, AnswerLemma DEF DialInv, DrainPending
<1>3. DialTypeOK'
  BY <1>2 DEF DialInv, DialTypeOK, DrainPending
<1>4. NoCallerForgotten'
  BY <1>2 DEF DialInv, DialTypeOK, NoCallerForgotten, DrainPending
<1>5. QED
  BY <1>3, <1>4 DEF DialInv

\* Handling Command::Dial keeps the invariant in each of its four cases.
LEMMA HandleDialLemma ==
  ASSUME DialInv, NEW k \in Call, HandleDial(k)
  PROVE  DialInv'
<1>0. Callee[k] \in Peer /\ CalleeAddrs[k] \subseteq Addr /\ call[k] = "sent"
  BY EventLoopAssumption DEF HandleDial
<1>1. CASE JoinDial(k)
  <2>1. DialTypeOK'
    BY <1>0, <1>1 DEF DialInv, DialTypeOK, JoinDial, swarmVars, CallState
  <2>2. NoCallerForgotten'
    BY <1>0, <1>1 DEF DialInv, DialTypeOK, NoCallerForgotten, JoinDial, swarmVars
  <2>3. QED
    BY <2>1, <2>2 DEF DialInv
<1>2. CASE ReportConnected(k)
  <2>1. Answer({k}, "ok") /\ UNCHANGED <<dialing, pending_dials>>
    BY <1>2 DEF ReportConnected, swarmVars
  <2>2. {k} \in SUBSET Call /\ "ok" \in Reply
    BY DEF Reply, DialErrorKind
  <2>3. /\ call' \in [Call -> CallState]
        /\ gone' \subseteq Call
        /\ \A j \in Call : call'[j] = "waiting" <=>
                             j \notin {k} /\ call[j] = "waiting"
    BY <2>1, <2>2, AnswerLemma DEF DialInv
  <2>4. QED
    BY <1>0, <2>1, <2>3 DEF DialInv, DialTypeOK, NoCallerForgotten
<1>3. CASE RefuseDial(k)
  <2>1. Answer({k}, "unreachable") /\ UNCHANGED <<dialing, pending_dials>>
    BY <1>3 DEF RefuseDial, swarmVars
  <2>2. {k} \in SUBSET Call /\ "unreachable" \in Reply
    BY DEF Reply, DialErrorKind
  <2>3. /\ call' \in [Call -> CallState]
        /\ gone' \subseteq Call
        /\ \A j \in Call : call'[j] = "waiting" <=>
                             j \notin {k} /\ call[j] = "waiting"
    BY <2>1, <2>2, AnswerLemma DEF DialInv
  <2>4. QED
    BY <1>0, <2>1, <2>3 DEF DialInv, DialTypeOK, NoCallerForgotten
<1>4. CASE StartDial(k)
  <2>1. DialTypeOK'
    BY <1>0, <1>4 DEF DialInv, DialTypeOK, StartDial, CallState
  <2>2. NoCallerForgotten'
    BY <1>0, <1>4 DEF DialInv, DialTypeOK, NoCallerForgotten, StartDial
  <2>3. QED
    BY <2>1, <2>2 DEF DialInv
<1>5. QED
  BY <1>1, <1>2, <1>3, <1>4 DEF HandleDial

\* When the loop ends every caller that still waits is answered.
LEMMA StopLemma ==
  ASSUME DialInv, Stop
  PROVE  DialInv'
<1> DEFINE K == {k \in Call : call[k] \in {"sent", "waiting"}}
<1>1. /\ call' \in [Call -> CallState]
      /\ gone' \subseteq Call
      /\ \A k \in Call : call'[k] = "waiting" <=>
                           k \notin K /\ call[k] = "waiting"
  <2>1. Answer(K, "internal")
    BY DEF Stop
  <2>2. K \in SUBSET Call /\ "internal" \in Reply
    BY DEF Reply
  <2> HIDE DEF K
  <2>3. QED
    BY <2>1, <2>2, AnswerLemma DEF DialInv
<1>2. \A k \in Call : call'[k] # "waiting"
  BY <1>1
<1>3. QED
  BY <1>1, <1>2 DEF Stop, DialInv, DialTypeOK, NoCallerForgotten, NoDials

\* Every step of the event loop keeps the dials' invariant.
LEMMA DialInvStep ==
  ASSUME DialInv, [Next]_vars
  PROVE  DialInv'
<1>1. ASSUME NEW k \in Call, SendDial(k) PROVE DialInv'
  BY <1>1 DEF SendDial, swarmVars, DialInv, DialTypeOK, NoCallerForgotten,
              CallState, Reply
<1>2. ASSUME NEW k \in Call, AbandonDial(k) PROVE DialInv'
  BY <1>2 DEF AbandonDial, swarmVars, DialInv, DialTypeOK, NoCallerForgotten
<1>3. ASSUME NEW k \in Call, TakeReply(k) PROVE DialInv'
  BY <1>3 DEF TakeReply, swarmVars, DialInv, DialTypeOK, NoCallerForgotten,
              CallState, Reply, DialErrorKind
<1>4. ASSUME NEW k \in Call, HandleDial(k) PROVE DialInv'
  BY <1>4, HandleDialLemma
<1>5. ASSUME NEW i \in ConnId, NEW p \in Peer, NEW a \in InboundAddr,
             InboundEstablished(i, p, a)
      PROVE  DialInv'
  BY <1>5, DialInvUnchanged DEF InboundEstablished, dialGroup, dialVars
<1>6. ASSUME NEW i \in ConnId, NEW p \in Peer, NEW a \in dialing[p],
             OutboundEstablished(i, p, a)
      PROVE  DialInv'
  BY <1>6, DrainLemma DEF OutboundEstablished, Reply
<1>7. ASSUME NEW c \in conns, ConnectionClosed(c) PROVE DialInv'
  BY <1>7, DialInvUnchanged DEF ConnectionClosed, dialGroup, dialVars
<1>8. ASSUME NEW p \in Peer, DialFails(p) PROVE DialInv'
  BY <1>8, DrainLemma DEF DialFails, OutgoingConnectionError, Reply
<1>9. ASSUME NEW p \in Peer, NEW list \in Advertised, IdentifyReceived(p, list)
      PROVE  DialInv'
  BY <1>9, DialInvUnchanged DEF IdentifyReceived, dialGroup, dialVars, swarmVars
<1>10. ASSUME NEW list \in PreferredList, SetPreferredPeers(list) PROVE DialInv'
  BY <1>10, DialInvUnchanged
     DEF SetPreferredPeers, dialGroup, dialVars, swarmVars
<1>11. ASSUME NEW p \in Peer, ScoreExpires(p) PROVE DialInv'
  BY <1>11, DialInvUnchanged DEF ScoreExpires, dialGroup, dialVars, swarmVars
<1>12. ASSUME Stop PROVE DialInv'
  BY <1>12, StopLemma
<1>13. ASSUME UNCHANGED vars PROVE DialInv'
  BY <1>13, DialInvUnchanged DEF vars, dialGroup, dialVars, swarmVars
<1>14. QED
  BY <1>1, <1>2, <1>3, <1>4, <1>5, <1>6, <1>7, <1>8, <1>9, <1>10, <1>11,
     <1>12, <1>13 DEF Next, Established

\* The dials' invariant holds in every reachable state.
THEOREM DialInvariant == Spec => []DialInv
<1>1. Init => DialInv
  BY DEF Init, DialInv, DialTypeOK, NoCallerForgotten, NoDials, CallState
<1>2. DialInv /\ [Next]_vars => DialInv'
  BY DialInvStep
<1>3. QED
  BY <1>1, <1>2, PTL DEF Spec

\* No caller of dial_and_wait is forgotten: who waits is in the entry of the
\* peer it dials, and that entry exists exactly while the swarm dials the peer.
THEOREM CallersNotForgotten == Spec => []NoCallerForgotten
<1>1. DialInv => NoCallerForgotten
  BY DEF DialInv
<1>2. QED
  BY <1>1, DialInvariant, PTL

-----------------------------------------------------------------------------
(***************************************************************************)
(* Preferred peers                                                         *)
(***************************************************************************)

prefGroup == <<protected, dial_hints, app_score>>

PrefInv == PrefTypeOK /\ ProtectedSetExact /\ ScoreFollowsProtection

\* The preferred peers' invariant is about the variables of its group only.
LEMMA PrefInvUnchanged ==
  ASSUME PrefInv, UNCHANGED prefGroup
  PROVE  PrefInv'
BY DEF PrefInv, PrefTypeOK, ProtectedSetExact, ScoreFollowsProtection, prefGroup

\* What take(cap) leaves of a request: at most ProtectedCap entries, and at
\* least one entry per peer that is in it.
LEMMA AcceptedLemma ==
  ASSUME NEW peers \in PreferredList
  PROVE  LET acc == Accepted(peers)
         IN  /\ acc \in Seq([peer : Peer, addrs : SUBSET Addr])
             /\ PeersIn(acc) \subseteq Peer
             /\ IsFiniteSet(PeersIn(acc))
             /\ Cardinality(PeersIn(acc)) <= ProtectedCap
<1> DEFINE Entry == [peer : Peer, addrs : SUBSET Addr]
           n == IF Len(peers) > ProtectedCap THEN ProtectedCap ELSE Len(peers)
           acc == SubSeq(peers, 1, n)
<1>1. /\ peers \in Seq(Entry)
      /\ ProtectedCap \in Nat
  <2>1. PreferredList \subseteq Seq(Entry)
    BY EventLoopAssumption
  <2>2. ProtectedCap \in Nat
    BY EventLoopAssumption
  <2> HIDE DEF Entry
  <2>3. QED
    BY <2>1, <2>2
<1>2. /\ n \in Nat /\ n <= ProtectedCap
      /\ \A i \in 1..n : peers[i] \in Entry
  <2> HIDE DEF Entry
  <2>1. Len(peers) \in Nat /\ \A i \in 1..Len(peers) : peers[i] \in Entry
    BY <1>1
  <2>2. QED
    BY <1>1, <2>1
<1>3. /\ acc \in Seq(Entry)
      /\ Len(acc) = n
  <2> HIDE DEF Entry, n
  <2>1. QED
    BY <1>2, SubSeqProperties
<1>4. \A i \in 1..n : acc[i] \in Entry
  BY <1>2, <1>3
<1>5. PeersIn(acc) \subseteq Peer
  BY <1>3, <1>4 DEF PeersIn
<1>6. /\ IsFiniteSet(PeersIn(acc))
      /\ Cardinality(PeersIn(acc)) <= ProtectedCap
  <2> DEFINE f == [i \in 1..n |-> acc[i].peer]
  <2>1. f \in Surjection(1..n, PeersIn(acc))
    BY <1>3 DEF Surjection, PeersIn
  <2>2. IsFiniteSet(1..n) /\ Cardinality(1..n) = n
    <3> HIDE DEF n
    <3>1. n \in Nat
      BY <1>2
    <3>2. /\ IsFiniteSet(1..n)
          /\ Cardinality(1..n) = IF 1 > n THEN 0 ELSE n - 1 + 1
      BY <3>1, FS_Interval
    <3>3. QED
      BY <3>1, <3>2
  <2>3. /\ IsFiniteSet(PeersIn(acc))
        /\ Cardinality(PeersIn(acc)) <= Cardinality(1..n)
    <3> HIDE DEF f, acc, n
    <3>1. QED
      BY <2>1, <2>2, FS_Surjection
  <2>4. Cardinality(PeersIn(acc)) \in Nat
    BY <2>3, FS_CardinalityType
  <2>5. QED
    BY <1>1, <1>2, <2>2, <2>3, <2>4
<1>7. QED
  BY <1>3, <1>5, <1>6 DEF Accepted

\* The hints of a list have addresses, whichever entry names the peer.
LEMMA HintsLemma ==
  ASSUME NEW list \in Seq([peer : Peer, addrs : SUBSET Addr])
  PROVE  /\ DOMAIN HintsOf(list) = PeersIn(list)
         /\ \A p \in PeersIn(list) : HintsOf(list)[p] \subseteq Addr
<1>1. SUFFICES ASSUME NEW p \in PeersIn(list)
               PROVE  HintsOf(list)[p] \subseteq Addr
  BY DEF HintsOf
<1> DEFINE i == CHOOSE i \in 1..Len(list) : list[i].peer = p
<1>2. \E j \in 1..Len(list) : list[j].peer = p
  BY DEF PeersIn
<1>3. i \in 1..Len(list)
  BY <1>2
<1>4. list[i] \in [peer : Peer, addrs : SUBSET Addr]
  <2> DEFINE Entry == [peer : Peer, addrs : SUBSET Addr]
  <2>1. list \in Seq(Entry)
    OBVIOUS
  <2> HIDE DEF i, Entry
  <2>2. list[i] \in Entry
    BY <1>3, <2>1
  <2>3. QED
    BY <2>2 DEF Entry
<1>5. HintsOf(list)[p] = list[i].addrs
  BY DEF HintsOf
<1>6. QED
  BY <1>4, <1>5

\* Replacing the preferred set keeps the invariant: who leaves the set loses
\* protection and bonus together, who enters it gains both.
LEMMA SetPreferredLemma ==
  ASSUME PrefInv, NEW peers \in PreferredList, SetPreferredPeers(peers)
  PROVE  PrefInv'
<1> DEFINE acc == Accepted(peers)
           new_set == PeersIn(acc)
           demoted == {p \in protected : p \notin new_set /\ p \notin Bootstrap}
<1>1. /\ acc \in Seq([peer : Peer, addrs : SUBSET Addr])
      /\ new_set \subseteq Peer
      /\ Cardinality(new_set) <= ProtectedCap
  BY AcceptedLemma
<1>2. /\ protected' = (protected \ demoted) \cup new_set
      /\ dial_hints' = HintsOf(acc)
      /\ SetScores(demoted, new_set)
  BY DEF SetPreferredPeers
<1>3. /\ DOMAIN dial_hints' = new_set
      /\ \A p \in new_set : dial_hints'[p] \subseteq Addr
  <2> HIDE DEF acc
  <2>1. QED
    BY <1>1, <1>2, HintsLemma
<1>4. protected' = Bootstrap \cup new_set
  <2> HIDE DEF new_set
  <2>1. QED
    BY <1>2 DEF PrefInv, ProtectedSetExact
<1> HIDE DEF new_set
<1>5. PrefTypeOK'
  BY <1>1, <1>2, <1>3, <1>4 DEF PrefInv, PrefTypeOK, SetScores, AppScore
<1>6. ProtectedSetExact'
  BY <1>1, <1>3, <1>4 DEF ProtectedSetExact
<1>7. ScoreFollowsProtection'
  BY <1>2, <1>4 DEF PrefInv, PrefTypeOK, ScoreFollowsProtection,
                    ProtectedSetExact, SetScores, AppScore
<1>8. QED
  BY <1>5, <1>6, <1>7 DEF PrefInv

\* A peer that connects gets the score that its protection asks for.
LEMMA ScoreOnConnectLemma ==
  ASSUME PrefInv, NEW c, c.peer \in Peer, Connect(c)
  PROVE  PrefInv'
<1>1. /\ UNCHANGED <<protected, dial_hints>>
      /\ app_score' = [app_score EXCEPT ![c.peer] = ScoreOnConnect(c.peer)]
  BY DEF Connect
<1>2. PrefTypeOK'
  BY <1>1 DEF PrefInv, PrefTypeOK, ScoreOnConnect, AppScore
<1>3. ScoreFollowsProtection'
  BY <1>1 DEF PrefInv, PrefTypeOK, ScoreOnConnect, AppScore,
              ScoreFollowsProtection, ProtectedSetExact
<1>4. QED
  BY <1>1, <1>2, <1>3 DEF PrefInv, ProtectedSetExact

\* Every step of the event loop keeps the preferred peers' invariant.
LEMMA PrefInvStep ==
  ASSUME PrefInv, [Next]_vars
  PROVE  PrefInv'
<1>1. ASSUME NEW k \in Call,
             SendDial(k) \/ AbandonDial(k) \/ TakeReply(k) \/ HandleDial(k)
      PROVE  PrefInv'
  BY <1>1, PrefInvUnchanged
     DEF SendDial, AbandonDial, TakeReply, HandleDial, prefVars, prefGroup
<1>2. ASSUME NEW i \in ConnId, NEW p \in Peer, NEW a,
             InboundEstablished(i, p, a) \/ OutboundEstablished(i, p, a)
      PROVE  PrefInv'
  <2>1. NewConnection(i, p, a).peer = p
    BY DEF NewConnection
  <2>2. Connect(NewConnection(i, p, a))
    BY <1>2 DEF InboundEstablished, OutboundEstablished
  <2>3. QED
    BY <2>1, <2>2, ScoreOnConnectLemma
<1>3. ASSUME NEW c \in conns, ConnectionClosed(c) PROVE PrefInv'
  BY <1>3 DEF ConnectionClosed, ScoresAfterClose, PrefInv, PrefTypeOK, AppScore,
              ProtectedSetExact, ScoreFollowsProtection
<1>4. ASSUME NEW p \in Peer, DialFails(p) PROVE PrefInv'
  BY <1>4, PrefInvUnchanged
     DEF DialFails, OutgoingConnectionError, prefVars, prefGroup
<1>5. ASSUME NEW p \in Peer, NEW list \in Advertised, IdentifyReceived(p, list)
      PROVE  PrefInv'
  BY <1>5, PrefInvUnchanged DEF IdentifyReceived, prefVars, prefGroup
<1>6. ASSUME NEW list \in PreferredList, SetPreferredPeers(list) PROVE PrefInv'
  BY <1>6, SetPreferredLemma
<1>7. ASSUME NEW p \in Peer, ScoreExpires(p) PROVE PrefInv'
  BY <1>7 DEF ScoreExpires, PrefInv, PrefTypeOK, AppScore,
              ProtectedSetExact, ScoreFollowsProtection
<1>8. ASSUME Stop \/ UNCHANGED vars PROVE PrefInv'
  BY <1>8, PrefInvUnchanged DEF Stop, vars, prefVars, prefGroup
<1>9. QED
  BY <1>1, <1>2, <1>3, <1>4, <1>5, <1>6, <1>7, <1>8 DEF Next, Established

\* The preferred peers' invariant holds in every reachable state.
THEOREM PrefInvariant == Spec => []PrefInv
<1>1. Init => PrefInv
  BY EventLoopAssumption, FS_EmptySet
     DEF Init, PrefInv, PrefTypeOK, AppScore, ProtectedSetExact,
         ScoreFollowsProtection
<1>2. PrefInv /\ [Next]_vars => PrefInv'
  BY PrefInvStep
<1>3. QED
  BY <1>1, <1>2, PTL DEF Spec

\* The protected set is the bootstrap peers and at most ProtectedCap others.
THEOREM ProtectedSetIsExact == Spec => []ProtectedSetExact
<1>1. PrefInv => ProtectedSetExact
  BY DEF PrefInv
<1>2. QED
  BY <1>1, PrefInvariant, PTL

\* Of the peers that the scorer tracks exactly the protected have the bonus.
THEOREM ScoresFollowProtection == Spec => []ScoreFollowsProtection
<1>1. PrefInv => ScoreFollowsProtection
  BY DEF PrefInv
<1>2. QED
  BY <1>1, PrefInvariant, PTL

-----------------------------------------------------------------------------
(***************************************************************************)
(* Connections, counters and limits                                        *)
(***************************************************************************)

connGroup == <<conns, closing, connected, subnet_counts, connected_peers>>

ConnInv ==
  /\ SwarmTypeOK
  /\ TableMatchesSwarm
  /\ CountersExact
  /\ SubnetCapHonoured
  /\ HighWaterHonoured

InSubnet(s) == {c \in conns : SubnetOf[c.addr] = s}

\* The connections' invariant is about the variables of its group only.
LEMMA ConnInvUnchanged ==
  ASSUME ConnInv, UNCHANGED connGroup
  PROVE  ConnInv'
<1>1. Limited' = Limited
  BY DEF Limited, Open, connGroup
<1>2. SwarmTypeOK' /\ TableMatchesSwarm' /\ CountersExact'
  BY DEF ConnInv, SwarmTypeOK, TableMatchesSwarm, CountersExact, ConnsOf,
         connGroup
<1>3. SubnetCapHonoured' /\ HighWaterHonoured'
  BY <1>1 DEF ConnInv, SubnetCapHonoured, HighWaterHonoured
<1>4. QED
  BY <1>2, <1>3 DEF ConnInv

\* The sets that the limits bound are finite.
LEMMA LimitedFinite ==
  ASSUME SwarmTypeOK
  PROVE  /\ Limited \subseteq conns
         /\ {c.peer : c \in Limited} \subseteq Peer
         /\ IsFiniteSet({c.peer : c \in Limited})
         /\ \A s : IsFiniteSet({c \in Limited : SubnetOf[c.addr] = s})
         /\ \A s : IsFiniteSet(InSubnet(s))
<1>1. Limited \subseteq conns
  BY DEF Limited, Open
<1>2. {c.peer : c \in Limited} \subseteq Peer
  BY <1>1 DEF SwarmTypeOK, Connection
<1>3. IsFiniteSet({c.peer : c \in Limited})
  BY <1>2, EventLoopAssumption, FS_Subset
<1>4. ASSUME NEW s PROVE IsFiniteSet({c \in Limited : SubnetOf[c.addr] = s})
  <2>1. {c \in Limited : SubnetOf[c.addr] = s} \in SUBSET conns
    BY <1>1
  <2>2. QED
    BY <2>1, FS_Subset DEF SwarmTypeOK
<1>5. ASSUME NEW s PROVE IsFiniteSet(InSubnet(s))
  <2>1. InSubnet(s) \in SUBSET conns
    BY DEF InSubnet
  <2>2. QED
    BY <2>1, FS_Subset DEF SwarmTypeOK
<1>6. QED
  BY <1>1, <1>2, <1>3, <1>4, <1>5

\* Fewer limited connections keep both limits.
LEMMA FewerLimited ==
  ASSUME ConnInv, SwarmTypeOK', Limited' \subseteq Limited
  PROVE  SubnetCapHonoured' /\ HighWaterHonoured'
<1>1. SwarmTypeOK
  BY DEF ConnInv
<1>2. HighWaterHonoured'
  <2>1. {c.peer : c \in Limited'} \in SUBSET {c.peer : c \in Limited}
    OBVIOUS
  <2>2. IsFiniteSet({c.peer : c \in Limited})
    BY <1>1, LimitedFinite
  <2>3. /\ IsFiniteSet({c.peer : c \in Limited'})
        /\ Cardinality({c.peer : c \in Limited'})
             <= Cardinality({c.peer : c \in Limited})
    BY <2>1, <2>2, FS_Subset
  <2>4. /\ Cardinality({c.peer : c \in Limited}) \in Nat
        /\ Cardinality({c.peer : c \in Limited'}) \in Nat
    BY <2>2, <2>3, FS_CardinalityType
  <2>5. Cardinality({c.peer : c \in Limited}) <= HighWater
    BY DEF ConnInv, HighWaterHonoured
  <2>6. HighWater \in Nat
    BY EventLoopAssumption
  <2>7. QED
    BY <2>3, <2>4, <2>5, <2>6 DEF HighWaterHonoured
<1>3. ASSUME NEW s \in Subnet
      PROVE  Cardinality({c \in Limited' : SubnetOf[c.addr] = s})
               <= PerSubnetCap
  <2> DEFINE T == {c \in Limited' : SubnetOf[c.addr] = s}
             L == {c \in Limited : SubnetOf[c.addr] = s}
  <2>1. T \in SUBSET L
    OBVIOUS
  <2>2. IsFiniteSet(L)
    BY <1>1, LimitedFinite
  <2>3. Cardinality(L) <= PerSubnetCap
    BY DEF ConnInv, SubnetCapHonoured
  <2>4. PerSubnetCap \in Nat
    BY SubnetAssumption
  <2> HIDE DEF T, L
  <2>5. IsFiniteSet(T) /\ Cardinality(T) <= Cardinality(L)
    BY <2>1, <2>2, FS_Subset
  <2>6. Cardinality(L) \in Nat /\ Cardinality(T) \in Nat
    BY <2>2, <2>5, FS_CardinalityType
  <2>7. Cardinality(T) <= PerSubnetCap
    BY <2>3, <2>4, <2>5, <2>6
  <2>8. QED
    BY <2>7 DEF T
<1>4. QED
  BY <1>2, <1>3 DEF SubnetCapHonoured

\* A connection that comes up keeps the invariant: it is counted in any case,
\* and it stays unlimited, open and within both limits, or is closed at once.
LEMMA ConnectLemma ==
  ASSUME ConnInv, NEW c \in Connection, Connect(c)
  PROVE  ConnInv'
<1>1. /\ c.peer \in Peer /\ c.addr \in Addr /\ c.exempt \in BOOLEAN
      /\ c \notin conns
      /\ conns' = conns \cup {c}
      /\ connected_peers' = connected_peers + 1
      /\ subnet_counts' = OnConnection(subnet_counts, c.addr)
  BY DEF Connect, IncGauge, EnforceConnectionLimits, Connection
<1>2. /\ DOMAIN connected' = DOMAIN connected \cup {c.peer}
      /\ \A p \in DOMAIN connected \cup {c.peer} :
           connected'[p] = (IF p \in DOMAIN connected THEN connected[p] ELSE {})
                           \cup (IF p = c.peer THEN {c.addr} ELSE {})
  BY DEF Connect
<1>3. closing \subseteq closing' /\ closing' \subseteq conns'
  BY <1>1 DEF Connect, EnforceConnectionLimits, ConnInv, SwarmTypeOK
<1>4. IsFiniteSet(conns') /\ Cardinality(conns') = Cardinality(conns) + 1
  BY <1>1, FS_AddElement DEF ConnInv, SwarmTypeOK
<1>5. subnet_counts' \in SubnetCounts
  BY <1>1 DEF ConnInv, SwarmTypeOK, SubnetCounts, OnConnection
<1>6. SwarmTypeOK'
  <2>1. conns' \subseteq Connection
    BY <1>1 DEF ConnInv, SwarmTypeOK
  <2>2. /\ DOMAIN connected' \subseteq Peer
        /\ \A p \in DOMAIN connected' : connected'[p] \subseteq Addr
    BY <1>1, <1>2 DEF ConnInv, SwarmTypeOK
  <2>3. connected_peers' \in Nat
    BY <1>1 DEF ConnInv, SwarmTypeOK
  <2>4. QED
    BY <1>3, <1>4, <1>5, <2>1, <2>2, <2>3 DEF SwarmTypeOK
<1>7. TableMatchesSwarm'
  <2>1. DOMAIN connected' = {d.peer : d \in conns'}
    BY <1>1, <1>2 DEF ConnInv, TableMatchesSwarm
  <2>2. ASSUME NEW p \in DOMAIN connected'
        PROVE  connected'[p] \subseteq {d.addr : d \in {e \in conns' : e.peer = p}}
    BY <1>1, <1>2 DEF ConnInv, TableMatchesSwarm, ConnsOf
  <2>3. QED
    BY <2>1, <2>2 DEF TableMatchesSwarm, ConnsOf
<1>8. ASSUME NEW s \in Subnet
      PROVE  /\ subnet_counts'[s] = Cardinality(InSubnet(s)')
             /\ IsFiniteSet(InSubnet(s)')
             /\ subnet_counts'[s] = IF s = SubnetOf[c.addr]
                                    THEN subnet_counts[s] + 1
                                    ELSE subnet_counts[s]
  <2>1. subnet_counts[s] = Cardinality(InSubnet(s)) /\ IsFiniteSet(InSubnet(s))
    BY LimitedFinite DEF ConnInv, CountersExact, InSubnet
  <2>2. subnet_counts'[s] = IF s = SubnetOf[c.addr]
                            THEN subnet_counts[s] + 1 ELSE subnet_counts[s]
    BY <1>1 DEF OnConnection
  <2>3. CASE s = SubnetOf[c.addr]
    <3>1. InSubnet(s)' = InSubnet(s) \cup {c} /\ c \notin InSubnet(s)
      BY <1>1, <2>3 DEF InSubnet
    <3>2. QED
      BY <2>1, <2>2, <2>3, <3>1, FS_AddElement
  <2>4. CASE s # SubnetOf[c.addr]
    <3>1. InSubnet(s)' = InSubnet(s)
      BY <1>1, <2>4 DEF InSubnet
    <3>2. QED
      BY <2>1, <2>2, <2>4, <3>1
  <2>5. QED
    BY <2>3, <2>4
<1>9. CountersExact'
  BY <1>1, <1>4, <1>8 DEF CountersExact, InSubnet, ConnInv
<1>10. CASE c \notin Limited'
  <2>1. Limited' \subseteq Limited
    BY <1>1, <1>3, <1>10 DEF Limited, Open
  <2>2. QED
    BY <1>6, <1>7, <1>9, <2>1, FewerLimited DEF ConnInv
<1>11. CASE c \in Limited'
  <2>1. ~c.exempt /\ c \notin closing'
    BY <1>11 DEF Limited, Open
  <2>2. ~OverHighWater(c) /\ ~Rejects(subnet_counts, c.addr, c.exempt)
    BY <1>1, <2>1 DEF Connect, EnforceConnectionLimits
  <2>3. Limited' \subseteq Limited \cup {c}
    BY <1>1, <1>3 DEF Limited, Open
  <2>4. HighWaterHonoured'
    <3>1. {d.peer : d \in Limited'} \in SUBSET (DOMAIN connected')
      BY <1>7 DEF TableMatchesSwarm, Limited, Open
    <3>2. IsFiniteSet(DOMAIN connected')
      BY <1>6, EventLoopAssumption, FS_Subset DEF SwarmTypeOK
    <3>3. ~(Cardinality(DOMAIN connected') > HighWater)
      BY <2>1, <2>2 DEF OverHighWater
    <3> DEFINE T == {d.peer : d \in Limited'}
               D == DOMAIN connected'
    <3>4. T \in SUBSET D /\ IsFiniteSet(D) /\ ~(Cardinality(D) > HighWater)
      BY <3>1, <3>2, <3>3
    <3> HIDE DEF T, D
    <3>5. IsFiniteSet(T) /\ Cardinality(T) <= Cardinality(D)
      BY <3>4, FS_Subset
    <3>6. Cardinality(T) \in Nat /\ Cardinality(D) \in Nat /\ HighWater \in Nat
      BY <3>4, <3>5, FS_CardinalityType, EventLoopAssumption
    <3>7. Cardinality(T) <= HighWater
      BY <3>4, <3>5, <3>6
    <3>8. QED
      BY <3>7 DEF T, HighWaterHonoured
  <2>5. ASSUME NEW s \in Subnet
        PROVE  Cardinality({d \in Limited' : SubnetOf[d.addr] = s})
                 <= PerSubnetCap
    <3> DEFINE T == {d \in Limited' : SubnetOf[d.addr] = s}
               L == {d \in Limited : SubnetOf[d.addr] = s}
    <3>1. PerSubnetCap \in Nat
      BY SubnetAssumption
    <3>2. CASE s = SubnetOf[c.addr]
      <4>1. subnet_counts[s] < PerSubnetCap
        <5>1. SubnetOf[c.addr] # NoSubnet
          BY <3>2, SubnetAssumption
        <5>2. ~(subnet_counts[s] >= PerSubnetCap)
          BY <2>1, <2>2, <3>2, <5>1 DEF Rejects
        <5>3. subnet_counts[s] \in Nat
          BY DEF ConnInv, SwarmTypeOK, SubnetCounts
        <5>4. QED
          BY <3>1, <5>2, <5>3
      <4>2. T \in SUBSET (InSubnet(s)')
        BY DEF InSubnet, Limited, Open
      <4>3. /\ IsFiniteSet(InSubnet(s)')
            /\ Cardinality(InSubnet(s)') = subnet_counts[s] + 1
        BY <1>8, <3>2
      <4>4. subnet_counts[s] \in Nat
        BY DEF ConnInv, SwarmTypeOK, SubnetCounts
      <4> DEFINE I == InSubnet(s)'
      <4> HIDE DEF T, L, I
      <4>5. IsFiniteSet(T) /\ Cardinality(T) <= Cardinality(I)
        BY <4>2, <4>3, FS_Subset DEF I
      <4>6. Cardinality(T) \in Nat
        BY <4>5, FS_CardinalityType
      <4>7. Cardinality(I) = subnet_counts[s] + 1
        BY <4>3 DEF I
      <4>8. Cardinality(T) <= PerSubnetCap
        BY <3>1, <4>1, <4>4, <4>5, <4>6, <4>7
      <4>9. QED
        BY <4>8 DEF T
    <3>3. CASE s # SubnetOf[c.addr]
      <4>1. T \in SUBSET L
        BY <2>3, <3>3
      <4>2. IsFiniteSet(L)
        BY LimitedFinite DEF ConnInv
      <4>3. Cardinality(L) <= PerSubnetCap
        BY DEF ConnInv, SubnetCapHonoured
      <4> HIDE DEF T, L
      <4>4. IsFiniteSet(T) /\ Cardinality(T) <= Cardinality(L)
        BY <4>1, <4>2, FS_Subset
      <4>5. Cardinality(T) \in Nat /\ Cardinality(L) \in Nat
        BY <4>2, <4>4, FS_CardinalityType
      <4>6. Cardinality(T) <= PerSubnetCap
        BY <3>1, <4>3, <4>4, <4>5
      <4>7. QED
        BY <4>6 DEF T
    <3>4. QED
      BY <3>2, <3>3
  <2>6. QED
    BY <1>6, <1>7, <1>9, <2>4, <2>5 DEF ConnInv, SubnetCapHonoured
<1>12. QED
  BY <1>10, <1>11

\* A connection that goes down takes back exactly what it added.
LEMMA ClosedLemma ==
  ASSUME ConnInv, NEW c \in conns, ConnectionClosed(c)
  PROVE  ConnInv'
<1>1. /\ c \in Connection
      /\ conns' = conns \ {c}
      /\ closing' = closing \ {c}
      /\ connected_peers' = connected_peers - 1
      /\ subnet_counts' = OnDisconnection(subnet_counts, c.addr)
      /\ connected' = TableWithout(c)
  BY DEF ConnectionClosed, ConnInv, SwarmTypeOK
<1>2. c.peer \in Peer /\ c.addr \in Addr
  BY <1>1 DEF Connection
<1>3. IsFiniteSet(conns') /\ Cardinality(conns') = Cardinality(conns) - 1
  BY <1>1, FS_RemoveElement DEF ConnInv, SwarmTypeOK
<1>4. connected_peers' = Cardinality(conns') /\ connected_peers' \in Nat
  <2>1. connected_peers' = Cardinality(conns')
    BY <1>1, <1>3 DEF ConnInv, CountersExact
  <2>2. QED
    BY <1>3, <2>1, FS_CardinalityType
<1>5. ASSUME NEW s \in Subnet
      PROVE  subnet_counts'[s] = Cardinality(InSubnet(s)') /\ subnet_counts'[s] \in Nat
  <2>1. subnet_counts[s] = Cardinality(InSubnet(s)) /\ IsFiniteSet(InSubnet(s))
    BY LimitedFinite DEF ConnInv, CountersExact, InSubnet
  <2>2. subnet_counts[s] \in Nat
    BY DEF ConnInv, SwarmTypeOK, SubnetCounts
  <2>3. subnet_counts'[s] = IF s = SubnetOf[c.addr] /\ subnet_counts[s] > 0
                            THEN subnet_counts[s] - 1 ELSE subnet_counts[s]
    BY <1>1 DEF OnDisconnection
  <2>4. CASE s = SubnetOf[c.addr]
    <3>1. InSubnet(s)' = InSubnet(s) \ {c} /\ c \in InSubnet(s)
      BY <1>1, <2>4 DEF InSubnet
    <3>2. Cardinality(InSubnet(s)') = Cardinality(InSubnet(s)) - 1
      BY <2>1, <3>1, FS_RemoveElement
    <3>3. subnet_counts[s] # 0
      BY <2>1, <3>1, FS_EmptySet
    <3>4. QED
      BY <2>1, <2>2, <2>3, <2>4, <3>2, <3>3
  <2>5. CASE s # SubnetOf[c.addr]
    <3>1. InSubnet(s)' = InSubnet(s)
      BY <1>1, <2>5 DEF InSubnet
    <3>2. QED
      BY <2>1, <2>2, <2>3, <2>5, <3>1
  <2>6. QED
    BY <2>4, <2>5
<1>6. subnet_counts' \in SubnetCounts
  <2>1. subnet_counts' = [s \in Subnet |-> subnet_counts'[s]]
    BY <1>1 DEF OnDisconnection
  <2>2. QED
    BY <1>5, <2>1 DEF SubnetCounts
<1>7. /\ DOMAIN connected' = {d.peer : d \in conns'}
      /\ \A p \in DOMAIN connected' :
           connected'[p] \subseteq {d.addr : d \in {e \in conns' : e.peer = p}}
  <2>1. CASE ConnsOf(c.peer) = {c}
    <3>1. connected' = [p \in DOMAIN connected \ {c.peer} |-> connected[p]]
      BY <1>1, <2>1 DEF TableWithout
    <3>2. QED
      BY <1>1, <2>1, <3>1 DEF ConnInv, TableMatchesSwarm, ConnsOf
  <2>2. CASE ConnsOf(c.peer) # {c}
    <3>1. connected' = [connected EXCEPT ![c.peer] = @ \ {c.addr}]
      BY <1>1, <2>2 DEF TableWithout
    <3>2. PICK d \in conns : d.peer = c.peer /\ d # c
      BY <2>2 DEF ConnsOf
    <3>3. {e.peer : e \in conns'} = {e.peer : e \in conns}
      BY <1>1, <3>2
    <3>4. DOMAIN connected' = {e.peer : e \in conns'}
      BY <3>1, <3>3 DEF ConnInv, TableMatchesSwarm
    <3>5. ASSUME NEW p \in DOMAIN connected'
          PROVE  connected'[p] \subseteq {e.addr : e \in {f \in conns' : f.peer = p}}
      BY <1>1, <3>1 DEF ConnInv, TableMatchesSwarm, ConnsOf
    <3>6. QED
      BY <3>4, <3>5
  <2>3. QED
    BY <2>1, <2>2
<1>8. SwarmTypeOK'
  <2>1. conns' \subseteq Connection /\ closing' \subseteq conns'
    BY <1>1 DEF ConnInv, SwarmTypeOK
  <2>2. DOMAIN connected' \subseteq Peer
    BY <1>7, <2>1 DEF Connection
  <2>3. \A p \in DOMAIN connected' : connected'[p] \subseteq Addr
    BY <1>7, <2>1 DEF Connection
  <2>4. QED
    BY <1>3, <1>4, <1>6, <2>1, <2>2, <2>3 DEF SwarmTypeOK
<1>9. TableMatchesSwarm'
  BY <1>7 DEF TableMatchesSwarm, ConnsOf
<1>10. CountersExact'
  BY <1>4, <1>5 DEF CountersExact, InSubnet
<1>11. Limited' \subseteq Limited
  BY <1>1 DEF Limited, Open
<1>12. QED
  BY <1>8, <1>9, <1>10, <1>11, FewerLimited DEF ConnInv

\* Every step of the event loop keeps the connections' invariant.
LEMMA ConnInvStep ==
  ASSUME ConnInv, DialInv, [Next]_vars
  PROVE  ConnInv'
<1>1. ASSUME NEW k \in Call,
             SendDial(k) \/ AbandonDial(k) \/ TakeReply(k)
      PROVE  ConnInv'
  BY <1>1, ConnInvUnchanged
     DEF SendDial, AbandonDial, TakeReply, swarmVars, tableVars, connGroup
<1>2. ASSUME NEW k \in Call, HandleDial(k) PROVE ConnInv'
  BY <1>2, ConnInvUnchanged
     DEF HandleDial, JoinDial, ReportConnected, RefuseDial, StartDial,
         swarmVars, tableVars, connGroup
<1>3. ASSUME NEW i \in ConnId, NEW p \in Peer, NEW a \in Addr,
             Connect(NewConnection(i, p, a))
      PROVE  ConnInv'
  <2>1. NewConnection(i, p, a) \in Connection
    BY DEF NewConnection, Connection
  <2>2. QED
    BY <1>3, <2>1, ConnectLemma
<1>4. ASSUME NEW i \in ConnId, NEW p \in Peer, NEW a \in InboundAddr,
             InboundEstablished(i, p, a)
      PROVE  ConnInv'
  BY <1>3, <1>4, EventLoopAssumption DEF InboundEstablished
<1>5. ASSUME NEW i \in ConnId, NEW p \in Peer, NEW a \in dialing[p],
             OutboundEstablished(i, p, a)
      PROVE  ConnInv'
  <2>1. a \in Addr
    BY DEF DialInv, DialTypeOK
  <2>2. QED
    BY <1>3, <1>5, <2>1 DEF OutboundEstablished
<1>6. ASSUME NEW c \in conns, ConnectionClosed(c) PROVE ConnInv'
  BY <1>6, ClosedLemma
<1>7. ASSUME NEW p \in Peer, DialFails(p) PROVE ConnInv'
  BY <1>7, ConnInvUnchanged
     DEF DialFails, OutgoingConnectionError, tableVars, connGroup
<1>8. ASSUME NEW p \in Peer, NEW list \in Advertised, IdentifyReceived(p, list)
      PROVE  ConnInv'
  BY <1>8, ConnInvUnchanged
     DEF IdentifyReceived, swarmVars, tableVars, connGroup
<1>9. ASSUME NEW list \in PreferredList, SetPreferredPeers(list) PROVE ConnInv'
  BY <1>9, ConnInvUnchanged
     DEF SetPreferredPeers, swarmVars, tableVars, connGroup
<1>10. ASSUME NEW p \in Peer, ScoreExpires(p) PROVE ConnInv'
  BY <1>10, ConnInvUnchanged DEF ScoreExpires, swarmVars, tableVars, connGroup
<1>11. ASSUME Stop \/ UNCHANGED vars PROVE ConnInv'
  BY <1>11, ConnInvUnchanged DEF Stop, vars, swarmVars, tableVars, connGroup
<1>12. QED
  BY <1>1, <1>2, <1>4, <1>5, <1>6, <1>7, <1>8, <1>9, <1>10, <1>11
     DEF Next, Established

\* The invariant holds when the loop starts.
LEMMA ConnInvInit == Init => ConnInv
<1> SUFFICES ASSUME Init PROVE ConnInv
  OBVIOUS
<1>1. conns = {} /\ Limited = {}
  BY DEF Init, Limited, Open
<1>2. SwarmTypeOK
  BY FS_EmptySet DEF Init, SwarmTypeOK, NoCounts, SubnetCounts
<1>3. TableMatchesSwarm
  BY DEF Init, TableMatchesSwarm
<1>4. CountersExact
  <2>1. \A s \in Subnet : {c \in conns : SubnetOf[c.addr] = s} = {}
    BY <1>1
  <2>2. QED
    BY <1>1, <2>1, FS_EmptySet DEF Init, CountersExact, NoCounts
<1>5. SubnetCapHonoured
  <2>1. \A s \in Subnet : {c \in Limited : SubnetOf[c.addr] = s} = {}
    BY <1>1
  <2>2. QED
    BY <2>1, FS_EmptySet, SubnetAssumption DEF SubnetCapHonoured
<1>6. HighWaterHonoured
  <2>1. {c.peer : c \in Limited} = {}
    BY <1>1
  <2>2. QED
    BY <2>1, FS_EmptySet, EventLoopAssumption DEF HighWaterHonoured
<1>7. QED
  BY <1>2, <1>3, <1>4, <1>5, <1>6 DEF ConnInv

\* The connections' invariant holds in every reachable state.
THEOREM ConnInvariant == Spec => []ConnInv
<1>1. ConnInv /\ DialInv /\ [Next]_vars => ConnInv'
  BY ConnInvStep
<1>2. QED
  BY <1>1, ConnInvInit, DialInvariant, PTL DEF Spec

\* The table `connected' has exactly the peers with a connection, and no
\* address that none of their connections has.
THEOREM TableCorrect == Spec => []TableMatchesSwarm
<1>1. ConnInv => TableMatchesSwarm
  BY DEF ConnInv
<1>2. QED
  BY <1>1, ConnInvariant, PTL

\* The subnet counters and the gauge are exact: no sequence of rejected,
\* exempt and closed connections makes them drift.
THEOREM CountersCorrect == Spec => []CountersExact
<1>1. ConnInv => CountersExact
  BY DEF ConnInv
<1>2. QED
  BY <1>1, ConnInvariant, PTL

\* At most PerSubnetCap open connections that are not exempt in one /24.
THEOREM SubnetCapCorrect == Spec => []SubnetCapHonoured
<1>1. ConnInv => SubnetCapHonoured
  BY DEF ConnInv
<1>2. QED
  BY <1>1, ConnInvariant, PTL

\* At most HighWater peers with an open connection that is not exempt.
THEOREM HighWaterCorrect == Spec => []HighWaterHonoured
<1>1. ConnInv => HighWaterHonoured
  BY DEF ConnInv
<1>2. QED
  BY <1>1, ConnInvariant, PTL

RunningOK == running \in BOOLEAN

\* Only Stop changes `running'.
LEMMA RunningStep ==
  ASSUME RunningOK, [Next]_vars
  PROVE  RunningOK'
<1>1. ASSUME NEW k \in Call,
             SendDial(k) \/ AbandonDial(k) \/ TakeReply(k) \/ HandleDial(k)
      PROVE  RunningOK'
  BY <1>1 DEF RunningOK, SendDial, AbandonDial, TakeReply, HandleDial
<1>2. ASSUME Established PROVE RunningOK'
  <2>1. ASSUME NEW i, NEW p, NEW a, Connect(NewConnection(i, p, a))
        PROVE  RunningOK'
    BY <2>1, Zenon DEF RunningOK, Connect
  <2>2. QED
    BY <1>2, <2>1, Zenon
       DEF Established, InboundEstablished, OutboundEstablished
<1>3. ASSUME NEW c \in conns, ConnectionClosed(c) PROVE RunningOK'
  BY <1>3 DEF RunningOK, ConnectionClosed
<1>4. ASSUME NEW p \in Peer, DialFails(p) \/ ScoreExpires(p) PROVE RunningOK'
  BY <1>4 DEF RunningOK, DialFails, OutgoingConnectionError, ScoreExpires
<1>5. ASSUME NEW p \in Peer, NEW list \in Advertised, IdentifyReceived(p, list)
      PROVE  RunningOK'
  BY <1>5 DEF RunningOK, IdentifyReceived
<1>6. ASSUME NEW list \in PreferredList, SetPreferredPeers(list)
      PROVE  RunningOK'
  BY <1>6 DEF RunningOK, SetPreferredPeers
<1>7. ASSUME Stop \/ UNCHANGED vars PROVE RunningOK'
  BY <1>7 DEF RunningOK, Stop, vars
<1>8. QED
  BY <1>1, <1>2, <1>3, <1>4, <1>5, <1>6, <1>7 DEF Next

\* The loop's flag is a Boolean in every state.
LEMMA RunningInvariant == Spec => []RunningOK
<1>1. Init => RunningOK
  BY DEF Init, RunningOK
<1>2. RunningOK /\ [Next]_vars => RunningOK'
  BY RunningStep
<1>3. QED
  BY <1>1, <1>2, PTL DEF Spec

\* Every variable but the peerstore has its type: the gauge never goes below
\* zero and only live connections are being closed.
THEOREM TypeCorrect == Spec => []TypeOK
<1>1. ConnInv /\ DialInv /\ PrefInv /\ RunningOK => TypeOK
  BY DEF ConnInv, DialInv, PrefInv, RunningOK, TypeOK
<1>2. QED
  BY <1>1, RunningInvariant, ConnInvariant, DialInvariant, PrefInvariant, PTL

\* A step of the loop never starts to close a connection of a protected peer.
THEOREM ProtectedAreSafe == Spec => ProtectedNeverClosed
<1> DEFINE Safe == \A c \in closing' \ closing : c.peer \notin protected
<1>1. ASSUME NEW i, NEW p, NEW a, Connect(NewConnection(i, p, a))
      PROVE  Safe
  <2>1. /\ NewConnection(i, p, a).peer = p
        /\ NewConnection(i, p, a).exempt = (p \in protected)
    BY DEF NewConnection
  <2>2. ASSUME NEW c \in closing' \ closing
        PROVE  c.peer = p /\ p \notin protected
    BY <1>1, <2>1, <2>2
       DEF Connect, EnforceConnectionLimits, OverHighWater, Rejects
  <2>3. QED
    BY <2>2
<1>2. [Next]_vars => [Safe]_vars
  <2>1. SUFFICES ASSUME Next PROVE Safe
    OBVIOUS
  <2>2. CASE Established
    BY <1>1, <2>2 DEF Established, InboundEstablished, OutboundEstablished
  <2>3. CASE \E c \in conns : ConnectionClosed(c)
    BY <2>3 DEF ConnectionClosed
  <2>4. CASE \E k \in Call : HandleDial(k)
    BY <2>4 DEF HandleDial, JoinDial, ReportConnected, RefuseDial, StartDial,
                swarmVars
  <2>5. CASE \E k \in Call : SendDial(k) \/ AbandonDial(k) \/ TakeReply(k)
    BY <2>5 DEF SendDial, AbandonDial, TakeReply, swarmVars
  <2>6. CASE \E p \in Peer : DialFails(p)
    BY <2>6 DEF DialFails, OutgoingConnectionError
  <2>7. CASE \E p \in Peer : ScoreExpires(p)
    BY <2>7 DEF ScoreExpires, swarmVars
  <2>8. CASE \E p \in Peer, list \in Advertised : IdentifyReceived(p, list)
    BY <2>8 DEF IdentifyReceived, swarmVars
  <2>9. CASE \E list \in PreferredList : SetPreferredPeers(list)
    BY <2>9 DEF SetPreferredPeers, swarmVars
  <2>10. CASE Stop
    BY <2>10 DEF Stop
  <2> HIDE DEF Safe
  <2>11. QED
    BY <2>1, <2>2, <2>3, <2>4, <2>5, <2>6, <2>7, <2>8, <2>9, <2>10 DEF Next
<1>3. QED
  BY <1>2, PTL DEF Spec, ProtectedNeverClosed
-----------------------------------------------------------------------------
(***************************************************************************)
(* Induction.  The induction theorems of the library take an operator; the *)
(* least element of a set of numbers does without one, if the induction's  *)
(* hypothesis is given as the set of the numbers for which it holds.       *)
(***************************************************************************)

\* Every set of natural numbers that has an element has a least one.
LEMMA LeastElement ==
  ASSUME NEW S, S \subseteq Nat, S # {}
  PROVE  \E n \in S : \A m \in S : n <= m
<1> DEFINE R == {ss \in Nat \X Nat : ss[1] < ss[2]}
<1>1. IsWellFoundedOn(R, Nat)
  BY NatLessThanWellFounded DEF OpToRel
<1> HIDE DEF R
<1>2. PICK n \in S : \A m \in S : ~(<<m, n>> \in R)
  BY <1>1, WFMin
<1>3. ASSUME NEW m \in S PROVE n <= m
  <2>1. m \in Nat /\ n \in Nat /\ <<m, n>> \notin R
    BY <1>2
  <2>2. ~(m < n)
    BY <2>1 DEF R
  <2>3. QED
    BY <2>1, <2>2
<1>4. QED
  BY <1>3

\* Induction over an interval: what holds of 0, and of n + 1 if it holds of n,
\* holds of all its numbers.  T is the set of those of which it holds.
LEMMA IntervalInduction ==
  ASSUME NEW N \in Nat, NEW T, T \subseteq 0..N, 0 \in T,
         \A n \in T : n < N => n + 1 \in T
  PROVE  T = 0..N
<1> DEFINE S == (0..N) \ T
<1>1. SUFFICES ASSUME S # {} PROVE FALSE
  OBVIOUS
<1>2. PICK n \in S : \A m \in S : n <= m
  <2>1. S \subseteq Nat
    OBVIOUS
  <2> HIDE DEF S
  <2>2. QED
    BY <1>1, <2>1, LeastElement
<1>3. n - 1 \in T /\ n - 1 < N
  BY <1>2
<1>4. QED
  BY <1>2, <1>3

\* step[n, x] is what the n-th turn makes of x.
Iterates(f, N, base, step) ==
  f[0] = base /\ \A n \in 1..N : f[n] = step[<<n, f[n - 1]>>]

\* A function may be defined by iterating a step.
LEMMA IterationExists ==
  ASSUME NEW N \in Nat, NEW S, NEW base \in S, NEW step \in [(1..N) \X S -> S]
  PROVE  \E f \in [0..N -> S] : Iterates(f, N, base, step)
<1> DEFINE T == {m \in 0..N : \E f \in [0..m -> S] : Iterates(f, m, base, step)}
<1>1. 0 \in T
  <2> DEFINE f == [n \in 0..0 |-> base]
  <2>1. f \in [0..0 -> S]
    OBVIOUS
  <2>2. Iterates(f, 0, base, step)
    BY DEF Iterates
  <2> HIDE DEF f
  <2>3. QED
    BY <2>1, <2>2
<1>2. ASSUME NEW m \in T, m < N PROVE m + 1 \in T
  <2>1. PICK f \in [0..m -> S] : Iterates(f, m, base, step)
    OBVIOUS
  <2>2. m \in 0..N /\ m + 1 \in 1..N
    BY <1>2
  <2> DEFINE next == step[<<m + 1, f[m]>>]
             g == [n \in 0..(m + 1) |-> IF n = m + 1 THEN next ELSE f[n]]
  <2>3. next \in S
    BY <2>1, <2>2
  <2>4. g \in [0..(m + 1) -> S]
    <3> HIDE DEF next
    <3>1. QED
      BY <2>1, <2>2, <2>3
  <2>5. Iterates(g, m + 1, base, step)
    <3>1. g[0] = base
      BY <2>1, <2>2 DEF Iterates
    <3>2. ASSUME NEW n \in 1..(m + 1) PROVE g[n] = step[<<n, g[n - 1]>>]
      <4>1. CASE n = m + 1
        <5>1. g[n] = step[<<m + 1, f[m]>>] /\ g[n - 1] = f[m]
          BY <2>2, <4>1
        <5>2. QED
          BY <4>1, <5>1
      <4>2. CASE n # m + 1
        <5>1. n \in 1..m
          BY <2>2, <4>2
        <5>2. g[n] = f[n] /\ g[n - 1] = f[n - 1]
          BY <2>2, <5>1
        <5>3. QED
          BY <2>1, <5>1, <5>2 DEF Iterates
      <4>3. QED
        BY <4>1, <4>2
    <3> HIDE DEF g
    <3>3. QED
      BY <3>1, <3>2 DEF Iterates
  <2> HIDE DEF g
  <2>6. QED
    BY <2>2, <2>4, <2>5
<1>3. T = 0..N
  <2>1. T \subseteq 0..N
    OBVIOUS
  <2> HIDE DEF T
  <2>2. QED
    BY <1>1, <1>2, <2>1, IntervalInduction
<1>4. N \in T
  <2> HIDE DEF T
  <2>1. QED
    BY <1>3
<1>5. QED
  BY <1>4

-----------------------------------------------------------------------------
(***************************************************************************)
(* What the operators on lists compute                                     *)
(***************************************************************************)

Elements(s) == {s[i] : i \in 1..Len(s)}

Distinct(s) == \A i, j \in 1..Len(s) : s[i] = s[j] => i = j

\* The address lists that a peer may have when its addresses come from A.
AddrLists(A) == {s \in Seq(A) : Len(s) <= MaxAddrsPerPeer /\ Distinct(s)}

\* One turn of record's loop keeps the bound and adds no address twice.
LEMMA AddAddrType ==
  ASSUME NEW A, NEW s \in AddrLists(A), NEW a \in A
  PROVE  AddAddr(s, a) \in AddrLists(A) /\ AddAddr(s, a) # <<>>
<1>1. s \in Seq(A) /\ Len(s) \in Nat /\ Len(s) <= MaxAddrsPerPeer /\ Distinct(s)
  BY DEF AddrLists
<1>2. CASE Contains(s, a)
  <2>1. AddAddr(s, a) = s /\ s # <<>>
    BY <1>1, <1>2 DEF AddAddr, Contains
  <2>2. QED
    BY <2>1
<1>3. CASE ~Contains(s, a) /\ Len(s) >= MaxAddrsPerPeer
  <2> DEFINE t == Tail(s)
             r == Append(t, a)
  <2>1. AddAddr(s, a) = r
    BY <1>3 DEF AddAddr
  <2>2. s # <<>>
    BY <1>1, <1>3, MaxAddrsAssumption
  <2>3. t \in Seq(A) /\ Len(t) = Len(s) - 1 /\ \A i \in 1..Len(t) : t[i] = s[i + 1]
    BY <1>1, <2>2, HeadTailProperties
  <2> HIDE DEF t
  <2>4. /\ r \in Seq(A) /\ r # <<>> /\ Len(r) = Len(s)
        /\ \A i \in 1..Len(t) : r[i] = s[i + 1]
        /\ r[Len(s)] = a
    BY <1>1, <2>3, AppendProperties
  <2>5. ASSUME NEW i \in 1..Len(r), NEW j \in 1..Len(r), r[i] = r[j]
        PROVE  i = j
    <3>1. CASE i = Len(s) \/ j = Len(s)
      BY <1>1, <1>3, <2>3, <2>4, <2>5, <3>1 DEF Contains
    <3>2. CASE i # Len(s) /\ j # Len(s)
      <4>1. i \in 1..Len(t) /\ j \in 1..Len(t)
        BY <1>1, <2>3, <2>4, <3>2
      <4>2. s[i + 1] = s[j + 1] /\ i + 1 \in 1..Len(s) /\ j + 1 \in 1..Len(s)
        BY <1>1, <2>3, <2>4, <2>5, <4>1
      <4>3. i + 1 = j + 1
        BY <1>1, <4>2 DEF Distinct
      <4>4. QED
        BY <4>1, <4>3
    <3>3. QED
      BY <3>1, <3>2
  <2> HIDE DEF r
  <2>6. QED
    BY <1>1, <2>1, <2>4, <2>5 DEF AddrLists, Distinct
<1>4. CASE ~Contains(s, a) /\ ~(Len(s) >= MaxAddrsPerPeer)
  <2> DEFINE r == Append(s, a)
  <2>1. AddAddr(s, a) = r
    BY <1>4 DEF AddAddr
  <2>2. /\ r \in Seq(A) /\ r # <<>> /\ Len(r) = Len(s) + 1
        /\ \A i \in 1..Len(s) : r[i] = s[i]
        /\ r[Len(s) + 1] = a
    BY <1>1, AppendProperties
  <2>3. Len(r) <= MaxAddrsPerPeer
    BY <1>1, <1>4, <2>2, MaxAddrsAssumption
  <2>4. ASSUME NEW i \in 1..Len(r), NEW j \in 1..Len(r), r[i] = r[j]
        PROVE  i = j
    <3>1. CASE i = Len(s) + 1 \/ j = Len(s) + 1
      BY <1>1, <1>4, <2>2, <2>4, <3>1 DEF Contains
    <3>2. CASE i \in 1..Len(s) /\ j \in 1..Len(s)
      BY <1>1, <2>2, <2>4, <3>2 DEF Distinct
    <3>3. QED
      BY <1>1, <2>2, <3>1, <3>2
  <2> HIDE DEF r
  <2>5. QED
    BY <2>1, <2>2, <2>3, <2>4 DEF AddrLists, Distinct
<1>5. QED
  BY <1>2, <1>3, <1>4

\* f lists the values that the list s takes in the turns of record's loop.
Turns(f, s, new) ==
  /\ f[0] = s
  /\ \A n \in 1..Len(new) : f[n] = AddAddr(f[n - 1], new[n])
  /\ AddAddrs(s, new) = f[Len(new)]

\* record's loop takes one turn after the other, between lists that are within
\* the bound and have no address twice.
LEMMA AddAddrsTurns ==
  ASSUME NEW A, NEW s \in AddrLists(A), NEW new \in Seq(A)
  PROVE  \E f : Turns(f, s, new) /\ \A n \in 0..Len(new) : f[n] \in AddrLists(A)
<1> DEFINE N == Len(new)
           L == AddrLists(A)
           step == [nx \in (1..N) \X L |-> AddAddr(nx[2], new[nx[1]])]
           Added(f) == f = [n \in 0..N |-> IF n = 0 THEN s
                                           ELSE AddAddr(f[n - 1], new[n])]
           added == CHOOSE f : Added(f)
<1>1. N \in Nat /\ \A n \in 1..N : new[n] \in A
  OBVIOUS
<1>2. step \in [(1..N) \X L -> L]
  <2>1. \A nx \in (1..N) \X L : nx[2] \in L /\ new[nx[1]] \in A
    BY <1>1
  <2> HIDE DEF L, N
  <2>2. \A nx \in (1..N) \X L : AddAddr(nx[2], new[nx[1]]) \in L
    BY <2>1, AddAddrType DEF L
  <2>3. QED
    BY <2>2
<1>3. PICK f \in [0..N -> L] : Iterates(f, N, s, step)
  <2> HIDE DEF step, N
  <2>1. s \in L
    OBVIOUS
  <2> HIDE DEF L, N
  <2>2. step \in [(1..N) \X L -> L]
    BY <1>2
  <2> HIDE DEF step
  <2>3. QED
    BY <1>1, <2>1, <2>2, IterationExists
<1>4. Added(f)
  <2>1. ASSUME NEW n \in 0..N
        PROVE  f[n] = IF n = 0 THEN s ELSE AddAddr(f[n - 1], new[n])
    <3>1. CASE n # 0
      <4>1. n \in 1..N /\ n - 1 \in 0..N
        BY <1>1, <3>1
      <4>2. <<n, f[n - 1]>> \in (1..N) \X L
        <5> HIDE DEF L, N
        <5>1. QED
          BY <1>3, <4>1
      <4>3. step[<<n, f[n - 1]>>] = AddAddr(f[n - 1], new[n])
        <5> HIDE DEF L, N
        <5>1. QED
          BY <4>2
      <4>4. QED
        BY <1>3, <3>1, <4>1, <4>3 DEF Iterates
    <3>2. QED
      BY <1>3, <3>1 DEF Iterates
  <2>2. DOMAIN f = 0..N
    BY <1>3
  <2> HIDE DEF L, N
  <2>3. f = [n \in 0..N |-> f[n]]
    BY <1>3
  <2>4. QED
    BY <2>1, <2>3
<1>5. Added(added)
  BY <1>4
<1>6. added[0] = s /\ \A n \in 1..N : added[n] = AddAddr(added[n - 1], new[n])
  <2>1. \A n \in 0..N : added[n] = IF n = 0 THEN s
                                   ELSE AddAddr(added[n - 1], new[n])
    <3> HIDE DEF added
    <3>1. QED
      BY <1>5
  <2> HIDE DEF added
  <2>2. QED
    BY <1>1, <2>1
<1>7. AddAddrs(s, new) = added[N]
  BY DEF AddAddrs
<1> HIDE DEF added
<1> DEFINE T == {n \in 0..N : added[n] \in L}
<1>8. T = 0..N
  <2>1. 0 \in T
    BY <1>1, <1>6
  <2>2. ASSUME NEW n \in T, n < N PROVE n + 1 \in T
    <3>1. n + 1 \in 1..N /\ n \in Nat /\ added[n] \in L
      BY <1>1, <2>2
    <3>2. added[n + 1] = AddAddr(added[n], new[n + 1]) /\ new[n + 1] \in A
      BY <1>1, <1>6, <3>1
    <3>3. added[n + 1] \in L
      BY <3>1, <3>2, AddAddrType
    <3>4. QED
      BY <3>1, <3>3
  <2> HIDE DEF L
  <2>3. T \subseteq 0..N
    OBVIOUS
  <2> HIDE DEF T
  <2>4. QED
    BY <1>1, <2>1, <2>2, <2>3, IntervalInduction
<1>9. \A n \in 0..N : added[n] \in L
  <2> HIDE DEF L, N
  <2>1. QED
    BY <1>8
<1>10. Turns(added, s, new)
  BY <1>6, <1>7 DEF Turns
<1>11. QED
  BY <1>9, <1>10

\* record's loop: whatever it is given, the list that it leaves is within the
\* bound, has no address twice, and is not empty if there was something to add.
LEMMA AddAddrsType ==
  ASSUME NEW A, NEW s \in AddrLists(A), NEW new \in Seq(A)
  PROVE  /\ AddAddrs(s, new) \in AddrLists(A)
         /\ new # <<>> => AddAddrs(s, new) # <<>>
<1> DEFINE N == Len(new)
<1>1. N \in Nat /\ \A n \in 1..N : new[n] \in A
  OBVIOUS
<1>2. PICK f : Turns(f, s, new) /\ \A n \in 0..N : f[n] \in AddrLists(A)
  BY AddAddrsTurns
<1>3. AddAddrs(s, new) \in AddrLists(A)
  BY <1>1, <1>2 DEF Turns
<1>4. ASSUME new # <<>> PROVE AddAddrs(s, new) # <<>>
  <2>1. N \in 1..N /\ N - 1 \in 0..N
    BY <1>1, <1>4
  <2>2. f[N] = AddAddr(f[N - 1], new[N]) /\ new[N] \in A /\ f[N - 1] \in AddrLists(A)
    BY <1>1, <1>2, <2>1 DEF Turns
  <2>3. QED
    BY <1>2, <2>2, AddAddrType DEF Turns
<1>5. QED
  BY <1>3, <1>4

\* A turn of record's loop takes at most the oldest of the addresses that stayed
\* so far.
LEMMA TurnEvictsOldest ==
  ASSUME NEW A, NEW before \in AddrLists(A), NEW s \in AddrLists(A), NEW R,
         NEW n \in 0..Len(before), OldestLeft(n, before, s, R),
         NEW a \in A, a \in R
  PROVE  \E m \in 0..Len(before) : OldestLeft(m, before, AddAddr(s, a), R)
<1> DEFINE B == Len(before)
           L == Len(s)
<1>1. /\ B \in Nat /\ L \in Nat /\ L <= MaxAddrsPerPeer /\ B <= MaxAddrsPerPeer
      /\ s \in Seq(A) /\ n \in Nat /\ n <= B
  BY DEF AddrLists
<1>2. /\ n > 0 => L = MaxAddrsPerPeer
      /\ L >= B - n
      /\ \A i \in 1..L : IF i <= B - n THEN s[i] = before[i + n] ELSE s[i] \in R
  BY DEF OldestLeft
<1>3. CASE Contains(s, a)
  <2>1. AddAddr(s, a) = s
    BY <1>3 DEF AddAddr
  <2>2. QED
    BY <2>1
<1>4. CASE ~Contains(s, a) /\ L >= MaxAddrsPerPeer
  <2> DEFINE t == Tail(s)
             r == Append(t, a)
             m == IF n < B THEN n + 1 ELSE n
  <2>1. AddAddr(s, a) = r /\ L = MaxAddrsPerPeer /\ L > 0
    BY <1>1, <1>4, MaxAddrsAssumption DEF AddAddr
  <2>2. t \in Seq(A) /\ Len(t) = L - 1 /\ \A i \in 1..(L - 1) : t[i] = s[i + 1]
    BY <1>1, <2>1, HeadTailProperties
  <2> HIDE DEF t
  <2>3. Len(r) = L /\ r[L] = a /\ \A i \in 1..(L - 1) : r[i] = s[i + 1]
    BY <1>1, <2>1, <2>2, AppendProperties
  <2> HIDE DEF r, B, L
  <2>4. /\ m \in Nat /\ m <= B /\ L >= B - m
        /\ (n < B /\ m = n + 1) \/ (n = B /\ m = B)
    BY <1>1, <1>2, <2>1
  <2> HIDE DEF m
  <2>5. ASSUME NEW i \in 1..L
        PROVE  IF i <= B - m THEN r[i] = before[i + m] ELSE r[i] \in R
    <3>1. CASE i = L
      <4>1. i > B - m \/ (n < B /\ i <= B - n - 1)
        BY <1>1, <2>4
      <4>2. ~(n < B /\ i <= B - n - 1)
        <5>1. SUFFICES ASSUME n < B, i <= B - n - 1 PROVE FALSE
          OBVIOUS
        <5>2. L <= B - 1
          BY <1>1, <3>1, <5>1
        <5>3. QED
          BY <1>1, <2>1, <5>2 DEF B, L
      <4>3. QED
        BY <1>1, <2>3, <2>4, <3>1, <4>1, <4>2
    <3>2. CASE i # L
      <4>1. i + 1 \in 1..L /\ r[i] = s[i + 1]
        BY <1>1, <2>3, <3>2
      <4>2. IF i + 1 <= B - n THEN s[i + 1] = before[i + 1 + n] ELSE s[i + 1] \in R
        BY <1>2, <4>1
      <4>3. CASE n < B /\ m = n + 1
        BY <1>1, <4>1, <4>2, <4>3
      <4>4. CASE n = B /\ m = B
        BY <1>1, <4>1, <4>2, <4>4
      <4>5. QED
        BY <2>4, <4>3, <4>4
    <3>3. QED
      BY <3>1, <3>2
  <2>6. OldestLeft(m, before, r, R)
    BY <2>1, <2>3, <2>4, <2>5 DEF OldestLeft, B
  <2>7. QED
    BY <1>1, <2>1, <2>4, <2>6 DEF B
<1>5. CASE ~Contains(s, a) /\ ~(L >= MaxAddrsPerPeer)
  <2> DEFINE r == Append(s, a)
  <2>1. AddAddr(s, a) = r /\ n = 0
    BY <1>1, <1>2, <1>5, MaxAddrsAssumption DEF AddAddr
  <2>2. Len(r) = L + 1 /\ r[L + 1] = a /\ \A i \in 1..L : r[i] = s[i]
    BY <1>1, AppendProperties
  <2> HIDE DEF r, B, L
  <2>3. ASSUME NEW i \in 1..(L + 1)
        PROVE  IF i <= B - n THEN r[i] = before[i + n] ELSE r[i] \in R
    <3>1. CASE i = L + 1
      BY <1>1, <1>2, <2>1, <2>2, <3>1
    <3>2. CASE i \in 1..L
      BY <1>2, <2>2, <3>2
    <3>3. QED
      BY <1>1, <3>1, <3>2
  <2>4. OldestLeft(n, before, r, R)
    BY <1>1, <1>2, <2>1, <2>2, <2>3 DEF OldestLeft, B
  <2>5. QED
    BY <2>1, <2>4
<1>6. QED
  BY <1>3, <1>4, <1>5

\* record's loop: the oldest addresses leave, the others keep their order, and
\* what is known changes nothing.
LEMMA AddAddrsEvictsOldest ==
  ASSUME NEW A, NEW s \in AddrLists(A), NEW new \in Seq(A)
  PROVE  OldestEvicted(s, AddAddrs(s, new), Elements(new))
<1> DEFINE N == Len(new)
           R == Elements(new)
<1>1. N \in Nat /\ \A n \in 1..N : new[n] \in A /\ new[n] \in R
  BY DEF Elements
<1>2. PICK f : Turns(f, s, new) /\ \A n \in 0..N : f[n] \in AddrLists(A)
  BY AddAddrsTurns
<1>3. /\ f[0] = s /\ AddAddrs(s, new) = f[N]
      /\ \A n \in 1..N : f[n] = AddAddr(f[n - 1], new[n])
  BY <1>2 DEF Turns
<1> DEFINE Left(after) == \E m \in 0..Len(s) : OldestLeft(m, s, after, R)
           T == {n \in 0..N : Left(f[n])}
<1> HIDE DEF N, R
<1>4. 0 \in T
  <2>1. Len(s) \in Nat /\ OldestLeft(0, s, s, R)
    BY DEF OldestLeft, AddrLists
  <2>2. QED
    BY <1>1, <1>3, <2>1
<1>5. ASSUME NEW n \in T, n < N PROVE n + 1 \in T
  <2>1. n \in 0..N /\ n + 1 \in 1..N /\ f[n] \in AddrLists(A) /\ Left(f[n])
    BY <1>1, <1>2, <1>5
  <2>2. f[n + 1] = AddAddr(f[n], new[n + 1]) /\ new[n + 1] \in A /\ new[n + 1] \in R
    BY <1>1, <1>3, <2>1
  <2>3. PICK m \in 0..Len(s) : OldestLeft(m, s, f[n], R)
    BY <2>1
  <2>4. Left(AddAddr(f[n], new[n + 1]))
    BY <2>1, <2>2, <2>3, TurnEvictsOldest
  <2>5. QED
    BY <1>1, <2>1, <2>2, <2>4
<1>6. T = 0..N
  <2>1. T \subseteq 0..N
    OBVIOUS
  <2> HIDE DEF T
  <2>2. QED
    BY <1>1, <1>4, <1>5, <2>1, IntervalInduction
<1>7. Left(f[N])
  <2>1. N \in T
    <3> HIDE DEF T
    <3>1. QED
      BY <1>1, <1>6
  <2>2. QED
    BY <2>1
<1>8. ASSUME \A a \in R : Contains(s, a) PROVE f[N] = s
  <2> DEFINE U == {n \in 0..N : f[n] = s}
  <2>1. 0 \in U /\ U \subseteq 0..N
    BY <1>1, <1>3
  <2>2. ASSUME NEW n \in U, n < N PROVE n + 1 \in U
    <3>1. n + 1 \in 1..N /\ n + 1 \in 0..N /\ n + 1 - 1 = n /\ f[n] = s
      BY <1>1, <2>2
    <3>2. f[n + 1] = AddAddr(s, new[n + 1]) /\ Contains(s, new[n + 1])
      BY <1>1, <1>3, <1>8, <3>1
    <3>3. QED
      BY <3>1, <3>2 DEF AddAddr
  <2> HIDE DEF U
  <2>3. U = 0..N
    BY <1>1, <2>1, <2>2, IntervalInduction
  <2>4. QED
    BY <1>1, <2>3 DEF U
<1>9. QED
  BY <1>3, <1>7, <1>8 DEF OldestEvicted, R

\* Appending a value adds it to the elements, and twice only if it is there.
LEMMA AppendElements ==
  ASSUME NEW A, NEW s \in Seq(A), NEW a \in A
  PROVE  /\ Append(s, a) \in Seq(A)
         /\ Elements(Append(s, a)) = Elements(s) \cup {a}
         /\ Distinct(s) /\ a \notin Elements(s) => Distinct(Append(s, a))
<1> DEFINE r == Append(s, a)
<1>1. /\ r \in Seq(A) /\ Len(r) = Len(s) + 1 /\ Len(s) \in Nat
      /\ \A i \in 1..Len(s) : r[i] = s[i]
      /\ r[Len(s) + 1] = a
  BY AppendProperties
<1> HIDE DEF r
<1>2. Elements(r) = Elements(s) \cup {a}
  <2>1. 1..Len(r) = (1..Len(s)) \cup {Len(s) + 1}
    BY <1>1
  <2>2. QED
    BY <1>1, <2>1 DEF Elements
<1>3. ASSUME Distinct(s), a \notin Elements(s),
             NEW i \in 1..Len(r), NEW j \in 1..Len(r), r[i] = r[j]
      PROVE  i = j
  <2>1. CASE i \in 1..Len(s) /\ j \in 1..Len(s)
    BY <1>1, <1>3, <2>1 DEF Distinct
  <2>2. CASE i = Len(s) + 1 \/ j = Len(s) + 1
    BY <1>1, <1>3, <2>2 DEF Elements
  <2>3. QED
    BY <1>1, <2>1, <2>2
<1>4. QED
  BY <1>1, <1>2, <1>3 DEF r, Distinct

\* A filter keeps exactly the elements asked for, and repeats none by itself.
LEMMA KeepElements ==
  ASSUME NEW A, NEW list \in Seq(A), NEW S
  PROVE  /\ Keep(list, S) \in Seq(A)
         /\ Elements(Keep(list, S)) = Elements(list) \cap S
         /\ Distinct(list) => Distinct(Keep(list, S))
<1> DEFINE N == Len(list)
           L == Seq(A)
           Turn(k, n) == IF list[n] \in S THEN Append(k, list[n]) ELSE k
           step == [nx \in (1..N) \X L |-> Turn(nx[2], nx[1])]
           Kept(f) == f = [n \in 0..N |-> IF n = 0 THEN <<>>
                                          ELSE IF list[n] \in S
                                          THEN Append(f[n - 1], list[n])
                                          ELSE f[n - 1]]
           kept == CHOOSE f : Kept(f)
           Seen(n) == {list[i] : i \in 1..n}
<1>1. N \in Nat /\ \A n \in 1..N : list[n] \in A
  OBVIOUS
<1>2. \A n \in 1..N : \A k \in L : Turn(k, n) \in L
  BY <1>1, AppendElements
<1>3. step \in [(1..N) \X L -> L]
  <2> HIDE DEF L, N, Turn
  <2>1. QED
    BY <1>2
<1>4. PICK f \in [0..N -> L] : Iterates(f, N, <<>>, step)
  <2>1. <<>> \in L
    OBVIOUS
  <2> HIDE DEF L, N
  <2>2. step \in [(1..N) \X L -> L]
    BY <1>3
  <2> HIDE DEF step
  <2>3. QED
    BY <1>1, <2>1, <2>2, IterationExists
<1>5. Kept(f)
  <2>1. ASSUME NEW n \in 0..N
        PROVE  f[n] = IF n = 0 THEN <<>> ELSE Turn(f[n - 1], n)
    <3>1. CASE n # 0
      <4>1. n \in 1..N /\ n - 1 \in 0..N
        BY <1>1, <3>1
      <4>2. <<n, f[n - 1]>> \in (1..N) \X L
        <5> HIDE DEF L, N, step, Turn
        <5>1. f \in [0..N -> L]
          BY <1>4
        <5>2. f[n - 1] \in L
          BY <4>1, <5>1
        <5>3. QED
          BY <4>1, <5>2
      <4>3. step[<<n, f[n - 1]>>] = Turn(f[n - 1], n)
        <5> HIDE DEF L, N, Turn
        <5>1. QED
          BY <4>2
      <4> HIDE DEF step, Turn
      <4>4. QED
        BY <1>4, <3>1, <4>1, <4>3 DEF Iterates
    <3>2. CASE n = 0
      BY <1>4, <3>2 DEF Iterates
    <3>3. QED
      BY <3>1, <3>2
  <2> HIDE DEF L, N
  <2>2. f = [n \in 0..N |-> f[n]]
    BY <1>4
  <2>3. QED
    BY <2>1, <2>2
<1>6. Kept(kept)
  BY <1>5
<1>7. kept[0] = <<>> /\ \A n \in 1..N : kept[n] = Turn(kept[n - 1], n)
  <2>1. \A n \in 0..N : kept[n] = IF n = 0 THEN <<>> ELSE Turn(kept[n - 1], n)
    <3> HIDE DEF kept
    <3>1. QED
      BY <1>6
  <2> HIDE DEF kept, Turn
  <2>2. QED
    BY <1>1, <2>1
<1>8. Keep(list, S) = kept[N]
  BY DEF Keep
<1> HIDE DEF kept
<1> DEFINE Right(n) == /\ kept[n] \in L
                       /\ Elements(kept[n]) = Seen(n) \cap S
                       /\ Distinct(list) => Distinct(kept[n])
           T == {n \in 0..N : Right(n)}
<1>9. T = 0..N
  <2>1. 0 \in T
    <3>1. Elements(<<>>) = {} /\ Distinct(<<>>) /\ <<>> \in L
      BY DEF Elements, Distinct
    <3>2. Seen(0) = {}
      OBVIOUS
    <3>3. Right(0)
      BY <1>7, <3>1, <3>2
    <3>4. QED
      BY <1>1, <3>3
  <2>2. ASSUME NEW n \in T, n < N PROVE n + 1 \in T
    <3>1. n + 1 \in 1..N /\ n \in 0..N /\ n \in Nat /\ Right(n)
      BY <1>1, <2>2
    <3>2. kept[n + 1] = Turn(kept[n], n + 1) /\ list[n + 1] \in A
      BY <1>1, <1>7, <3>1
    <3>3. Seen(n + 1) = Seen(n) \cup {list[n + 1]}
      <4>1. 1..(n + 1) = (1..n) \cup {n + 1}
        BY <3>1
      <4>2. QED
        BY <4>1
    <3>4. CASE list[n + 1] \notin S
      <4>1. kept[n + 1] = kept[n]
        BY <3>2, <3>4
      <4>2. Right(n + 1)
        BY <3>1, <3>3, <3>4, <4>1
      <4>3. QED
        BY <3>1, <4>2
    <3>5. CASE list[n + 1] \in S
      <4>1. kept[n + 1] = Append(kept[n], list[n + 1])
        BY <3>2, <3>5
      <4>2. /\ kept[n + 1] \in L
            /\ Elements(kept[n + 1]) = Elements(kept[n]) \cup {list[n + 1]}
            /\ Distinct(kept[n]) /\ list[n + 1] \notin Elements(kept[n])
                 => Distinct(kept[n + 1])
        <5> DEFINE k == kept[n]
                   x == list[n + 1]
        <5>1. k \in Seq(A) /\ x \in A
          BY <3>1, <3>2
        <5> HIDE DEF k, x
        <5>2. /\ Append(k, x) \in Seq(A)
              /\ Elements(Append(k, x)) = Elements(k) \cup {x}
              /\ Distinct(k) /\ x \notin Elements(k) => Distinct(Append(k, x))
          BY <5>1, AppendElements
        <5>3. QED
          BY <4>1, <5>2 DEF k, x
      <4>3. Distinct(list) => list[n + 1] \notin Seen(n)
        BY <1>1, <3>1 DEF Distinct
      <4> HIDE DEF L
      <4>4. Right(n + 1)
        BY <3>1, <3>3, <3>5, <4>2, <4>3
      <4>5. QED
        BY <3>1, <4>4
    <3>6. QED
      BY <3>4, <3>5
  <2>3. T \subseteq 0..N
    OBVIOUS
  <2> HIDE DEF T
  <2>4. QED
    BY <1>1, <2>1, <2>2, <2>3, IntervalInduction
<1>10. N \in T
  <2> HIDE DEF T, N
  <2>1. QED
    BY <1>1, <1>9
<1>11. Right(N) /\ Seen(N) = Elements(list)
  BY <1>10 DEF Elements
<1>12. QED
  BY <1>8, <1>11

-----------------------------------------------------------------------------
(***************************************************************************)
(* The peerstore                                                           *)
(***************************************************************************)

\* The addresses that may be dialed for p, and those that may be persisted.
Dialable(p)    == UNION {CalleeAddrs[k] : k \in {j \in Call : Callee[j] = p}}
Persistable(p) ==
  Dialable(p) \cup {a \in TcpAddr : \E list \in Advertised : Contains(list, a)}

RecordOf(p) == [addrs : AddrLists(Persistable(p)) \ {<<>>}, last_seen : Time]

\* Whatever is recorded for a peer may be, and the swarm dials a peer at
\* addresses that some caller gave for it.
StoreInv ==
  /\ DOMAIN peerstore \subseteq Peer
  /\ peerstore = [p \in DOMAIN peerstore |-> peerstore[p]]
  /\ \A p \in DOMAIN peerstore : peerstore[p] \in RecordOf(p)
  /\ \A p \in Peer : dialing[p] \subseteq Dialable(p)

\* The addresses that identify reports for a peer may be persisted once those
\* without a TCP component are gone.
LEMMA AdvertisedPersistable ==
  ASSUME NEW list \in Advertised, NEW p
  PROVE  Keep(list, TcpAddr) \in Seq(Persistable(p))
<1> DEFINE s == Keep(list, TcpAddr)
<1>1. list \in Seq(Addr)
  BY EventLoopAssumption
<1>2. s \in Seq(Addr) /\ Elements(s) = Elements(list) \cap TcpAddr
  BY <1>1, KeepElements
<1>3. Elements(list) \cap TcpAddr \subseteq Persistable(p)
  BY DEF Elements, Persistable, Contains
<1> HIDE DEF s
<1>4. Len(s) \in Nat /\ s = [i \in 1..Len(s) |-> s[i]]
  BY <1>2
<1>5. \A i \in 1..Len(s) : s[i] \in Persistable(p)
  BY <1>2, <1>3 DEF Elements
<1>6. s \in Seq(Persistable(p))
  BY <1>4, <1>5, IsASeq
<1>7. QED
  BY <1>6 DEF s

\* The list that record() starts from.
LEMMA KnownAddrsType ==
  ASSUME StoreInv, NEW p \in Peer
  PROVE  KnownAddrs(peerstore, p) \in AddrLists(Persistable(p))
<1>1. CASE p \in DOMAIN peerstore
  BY <1>1 DEF KnownAddrs, StoreInv, RecordOf
<1>2. CASE p \notin DOMAIN peerstore
  <2>1. <<>> \in AddrLists(Persistable(p))
    BY MaxAddrsAssumption DEF AddrLists, Distinct
  <2>2. QED
    BY <1>2, <2>1 DEF KnownAddrs
<1>3. QED
  BY <1>1, <1>2

\* record() of addresses that may be persisted keeps the invariant.
LEMMA RecordLemma ==
  ASSUME StoreInv, NEW p \in Peer, NEW new \in Seq(Persistable(p)), new # <<>>,
         NEW now \in Time, peerstore' = Record(peerstore, p, new, now),
         \A q \in Peer : dialing'[q] \subseteq Dialable(q)
  PROVE  StoreInv'
<1> DEFINE known == KnownAddrs(peerstore, p)
           D == DOMAIN peerstore \cup {p}
<1>1. known \in AddrLists(Persistable(p))
  BY KnownAddrsType
<1>2. AddAddrs(known, new) \in AddrLists(Persistable(p)) \ {<<>>}
  <2> HIDE DEF known
  <2>1. QED
    BY <1>1, AddAddrsType
<1>3. [addrs |-> AddAddrs(known, new), last_seen |-> now] \in RecordOf(p)
  BY <1>2 DEF RecordOf
<1>4. peerstore' = [q \in D |-> IF q = p
                               THEN [addrs |-> AddAddrs(known, new), last_seen |-> now]
                               ELSE peerstore[q]]
  BY DEF Record
<1>5. DOMAIN peerstore' = D /\ D \subseteq Peer
  BY <1>4 DEF StoreInv
<1> HIDE DEF known
<1>6. \A q \in D : peerstore'[q] \in RecordOf(q)
  BY <1>3, <1>4 DEF StoreInv
<1>7. peerstore' = [q \in D |-> peerstore'[q]]
  BY <1>4
<1> HIDE DEF D
<1>8. QED
  BY <1>5, <1>6, <1>7 DEF StoreInv, RecordOf, Dialable, Persistable

\* The peerstore's invariant is about two variables only.
LEMMA StoreInvUnchanged ==
  ASSUME StoreInv, UNCHANGED <<dialing, peerstore>>
  PROVE  StoreInv'
BY DEF StoreInv, RecordOf, Dialable, Persistable

\* A dial that begins is for a peer that its caller names, at its addresses.
LEMMA StoreInvDials ==
  ASSUME StoreInv, UNCHANGED peerstore,
         \A q \in Peer : dialing'[q] \subseteq Dialable(q)
  PROVE  StoreInv'
BY DEF StoreInv, RecordOf, Dialable, Persistable

\* Every step of the event loop keeps the peerstore's invariant.
LEMMA StoreInvStep ==
  ASSUME StoreInv, DialTypeOK, [Next]_vars
  PROVE  StoreInv'
<1>1. ASSUME NEW k \in Call,
             SendDial(k) \/ AbandonDial(k) \/ TakeReply(k)
      PROVE  StoreInv'
  BY <1>1, StoreInvUnchanged DEF SendDial, AbandonDial, TakeReply, swarmVars
<1>2. ASSUME NEW k \in Call, HandleDial(k) PROVE StoreInv'
  <2>1. UNCHANGED peerstore
    BY <1>2 DEF HandleDial
  <2>2. CASE UNCHANGED dialing
    BY <2>1, <2>2, StoreInvUnchanged
  <2>3. CASE dialing' = [dialing EXCEPT ![Callee[k]] = CalleeAddrs[k]]
    <3>1. \A q \in Peer : dialing'[q] \subseteq Dialable(q)
      BY <2>3, EventLoopAssumption DEF StoreInv, DialTypeOK, Dialable
    <3>2. QED
      BY <2>1, <3>1, StoreInvDials
  <2>4. QED
    BY <1>2, <2>2, <2>3
       DEF HandleDial, JoinDial, ReportConnected, RefuseDial, StartDial, swarmVars
<1>3. ASSUME NEW i \in ConnId, NEW p \in Peer, NEW a \in InboundAddr,
             InboundEstablished(i, p, a)
      PROVE  StoreInv'
  BY <1>3, StoreInvUnchanged DEF InboundEstablished
<1>4. ASSUME NEW i \in ConnId, NEW p \in Peer, NEW a \in dialing[p],
             OutboundEstablished(i, p, a)
      PROVE  StoreInv'
  <2>1. a \in Persistable(p)
    BY DEF StoreInv, Persistable
  <2>2. <<a>> \in Seq(Persistable(p)) /\ <<a>> # <<>>
    BY <2>1
  <2>3. PICK now \in Time : peerstore' = Record(peerstore, p, <<a>>, now)
    BY <1>4 DEF OutboundEstablished
  <2>4. \A q \in Peer : dialing'[q] \subseteq Dialable(q)
    BY <1>4 DEF OutboundEstablished, StoreInv, DialTypeOK
  <2>5. QED
    BY <2>2, <2>3, <2>4, RecordLemma
<1>5. ASSUME NEW c \in conns, ConnectionClosed(c) PROVE StoreInv'
  BY <1>5, StoreInvUnchanged DEF ConnectionClosed
<1>6. ASSUME NEW p \in Peer, DialFails(p) PROVE StoreInv'
  <2>1. UNCHANGED peerstore /\ dialing' = [dialing EXCEPT ![p] = {}]
    BY <1>6 DEF DialFails, OutgoingConnectionError
  <2>2. \A q \in Peer : dialing'[q] \subseteq Dialable(q)
    BY <2>1 DEF StoreInv, DialTypeOK
  <2>3. QED
    BY <2>1, <2>2, StoreInvDials
<1>7. ASSUME NEW p \in Peer, NEW list \in Advertised, IdentifyReceived(p, list)
      PROVE  StoreInv'
  <2> DEFINE new == Keep(list, TcpAddr)
  <2>1. new # <<>> /\ UNCHANGED dialing
    BY <1>7 DEF IdentifyReceived, swarmVars
  <2>2. PICK now \in Time : peerstore' = Record(peerstore, p, new, now)
    BY <1>7 DEF IdentifyReceived
  <2>3. new \in Seq(Persistable(p))
    BY AdvertisedPersistable
  <2> HIDE DEF new
  <2>4. \A q \in Peer : dialing'[q] \subseteq Dialable(q)
    BY <2>1 DEF StoreInv
  <2>5. QED
    BY <2>1, <2>2, <2>3, <2>4, RecordLemma
<1>8. ASSUME NEW list \in PreferredList, SetPreferredPeers(list) PROVE StoreInv'
  BY <1>8, StoreInvUnchanged DEF SetPreferredPeers, swarmVars
<1>9. ASSUME NEW p \in Peer, ScoreExpires(p) PROVE StoreInv'
  BY <1>9, StoreInvUnchanged DEF ScoreExpires, swarmVars
<1>10. ASSUME Stop PROVE StoreInv'
  BY <1>10, StoreInvDials DEF Stop, NoDials
<1>11. ASSUME UNCHANGED vars PROVE StoreInv'
  BY <1>11, StoreInvUnchanged DEF vars, swarmVars
<1>12. QED
  BY <1>1, <1>2, <1>3, <1>4, <1>5, <1>6, <1>7, <1>8, <1>9, <1>10, <1>11
     DEF Next, Established

\* The peerstore's invariant holds when the loop starts.
LEMMA StoreInvInit == Init => StoreInv
BY DEF Init, StoreInv, EmptyStore, NoDials

\* The peerstore's invariant holds in every reachable state.
THEOREM StoreInvariant == Spec => []StoreInv
<1>1. DialInv => DialTypeOK
  BY DEF DialInv
<1>2. StoreInv /\ DialTypeOK /\ [Next]_vars => StoreInv'
  BY StoreInvStep
<1>3. QED
  BY <1>1, <1>2, StoreInvInit, DialInvariant, PTL DEF Spec

\* A list of the peerstore never outgrows MAX_ADDRS_PER_PEER and has no address
\* twice, whichever dials and identify reports fed it, and how often.
THEOREM PeerStoreIsBounded == Spec => []PeerStoreBounded
<1>1. ASSUME StoreInv PROVE PeerStoreBounded
  <2>1. ASSUME NEW p \in DOMAIN peerstore
        PROVE  LET addrs == peerstore[p].addrs
               IN  /\ peerstore[p].last_seen \in Time
                   /\ Len(addrs) \in 1..MaxAddrsPerPeer
                   /\ \A i, j \in 1..Len(addrs) : addrs[i] = addrs[j] => i = j
    <3> DEFINE addrs == peerstore[p].addrs
    <3>1. peerstore[p].last_seen \in Time /\ addrs \in AddrLists(Persistable(p))
          /\ addrs # <<>>
      BY <1>1 DEF StoreInv, RecordOf
    <3> HIDE DEF addrs
    <3>2. /\ addrs \in Seq(Persistable(p)) /\ Len(addrs) <= MaxAddrsPerPeer
          /\ \A i, j \in 1..Len(addrs) : addrs[i] = addrs[j] => i = j
      BY <3>1 DEF AddrLists, Distinct
    <3>3. Len(addrs) \in 1..MaxAddrsPerPeer
      BY <3>1, <3>2, MaxAddrsAssumption
    <3>4. QED
      BY <3>1, <3>2, <3>3 DEF addrs
  <2>2. QED
    BY <1>1, <2>1 DEF PeerStoreBounded, StoreInv
<1>2. QED
  BY <1>1, StoreInvariant, PTL

\* What record() makes of the list of one peer.
LEMMA RecordEvictsOldest ==
  ASSUME StoreInv, NEW p \in Peer, NEW new \in Seq(Persistable(p)),
         NEW now, peerstore' = Record(peerstore, p, new, now)
  PROVE  OldestEvicted(KnownAddrs(peerstore, p), KnownAddrs(peerstore', p),
                       Elements(new))
<1> DEFINE known == KnownAddrs(peerstore, p)
<1>1. known \in AddrLists(Persistable(p))
  BY KnownAddrsType
<1>2. KnownAddrs(peerstore', p) = AddAddrs(known, new)
  BY DEF Record, KnownAddrs
<1> HIDE DEF known
<1>3. OldestEvicted(known, AddAddrs(known, new), Elements(new))
  BY <1>1, AddAddrsEvictsOldest
<1>4. QED
  BY <1>2, <1>3 DEF known

\* A list at its limit forgets its oldest addresses and never a newer one, and an
\* address that comes again evicts nothing, for reports of any length.
THEOREM EvictsInOrder == Spec => EvictionInOrder
<1>1. ASSUME StoreInv, [Next]_vars,
             NEW i \in ConnId, NEW p \in Peer, NEW a \in dialing[p],
             OutboundEstablished(i, p, a)
      PROVE  OldestEvicted(KnownAddrs(peerstore, p), KnownAddrs(peerstore', p), {a})
  <2>1. a \in Persistable(p)
    BY <1>1 DEF StoreInv, Persistable
  <2>2. <<a>> \in Seq(Persistable(p)) /\ Elements(<<a>>) = {a}
    BY <2>1 DEF Elements
  <2>3. PICK now \in Time : peerstore' = Record(peerstore, p, <<a>>, now)
    BY <1>1 DEF OutboundEstablished
  <2>4. QED
    BY <1>1, <2>2, <2>3, RecordEvictsOldest
<1>2. ASSUME StoreInv, [Next]_vars, NEW p \in Peer, NEW list \in Advertised,
             IdentifyReceived(p, list)
      PROVE  OldestEvicted(KnownAddrs(peerstore, p), KnownAddrs(peerstore', p),
                           {a \in TcpAddr : Contains(list, a)})
  <2> DEFINE new == Keep(list, TcpAddr)
  <2>1. PICK now \in Time : peerstore' = Record(peerstore, p, new, now)
    BY <1>2 DEF IdentifyReceived
  <2>2. new \in Seq(Persistable(p))
    BY AdvertisedPersistable
  <2>3. Elements(new) = {a \in TcpAddr : Contains(list, a)}
    <3>1. list \in Seq(Addr)
      BY EventLoopAssumption
    <3>2. Elements(new) = Elements(list) \cap TcpAddr
      BY <3>1, KeepElements
    <3> HIDE DEF new
    <3>3. QED
      BY <3>2 DEF Elements, Contains
  <2> HIDE DEF new
  <2>4. QED
    BY <1>2, <2>1, <2>2, <2>3, RecordEvictsOldest
<1> DEFINE A ==
  /\ \A i \in ConnId, p \in Peer : \A a \in dialing[p] :
       OutboundEstablished(i, p, a) =>
         OldestEvicted(KnownAddrs(peerstore, p), KnownAddrs(peerstore', p), {a})
  /\ \A p \in Peer, list \in Advertised :
       IdentifyReceived(p, list) =>
         OldestEvicted(KnownAddrs(peerstore, p), KnownAddrs(peerstore', p),
                       {a \in TcpAddr : Contains(list, a)})
<1>3. StoreInv /\ [Next]_vars => [A]_vars
  BY <1>1, <1>2
<1> HIDE DEF A
<1>4. Spec => [][A]_vars
  BY <1>3, StoreInvariant, PTL DEF Spec
<1>5. QED
  BY <1>4 DEF A, EvictionInOrder

\* The peerstore holds only what was dialed or advertised with a TCP component:
\* a source port of an inbound connection never displaces a dialable address.
THEOREM OnlyDialableStored == Spec => []NoEphemeralAddrStored
<1>1. ASSUME StoreInv PROVE NoEphemeralAddrStored
  <2>1. ASSUME NEW p \in DOMAIN peerstore, NEW i \in 1..Len(peerstore[p].addrs)
        PROVE  peerstore[p].addrs[i] \in Persistable(p)
    <3> DEFINE addrs == peerstore[p].addrs
    <3>1. addrs \in Seq(Persistable(p))
      BY <1>1 DEF StoreInv, RecordOf, AddrLists
    <3> HIDE DEF addrs
    <3>2. i \in 1..Len(addrs)
      BY DEF addrs
    <3>3. addrs[i] \in Persistable(p)
      BY <3>1, <3>2
    <3>4. QED
      BY <3>3 DEF addrs
  <2>2. QED
    BY <2>1 DEF NoEphemeralAddrStored, Persistable, Dialable
<1>2. QED
  BY <1>1, StoreInvariant, PTL
=============================================================================
