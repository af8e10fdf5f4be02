--------------------------- MODULE RefinementProofs ---------------------------
(***************************************************************************)
(* Two refinements, for every value of the constants.  The event loop      *)
(* implements the dial service: each step of the loop is one of the dial   *)
(* service or changes nothing that its callers can tell.  The event loop   *)
(* in turn is a network as the maintenance loop expects it, so that what   *)
(* the loop guarantees by itself it guarantees in the node.                *)
(***************************************************************************)
EXTENDS EventLoopRefinement, EventLoopProofs, Node

\* A caller that dropped its receiver is still in the loop's hands, and once
\* the loop is gone nobody is.
CallerInv ==
  /\ \A k \in gone : call[k] \in {"sent", "waiting"}
  /\ ~running => \A k \in Call : call[k] \notin {"sent", "waiting"}

RefInv == SwarmTypeOK /\ DialInv /\ CallerInv /\ running \in BOOLEAN

\* Answering the senders of K tells those of K that still listen.
LEMMA AnswerTells ==
  ASSUME DialTypeOK, NEW K \in SUBSET Call, NEW reply \in Reply,
         Answer(K, reply), \A k \in K : call[k] \in {"sent", "waiting"},
         NEW L \in SUBSET Call, L = K \ gone
  PROVE  DS!Tell(L, Status(reply))
<1>1. \A k \in Call : call'[k] = IF k \notin K THEN call[k]
                                 ELSE IF k \in gone THEN "idle" ELSE reply
  BY DEF Answer
<1>2. gone' = gone \ K
  BY DEF Answer
<1>3. reply \notin {"sent", "waiting", "idle"} /\ "idle" \notin Reply
  BY DEF Reply, DialErrorKind
<1>4. L \subseteq askedBar
  BY DEF askedBar
<1>5. askedBar' = askedBar \ L
  BY <1>1, <1>2, <1>3 DEF askedBar
<1>6. answerBar' = [k \in Call |-> IF k \in L THEN Status(reply) ELSE answerBar[k]]
  <2>1. ASSUME NEW k \in Call
        PROVE  (IF call'[k] \in Reply THEN Status(call'[k]) ELSE "none")
                 = IF k \in L THEN Status(reply) ELSE answerBar[k]
    <3>1. CASE k \notin K
      BY <1>1, <3>1 DEF answerBar
    <3>2. CASE k \in K /\ k \in gone
      <4>1. call[k] \notin Reply
        BY <3>2 DEF Reply, DialErrorKind
      <4>2. QED
        BY <1>1, <1>3, <3>2, <4>1 DEF answerBar
    <3>3. CASE k \in K /\ k \notin gone
      BY <1>1, <3>3
    <3>4. QED
      BY <3>1, <3>2, <3>3
  <2>2. answerBar' = [k \in Call |-> IF call'[k] \in Reply THEN Status(call'[k])
                                                           ELSE "none"]
    BY DEF answerBar, Status
  <2>3. QED
    BY <2>1, <2>2
<1>7. QED
  BY <1>4, <1>5, <1>6 DEF DS!Tell

-----------------------------------------------------------------------------
(***************************************************************************)
(* The invariant                                                           *)
(***************************************************************************)

\* A step that does not answer anybody keeps the callers' part.
LEMMA CallersKept ==
  ASSUME CallerInv, UNCHANGED <<call, gone, running>>
  PROVE  CallerInv'
  BY DEF CallerInv

LEMMA AnswerKeepsCallers ==
  ASSUME DialTypeOK, CallerInv, NEW K \in SUBSET Call, NEW reply \in Reply,
         Answer(K, reply), running, UNCHANGED running
  PROVE  CallerInv'
<1>1. \A k \in gone' : k \in gone /\ call'[k] = call[k]
  BY DEF Answer, DialTypeOK
<1>2. QED
  BY <1>1 DEF CallerInv

LEMMA CallerInvStep ==
  ASSUME DialInv, CallerInv, [Next]_vars
  PROVE  CallerInv'
<1> USE DEF DialInv
<1>1. ASSUME NEW k \in Call,
             SendDial(k) \/ AbandonDial(k) \/ TakeReply(k)
      PROVE  CallerInv'
  BY <1>1 DEF SendDial, AbandonDial, TakeReply, CallerInv, DialTypeOK, Reply,
              DialErrorKind
<1>2. ASSUME NEW k \in Call, HandleDial(k) PROVE CallerInv'
  <2>1. CASE JoinDial(k) \/ StartDial(k)
    BY <1>2, <2>1
       DEF HandleDial, JoinDial, StartDial, CallerInv, DialTypeOK, swarmVars
  <2>2. ASSUME NEW reply \in Reply, Answer({k}, reply)
        PROVE  CallerInv'
    BY <1>2, <2>2, AnswerKeepsCallers DEF HandleDial
  <2>3. "ok" \in Reply /\ "unreachable" \in Reply
    BY DEF Reply, DialErrorKind
  <2>4. QED
    BY <1>2, <2>1, <2>2, <2>3 DEF HandleDial, ReportConnected, RefuseDial
<1>3. ASSUME NEW p \in Peer, NEW reply \in Reply, DrainPending(p, reply),
             running, UNCHANGED running
      PROVE  CallerInv'
  <2>1. pending_dials[p] \in SUBSET Call
    BY DEF DialTypeOK
  <2>2. QED
    BY <1>3, <2>1, AnswerKeepsCallers DEF DrainPending
<1>4. ASSUME NEW i \in ConnId, NEW p \in Peer, NEW a \in InboundAddr,
             InboundEstablished(i, p, a)
      PROVE  CallerInv'
  BY <1>4, CallersKept DEF InboundEstablished, Connect, dialVars
<1>5. ASSUME NEW i \in ConnId, NEW p \in Peer, NEW a \in dialing[p],
             OutboundEstablished(i, p, a)
      PROVE  CallerInv'
  <2>1. "ok" \in Reply
    BY DEF Reply
  <2>2. QED
    BY <1>3, <1>5, <2>1 DEF OutboundEstablished, Connect
<1>6. ASSUME NEW p \in Peer, DialFails(p) PROVE CallerInv'
  BY <1>3, <1>6 DEF DialFails, OutgoingConnectionError, Reply
<1>7. ASSUME NEW c \in conns, ConnectionClosed(c) PROVE CallerInv'
  BY <1>7, CallersKept DEF ConnectionClosed, dialVars
<1>8. ASSUME NEW p \in Peer, NEW list \in Advertised, IdentifyReceived(p, list)
      PROVE  CallerInv'
  BY <1>8, CallersKept DEF IdentifyReceived, dialVars
<1>9. ASSUME NEW list \in PreferredList, SetPreferredPeers(list) PROVE CallerInv'
  BY <1>9, CallersKept DEF SetPreferredPeers, dialVars
<1>10. ASSUME NEW p \in Peer, ScoreExpires(p) PROVE CallerInv'
  BY <1>10, CallersKept DEF ScoreExpires, dialVars
<1>11. ASSUME Stop PROVE CallerInv'
  <2>1. gone' = {}
    BY <1>11 DEF Stop, Answer, CallerInv, DialTypeOK
  <2>2. \A k \in Call : call'[k] \notin {"sent", "waiting"}
    BY <1>11 DEF Stop, Answer
  <2>3. QED
    BY <2>1, <2>2 DEF CallerInv
<1>12. ASSUME UNCHANGED vars PROVE CallerInv'
  BY <1>12, CallersKept DEF vars, dialVars
<1>13. QED
  BY <1>1, <1>2, <1>4, <1>5, <1>6, <1>7, <1>8, <1>9, <1>10, <1>11, <1>12
     DEF Next, Established

LEMMA RefInvariant == Spec => []RefInv
<1>1. Init => CallerInv
  BY DEF Init, CallerInv
<1>2. DialInv /\ CallerInv /\ [Next]_vars => CallerInv'
  BY CallerInvStep
<1>3. Spec => []CallerInv
  BY <1>1, <1>2, DialInvariant, PTL DEF Spec
<1>4. ConnInv /\ DialInv /\ CallerInv /\ RunningOK => RefInv
  BY DEF ConnInv, RefInv, RunningOK
<1>5. QED
  BY <1>3, <1>4, ConnInvariant, DialInvariant, RunningInvariant, PTL

-----------------------------------------------------------------------------
(***************************************************************************)
(* The steps                                                               *)
(***************************************************************************)

upBar == {c.peer : c \in conns}

barVars == <<upBar, askedBar, answerBar, running>>

\* The dial service sees the callers, the loop's flag and the connected peers.
LEMMA CallersUnseen ==
  ASSUME UNCHANGED <<call, gone>>
  PROVE  UNCHANGED <<askedBar, answerBar>>
  BY DEF askedBar, answerBar, Status

LEMMA RefinedSendDial ==
  ASSUME RefInv, NEW k \in Call, SendDial(k)
  PROVE  DS!Ask(k)
<1>1. /\ call[k] = "idle" /\ k \notin gone
      /\ call' = [call EXCEPT ![k] = IF running THEN "sent" ELSE "internal"]
      /\ UNCHANGED <<gone, conns, running>>
  BY DEF SendDial, RefInv, CallerInv, swarmVars
<1>2. k \notin askedBar /\ answerBar[k] = "none"
  BY <1>1 DEF askedBar, answerBar, Reply, DialErrorKind
<1>3. \A j \in Call : call'[j] = IF j # k THEN call[j]
                                 ELSE IF running THEN "sent" ELSE "internal"
  BY <1>1 DEF RefInv, DialInv, DialTypeOK
<1>4. answerBar' = [j \in Call |-> IF call'[j] \in Reply THEN Status(call'[j])
                                                         ELSE "none"]
  BY DEF answerBar, Status
<1>5. CASE running
  <2>1. askedBar' = askedBar \cup {k}
    BY <1>1, <1>3, <1>5 DEF askedBar
  <2>2. "sent" \notin Reply /\ "idle" \notin Reply
    BY DEF Reply, DialErrorKind
  <2>3. answerBar' = answerBar
    BY <1>1, <1>3, <1>4, <1>5, <2>2 DEF answerBar
  <2>4. QED
    BY <1>1, <1>2, <1>5, <2>1, <2>3 DEF DS!Ask
<1>6. CASE ~running
  <2>1. askedBar' = askedBar
    BY <1>1, <1>3, <1>6 DEF askedBar
  <2>2. "internal" \in Reply /\ Status("internal") = "INTERNAL"
    BY DEF Reply, Status
  <2>3. \A j \in Call : answerBar'[j] = IF j = k THEN "INTERNAL" ELSE answerBar[j]
    <3>1. answerBar'[k] = "INTERNAL"
      BY <1>3, <1>4, <1>6, <2>2
    <3>2. \A j \in Call : j # k => answerBar'[j] = answerBar[j]
      BY <1>3, <1>4 DEF answerBar
    <3>3. QED
      BY <3>1, <3>2
  <2>4. answerBar' = [answerBar EXCEPT ![k] = "INTERNAL"]
    BY <1>4, <2>3 DEF answerBar
  <2>5. QED
    BY <1>1, <1>2, <1>6, <2>1, <2>4 DEF DS!Ask
<1>7. QED
  BY <1>5, <1>6

LEMMA RefinedAbandonDial ==
  ASSUME RefInv, NEW k \in Call, AbandonDial(k)
  PROVE  DS!GiveUp(k)
<1>1. /\ k \in askedBar /\ askedBar' = askedBar \ {k}
      /\ UNCHANGED <<conns, running>>
  BY DEF AbandonDial, askedBar, swarmVars
<1>2. answerBar' = answerBar
  BY DEF AbandonDial, answerBar, Status
<1>3. QED
  BY <1>1, <1>2 DEF DS!GiveUp

LEMMA RefinedTakeReply ==
  ASSUME RefInv, NEW k \in Call, TakeReply(k)
  PROVE  DS!Collect(k)
<1>1. /\ call[k] \in Reply /\ k \notin gone
      /\ call' = [call EXCEPT ![k] = "idle"]
      /\ UNCHANGED <<gone, conns, running>>
  BY DEF TakeReply, RefInv, CallerInv, swarmVars, Reply, DialErrorKind
<1>2. \A j \in Call : call'[j] = IF j = k THEN "idle" ELSE call[j]
  BY <1>1 DEF RefInv, DialInv, DialTypeOK
<1>3. answerBar' = [j \in Call |-> IF call'[j] \in Reply THEN Status(call'[j])
                                                         ELSE "none"]
  BY DEF answerBar, Status
<1>4. "idle" \notin Reply /\ "sent" \notin Reply /\ "waiting" \notin Reply
  BY DEF Reply, DialErrorKind
<1>5. answerBar[k] # "none"
  BY <1>1 DEF answerBar, Reply, DialErrorKind, Status
<1>6. answerBar' = [answerBar EXCEPT ![k] = "none"]
  BY <1>2, <1>3, <1>4 DEF answerBar
<1>7. askedBar' = askedBar
  BY <1>1, <1>2, <1>4 DEF askedBar
<1>8. QED
  BY <1>1, <1>5, <1>6, <1>7 DEF DS!Collect

LEMMA RefinedHandleDial ==
  ASSUME RefInv, NEW k \in Call, HandleDial(k)
  PROVE  DS!Next \/ UNCHANGED barVars
<1>1. /\ call[k] = "sent" /\ running /\ Callee[k] \in Peer
      /\ UNCHANGED <<conns, upBar, running>>
  BY EventLoopAssumption
     DEF HandleDial, JoinDial, ReportConnected, RefuseDial, StartDial,
         swarmVars, upBar
<1>2. DialTypeOK /\ NoCallerForgotten
  BY DEF RefInv, DialInv
<1>3. CASE JoinDial(k) \/ StartDial(k)
  <2>1. \A j \in Call : call'[j] = IF j = k THEN "waiting" ELSE call[j]
    BY <1>2, <1>3 DEF JoinDial, StartDial, DialTypeOK
  <2>2. gone' = gone
    BY <1>3 DEF JoinDial, StartDial
  <2>3. askedBar' = askedBar
    BY <1>1, <2>1, <2>2 DEF askedBar
  <2>4. answerBar' = [j \in Call |-> IF call'[j] \in Reply
                                     THEN Status(call'[j]) ELSE "none"]
    BY DEF answerBar, Status
  <2>5. "sent" \notin Reply /\ "waiting" \notin Reply
    BY DEF Reply, DialErrorKind
  <2>6. answerBar' = answerBar
    BY <1>1, <2>1, <2>4, <2>5 DEF answerBar
  <2>7. QED
    BY <1>1, <2>3, <2>6 DEF barVars
<1>4. PICK L \in SUBSET Call : L = {k} \ gone
  OBVIOUS
<1>5. ASSUME NEW reply \in Reply, Answer({k}, reply)
      PROVE  DS!Tell(L, Status(reply))
  BY <1>1, <1>2, <1>4, <1>5, AnswerTells
<1>6. CASE ReportConnected(k)
  <2>1. Callee[k] \in upBar
    BY <1>1, <1>2, <1>6
       DEF ReportConnected, DialConditionFalse, ConnsOf, NoCallerForgotten, upBar
  <2>2. "ok" \in Reply /\ Status("ok") = "OK"
    BY DEF Reply, Status
  <2>3. DS!Tell(L, "OK")
    BY <1>5, <1>6, <2>2 DEF ReportConnected
  <2>4. upBar' = upBar \cup {Callee[k]}
    BY <1>1, <2>1
  <2>5. DS!Connected(Callee[k], L)
    BY <1>1, <1>4, <2>3, <2>4 DEF DS!Connected, upBar
  <2>6. QED
    BY <1>1, <2>5 DEF DS!Next
<1>7. CASE RefuseDial(k)
  <2>1. "unreachable" \in Reply /\ Status("unreachable") = "NOT_FOUND"
    BY DEF Reply, DialErrorKind, Status
  <2>2. DS!Tell(L, "NOT_FOUND")
    BY <1>5, <1>7, <2>1 DEF RefuseDial
  <2>3. DS!Failed(Callee[k], L, "NOT_FOUND")
    BY <1>1, <1>4, <2>2 DEF DS!Failed, upBar
  <2>4. QED
    BY <1>1, <2>3 DEF DS!Next
<1>8. QED
  BY <1>3, <1>6, <1>7 DEF HandleDial

\* Draining the entry of p tells those of its senders that still listen.
LEMMA DrainTells ==
  ASSUME RefInv, NEW p \in Peer, NEW reply \in Reply, DrainPending(p, reply)
  PROVE  \E L \in SUBSET Call : /\ DS!Tell(L, Status(reply))
                               /\ \A k \in L : Callee[k] = p
<1>1. PICK K \in SUBSET Call : K = pending_dials[p]
  BY DEF RefInv, DialInv, DialTypeOK
<1>2. PICK L \in SUBSET Call : L = K \ gone
  OBVIOUS
<1>3. Answer(K, reply)
  BY <1>1 DEF DrainPending, Answer
<1>4. \A k \in K : call[k] = "waiting" /\ Callee[k] = p
  BY <1>1 DEF RefInv, DialInv, NoCallerForgotten
<1>5. DialTypeOK
  BY DEF RefInv, DialInv
<1>6. DS!Tell(L, Status(reply))
  BY <1>2, <1>3, <1>4, <1>5, AnswerTells
<1>7. QED
  BY <1>2, <1>4, <1>6

LEMMA RefinedEstablished ==
  ASSUME RefInv, Established
  PROVE  DS!Next
<1>1. ASSUME NEW i \in ConnId, NEW p \in Peer, NEW a,
             Connect(NewConnection(i, p, a))
      PROVE  upBar' = upBar \cup {p} /\ UNCHANGED running
  <2>1. NewConnection(i, p, a).peer = p
    BY DEF NewConnection
  <2>2. conns' = conns \cup {NewConnection(i, p, a)}
    BY <1>1 DEF Connect
  <2>3. UNCHANGED running
    BY <1>1 DEF Connect
  <2>4. QED
    BY <2>1, <2>2, <2>3 DEF upBar
<1>2. ASSUME NEW i \in ConnId, NEW p \in Peer, NEW a \in InboundAddr,
             InboundEstablished(i, p, a)
      PROVE  DS!Next
  <2>1. PICK L \in SUBSET Call : L = {}
    OBVIOUS
  <2>2. running /\ UNCHANGED <<call, gone>>
    BY <1>2 DEF InboundEstablished, dialVars
  <2>3. upBar' = upBar \cup {p} /\ UNCHANGED running
    BY <1>1, <1>2 DEF InboundEstablished
  <2>4. UNCHANGED <<askedBar, answerBar>>
    BY <2>2, CallersUnseen
  <2>5. DS!Tell(L, "OK")
    BY <2>1, <2>4 DEF DS!Tell, answerBar
  <2>6. DS!Connected(p, L)
    BY <2>1, <2>2, <2>3, <2>5 DEF DS!Connected, upBar
  <2>7. QED
    BY <2>6 DEF DS!Next
<1>3. ASSUME NEW i \in ConnId, NEW p \in Peer, NEW a \in dialing[p],
             OutboundEstablished(i, p, a)
      PROVE  DS!Next
  <2>1. "ok" \in Reply /\ Status("ok") = "OK"
    BY DEF Reply, Status
  <2>2. running /\ DrainPending(p, "ok")
    BY <1>3 DEF OutboundEstablished
  <2>3. PICK L \in SUBSET Call : DS!Tell(L, "OK") /\ \A k \in L : Callee[k] = p
    BY <2>1, <2>2, DrainTells
  <2>4. upBar' = upBar \cup {p} /\ UNCHANGED running
    BY <1>1, <1>3 DEF OutboundEstablished
  <2>5. DS!Connected(p, L)
    BY <2>2, <2>3, <2>4 DEF DS!Connected, upBar
  <2>6. QED
    BY <2>5 DEF DS!Next
<1>4. QED
  BY <1>2, <1>3 DEF Established

LEMMA RefinedDialFails ==
  ASSUME RefInv, NEW p \in Peer, DialFails(p)
  PROVE  DS!Next
<1>1. PICK kind \in DialErrorKind : OutgoingConnectionError(p, kind)
  BY DEF DialFails
<1>2. /\ kind \in Reply
      /\ Status(kind) \in {"FAILED_PRECONDITION", "NOT_FOUND"}
  BY DEF Reply, DialErrorKind, Status
<1>3. running /\ DrainPending(p, kind) /\ UNCHANGED <<conns, running>>
  BY <1>1 DEF OutgoingConnectionError
<1>4. PICK L \in SUBSET Call :
        DS!Tell(L, Status(kind)) /\ \A k \in L : Callee[k] = p
  BY <1>2, <1>3, DrainTells
<1>5. DS!Failed(p, L, Status(kind))
  BY <1>3, <1>4 DEF DS!Failed
<1>6. QED
  BY <1>2, <1>5 DEF DS!Next

\* The peer stays up while it has another connection.
LEMMA RefinedConnectionClosed ==
  ASSUME RefInv, NEW c \in conns, ConnectionClosed(c)
  PROVE  DS!Next \/ UNCHANGED barVars
<1>1. PICK p \in Peer : p = c.peer
  BY DEF RefInv, SwarmTypeOK, Connection
<1>2. running /\ conns' = conns \ {c} /\ UNCHANGED <<call, gone, running>>
  BY DEF ConnectionClosed, dialVars
<1>3. UNCHANGED <<askedBar, answerBar>>
  BY <1>2, CallersUnseen
<1>4. CASE \E d \in conns \ {c} : d.peer = p
  <2>1. upBar' = upBar
    BY <1>1, <1>2, <1>4 DEF upBar
  <2>2. QED
    BY <1>2, <1>3, <2>1 DEF barVars
<1>5. CASE ~\E d \in conns \ {c} : d.peer = p
  <2>1. upBar' = upBar \ {p}
    BY <1>1, <1>2, <1>5 DEF upBar
  <2>2. DS!Disconnected(p)
    BY <1>2, <1>3, <2>1 DEF DS!Disconnected, upBar
  <2>3. QED
    BY <2>2 DEF DS!Next
<1>6. QED
  BY <1>4, <1>5

LEMMA RefinedStop ==
  ASSUME RefInv, Stop
  PROVE  DS!ShutDown
<1>1. PICK K \in SUBSET Call : K = {k \in Call : call[k] \in {"sent", "waiting"}}
  OBVIOUS
<1>2. PICK L \in SUBSET Call : L = K \ gone
  OBVIOUS
<1>3. Answer(K, "internal")
  BY <1>1 DEF Stop, Answer
<1>4. "internal" \in Reply /\ Status("internal") = "INTERNAL"
  BY DEF Reply, Status
<1>5. DialTypeOK
  BY DEF RefInv, DialInv
<1>6. DS!Tell(L, "INTERNAL")
  BY <1>1, <1>2, <1>3, <1>4, <1>5, AnswerTells
<1>7. L = askedBar
  BY <1>1, <1>2 DEF askedBar
<1>8. DS!Tell(askedBar, "INTERNAL")
  BY <1>6, <1>7 DEF DS!Tell
<1>9. running /\ running' = FALSE /\ conns' = conns
  BY DEF Stop
<1>10. QED
  BY <1>8, <1>9 DEF DS!ShutDown

LEMMA RefinedStep ==
  ASSUME RefInv, [Next]_vars
  PROVE  DS!Next \/ UNCHANGED barVars
<1>1. ASSUME NEW k \in Call, SendDial(k) \/ AbandonDial(k) \/ TakeReply(k)
      PROVE  DS!Next
  BY <1>1, RefinedSendDial, RefinedAbandonDial, RefinedTakeReply DEF DS!Next
<1>2. ASSUME UNCHANGED <<call, gone, conns, running>>
      PROVE  UNCHANGED barVars
  BY <1>2, CallersUnseen DEF barVars, upBar
<1>3. ASSUME NEW p \in Peer, NEW list \in Advertised, IdentifyReceived(p, list)
      PROVE  UNCHANGED barVars
  BY <1>2, <1>3 DEF IdentifyReceived, swarmVars, dialVars
<1>4. ASSUME NEW list \in PreferredList, SetPreferredPeers(list)
      PROVE  UNCHANGED barVars
  BY <1>2, <1>4 DEF SetPreferredPeers, swarmVars, dialVars
<1>5. ASSUME NEW p \in Peer, ScoreExpires(p)
      PROVE  UNCHANGED barVars
  BY <1>2, <1>5 DEF ScoreExpires, swarmVars, dialVars
<1>6. ASSUME Stop PROVE DS!Next
  BY <1>6, RefinedStop DEF DS!Next
<1>7. ASSUME UNCHANGED vars PROVE UNCHANGED barVars
  BY <1>2, <1>7 DEF vars, swarmVars, dialVars
<1>8. QED
  BY <1>1, <1>3, <1>4, <1>5, <1>6, <1>7, RefinedHandleDial, RefinedEstablished,
     RefinedDialFails, RefinedConnectionClosed
     DEF Next

\* Every caller of dial_and_wait is answered at most once, for the peer it named,
\* OK only when that peer is connected and INTERNAL only when the loop has ended.
THEOREM DialServiceImplemented == Spec => ImplementsDialService
<1>1. Init => DS!Init
  BY DEF Init, DS!Init, askedBar, answerBar, Reply, DialErrorKind
<1>2. RefInv /\ [Next]_vars => [DS!Next]_(DS!vars)
  BY RefinedStep DEF barVars, upBar, DS!vars
<1>3. QED
  BY <1>1, <1>2, RefInvariant, PTL DEF Spec, ImplementsDialService, DS!Spec

-----------------------------------------------------------------------------
(***************************************************************************)
(* Requests of gRPC clients                                                *)
(***************************************************************************)

\* Of the entries of a request, one is kept for each valid peer in it.
LEMMA KeptEntriesLemma ==
  ASSUME NEW A, NEW request \in Seq(A), NEW P
  PROVE  LET K == KeptEntries(request, P)
         IN  /\ K \subseteq 1..Len(request)
             /\ \A i \in K : request[i].peer \in P
             /\ \A i, j \in K : request[i].peer = request[j].peer => i = j
             /\ \A i \in 1..Len(request) : request[i].peer \in P =>
                  \E j \in K : request[j].peer = request[i].peer
<1> DEFINE K == KeptEntries(request, P)
<1>1. Len(request) \in Nat /\ DOMAIN request = 1..Len(request)
  OBVIOUS
<1>2. K \subseteq 1..Len(request) /\ \A i \in K : request[i].peer \in P
  BY <1>1 DEF KeptEntries
<1>3. ASSUME NEW i \in K, NEW j \in K, request[i].peer = request[j].peer, i # j
      PROVE  FALSE
  <2>1. i \in Nat /\ j \in Nat /\ i >= 1 /\ j >= 1
    BY <1>1, <1>2
  <2>2. i \in 1..(j - 1) \/ j \in 1..(i - 1)
    BY <1>3, <2>1
  <2>3. QED
    BY <1>3, <2>2 DEF KeptEntries
<1>4. ASSUME NEW i \in 1..Len(request), request[i].peer \in P
      PROVE  \E j \in K : request[j].peer = request[i].peer
  <2> DEFINE Same == {j \in 1..Len(request) : request[j].peer = request[i].peer}
  <2>1. PICK j \in Same : \A m \in Same : j <= m
    <3>1. Same \subseteq Nat /\ i \in Same
      BY <1>1
    <3> HIDE DEF Same
    <3>2. QED
      BY <3>1, LeastElement
  <2>2. ASSUME NEW m \in 1..(j - 1) PROVE request[m].peer # request[j].peer
    <3>1. m \in 1..Len(request) /\ ~(j <= m)
      BY <1>1
    <3>2. QED
      BY <2>1, <3>1
  <2>3. j \in K
    BY <1>1, <1>4, <2>2 DEF KeptEntries
  <2>4. QED
    BY <2>3
<1>5. QED
  BY <1>2, <1>3, <1>4

\* Whatever a client sends, set_preferred_peers hands the event loop a list in
\* which no peer occurs twice, of exactly the valid peers of the request, with
\* valid addresses only: what EventLoopAssumption asks of PreferredList.
THEOREM PreferredListsAreParsed ==
  ASSUME NEW A, NEW request \in Seq(A), NEW P, NEW Q
  PROVE  LET list == ParsePreferred(request, P, Q)
         IN  /\ list \in Seq([peer : P, addrs : SUBSET Q])
             /\ \A i, j \in 1..Len(list) : list[i].peer = list[j].peer => i = j
             /\ {list[i].peer : i \in 1..Len(list)}
                  = {request[i].peer : i \in 1..Len(request)} \cap P
<1> DEFINE N    == Len(request)
           K    == KeptEntries(request, P)
           ids  == [i \in 1..N |-> i]
           kept == Keep(ids, K)
           parsed == ParsePreferred(request, P, Q)
<1>1. /\ K \subseteq 1..N
      /\ \A i \in K : request[i].peer \in P
      /\ \A i, j \in K : request[i].peer = request[j].peer => i = j
      /\ \A i \in 1..N : request[i].peer \in P =>
           \E j \in K : request[j].peer = request[i].peer
  BY KeptEntriesLemma
<1>2. kept \in Seq(1..N) /\ Elements(kept) = K /\ Distinct(kept)
  <2>1. N \in Nat
    OBVIOUS
  <2> HIDE DEF N
  <2>2. ids \in Seq(1..N) /\ Len(ids) = N
    BY <2>1
  <2>3. Elements(ids) = 1..N /\ Distinct(ids)
    BY <2>2 DEF Elements, Distinct
  <2>4. Elements(ids) \cap K = K
    BY <1>1, <2>3
  <2> HIDE DEF ids, K
  <2>5. QED
    BY <2>2, <2>3, <2>4, KeepElements
<1>3. parsed = [n \in 1..Len(kept) |->
                [peer  |-> request[kept[n]].peer,
                 addrs |-> request[kept[n]].addrs \cap Q]]
  BY DEF ParsePreferred
<1> HIDE DEF N, K, kept, parsed
<1>4. Len(kept) \in Nat /\ \A n \in 1..Len(kept) : kept[n] \in K
  BY <1>2 DEF Elements
<1>5. Len(parsed) = Len(kept)
  BY <1>3, <1>4
<1>6. parsed \in Seq([peer : P, addrs : SUBSET Q])
  <2>1. ASSUME NEW n \in 1..Len(kept)
        PROVE  parsed[n] \in [peer : P, addrs : SUBSET Q]
    BY <1>1, <1>3, <1>4
  <2>2. parsed = [n \in 1..Len(parsed) |-> parsed[n]] /\ Len(parsed) \in Nat
    BY <1>3, <1>4, <1>5
  <2> DEFINE E == [peer : P, addrs : SUBSET Q]
  <2>3. \A n \in 1..Len(parsed) : parsed[n] \in E
    BY <1>5, <2>1
  <2> HIDE DEF E
  <2>4. parsed \in Seq(E)
    BY <2>2, <2>3, IsASeq
  <2>5. QED
    BY <2>4 DEF E
<1>7. ASSUME NEW i \in 1..Len(parsed), NEW j \in 1..Len(parsed),
             parsed[i].peer = parsed[j].peer
      PROVE  i = j
  <2>1. request[kept[i]].peer = request[kept[j]].peer
    BY <1>3, <1>5, <1>7
  <2>2. kept[i] = kept[j]
    BY <1>1, <1>4, <1>5, <2>1
  <2>3. QED
    BY <1>2, <1>5, <2>2 DEF Distinct
<1>8. {parsed[i].peer : i \in 1..Len(parsed)} = {request[i].peer : i \in 1..N} \cap P
  <2>1. \A n \in 1..Len(kept) : parsed[n].peer = request[kept[n]].peer
    BY <1>3
  <2>2. ASSUME NEW i \in 1..N, request[i].peer \in P
        PROVE  \E n \in 1..Len(parsed) : parsed[n].peer = request[i].peer
    <3>1. PICK j \in K : request[j].peer = request[i].peer
      BY <1>1, <2>2
    <3>2. PICK n \in 1..Len(kept) : kept[n] = j
      BY <1>2 DEF Elements
    <3>3. QED
      BY <1>5, <2>1, <3>1, <3>2
  <2>3. ASSUME NEW n \in 1..Len(parsed)
        PROVE  parsed[n].peer \in P /\ \E i \in 1..N : request[i].peer = parsed[n].peer
    BY <1>1, <1>4, <1>5, <2>1, <2>3
  <2>4. \A x : x \in {parsed[i].peer : i \in 1..Len(parsed)}
                <=> x \in {request[i].peer : i \in 1..N} \cap P
    BY <2>2, <2>3
  <2>5. QED
    BY <2>4
<1>9. QED
  BY <1>6, <1>7, <1>8 DEF N, parsed

-----------------------------------------------------------------------------
(***************************************************************************)
(* The composed node: what the maintenance loop relies on                  *)
(***************************************************************************)

\* While the maintenance task awaits a dial it holds the receiver of a call for
\* its target, which the event loop has or has answered; otherwise it has none.
SlotInv ==
  IF phase = "waiting"
  THEN /\ slot \in Call /\ slot \notin gone
       /\ Callee[slot] = target.peer
       /\ call[slot] # "idle"
  ELSE slot = NoSlot

NodeInv == DialInv /\ ConnInv /\ StoreInv /\ CallerInv /\ RunningOK /\ SlotInv

\* A step of the node is a step of the event loop's specification, or one that
\* the event loop does not notice.
LEMMA NodeStepsEventLoop ==
  ASSUME SlotInv, [NodeNext]_nodeVars
  PROVE  [Next]_vars
<1>1. CASE EventLoopRuns
  <2>1. ASSUME NEW p \in Peer, EstablishedWith(p) PROVE Established
    BY <2>1, NodeAssumption DEF EstablishedWith, Established
  <2>2. QED
    BY <1>1, <2>1 DEF EventLoopRuns, Next
<1>2. CASE LoopRuns
  <2>1. ASSUME TakeAnswer \/ GiveUpDial PROVE Next
    <3>1. slot \in Call
      BY <2>1 DEF TakeAnswer, GiveUpDial, SlotInv
    <3>2. TakeReply(slot) \/ AbandonDial(slot)
      BY <2>1 DEF TakeAnswer, GiveUpDial
    <3>3. QED
      BY <3>1, <3>2 DEF Next
  <2>2. ASSUME NEW c, DialFromLoop(c) PROVE Next
    BY <2>2 DEF DialFromLoop, Next
  <2>3. QED
    BY <1>2, <2>1, <2>2 DEF LoopRuns, LoopOnly, PlanTick
<1>3. CASE HandleSnapshot \/ UNCHANGED nodeVars
  BY <1>3 DEF HandleSnapshot, LoopOnly, nodeVars
<1>4. QED
  BY <1>1, <1>2, <1>3 DEF NodeNext

\* The event loop leaves the task's receiver alone: it answers the call or not,
\* and never takes the answer back.
LEMMA EventLoopKeepsSlot ==
  ASSUME SlotInv, DialInv, EventLoopRuns
  PROVE  SlotInv'
<1>1. UNCHANGED <<phase, slot, target>>
  BY DEF EventLoopRuns, loopVars
<1>2. ASSUME phase = "waiting"
      PROVE  slot \notin gone' /\ call'[slot] # "idle"
  <2>0. slot \in Call /\ slot \notin gone /\ call[slot] # "idle"
    BY <1>2 DEF SlotInv
  <2>1. ASSUME NEW K, NEW reply, reply # "idle", Answer(K, reply)
        PROVE  slot \notin gone' /\ call'[slot] # "idle"
    BY <2>0, <2>1 DEF Answer
  <2>2. ASSUME UNCHANGED <<call, gone>>
        PROVE  slot \notin gone' /\ call'[slot] # "idle"
    BY <2>0, <2>2
  <2>3. ASSUME NEW k \in Call, HandleDial(k)
        PROVE  slot \notin gone' /\ call'[slot] # "idle"
    <3>1. CASE JoinDial(k) \/ StartDial(k)
      BY <2>0, <3>1 DEF JoinDial, StartDial, DialInv, DialTypeOK
    <3>2. CASE ReportConnected(k) \/ RefuseDial(k)
      BY <2>1, <3>2 DEF ReportConnected, RefuseDial
    <3>3. QED
      BY <2>3, <3>1, <3>2 DEF HandleDial
  <2>4. ASSUME NEW p \in Peer, EstablishedWith(p)
        PROVE  slot \notin gone' /\ call'[slot] # "idle"
    BY <2>1, <2>2, <2>4
       DEF EstablishedWith, InboundEstablished, OutboundEstablished, dialVars,
           DrainPending
  <2>5. ASSUME NEW p \in Peer, DialFails(p)
        PROVE  slot \notin gone' /\ call'[slot] # "idle"
    BY <2>1, <2>5 DEF DialFails, OutgoingConnectionError, DialErrorKind, DrainPending
  <2>6. ASSUME NEW c \in conns, ConnectionClosed(c)
        PROVE  slot \notin gone' /\ call'[slot] # "idle"
    BY <2>2, <2>6 DEF ConnectionClosed, dialVars
  <2>7. ASSUME NEW p \in Peer, NEW list \in Advertised, IdentifyReceived(p, list)
        PROVE  slot \notin gone' /\ call'[slot] # "idle"
    BY <2>2, <2>7 DEF IdentifyReceived, dialVars
  <2>8. ASSUME NEW list \in PreferredList, SetPreferredPeers(list)
        PROVE  slot \notin gone' /\ call'[slot] # "idle"
    BY <2>2, <2>8 DEF SetPreferredPeers, dialVars
  <2>9. ASSUME Stop
        PROVE  slot \notin gone' /\ call'[slot] # "idle"
    BY <2>1, <2>9 DEF Stop
  <2>10. QED
    BY <2>3, <2>4, <2>5, <2>6, <2>7, <2>8, <2>9 DEF EventLoopRuns
<1>3. QED
  BY <1>1, <1>2 DEF SlotInv

\* The task's own steps: a dial takes a receiver, and its end lets go of it.
LEMMA LoopKeepsSlot ==
  ASSUME SlotInv, DialInv, CallerInv, LoopRuns \/ HandleSnapshot
  PROVE  SlotInv'
<1>1. ASSUME UNCHANGED vars, UNCHANGED slot, UNCHANGED target,
             phase # "waiting", phase' # "waiting"
      PROVE  SlotInv'
  BY <1>1 DEF SlotInv
<1>2. CASE LoopOnly(Loop!StartTick) \/ LoopOnly(Loop!SnapshotFails)
           \/ LoopOnly(Loop!EndTick) \/ LoopOnly(Loop!Wake) \/ HandleSnapshot
  BY <1>2
     DEF LoopOnly, HandleSnapshot, SlotInv, Loop!StartTick, Loop!SnapshotFails,
         Loop!EndTick, Loop!Wake, Loop!SnapshotAnswered
<1>3. CASE PlanTick
  BY <1>3 DEF PlanTick, Loop!PlanWith, SlotInv
<1>4. ASSUME NEW c, LoopOnly(Loop!Skip(c)) PROVE SlotInv'
  BY <1>4 DEF LoopOnly, Loop!Skip, SlotInv, vars, dialVars
<1>5. ASSUME NEW c, DialFromLoop(c) PROVE SlotInv'
  <2>1. PICK k \in Call : /\ Callee[k] = c.peer /\ SendDial(k) /\ slot' = k
                          /\ Loop!Dial(c)
    BY <1>5 DEF DialFromLoop
  <2>2. phase' = "waiting" /\ target' = c
    BY <2>1 DEF Loop!Dial
  <2>3. k \notin gone /\ gone' = gone /\ call'[k] \in {"sent", "internal"}
    BY <2>1 DEF SendDial, DialInv, DialTypeOK, CallerInv
  <2>4. QED
    BY <2>1, <2>2, <2>3 DEF SlotInv
<1>6. CASE TakeAnswer \/ GiveUpDial
  <2>1. slot' = NoSlot /\ phase' = "dial"
    BY <1>6 DEF TakeAnswer, GiveUpDial, Loop!DialSucceeds, Loop!DialFails,
                Loop!DialOver
  <2>2. QED
    BY <2>1 DEF SlotInv
<1>7. CASE LoopOnly(Loop!TimePasses)
  BY <1>7 DEF LoopOnly, Loop!TimePasses, Loop!tickVars, SlotInv, vars, dialVars
<1>8. QED
  BY <1>2, <1>3, <1>4, <1>5, <1>6, <1>7 DEF LoopRuns

\* Every step of the node keeps its invariant.
LEMMA NodeInvStep ==
  ASSUME NodeInv, [NodeNext]_nodeVars
  PROVE  NodeInv'
<1>1. [Next]_vars
  BY NodeStepsEventLoop DEF NodeInv
<1>2. DialInv' /\ ConnInv' /\ StoreInv' /\ CallerInv' /\ RunningOK'
  <2>1. DialTypeOK
    BY DEF NodeInv, DialInv
  <2>2. QED
    BY <1>1, <2>1, DialInvStep, ConnInvStep, StoreInvStep, CallerInvStep,
       RunningStep
       DEF NodeInv
<1>3. SlotInv'
  <2>1. CASE UNCHANGED nodeVars
    BY <2>1 DEF nodeVars, vars, dialVars, loopVars, NodeInv, SlotInv
  <2>2. QED
    BY <2>1, EventLoopKeepsSlot, LoopKeepsSlot DEF NodeInv, NodeNext
<1>4. QED
  BY <1>2, <1>3 DEF NodeInv

LEMMA NodeInvInit == NodeInit => NodeInv
<1> SUFFICES ASSUME NodeInit PROVE NodeInv
  OBVIOUS
<1>1. Init
  BY DEF NodeInit
<1>2. DialInv
  BY <1>1 DEF Init, DialInv, DialTypeOK, NoCallerForgotten, NoDials, CallState
<1>3. CallerInv /\ RunningOK
  BY <1>1 DEF Init, CallerInv, RunningOK
<1>4. SlotInv
  BY DEF NodeInit, Loop!Init, SlotInv
<1>5. QED
  BY <1>1, <1>2, <1>3, <1>4, ConnInvInit, StoreInvInit DEF NodeInv

\* The composed node keeps the invariants of the event loop and of the receiver.
THEOREM NodeInvariant == NodeSpec => []NodeInv
<1>1. NodeInv /\ [NodeNext]_nodeVars => NodeInv'
  BY NodeInvStep
<1>2. QED
  BY <1>1, NodeInvInit, PTL DEF NodeSpec

\* In the node the event loop behaves as it does among arbitrary callers, of which
\* the maintenance task is one: every theorem about it holds of the node.
THEOREM NodeRunsEventLoop == NodeSpec => Spec
<1>1. NodeInv /\ [NodeNext]_nodeVars => [Next]_vars
  BY NodeStepsEventLoop DEF NodeInv
<1>2. NodeInit => Init
  BY DEF NodeInit
<1>3. QED
  BY <1>1, <1>2, NodeInvariant, PTL DEF NodeSpec, Spec

\* Among them: record() keeps at most MaxAddrsPerPeer addresses of a peer, and none
\* but advertised TCP addresses and those at which the node dialed it.
THEOREM NodeStoreCorrect ==
  NodeSpec => [](PeerStoreBounded /\ NoEphemeralAddrStored)
BY NodeRunsEventLoop, PeerStoreIsBounded, OnlyDialableStored, PTL

-----------------------------------------------------------------------------
(***************************************************************************)
(* The steps of the event loop, as the maintenance loop sees them          *)
(***************************************************************************)

loopBar == <<DOMAIN connected, dial_hints, running, phase, snapshot, hints,
             bootstrap_todo, preferred_todo, refill_todo, attempted, target,
             Answered, timer, backoff>>

\* Answering the senders of K for the peer p: the task finds the answer if its
\* own is among them, and otherwise nothing changes for it.
LEMMA SlotAnswered ==
  ASSUME NodeInv, UNCHANGED loopVars, NEW p \in Peer, NEW K \in SUBSET Call,
         \A k \in K : Callee[k] = p /\ call[k] \in {"sent", "waiting"},
         NEW reply \in Reply, Answer(K, reply)
  PROVE  Loop!MayAnswer(p, IF reply = "ok" THEN "ok" ELSE "error")
<1>1. UNCHANGED <<phase, slot, target>>
  BY DEF loopVars
<1>2. CASE phase = "waiting"
  <2>1. slot \in Call /\ slot \notin gone /\ Callee[slot] = target.peer
    BY <1>2 DEF NodeInv, SlotInv
  <2>2. slot # NoSlot
    BY <2>1, NodeAssumption
  <2>3. CASE slot \in K
    <3>1. target.peer = p /\ Answered = "none"
      BY <2>1, <2>3 DEF Answered
    <3>2. call'[slot] = reply
      BY <2>1, <2>3 DEF Answer
    <3>3. Answered' = IF reply = "ok" THEN "ok" ELSE "error"
      BY <1>1, <2>2, <3>2 DEF Answered, Reply, DialErrorKind
    <3>4. QED
      BY <1>2, <3>1, <3>3 DEF Loop!MayAnswer
  <2>4. CASE slot \notin K
    <3>1. call'[slot] = call[slot]
      BY <2>1, <2>4 DEF Answer
    <3>2. Answered' = Answered
      BY <1>1, <3>1 DEF Answered
    <3>3. QED
      BY <3>2 DEF Loop!MayAnswer
  <2>5. QED
    BY <2>3, <2>4
<1>3. CASE phase # "waiting"
  <2>1. slot = NoSlot /\ slot' = NoSlot
    BY <1>1, <1>3 DEF NodeInv, SlotInv
  <2>2. Answered' = Answered
    BY <2>1 DEF Answered
  <2>3. QED
    BY <2>2 DEF Loop!MayAnswer
<1>4. QED
  BY <1>2, <1>3

\* Command::Dial: a peer that is reported connected is in the loop's table.
LEMMA LoopSeesHandleDial ==
  ASSUME NodeInv, UNCHANGED loopVars, NEW k \in Call, HandleDial(k)
  PROVE  Loop!DialAnswered \/ UNCHANGED loopBar
<1>1. /\ running /\ call[k] = "sent"
      /\ UNCHANGED <<connected, dial_hints, running>>
      /\ Callee[k] \in Peer
  BY EventLoopAssumption DEF HandleDial, tableVars, prefVars
<1>2. UNCHANGED <<phase, snapshot, hints, bootstrap_todo, preferred_todo,
                  refill_todo, attempted, target, timer, backoff, slot>>
  BY DEF loopVars
<1>3. CASE JoinDial(k) \/ StartDial(k)
  <2>1. \A j \in Call : call'[j] = IF j = k THEN "waiting" ELSE call[j]
    BY <1>3 DEF JoinDial, StartDial, NodeInv, DialInv, DialTypeOK
  <2>2. Answered' = Answered
    <3>1. CASE phase = "waiting"
      <4>1. slot \in Call
        BY <3>1 DEF NodeInv, SlotInv
      <4>2. QED
        BY <1>1, <1>2, <2>1, <4>1 DEF Answered
    <3>2. CASE phase # "waiting"
      BY <1>2, <3>2 DEF NodeInv, SlotInv, Answered
    <3>3. QED
      BY <3>1, <3>2
  <2>3. QED
    BY <1>1, <1>2, <2>2 DEF loopBar
<1>4. ASSUME NEW reply \in {"ok", "unreachable"}, Answer({k}, reply),
             reply = "ok" => Callee[k] \in DOMAIN connected
      PROVE  Loop!DialAnswered \/ UNCHANGED loopBar
  <2>1. reply \in Reply
    BY DEF Reply, DialErrorKind
  <2>2. Loop!MayAnswer(Callee[k], IF reply = "ok" THEN "ok" ELSE "error")
    BY <1>1, <1>4, <2>1, SlotAnswered
  <2>3. CASE Answered' = Answered
    BY <1>1, <1>2, <2>3 DEF loopBar
  <2>4. CASE Answered' # Answered
    <3>1. target.peer = Callee[k]
      BY <2>2, <2>4 DEF Loop!MayAnswer
    <3>2. \/ target.peer \in DOMAIN connected /\ Loop!MayAnswer(target.peer, "ok")
          \/ Loop!MayAnswer(target.peer, "error")
      BY <1>4, <2>2, <3>1
    <3>3. QED
      BY <1>1, <1>2, <3>2
         DEF Loop!DialAnswered, Loop!netVars, Loop!tickVars, Loop!todoVars
  <2>5. QED
    BY <2>3, <2>4
<1>5. CASE ReportConnected(k)
  <2>1. Answer({k}, "ok") /\ pending_dials[Callee[k]] = {}
        /\ DialConditionFalse(Callee[k])
    BY <1>5 DEF ReportConnected
  <2>2. dialing[Callee[k]] = {}
    BY <1>1, <2>1 DEF NodeInv, DialInv, NoCallerForgotten
  <2>3. Callee[k] \in DOMAIN connected
    BY <2>1, <2>2
       DEF DialConditionFalse, ConnsOf, NodeInv, ConnInv, TableMatchesSwarm
  <2>4. QED
    BY <1>4, <2>1, <2>3
<1>6. CASE RefuseDial(k)
  BY <1>4, <1>6 DEF RefuseDial
<1>7. QED
  BY <1>3, <1>5, <1>6 DEF HandleDial

\* Who is in a peer's entry waits for that peer.
LEMMA PendingAreCallers ==
  ASSUME DialInv, NEW p \in Peer
  PROVE  /\ pending_dials[p] \in SUBSET Call
         /\ \A k \in pending_dials[p] :
              Callee[k] = p /\ call[k] \in {"sent", "waiting"}
BY DEF DialInv, DialTypeOK, NoCallerForgotten

\* ConnectionEstablished: the peer is in the table from now on, and a call for
\* it is answered OK.
LEMMA LoopSeesEstablished ==
  ASSUME NodeInv, UNCHANGED loopVars, NEW p \in Peer, EstablishedWith(p)
  PROVE  \/ p \notin DOMAIN connected /\ Loop!Connects(p)
         \/ Loop!DialAnswered
         \/ UNCHANGED loopBar
<1>1. PICK i \in Ids[p], a \in Sources[p] \cup dialing[p] :
        \/ a \in Sources[p] /\ InboundEstablished(i, p, a)
        \/ a \in dialing[p] /\ OutboundEstablished(i, p, a)
  BY DEF EstablishedWith
<1>2. /\ running /\ UNCHANGED <<dial_hints, running>>
      /\ DOMAIN connected' = DOMAIN connected \cup {p}
  BY <1>1 DEF InboundEstablished, OutboundEstablished, Connect, NewConnection
<1>3. UNCHANGED <<phase, snapshot, hints, bootstrap_todo, preferred_todo,
                  refill_todo, attempted, target, timer, backoff, slot>>
  BY DEF loopVars
<1>4. Loop!MayAnswer(p, "ok")
  <2>1. CASE UNCHANGED call
    <3>1. Answered' = Answered
      BY <1>3, <2>1 DEF Answered
    <3>2. QED
      BY <3>1 DEF Loop!MayAnswer
  <2>2. CASE Answer(pending_dials[p], "ok")
    <3>1. "ok" \in Reply
      BY DEF Reply
    <3>2. DialInv
      BY DEF NodeInv
    <3>3. Loop!MayAnswer(p, IF "ok" = "ok" THEN "ok" ELSE "error")
      BY <2>2, <3>1, <3>2, PendingAreCallers, SlotAnswered
    <3>4. QED
      BY <3>3
  <2>3. QED
    BY <1>1, <2>1, <2>2
       DEF InboundEstablished, OutboundEstablished, dialVars, DrainPending
<1>5. CASE p \notin DOMAIN connected
  BY <1>2, <1>3, <1>4, <1>5
     DEF Loop!Connects, Loop!tickVars, Loop!todoVars
<1>6. CASE p \in DOMAIN connected
  <2>1. DOMAIN connected' = DOMAIN connected
    BY <1>2, <1>6
  <2>2. CASE Answered' = Answered
    BY <1>2, <1>3, <2>1, <2>2 DEF loopBar
  <2>3. CASE Answered' # Answered
    <3>1. target.peer = p
      BY <1>4, <2>3 DEF Loop!MayAnswer
    <3>2. QED
      BY <1>2, <1>3, <1>4, <1>6, <2>1, <3>1
         DEF Loop!DialAnswered, Loop!netVars, Loop!tickVars, Loop!todoVars
  <2>4. QED
    BY <2>2, <2>3
<1>7. QED
  BY <1>5, <1>6

\* ConnectionClosed: the peer leaves the table with its last connection.
LEMMA LoopSeesClosed ==
  ASSUME NodeInv, UNCHANGED loopVars, NEW c \in conns, ConnectionClosed(c)
  PROVE  \/ c.peer \in DOMAIN connected /\ Loop!Disconnects(c.peer)
         \/ UNCHANGED loopBar
<1>1. /\ running /\ UNCHANGED <<dial_hints, running, call>>
      /\ connected' = TableWithout(c)
  BY DEF ConnectionClosed, dialVars
<1>2. UNCHANGED <<phase, snapshot, hints, bootstrap_todo, preferred_todo,
                  refill_todo, attempted, target, timer, backoff, slot>>
  BY DEF loopVars
<1>3. Answered' = Answered
  BY <1>1, <1>2 DEF Answered
<1>4. c.peer \in DOMAIN connected
  BY DEF NodeInv, ConnInv, TableMatchesSwarm
<1>5. CASE DOMAIN connected' = DOMAIN connected \ {c.peer}
  BY <1>1, <1>2, <1>3, <1>4, <1>5
     DEF Loop!Disconnects, Loop!tickVars, Loop!todoVars
<1>6. CASE DOMAIN connected' = DOMAIN connected
  BY <1>1, <1>2, <1>3, <1>6 DEF loopBar
<1>7. QED
  BY <1>1, <1>5, <1>6 DEF TableWithout

\* OutgoingConnectionError: a call for the peer is answered with an error.
LEMMA LoopSeesDialFails ==
  ASSUME NodeInv, UNCHANGED loopVars, NEW p \in Peer, DialFails(p)
  PROVE  Loop!DialAnswered \/ UNCHANGED loopBar
<1>1. PICK kind \in DialErrorKind : OutgoingConnectionError(p, kind)
  BY DEF DialFails
<1>2. /\ running /\ UNCHANGED <<connected, dial_hints, running>>
      /\ Answer(pending_dials[p], kind)
  BY <1>1 DEF OutgoingConnectionError, tableVars, prefVars, DrainPending
<1>3. UNCHANGED <<phase, snapshot, hints, bootstrap_todo, preferred_todo,
                  refill_todo, attempted, target, timer, backoff, slot>>
  BY DEF loopVars
<1>4. Loop!MayAnswer(p, "error")
  <2>1. kind \in Reply /\ kind # "ok" /\ DialInv
    BY DEF Reply, DialErrorKind, NodeInv
  <2>2. Loop!MayAnswer(p, IF kind = "ok" THEN "ok" ELSE "error")
    BY <1>2, <2>1, PendingAreCallers, SlotAnswered
  <2>3. QED
    BY <2>1, <2>2
<1>5. CASE Answered' = Answered
  BY <1>2, <1>3, <1>5 DEF loopBar
<1>6. CASE Answered' # Answered
  <2>1. target.peer = p
    BY <1>4, <1>6 DEF Loop!MayAnswer
  <2>2. QED
    BY <1>2, <1>3, <1>4, <2>1
       DEF Loop!DialAnswered, Loop!netVars, Loop!tickVars, Loop!todoVars
<1>7. QED
  BY <1>5, <1>6

\* Command::SetPreferredPeers: the hints are those of some accepted list.
LEMMA LoopSeesPreferred ==
  ASSUME NodeInv, UNCHANGED loopVars, NEW list \in PreferredList,
         SetPreferredPeers(list)
  PROVE  \/ \E new \in AnyHints \ {dial_hints} : Loop!PreferredChange(new)
         \/ UNCHANGED loopBar
<1>1. /\ running /\ UNCHANGED <<connected, running, call>>
      /\ dial_hints' = HintsOf(Accepted(list))
  BY DEF SetPreferredPeers, tableVars, dialVars
<1>2. dial_hints' \in AnyHints
  BY <1>1 DEF AnyHints
<1>3. UNCHANGED <<phase, snapshot, hints, bootstrap_todo, preferred_todo,
                  refill_todo, attempted, target, timer, backoff, slot>>
  BY DEF loopVars
<1>4. Answered' = Answered
  BY <1>1, <1>3 DEF Answered
<1>5. CASE dial_hints' = dial_hints
  BY <1>1, <1>3, <1>4, <1>5 DEF loopBar
<1>6. CASE dial_hints' # dial_hints
  <2>1. Loop!PreferredChange(dial_hints')
    BY <1>1, <1>3, <1>4 DEF Loop!PreferredChange, Loop!tickVars, Loop!todoVars
  <2>2. QED
    BY <1>2, <1>6, <2>1
<1>7. QED
  BY <1>5, <1>6

\* The end of the event loop answers every call that it still has.
LEMMA LoopSeesStop ==
  ASSUME NodeInv, UNCHANGED loopVars, Stop
  PROVE  Loop!EventLoopEnds
<1> DEFINE K == {k \in Call : call[k] \in {"sent", "waiting"}}
<1>1. /\ running /\ running' = FALSE /\ UNCHANGED <<connected, dial_hints>>
      /\ Answer(K, "internal")
  BY DEF Stop, tableVars, prefVars
<1>2. UNCHANGED <<phase, snapshot, hints, bootstrap_todo, preferred_todo,
                  refill_todo, attempted, target, timer, backoff, slot>>
  BY DEF loopVars
<1>3. Loop!MayAnswer(target.peer, "error")
  <2>1. CASE phase = "waiting"
    <3>1. slot \in Call /\ slot \notin gone /\ slot # NoSlot
      BY <2>1, NodeAssumption DEF NodeInv, SlotInv
    <3>2. CASE slot \in K
      <4>1. call'[slot] = "internal" /\ Answered = "none"
        BY <1>1, <3>1, <3>2 DEF Answer, Answered
      <4>2. Answered' = "error"
        BY <1>2, <3>1, <4>1 DEF Answered
      <4>3. QED
        BY <2>1, <4>1, <4>2 DEF Loop!MayAnswer
    <3>3. CASE slot \notin K
      <4>1. call'[slot] = call[slot]
        BY <1>1, <3>1, <3>3 DEF Answer
      <4>2. Answered' = Answered
        BY <1>2, <4>1 DEF Answered
      <4>3. QED
        BY <4>2 DEF Loop!MayAnswer
    <3>4. QED
      BY <3>2, <3>3
  <2>2. CASE phase # "waiting"
    <3>1. Answered' = Answered
      BY <1>2, <2>2 DEF NodeInv, SlotInv, Answered
    <3>2. QED
      BY <3>1 DEF Loop!MayAnswer
  <2>3. QED
    BY <2>1, <2>2
<1>4. QED
  BY <1>1, <1>2, <1>3 DEF Loop!EventLoopEnds, Loop!tickVars, Loop!todoVars

\* A tick's refill reads a peerstore that Maintenance allows for.
LEMMA StoreAllowed ==
  ASSUME StoreInv
  PROVE  peerstore \in AnyStore
<1> DEFINE Lists == UNION {[1..n -> Addr] : n \in 0..MaxAddrsPerPeer}
           P == DOMAIN peerstore
<1>1. ASSUME NEW p \in P
      PROVE  peerstore[p] \in [addrs : Lists, last_seen : Time]
  <2>1. PICK addrs \in AddrLists(Persistable(p)), t \in Time :
          peerstore[p] = [addrs |-> addrs, last_seen |-> t]
    BY DEF StoreInv, RecordOf
  <2>2. Persistable(p) \subseteq Addr
    BY EventLoopAssumption DEF Persistable, Dialable
  <2>3. addrs \in Seq(Persistable(p)) /\ Len(addrs) <= MaxAddrsPerPeer
    BY DEF AddrLists
  <2>4. Len(addrs) \in 0..MaxAddrsPerPeer /\ addrs \in [1..Len(addrs) -> Addr]
    BY <2>2, <2>3, MaxAddrsAssumption
  <2>5. addrs \in Lists
    BY <2>4
  <2> HIDE DEF Lists
  <2>6. QED
    BY <2>1, <2>5
<1>2. P \in SUBSET Peer /\ peerstore = [p \in P |-> peerstore[p]]
  BY DEF StoreInv
<1> HIDE DEF Lists, P
<1>3. peerstore \in [P -> [addrs : Lists, last_seen : Time]]
  BY <1>1, <1>2
<1>4. QED
  BY <1>2, <1>3 DEF AnyStore, Lists

\* Every step of the node is one of the maintenance loop's specification, or
\* changes nothing that the maintenance loop can tell.
LEMMA LoopSeesStep ==
  ASSUME NodeInv, [NodeNext]_nodeVars
  PROVE  [Loop!Next]_(Loop!vars)
<1>0. loopBar' = loopBar => UNCHANGED Loop!vars
  BY DEF loopBar, Loop!vars, Loop!netVars, Loop!tickVars, Loop!todoVars
<1>1. CASE LoopRuns
  <2>1. CASE PlanTick
    <3>1. peerstore \in AnyStore
      BY StoreAllowed DEF NodeInv
    <3>2. Loop!Plan
      BY <2>1, <3>1 DEF PlanTick, Loop!Plan
    <3>3. QED
      BY <3>2 DEF Loop!Next, Loop!Run
  <2>2. ASSUME NEW c \in Loop!Upcoming, LoopOnly(Loop!Skip(c)) \/ DialFromLoop(c)
        PROVE  Loop!Next
    BY <2>2 DEF LoopOnly, DialFromLoop, Loop!Next, Loop!Run
  <2>3. CASE TakeAnswer \/ GiveUpDial
    BY <2>3 DEF TakeAnswer, GiveUpDial, Loop!Next, Loop!Run
  <2>4. CASE LoopOnly(Loop!StartTick) \/ LoopOnly(Loop!SnapshotFails)
             \/ LoopOnly(Loop!EndTick) \/ LoopOnly(Loop!Wake)
             \/ LoopOnly(Loop!TimePasses)
    BY <2>4 DEF LoopOnly, Loop!Next, Loop!Run
  <2>5. QED
    BY <1>1, <2>1, <2>2, <2>3, <2>4 DEF LoopRuns
<1>2. CASE HandleSnapshot
  BY <1>2 DEF HandleSnapshot, LoopOnly, Loop!Next, Loop!Environment
<1>3. CASE EventLoopRuns
  <2>1. UNCHANGED loopVars
    BY <1>3 DEF EventLoopRuns
  <2>2. ASSUME NEW k \in Call, HandleDial(k) PROVE [Loop!Next]_(Loop!vars)
    BY <1>0, <2>1, <2>2, LoopSeesHandleDial DEF Loop!Next, Loop!Environment
  <2>3. ASSUME NEW p \in Peer, EstablishedWith(p) PROVE [Loop!Next]_(Loop!vars)
    BY <1>0, <2>1, <2>3, LoopSeesEstablished DEF Loop!Next, Loop!Environment
  <2>4. ASSUME NEW c \in conns, ConnectionClosed(c) PROVE [Loop!Next]_(Loop!vars)
    BY <1>0, <2>1, <2>4, LoopSeesClosed DEF Loop!Next, Loop!Environment
  <2>5. ASSUME NEW p \in Peer, DialFails(p) PROVE [Loop!Next]_(Loop!vars)
    BY <1>0, <2>1, <2>5, LoopSeesDialFails DEF Loop!Next, Loop!Environment
  <2>6. ASSUME NEW p \in Peer, NEW list \in Advertised, IdentifyReceived(p, list)
        PROVE  [Loop!Next]_(Loop!vars)
    <3>1. UNCHANGED <<connected, dial_hints, running, call>>
      BY <2>6 DEF IdentifyReceived, dialVars, tableVars, prefVars
    <3>2. Answered' = Answered
      BY <2>1, <3>1 DEF Answered, loopVars
    <3>3. loopBar' = loopBar
      BY <2>1, <3>1, <3>2 DEF loopBar, loopVars
    <3>4. QED
      BY <1>0, <3>3
  <2>7. ASSUME NEW list \in PreferredList, SetPreferredPeers(list)
        PROVE  [Loop!Next]_(Loop!vars)
    BY <1>0, <2>1, <2>7, LoopSeesPreferred DEF Loop!Next, Loop!Environment
  <2>8. ASSUME Stop PROVE [Loop!Next]_(Loop!vars)
    BY <2>1, <2>8, LoopSeesStop DEF Loop!Next, Loop!Environment
  <2>9. QED
    BY <1>3, <2>2, <2>3, <2>4, <2>5, <2>6, <2>7, <2>8 DEF EventLoopRuns
<1>4. CASE UNCHANGED nodeVars
  <2>1. UNCHANGED <<connected, dial_hints, running, call>> /\ UNCHANGED loopVars
    BY <1>4 DEF nodeVars, vars, dialVars, tableVars, prefVars
  <2>2. Answered' = Answered
    BY <2>1 DEF Answered, loopVars
  <2>3. loopBar' = loopBar
    BY <2>1, <2>2 DEF loopBar, loopVars
  <2>4. QED
    BY <1>0, <2>3
<1>5. QED
  BY <1>1, <1>2, <1>3, <1>4 DEF NodeNext

\* What Maintenance leaves to chance is what the event loop does, whatever the
\* node's peers, callers and clients do.
THEOREM MaintenanceImplemented == NodeSpec => ImplementsMaintenance
<1>1. NodeInit => Loop!Init
  BY DEF NodeInit
<1>2. NodeInv /\ [NodeNext]_nodeVars => [Loop!Next]_(Loop!vars)
  BY LoopSeesStep
<1>3. QED
  BY <1>1, <1>2, NodeInvariant, PTL DEF NodeSpec, ImplementsMaintenance, Loop!Spec

-----------------------------------------------------------------------------
(***************************************************************************)
(* What the maintenance loop guarantees by itself, in the node             *)
(***************************************************************************)

LoopFacts == INSTANCE MaintenanceProofs WITH
  connected <- DOMAIN connected,
  preferred <- dial_hints,
  alive     <- running,
  answer    <- Answered,
  Reachable <- Peer,
  Bootstrap <- BootstrapList,
  Hints     <- AnyHints,
  Stores    <- AnyStore,
  Now       <- Time

\* The theorems speak of the same loop as the node does.
LEMMA SameInit == LoopFacts!Init <=> Loop!Init
BY DEF Loop!Init, Loop!NoHints, Loop!NoTarget, Loop!NoBackoff,
       LoopFacts!Init, LoopFacts!NoHints, LoopFacts!NoTarget, LoopFacts!NoBackoff

LEMMA SameNext == LoopFacts!Next <=> Loop!Next
<1> USE DEF Loop!netVars, Loop!tickVars, Loop!todoVars,
            LoopFacts!netVars, LoopFacts!tickVars, LoopFacts!todoVars
<1>1. LoopFacts!Environment <=> Loop!Environment
  BY DEF Loop!Environment, Loop!Connects, Loop!Disconnects, Loop!PreferredChange,
         Loop!DialAnswered, Loop!SnapshotAnswered, Loop!EventLoopEnds,
         Loop!MayAnswer, LoopFacts!Environment, LoopFacts!Connects,
         LoopFacts!Disconnects, LoopFacts!PreferredChange,
         LoopFacts!DialAnswered, LoopFacts!SnapshotAnswered,
         LoopFacts!EventLoopEnds, LoopFacts!MayAnswer
<1>2. LoopFacts!TimePasses <=> Loop!TimePasses
  BY DEF Loop!TimePasses, Loop!Later, LoopFacts!TimePasses, LoopFacts!Later
<1>3. LoopFacts!StartTick <=> Loop!StartTick
  BY DEF Loop!StartTick, Loop!Prune, LoopFacts!StartTick, LoopFacts!Prune
<1>4. LoopFacts!SnapshotFails <=> Loop!SnapshotFails
  BY DEF Loop!SnapshotFails, LoopFacts!SnapshotFails
<1>5. LoopFacts!Plan <=> Loop!Plan
  BY DEF Loop!Plan, Loop!PlanWith, Loop!NoHints, Loop!BootstrapCandidates,
         Loop!BootstrapPeers, Loop!PreferredCandidates, Loop!RefillCandidates,
         Loop!DialCandidates, Loop!RefillBudget, Loop!Shuffled, Loop!kSubset,
         Loop!Cardinality,
         LoopFacts!Plan, LoopFacts!PlanWith, LoopFacts!NoHints,
         LoopFacts!BootstrapCandidates, LoopFacts!BootstrapPeers,
         LoopFacts!PreferredCandidates, LoopFacts!RefillCandidates,
         LoopFacts!DialCandidates, LoopFacts!RefillBudget,
         LoopFacts!Shuffled, LoopFacts!kSubset, LoopFacts!Cardinality
<1>6. (\E c \in LoopFacts!Upcoming : LoopFacts!Skip(c) \/ LoopFacts!Dial(c))
        <=> \E c \in Loop!Upcoming : Loop!Skip(c) \/ Loop!Dial(c)
  BY DEF Loop!Upcoming, Loop!Skip, Loop!Dial, Loop!NextIs, Loop!NextIsBootstrap,
         Loop!NextIsPreferred, Loop!NextIsRefill, Loop!Passed, Loop!Ready,
         LoopFacts!Upcoming, LoopFacts!Skip, LoopFacts!Dial, LoopFacts!NextIs,
         LoopFacts!NextIsBootstrap, LoopFacts!NextIsPreferred,
         LoopFacts!NextIsRefill, LoopFacts!Passed, LoopFacts!Ready
<1>7. LoopFacts!DialSucceeds <=> Loop!DialSucceeds
  BY DEF Loop!DialSucceeds, Loop!DialOver, Loop!RecordSuccess, Loop!NoTarget,
         LoopFacts!DialSucceeds, LoopFacts!DialOver, LoopFacts!RecordSuccess,
         LoopFacts!NoTarget
<1>8. LoopFacts!DialFails <=> Loop!DialFails
  BY DEF Loop!DialFails, Loop!DialOver, Loop!RecordFailure, Loop!NextFailures,
         Loop!Failures, Loop!Delays, Loop!Capped, Loop!NoTarget,
         LoopFacts!DialFails, LoopFacts!DialOver, LoopFacts!RecordFailure,
         LoopFacts!NextFailures, LoopFacts!Failures, LoopFacts!Delays,
         LoopFacts!Capped, LoopFacts!NoTarget
<1>9. (LoopFacts!EndTick <=> Loop!EndTick) /\ (LoopFacts!Wake <=> Loop!Wake)
  BY DEF Loop!EndTick, Loop!Wake, LoopFacts!EndTick, LoopFacts!Wake
<1>10. QED
  BY <1>1, <1>2, <1>3, <1>4, <1>5, <1>6, <1>7, <1>8, <1>9
     DEF Loop!Next, Loop!Run, LoopFacts!Next, LoopFacts!Run

LEMMA SameStep == [LoopFacts!Next]_(LoopFacts!vars) <=> [Loop!Next]_(Loop!vars)
BY SameNext
   DEF Loop!vars, Loop!netVars, Loop!tickVars, Loop!todoVars,
       LoopFacts!vars, LoopFacts!netVars, LoopFacts!tickVars, LoopFacts!todoVars

\* What the maintenance loop assumes of its constants, of the node's: the hints
\* and the peerstores of AnyHints and AnyStore are of its types.
LEMMA LoopAssumptions ==
  /\ LoopFacts!IsFiniteSet(Peer) /\ LoopFacts!IsFiniteSet(Addr)
  /\ Peer \subseteq Peer
  /\ Undialable \subseteq Addr
  /\ BootstrapList \in Seq([peer : Peer, addr : Addr])
  /\ \A h \in AnyHints :
       DOMAIN h \subseteq Peer /\ \A p \in DOMAIN h : h[p] \subseteq Addr
  /\ \A store \in AnyStore : \A p \in DOMAIN store :
       p \in Peer /\ store[p].addrs \in Seq(Addr)
  /\ LowWater \in Nat /\ MaxPreferredDials \in Nat
  /\ Interval \in Nat \ {0} /\ DialTimeout \in Nat \ {0}
<1>1. LoopFacts!IsFiniteSet(Peer) /\ LoopFacts!IsFiniteSet(Addr)
  BY EventLoopAssumption, NodeAssumption DEF IsFiniteSet, LoopFacts!IsFiniteSet
<1>2. ASSUME NEW h \in AnyHints
      PROVE  DOMAIN h \subseteq Peer /\ \A p \in DOMAIN h : h[p] \subseteq Addr
  <2>1. CASE h = [p \in {} |-> {}]
    BY <2>1
  <2>2. ASSUME NEW list \in PreferredList, h = HintsOf(Accepted(list))
        PROVE  DOMAIN h \subseteq Peer /\ \A p \in DOMAIN h : h[p] \subseteq Addr
    BY <2>2, AcceptedLemma, HintsLemma
  <2>3. QED
    BY <2>1, <2>2 DEF AnyHints
<1>3. ASSUME NEW store \in AnyStore, NEW p \in DOMAIN store
      PROVE  p \in Peer /\ store[p].addrs \in Seq(Addr)
  BY MaxAddrsAssumption DEF AnyStore
<1>4. QED
  BY <1>1, <1>2, <1>3, NodeAssumption DEF ValidConfig

\* In the node, too, a tick dials no more peers than the caps allow: whatever
\* the event loop answers, records and forgets while the tick runs.
THEOREM NodeTicksBounded == NodeSpec => []Loop!DialsPerTickBounded
<1>1. LoopFacts!Spec => []LoopFacts!DialsPerTickBounded
  <2>1. /\ BackoffBase \in Nat \ {0}
        /\ BackoffCap \in Nat /\ BackoffBase <= BackoffCap
        /\ MaxFailures \in Nat \ {0}
        /\ BackoffBase * 2^(MaxFailures - 1) >= BackoffCap
    BY NodeAssumption
  <2>2. QED
    BY <2>1, LoopAssumptions, MaxAddrsAssumption, LoopFacts!TicksBounded
<1>2. LoopFacts!DialsPerTickBounded => Loop!DialsPerTickBounded
  BY DEF LoopFacts!DialsPerTickBounded, Loop!DialsPerTickBounded,
         LoopFacts!BootstrapPeers, Loop!BootstrapPeers,
         LoopFacts!Cardinality, Loop!Cardinality
<1>3. Loop!Spec => LoopFacts!Spec
  BY SameInit, SameStep, PTL DEF Loop!Spec, LoopFacts!Spec
<1>4. QED
  BY <1>1, <1>2, <1>3, MaintenanceImplemented, PTL DEF ImplementsMaintenance
=============================================================================
