----------------------------- MODULE PubSubProofs -----------------------------
(***************************************************************************)
(* Theorems about PubSub, for any topics, payloads, streams, requests and  *)
(* buffer capacity.                                                        *)
(***************************************************************************)
EXTENDS PubSub, TLAPS

\* The inductive invariant has three parts.  Types:
TypeInv ==
  /\ stream \in [Stream -> StreamState]
  /\ next \in [Stream -> Nat] /\ start \in [Stream -> Nat] /\ owed \in [Stream -> Nat]
  /\ log \in [Topic -> Seq(Payload)]
  /\ seen \subseteq Payload /\ lonely \subseteq Payload
  /\ request \in [Request -> RequestState]

\* What a stream is owed lies between its receiver's start and the end of the
\* channel, and a stream that has not joined its topic is owed nothing.
OwedInv ==
  \A s \in Stream :
    /\ start[s] + owed[s] <= Len(log[StreamTopic[s]])
    /\ stream[s] \notin {"joined", "open"} => owed[s] = 0

\* A payload is on some channel.
Fanned(m) == \E t \in Topic : \E i \in 1..Len(log[t]) : log[t][i] = m

\* It is there once.
Once(m) ==
  \A t, u \in Topic : \A i \in 1..Len(log[t]), j \in 1..Len(log[u]) :
    log[t][i] = m /\ log[u][j] = m => t = u /\ i = j

\* The request whose handler has published m, but has not echoed it yet.
EchoPending(m) ==
  \E r \in Request : RequestPayload[r] = m /\ request[r] = "published"

\* A payload that the duplicate cache does not know, or whose echo is still to
\* come, is on no channel.
DeliveryInv ==
  /\ \A r \in Request :
       /\ request[r] = "published" => RequestPayload[r] \in seen
       /\ request[r] = "no_peers" => RequestPayload[r] \in lonely
  /\ \A q, r \in Request :
       /\ request[q] = "published" /\ request[r] = "published"
       /\ RequestPayload[q] = RequestPayload[r]
       => q = r
  /\ \A m \in Payload \ lonely :
       m \notin seen \/ EchoPending(m) => ~Fanned(m)
  /\ \A m \in Payload \ lonely : Once(m)

PubSubInv == TypeInv /\ OwedInv /\ DeliveryInv

LEMMA InitPubSubInv == Init => PubSubInv
<1> SUFFICES ASSUME Init PROVE PubSubInv
  OBVIOUS
<1> USE PubSubAssumption DEF Init
<1>1. TypeInv
  BY DEF TypeInv, StreamState, RequestState
<1>2. OwedInv
  BY DEF OwedInv
<1>3. DeliveryInv
  BY DEF DeliveryInv, Fanned, EchoPending, Once
<1>4. QED
  BY <1>1, <1>2, <1>3 DEF PubSubInv

-----------------------------------------------------------------------------
(***************************************************************************)
(* What Subscriptions::publish does to the channels                        *)
(***************************************************************************)

\* The message is appended to its topic's channel if somebody receives there,
\* and nothing else happens to the channels.
LEMMA FanoutLog ==
  ASSUME TypeInv, NEW t \in Topic, NEW m \in Payload, Fanout(t, m)
  PROVE  /\ log' \in [Topic -> Seq(Payload)]
         /\ \A u \in Topic : u # t => log'[u] = log[u]
         /\ IF Receivers(t) = {} THEN log'[t] = log[t]
                                 ELSE log'[t] = Append(log[t], m)
  BY DEF TypeInv, Fanout

LEMMA FanoutOwed ==
  ASSUME TypeInv, OwedInv, NEW t \in Topic, NEW m \in Payload, Fanout(t, m),
         UNCHANGED <<stream, start>>
  PROVE  owed' \in [Stream -> Nat] /\ OwedInv'
<1> USE PubSubAssumption
<1>1. owed' \in [Stream -> Nat]
  BY DEF TypeInv, Fanout
<1>2. ASSUME NEW s \in Stream
      PROVE  /\ start'[s] + owed'[s] <= Len(log'[StreamTopic[s]])
             /\ stream'[s] \notin {"joined", "open"} => owed'[s] = 0
  <2> DEFINE u == StreamTopic[s]
  <2>1. /\ u \in Topic /\ log[u] \in Seq(Payload)
        /\ start[s] \in Nat /\ owed[s] \in Nat
    BY DEF TypeInv
  <2>2. CASE u = t /\ stream[s] \in {"joined", "open"}
    <3>1. Receivers(t) # {}
      BY <2>2 DEF Receivers, HasReceiver
    <3>2. log'[u] = Append(log[u], m)
      BY <2>2, <3>1, FanoutLog
    <3>3. Len(log'[u]) = Len(log[u]) + 1
      BY <2>1, <3>2
    <3>4. owed'[s] = owed[s] + 1
      BY <2>2 DEF Fanout
    <3>5. QED
      BY <2>1, <2>2, <3>3, <3>4 DEF OwedInv
  <2>3. CASE ~(u = t /\ stream[s] \in {"joined", "open"})
    <3>1. owed'[s] = owed[s]
      BY <2>3 DEF Fanout
    <3>2. Len(log'[u]) >= Len(log[u])
      <4>1. log'[u] = log[u] \/ log'[u] = Append(log[u], m)
        BY <2>1, FanoutLog
      <4>2. QED
        BY <2>1, <4>1
    <3>3. /\ start[s] + owed[s] <= Len(log[u])
          /\ stream[s] \notin {"joined", "open"} => owed[s] = 0
      BY DEF OwedInv
    <3>4. Len(log[u]) \in Nat /\ Len(log'[u]) \in Nat
      BY <2>1, FanoutLog
    <3>5. QED
      BY <2>1, <3>1, <3>2, <3>3, <3>4
  <2>4. QED
    BY <2>2, <2>3
<1>3. QED
  BY <1>1, <1>2 DEF OwedInv

\* An entry after a fan-out is an old one or the new message at the end of its
\* channel.
LEMMA FanoutEntry ==
  ASSUME TypeInv, NEW t \in Topic, NEW m \in Payload, Fanout(t, m),
         NEW u \in Topic, NEW i \in 1..Len(log'[u])
  PROVE  \/ i \in 1..Len(log[u]) /\ log'[u][i] = log[u][i]
         \/ u = t /\ i = Len(log[t]) + 1 /\ log'[u][i] = m
<1>1. log[u] \in Seq(Payload)
  BY DEF TypeInv
<1>2. log'[u] = log[u] \/ (u = t /\ log'[u] = Append(log[u], m))
  BY FanoutLog
<1>3. QED
  BY <1>1, <1>2

\* A fan-out puts no other message on a channel, and keeps what is there once.
LEMMA FanoutOther ==
  ASSUME TypeInv, NEW t \in Topic, NEW m \in Payload, Fanout(t, m),
         NEW n \in Payload, n # m
  PROVE  /\ ~Fanned(n) => ~Fanned(n)'
         /\ Once(n) => Once(n)'
<1>1. \A u \in Topic : \A i \in 1..Len(log'[u]) :
        log'[u][i] = n => i \in 1..Len(log[u]) /\ log[u][i] = n
  BY FanoutEntry
<1>2. ~Fanned(n) => ~Fanned(n)'
  BY <1>1 DEF Fanned
<1>3. Once(n) => Once(n)'
  BY <1>1 DEF Once
<1>4. QED
  BY <1>2, <1>3

\* A message that was on no channel is there once afterwards.
LEMMA FanoutFirst ==
  ASSUME TypeInv, NEW t \in Topic, NEW m \in Payload, Fanout(t, m), ~Fanned(m)
  PROVE  Once(m)'
<1>1. \A u \in Topic : \A i \in 1..Len(log'[u]) :
        log'[u][i] = m => u = t /\ i = Len(log[t]) + 1
  BY FanoutEntry DEF Fanned
<1>2. QED
  BY <1>1 DEF Once

-----------------------------------------------------------------------------
(***************************************************************************)
(* The steps                                                               *)
(***************************************************************************)

\* The steps that leave the channels, the cache and the requests alone.
LEMMA DeliveryUndisturbed ==
  ASSUME DeliveryInv, UNCHANGED <<log, seen, request, lonely>>
  PROVE  DeliveryInv'
  BY DEF DeliveryInv, Fanned, EchoPending, Once

LEMMA StreamSteps ==
  ASSUME PubSubInv, NEW s \in Stream,
         \/ NewReceiver(s) \/ JoinTopic(s) \/ OpenStream(s) \/ Deliver(s)
         \/ Lag(s) \/ SubscribeFails(s) \/ CloseStream(s)
  PROVE  PubSubInv'
<1> USE PubSubAssumption DEF PubSubInv
<1>1. UNCHANGED <<log, seen, request, lonely>>
  BY DEF NewReceiver, JoinTopic, OpenStream, Deliver, Lag, SubscribeFails,
         CloseStream, DropReceiver, gossipVars
<1>2. DeliveryInv'
  BY <1>1, DeliveryUndisturbed
<1>3. /\ log[StreamTopic[s]] \in Seq(Payload)
      /\ Len(log[StreamTopic[s]]) \in Nat
  BY DEF TypeInv
<1>4. CASE NewReceiver(s)
  BY <1>1, <1>2, <1>3, <1>4 DEF NewReceiver, TypeInv, OwedInv, StreamState
<1>5. CASE JoinTopic(s) \/ OpenStream(s)
  BY <1>1, <1>2, <1>5
     DEF JoinTopic, OpenStream, TypeInv, OwedInv, StreamState
<1>6. CASE Deliver(s) \/ Lag(s)
  <2> DEFINE l == Len(log[StreamTopic[s]])
  <2>1. l \in Nat /\ next[s] \in Nat /\ Capacity \in Nat
    BY <1>3 DEF TypeInv
  <2>2. Deliver(s) => next' \in [Stream -> Nat]
    BY <2>1 DEF Deliver, TypeInv
  <2>3. ASSUME Lag(s)
        PROVE  next' \in [Stream -> Nat]
    <3>1. l - next[s] > Capacity
      BY <2>3 DEF Lag, Backlog
    <3>2. l - Capacity \in Nat
      BY <2>1, <3>1
    <3>3. QED
      BY <2>3, <3>2 DEF Lag, TypeInv
  <2>4. next' \in [Stream -> Nat]
    BY <1>6, <2>2, <2>3
  <2>5. QED
    BY <1>1, <1>2, <1>6, <2>4 DEF Deliver, Lag, TypeInv, OwedInv
<1>7. CASE SubscribeFails(s) \/ CloseStream(s)
  <2>1. DropReceiver(s)
    BY <1>7 DEF SubscribeFails, CloseStream
  <2>2. TypeInv'
    BY <1>1, <2>1 DEF DropReceiver, TypeInv, StreamState
  <2>3. OwedInv'
    <3>1. SUFFICES ASSUME NEW u \in Stream
                   PROVE  /\ start'[u] + owed'[u] <= Len(log'[StreamTopic[u]])
                          /\ stream'[u] \notin {"joined", "open"} => owed'[u] = 0
      BY DEF OwedInv
    <3>2. CASE u = s
      BY <1>1, <1>3, <2>1, <3>2 DEF DropReceiver, TypeInv
    <3>3. CASE u # s
      BY <1>1, <2>1, <3>3 DEF DropReceiver, TypeInv, OwedInv
    <3>4. QED
      BY <3>2, <3>3
  <2>4. QED
    BY <1>2, <2>2, <2>3
<1>8. QED
  BY <1>4, <1>5, <1>6, <1>7

LEMMA GossipStep ==
  ASSUME PubSubInv, NEW t \in Topic, NEW m \in Payload, GossipMessage(t, m)
  PROVE  PubSubInv'
<1> USE DEF PubSubInv, GossipMessage
<1>1. TypeInv' /\ OwedInv'
  BY FanoutLog, FanoutOwed DEF TypeInv, loopVars
<1>2. \A n \in Payload : EchoPending(n)' <=> EchoPending(n)
  BY DEF EchoPending
<1>3. ASSUME NEW n \in Payload \ lonely
      PROVE  /\ n \notin seen' \/ EchoPending(n)' => ~Fanned(n)'
             /\ Once(n)'
  <2>1. /\ n \notin seen \/ EchoPending(n) => ~Fanned(n)
        /\ Once(n)
    BY DEF DeliveryInv
  <2>2. CASE n = m
    <3>1. ~EchoPending(m)
      BY DEF DeliveryInv, EchoPending
    <3>2. Once(m)'
      BY <2>1, <2>2, FanoutFirst
    <3>3. QED
      BY <1>2, <2>2, <3>1, <3>2
  <2>3. CASE n # m
    BY <1>2, <2>1, <2>3, FanoutOther
  <2>4. QED
    BY <2>2, <2>3
<1>4. DeliveryInv'
  BY <1>3 DEF DeliveryInv
<1>5. QED
  BY <1>1, <1>4

\* The steps of a request that put nothing on a channel.
LEMMA RequestSteps ==
  ASSUME PubSubInv, NEW r \in Request,
         SendPublish(r) \/ CancelPublish(r) \/ HandlePublish(r)
  PROVE  PubSubInv'
<1> USE PubSubAssumption DEF PubSubInv
<1> DEFINE m == RequestPayload[r]
<1>1. UNCHANGED <<stream, next, start, owed, log>>
  BY DEF SendPublish, CancelPublish, HandlePublish, streamVars
<1>2. m \in Payload
  OBVIOUS
<1>3. CASE SendPublish(r) \/ CancelPublish(r)
  <2>1. /\ UNCHANGED <<seen, lonely>>
        /\ request'[r] \in {"sent", "forsaken", "error"}
        /\ \A q \in Request : q # r => request'[q] = request[q]
        /\ request' \in [Request -> RequestState]
    BY <1>3 DEF SendPublish, CancelPublish, gossipVars, TypeInv, RequestState
  <2>2. \A n \in Payload : EchoPending(n)' => EchoPending(n)
    BY <2>1 DEF EchoPending
  <2>3. \A n : (Fanned(n)' <=> Fanned(n)) /\ (Once(n)' <=> Once(n))
    BY <1>1 DEF Fanned, Once
  <2>4. \A q, p \in Request :
          /\ request'[q] = "published" => RequestPayload[q] \in seen'
          /\ request'[q] = "no_peers" => RequestPayload[q] \in lonely'
          /\ /\ request'[q] = "published" /\ request'[p] = "published"
             /\ RequestPayload[q] = RequestPayload[p]
             => q = p
    BY <2>1 DEF DeliveryInv
  <2>5. DeliveryInv'
    BY <2>1, <2>2, <2>3, <2>4 DEF DeliveryInv
  <2>6. QED
    BY <1>1, <2>1, <2>5 DEF TypeInv, OwedInv
<1>4. CASE HandlePublish(r)
  <2>1. /\ \A q \in Request : q # r => request'[q] = request[q]
        /\ request' \in [Request -> RequestState]
        /\ seen \subseteq seen' /\ lonely \subseteq lonely'
        /\ seen' \subseteq seen \cup {m} /\ lonely' \subseteq lonely \cup {m}
    BY <1>4 DEF HandlePublish, AnswerPublish, TypeInv, RequestState, Answered
  <2>2. \/ request'[r] \in {"duplicate", "error"}
        \/ request'[r] = "no_peers" /\ m \in lonely'
        \/ request'[r] = "published" /\ m \notin seen /\ m \in seen'
    BY <1>4 DEF HandlePublish, AnswerPublish, TypeInv
  <2>3. TypeInv' /\ OwedInv'
    BY <1>1, <1>2, <2>1 DEF TypeInv, OwedInv
  <2>4. \A q \in Request :
          /\ request'[q] = "published" => RequestPayload[q] \in seen'
          /\ request'[q] = "no_peers" => RequestPayload[q] \in lonely'
    BY <2>1, <2>2 DEF DeliveryInv
  <2>5. \A p, q \in Request :
          /\ request'[p] = "published" /\ request'[q] = "published"
          /\ RequestPayload[p] = RequestPayload[q]
          => p = q
    BY <2>1, <2>2 DEF DeliveryInv
  <2>6. ASSUME NEW n \in Payload \ lonely'
        PROVE  /\ n \notin seen' \/ EchoPending(n)' => ~Fanned(n)'
               /\ Once(n)'
    <3>1. n \notin lonely
      BY <2>1
    <3>2. EchoPending(n)' => EchoPending(n) \/ n \notin seen
      BY <2>1, <2>2 DEF EchoPending
    <3>3. (n \notin seen \/ EchoPending(n) => ~Fanned(n)) /\ Once(n)
      BY <3>1 DEF DeliveryInv
    <3>4. (Fanned(n)' <=> Fanned(n)) /\ (Once(n)' <=> Once(n))
      BY <1>1 DEF Fanned, Once
    <3>5. QED
      BY <2>1, <3>2, <3>3, <3>4
  <2>7. DeliveryInv'
    BY <2>4, <2>5, <2>6 DEF DeliveryInv
  <2>8. QED
    BY <2>3, <2>7
<1>5. QED
  BY <1>3, <1>4

LEMMA EchoStep ==
  ASSUME PubSubInv, NEW r \in Request, FinishPublish(r)
  PROVE  PubSubInv'
<1> USE PubSubAssumption DEF PubSubInv
<1> DEFINE m == RequestPayload[r]
           t == RequestTopic[r]
<1>1. /\ m \in Payload /\ t \in Topic
      /\ UNCHANGED <<stream, next, start, seen, lonely>>
  BY DEF FinishPublish, gossipVars
<1>2. /\ request'[r] \in {"ok", "error"}
      /\ \A q \in Request : q # r => request'[q] = request[q]
      /\ request' \in [Request -> RequestState]
  BY DEF FinishPublish, TypeInv, RequestState
<1>3. \/ request[r] \in {"published", "no_peers"} /\ Fanout(t, m)
      \/ UNCHANGED <<log, owed>>
  BY DEF FinishPublish, Echoes, Answered
<1>4. \A n \in Payload : EchoPending(n)' => EchoPending(n)
  BY <1>2 DEF EchoPending
<1>5. \A q, p \in Request :
        /\ request'[q] = "published" => RequestPayload[q] \in seen'
        /\ request'[q] = "no_peers" => RequestPayload[q] \in lonely'
        /\ /\ request'[q] = "published" /\ request'[p] = "published"
           /\ RequestPayload[q] = RequestPayload[p]
           => q = p
  BY <1>1, <1>2 DEF DeliveryInv
<1>6. CASE UNCHANGED <<log, owed>>
  <2>1. TypeInv' /\ OwedInv'
    BY <1>1, <1>2, <1>6 DEF TypeInv, OwedInv
  <2>2. \A n \in Payload : (Fanned(n)' <=> Fanned(n)) /\ (Once(n)' <=> Once(n))
    BY <1>6 DEF Fanned, Once
  <2>3. DeliveryInv'
    BY <1>1, <1>4, <1>5, <2>2 DEF DeliveryInv
  <2>4. QED
    BY <2>1, <2>3
<1>7. CASE request[r] \in {"published", "no_peers"} /\ Fanout(t, m)
  <2>1. TypeInv' /\ OwedInv'
    BY <1>1, <1>2, <1>7, FanoutLog, FanoutOwed DEF TypeInv
  <2>2. ASSUME NEW n \in Payload \ lonely
        PROVE  /\ n \notin seen \/ EchoPending(n)' => ~Fanned(n)'
               /\ Once(n)'
    <3>1. (n \notin seen \/ EchoPending(n) => ~Fanned(n)) /\ Once(n)
      BY DEF DeliveryInv
    <3>2. CASE n = m
      <4>1. request[r] = "published" /\ m \in seen
        BY <1>7, <3>2 DEF DeliveryInv
      <4>2. EchoPending(m)
        BY <4>1 DEF EchoPending
      <4>3. ~EchoPending(m)'
        BY <1>2, <4>1 DEF EchoPending, DeliveryInv
      <4>4. Once(m)'
        BY <1>1, <1>7, <3>1, <3>2, <4>2, FanoutFirst
      <4>5. QED
        BY <3>2, <4>1, <4>3, <4>4
    <3>3. CASE n # m
      BY <1>1, <1>4, <1>7, <3>1, <3>3, FanoutOther
    <3>4. QED
      BY <3>2, <3>3
  <2>3. DeliveryInv'
    BY <1>1, <1>5, <2>2 DEF DeliveryInv
  <2>4. QED
    BY <2>1, <2>3
<1>8. QED
  BY <1>3, <1>6, <1>7

LEMMA StepPubSubInv ==
  ASSUME PubSubInv, [Next]_vars
  PROVE  PubSubInv'
<1>1. CASE \E t \in Topic : JoinForsaken(t)
  <2>1. UNCHANGED <<streamVars, log, request, seen, lonely>>
    BY <1>1 DEF JoinForsaken
  <2>2. QED
    BY <2>1, DeliveryUndisturbed DEF PubSubInv, TypeInv, OwedInv, streamVars
<1>2. CASE LoopEnds
  <2>1. /\ UNCHANGED <<streamVars, log, seen, lonely>>
        /\ request' \in [Request -> RequestState]
        /\ \A r \in Request : request'[r] \in {request[r], "error"}
    BY <1>2 DEF LoopEnds, gossipVars, RequestState, PubSubInv, TypeInv
  <2>2. \A n \in Payload : EchoPending(n)' => EchoPending(n)
    BY <2>1 DEF EchoPending
  <2>3. DeliveryInv'
    BY <2>1, <2>2 DEF PubSubInv, DeliveryInv, Fanned, Once
  <2>4. QED
    BY <2>1, <2>3 DEF PubSubInv, TypeInv, OwedInv, streamVars
<1>3. CASE UNCHANGED vars
  BY <1>3, DeliveryUndisturbed
     DEF vars, streamVars, gossipVars, PubSubInv, TypeInv, OwedInv
<1>4. QED
  BY <1>1, <1>2, <1>3, StreamSteps, GossipStep, RequestSteps, EchoStep DEF Next

LEMMA PubSubInvariant == Spec => []PubSubInv
  BY InitPubSubInv, StepPubSubInv, PTL DEF Spec

\* Nothing that the loop fans out or a handler echoes after a stream joined its
\* topic is missing from the channel behind the stream's receiver.
THEOREM NothingIsMissed == Spec => []NothingMissedAfterJoin
<1>1. PubSubInv => NothingMissedAfterJoin
  <2> SUFFICES ASSUME PubSubInv, NEW s \in Stream
               PROVE  Len(log[StreamTopic[s]]) - start[s] >= owed[s]
    BY DEF NothingMissedAfterJoin
  <2>1. /\ log[StreamTopic[s]] \in Seq(Payload)
        /\ start[s] \in Nat /\ owed[s] \in Nat
    BY PubSubAssumption DEF PubSubInv, TypeInv
  <2>2. start[s] + owed[s] <= Len(log[StreamTopic[s]])
    BY DEF PubSubInv, OwedInv
  <2>3. QED
    BY <2>1, <2>2
<1>2. QED
  BY <1>1, PubSubInvariant, PTL

\* A payload that has reached the mesh is on the channels at most once, however
\* publishes, echoes, copies from the network and cancelled calls interleave.
THEOREM DeliveredOnce == Spec => []OneDeliveryPerPayload
<1>1. PubSubInv => OneDeliveryPerPayload
  BY DEF PubSubInv, DeliveryInv, Once, OneDeliveryPerPayload
<1>2. QED
  BY <1>1, PubSubInvariant, PTL
=============================================================================
