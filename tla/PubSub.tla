------------------------------- MODULE PubSub -------------------------------
(***************************************************************************)
(* From gossipsub to the gRPC streams: the fan-out registry of             *)
(* src/subscriptions.rs, the Subscribe and Publish calls of src/grpc.rs,   *)
(* and the event loop's part of them in src/p2p/network.rs.                *)
(*                                                                         *)
(* Three kinds of tasks interleave: the event loop (one command or one     *)
(* gossip message at a time), the Publish handlers, and the streams.  A    *)
(* topic's broadcast channel (tokio, external) is the log of everything    *)
(* that was ever sent on it, of which only the last Capacity entries can   *)
(* still be read; a receiver is a position in the log.  A client may       *)
(* cancel a call at any await, and the event loop may end.                 *)
(***************************************************************************)
EXTENDS Naturals, Sequences

CONSTANTS
  Topic,
  Payload,       \* message contents; the gossip message id is their hash
  Stream,        \* gRPC Subscribe calls
  StreamTopic,   \* the topic of each of them
  Request,       \* gRPC Publish requests
  RequestTopic, RequestPayload, RequestEcho,
  StartTopics,   \* the configured topics that the node joins at startup
  Capacity       \* slots of a broadcast channel

ASSUME PubSubAssumption ==
  /\ StreamTopic \in [Stream -> Topic]
  /\ RequestTopic \in [Request -> Topic]
  /\ RequestPayload \in [Request -> Payload]
  /\ RequestEcho \in [Request -> BOOLEAN]
  /\ StartTopics \subseteq Topic
  /\ Capacity \in Nat \ {0}

VARIABLES
  stream,     \* "off", "receiver" (created), "joined" (topic too) or "open"
  next,       \* a stream's position: the number of log entries behind it
  log,        \* topic -> the payloads sent on its broadcast channel
  joined,     \* topics that the swarm is subscribed to
  seen,       \* the gossip duplicate cache
  request,    \* where each Publish request stands
  forsaken,   \* topics of the Subscribe commands whose caller went away
  running,    \* the event loop runs
  start,      \* history: the position at which the stream's receiver began
  owed,       \* history: messages for the topic since the stream joined it
  lonely      \* history: payloads published when no peer was there to get them

streamVars  == <<stream, next, start, owed>>
gossipVars  == <<joined, seen, lonely>>
loopVars    == <<forsaken, running>>
vars == <<streamVars, gossipVars, log, request, loopVars>>

\* What gossipsub answered, before the handler goes on.
Answered == {"published", "no_peers", "duplicate"}

\* "ok" and "error" are the RPC's results, a cancelled call among the latter;
\* "forsaken" is a cancelled call whose command is still queued.
RequestState ==
  {"idle", "sent", "forsaken", "ok", "error"} \cup Answered
StreamState == {"off", "receiver", "joined", "open"}

Init ==
  /\ stream = [s \in Stream |-> "off"]
  /\ next = [s \in Stream |-> 0]
  /\ log = [t \in Topic |-> <<>>]
  /\ joined = StartTopics
  /\ seen = {}
  /\ request = [r \in Request |-> "idle"]
  /\ forsaken = {}
  /\ running = TRUE
  /\ start = [s \in Stream |-> 0]
  /\ owed = [s \in Stream |-> 0]
  /\ lonely = {}

-----------------------------------------------------------------------------
(***************************************************************************)
(* Subscriptions: the per-topic fan-out                                    *)
(***************************************************************************)

\* Mutant: the stream gets its receiver only after it joined the topic.
HasReceiverLate(s) == stream[s] = "open"

\* The receiver lives from the start of the Subscribe call.
HasReceiver(s) == stream[s] # "off"

Receivers(t) == {s \in Stream : StreamTopic[s] = t /\ HasReceiver(s)}

\* Subscriptions::publish: without a channel, or without a receiver on it, the
\* message goes nowhere.
Fanout(t, m) ==
  /\ log' = IF Receivers(t) = {} THEN log
            ELSE [log EXCEPT ![t] = Append(@, m)]
  /\ owed' = [s \in Stream |->
                IF StreamTopic[s] = t /\ stream[s] \in {"joined", "open"}
                THEN owed[s] + 1 ELSE owed[s]]

(***************************************************************************)
(* The Subscribe call and its stream                                       *)
(***************************************************************************)

\* A new receiver starts at the end of its channel.
NewReceiver(s) ==
  /\ stream[s] = "off"
  /\ stream' = [stream EXCEPT ![s] = "receiver"]
  /\ next' = [next EXCEPT ![s] = Len(log[StreamTopic[s]])]
  /\ start' = [start EXCEPT ![s] = Len(log[StreamTopic[s]])]
  /\ UNCHANGED <<owed, gossipVars, log, request, loopVars>>

\* The event loop handles Command::Subscribe.
JoinTopic(s) ==
  /\ running
  /\ stream[s] = "receiver"
  /\ stream' = [stream EXCEPT ![s] = "joined"]
  /\ joined' = joined \cup {StreamTopic[s]}
  /\ UNCHANGED <<next, start, owed, seen, lonely, log, request, loopVars>>

\* The same for a caller that went away in the meantime.
JoinForsaken(t) ==
  /\ running
  /\ t \in forsaken
  /\ forsaken' = forsaken \ {t}
  /\ joined' = joined \cup {t}
  /\ UNCHANGED <<streamVars, seen, lonely, log, request, running>>

\* The response is returned and the stream can be polled.
OpenStream(s) ==
  /\ stream[s] = "joined"
  /\ stream' = [stream EXCEPT ![s] = "open"]
  /\ UNCHANGED <<next, start, owed, gossipVars, log, request, loopVars>>

Backlog(s) == Len(log[StreamTopic[s]]) - next[s]

\* receiver.recv() yields the next envelope.
Deliver(s) ==
  /\ stream[s] = "open"
  /\ Backlog(s) \in 1..Capacity
  /\ next' = [next EXCEPT ![s] = @ + 1]
  /\ UNCHANGED <<stream, start, owed, gossipVars, log, request, loopVars>>

\* receiver.recv() reports Lagged(n) and moves on to the oldest entry left.  (What
\* the stream does about it, a log line and a metric, is left out.)
Lag(s) ==
  /\ stream[s] = "open"
  /\ Backlog(s) > Capacity
  /\ next' = [next EXCEPT ![s] = Len(log[StreamTopic[s]]) - Capacity]
  /\ UNCHANGED <<stream, start, owed, gossipVars, log, request, loopVars>>

DropReceiver(s) ==
  /\ stream' = [stream EXCEPT ![s] = "off"]
  /\ next' = [next EXCEPT ![s] = 0]
  /\ start' = [start EXCEPT ![s] = 0]
  /\ owed' = [owed EXCEPT ![s] = 0]
  /\ UNCHANGED <<gossipVars, log, request, running>>

\* The event loop is gone, or gossipsub refuses to join: the call is answered
\* with INTERNAL.
SubscribeFails(s) ==
  /\ stream[s] = "receiver"
  /\ DropReceiver(s)
  /\ UNCHANGED forsaken

\* The client goes away.  A command that the loop has not handled yet stays.
CloseStream(s) ==
  /\ stream[s] # "off"
  /\ DropReceiver(s)
  /\ forsaken' = IF stream[s] = "receiver" /\ running
                 THEN forsaken \cup {StreamTopic[s]} ELSE forsaken

-----------------------------------------------------------------------------
(***************************************************************************)
(* Messages from the network                                               *)
(***************************************************************************)

\* Gossipsub hands a message of a joined topic to the loop unless its id, the
\* hash of the payload alone, is in the duplicate cache (external).
GossipMessage(t, m) ==
  /\ running
  /\ t \in joined
  /\ m \notin seen
  /\ seen' = seen \cup {m}
  /\ Fanout(t, m)
  /\ UNCHANGED <<stream, next, start, joined, lonely, request, loopVars>>

(***************************************************************************)
(* The Publish call                                                        *)
(***************************************************************************)

\* Without an event loop the command cannot be sent, which is INTERNAL.  (A call
\* with an empty topic is refused before it gets here.)
SendPublish(r) ==
  /\ request[r] = "idle"
  /\ request' = [request EXCEPT
                   ![r] = IF running THEN "sent" ELSE "error"]
  /\ UNCHANGED <<streamVars, gossipVars, log, loopVars>>

\* The client cancels the call and the handler is dropped at its await.
CancelPublish(r) ==
  /\ request[r] \in {"sent"} \cup Answered
  /\ request' = [request EXCEPT
                   ![r] = IF request[r] = "sent" THEN "forsaken" ELSE "error"]
  /\ UNCHANGED <<streamVars, gossipVars, log, loopVars>>

\* The answer reaches the handler if there still is one.
AnswerPublish(r, reply) ==
  request' = [request EXCEPT
                ![r] = IF request[r] = "sent" THEN reply ELSE "error"]

\* The event loop handles Command::PublishMessage.  gossipsub.publish refuses a
\* payload that is in the duplicate cache and enters there only what it could
\* send to somebody (external).
HandlePublish(r) ==
  LET m == RequestPayload[r]
  IN  /\ running
      /\ request[r] \in {"sent", "forsaken"}
      /\ \/ /\ m \in seen
            /\ AnswerPublish(r, "duplicate")
            /\ UNCHANGED <<seen, lonely>>
         \/ /\ m \notin seen
            /\ AnswerPublish(r, "no_peers")
            /\ lonely' = lonely \cup {m}
            /\ UNCHANGED seen
         \/ /\ m \notin seen
            /\ AnswerPublish(r, "published")
            /\ seen' = seen \cup {m}
            /\ UNCHANGED lonely
      /\ UNCHANGED <<streamVars, joined, log, loopVars>>

\* Mutant: an echo is delivered although gossipsub refused the message.
EchoesAlways(r) == RequestEcho[r]

\* Any error but "no peers" returns before the echo.
Echoes(r) == RequestEcho[r] /\ request[r] # "duplicate"

\* The handler has its answer: it echoes if asked to, and returns.
FinishPublish(r) ==
  /\ request[r] \in Answered
  /\ request' = [request EXCEPT
                   ![r] = IF request[r] = "duplicate" THEN "error" ELSE "ok"]
  /\ IF Echoes(r) THEN Fanout(RequestTopic[r], RequestPayload[r])
                  ELSE UNCHANGED <<log, owed>>
  /\ UNCHANGED <<stream, next, start, gossipVars, loopVars>>

\* The event loop's task ends: the queued commands are dropped with their
\* senders, and the handlers that wait get ChannelClosed.
LoopEnds ==
  /\ running
  /\ running' = FALSE
  /\ forsaken' = {}
  /\ request' = [r \in Request |->
                   IF request[r] \in {"sent", "forsaken"} THEN "error"
                                                          ELSE request[r]]
  /\ UNCHANGED <<streamVars, gossipVars, log>>

-----------------------------------------------------------------------------
Next ==
  \/ \E s \in Stream : NewReceiver(s)
  \/ \E s \in Stream : JoinTopic(s)
  \/ \E s \in Stream : OpenStream(s)
  \/ \E s \in Stream : Deliver(s)
  \/ \E s \in Stream : Lag(s)
  \/ \E s \in Stream : SubscribeFails(s)
  \/ \E s \in Stream : CloseStream(s)
  \/ \E t \in Topic : JoinForsaken(t)
  \/ \E t \in Topic, m \in Payload : GossipMessage(t, m)
  \/ \E r \in Request : SendPublish(r)
  \/ \E r \in Request : CancelPublish(r)
  \/ \E r \in Request : HandlePublish(r)
  \/ \E r \in Request : FinishPublish(r)
  \/ LoopEnds

Spec == Init /\ [][Next]_vars

-----------------------------------------------------------------------------
(***************************************************************************)
(* Properties                                                              *)
(***************************************************************************)

\* Every message on a stream's topic that the loop fans out, or a handler
\* echoes, once the stream has joined the topic was put in the channel behind
\* the stream's receiver: nothing falls between joining and receiving, also
\* when the response of the call is still on its way.
NothingMissedAfterJoin ==
  \A s \in Stream : stream[s] \in {"joined", "open"} =>
    Len(log[StreamTopic[s]]) - start[s] >= owed[s]

\* A payload that no handler echoed for want of peers shows up at most once on all
\* channels: the duplicate cache, the error path of Publish and the echo agree in
\* every order of the local publish, its echo and the copy from the network.  As
\* the message id is that of the payload, this goes for all topics together.
OneDeliveryPerPayload ==
  \A m \in Payload \ lonely :
    \A t, u \in Topic : \A i \in 1..Len(log[t]), j \in 1..Len(log[u]) :
      log[t][i] = m /\ log[u][j] = m => t = u /\ i = j
=============================================================================
