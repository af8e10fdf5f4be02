----------------------------- MODULE DialService -----------------------------
(***************************************************************************)
(* What P2PClient::dial_and_wait promises its callers, the Dial RPC among  *)
(* them, apart from how the event loop keeps that promise: a question gets *)
(* at most one answer, OK only at a moment at which the peer is connected, *)
(* INTERNAL only once the service is down, and a dial failure only to      *)
(* those who asked for that peer.  The answers are gRPC statuses.          *)
(***************************************************************************)
CONSTANTS Peer, Call, Callee

VARIABLES up,      \* the connected peers
          asked,   \* the callers that wait for an answer
          answer,  \* the answer that a caller has not collected, or "none"
          alive    \* the service runs

vars == <<up, asked, answer, alive>>

Init ==
  /\ up = {}
  /\ asked = {}
  /\ answer = [k \in Call |-> "none"]
  /\ alive = TRUE

Ask(k) ==
  /\ k \notin asked /\ answer[k] = "none"
  /\ IF alive THEN asked' = asked \cup {k} /\ UNCHANGED answer
              ELSE answer' = [answer EXCEPT ![k] = "INTERNAL"]
                   /\ UNCHANGED asked
  /\ UNCHANGED <<up, alive>>

GiveUp(k) ==
  /\ k \in asked
  /\ asked' = asked \ {k}
  /\ UNCHANGED <<up, answer, alive>>

Collect(k) ==
  /\ answer[k] # "none"
  /\ answer' = [answer EXCEPT ![k] = "none"]
  /\ UNCHANGED <<up, asked, alive>>

\* All of K get the same answer and stop waiting.
Tell(K, reply) ==
  /\ K \subseteq asked
  /\ asked' = asked \ K
  /\ answer' = [k \in Call |-> IF k \in K THEN reply ELSE answer[k]]

\* The peer is connected, from now on or already, and some who asked learn it.
Connected(p, K) ==
  /\ alive
  /\ up' = up \cup {p}
  /\ \A k \in K : Callee[k] = p
  /\ Tell(K, "OK")
  /\ UNCHANGED alive

Failed(p, K, failure) ==
  /\ alive
  /\ \A k \in K : Callee[k] = p
  /\ Tell(K, failure)
  /\ UNCHANGED <<up, alive>>

Disconnected(p) ==
  /\ alive
  /\ up' = up \ {p}
  /\ UNCHANGED <<asked, answer, alive>>

ShutDown ==
  /\ alive
  /\ alive' = FALSE
  /\ Tell(asked, "INTERNAL")
  /\ UNCHANGED up

Next ==
  \/ \E k \in Call : Ask(k) \/ GiveUp(k) \/ Collect(k)
  \/ \E p \in Peer, K \in SUBSET Call :
       \/ Connected(p, K)
       \/ \E failure \in {"FAILED_PRECONDITION", "NOT_FOUND"} : Failed(p, K, failure)
  \/ \E p \in Peer : Disconnected(p)
  \/ ShutDown

Spec == Init /\ [][Next]_vars
=============================================================================
