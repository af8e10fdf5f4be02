------------------------------ MODULE MCPubSub ------------------------------
(***************************************************************************)
(* An instance of PubSub for TLC: a stream on each of two topics and a     *)
(* publish of the same payload on both, with echo; another payload comes   *)
(* from the network only.                                                  *)
(***************************************************************************)
EXTENDS PubSub, TLC

CONSTANTS t1, t2, m1, m2, s1, s2, r1, r2

MCStreamTopic    == (s1 :> t1) @@ (s2 :> t2)
MCRequestTopic   == (r1 :> t1) @@ (r2 :> t2)
MCRequestPayload == (r1 :> m1) @@ (r2 :> m1)
MCRequestEcho    == (r1 :> TRUE) @@ (r2 :> TRUE)
=============================================================================
