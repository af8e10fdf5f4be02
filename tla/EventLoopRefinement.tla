------------------------- MODULE EventLoopRefinement -------------------------
(***************************************************************************)
(* The event loop implements the dial service: an abstract caller waits    *)
(* while its command or its sender is in the loop's hands and it still     *)
(* holds the receiver.                                                     *)
(***************************************************************************)
EXTENDS EventLoop, Grpc

askedBar  == {k \in Call : call[k] \in {"sent", "waiting"}} \ gone
answerBar == [k \in Call |-> IF call[k] \in Reply THEN Status(call[k]) ELSE "none"]

DS == INSTANCE DialService
        WITH up <- {c.peer : c \in conns}, asked <- askedBar,
             answer <- answerBar, alive <- running

\* Every behaviour of the event loop is one of the dial service: each caller is
\* answered at most once and for the peer it named, OK only when that peer
\* has a connection, also when answers race timeouts, errors and shutdown.
ImplementsDialService == DS!Spec
=============================================================================
