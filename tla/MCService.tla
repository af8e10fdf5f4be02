------------------------------ MODULE MCService ------------------------------
(***************************************************************************)
(* An instance of the service for TLC.                                     *)
(***************************************************************************)
EXTENDS Service, TLC

CONSTANTS p1, p2, p3, event_loop, maintenance, grpc_server, flusher
=============================================================================
