-------------------------------- MODULE MCIo --------------------------------
(***************************************************************************)
(* An instance of the core2 clients for TLC: a stream of four bytes before *)
(* a slice of one, a buffer of two bytes, and integers so narrow that the  *)
(* seeks reach every branch of their arithmetic.                           *)
(***************************************************************************)
EXTENDS Copying

MCSize == <<4, 1>>

MCSeeks ==
  { [from |-> "start",   n |-> 5],     \* beyond both ends
    [from |-> "end",     n |-> 2],     \* no u64 for the stream, one for the slice
    [from |-> "current", n |-> -3],    \* i64::MIN
    [from |-> "current", n |-> 1] }
=============================================================================
