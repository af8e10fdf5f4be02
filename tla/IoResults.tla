------------------------------ MODULE IoResults ------------------------------
(***************************************************************************)
(* What the readers and the writers of the vendored core2::io share: the   *)
(* kinds of io::Error that their code tells apart or produces itself, all  *)
(* others being "other", and min.                                          *)
(***************************************************************************)
EXTENDS Integers

ErrorKind ==
  {"interrupted", "unexpected_eof", "write_zero", "invalid_input", "other"}

\* A loop tries again after this kind only.
Retried(kind) == kind = "interrupted"

\* cmp::min
Least(m, n) == IF m < n THEN m ELSE n
==============================================================================
