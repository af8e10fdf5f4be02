-------------------------- MODULE MCBackoffHistory --------------------------
(***************************************************************************)
(* The instance of MCMaintenance with the history of dial failures.        *)
(***************************************************************************)
EXTENDS MCMaintenance, BackoffHistory
=============================================================================
