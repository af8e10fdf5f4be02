--------------------------- MODULE BackoffHistory ---------------------------
(***************************************************************************)
(* The maintenance loop with a history of its dial failures: what the      *)
(* backoff would hold had nothing ever been pruned.                        *)
(***************************************************************************)
EXTENDS Maintenance

VARIABLE unpruned

HistoryInit == Init /\ unpruned = NoBackoff

\* The history counts every failure and waits as long as the loop does.
HistoryNext ==
  \/ TimePasses /\ unpruned' = Later(unpruned)
  \/ DialSucceeds /\ unpruned' = RecordSuccess(unpruned, target.peer)
  \/ /\ DialFails
     /\ unpruned' = RecordFailure(unpruned, target.peer,
                                  backoff'[target.peer].wait)
  \/ /\ \/ Environment
        \/ StartTick \/ SnapshotFails \/ Plan \/ EndTick \/ Wake
        \/ \E c \in Candidate : Skip(c) \/ Dial(c)
     /\ UNCHANGED unpruned

HistorySpec == HistoryInit /\ [][HistoryNext]_<<vars, unpruned>>

\* The doc of prune (src/p2p/backoff.rs): "dropping their state changes nothing
\* except keeping the map from growing without bound".  It also forgets the
\* failures, so that the next delay starts again from the base.
PruneForgetsNoFailure ==
  \A p \in DOMAIN backoff : backoff[p].failures = unpruned[p].failures
=============================================================================
