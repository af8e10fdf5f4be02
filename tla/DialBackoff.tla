----------------------------- MODULE DialBackoff -----------------------------
(***************************************************************************)
(* The exponential backoff with jitter of src/p2p/backoff.rs.              *)
(*                                                                         *)
(* A backoff maps the peers that failed to their number of failures and to *)
(* `wait', which is next_attempt - now: it falls as time passes and is     *)
(* negative once the peer is overdue.  Below -BackoffCap it means nothing  *)
(* to any operation, so it stops there.  Time is counted in whole units.   *)
(***************************************************************************)
EXTENDS Integers

CONSTANTS
  BackoffBase,   \* BACKOFF_BASE
  BackoffCap,    \* BACKOFF_CAP
  MaxFailures    \* bound: the failure count stops here, the delay already did

ASSUME BackoffAssumption ==
  /\ BackoffBase \in Nat \ {0}
  /\ BackoffCap \in Nat /\ BackoffBase <= BackoffCap
  /\ MaxFailures \in Nat \ {0}
  /\ BackoffBase * 2^(MaxFailures - 1) >= BackoffCap

NoBackoff == [p \in {} |-> 0]

Ready(backoff, p) == p \in DOMAIN backoff => backoff[p].wait <= 0

\* base * 2^(n-1), not above the cap.
Capped(n) ==
  IF BackoffBase * 2^(n - 1) > BackoffCap THEN BackoffCap
                                          ELSE BackoffBase * 2^(n - 1)

\* The delays after n failures: the jitter factor lies between 1/2 and 3/2.
Delays(n) ==
  {d \in 0..(2 * BackoffCap) : Capped(n) <= 2 * d /\ 2 * d <= 3 * Capped(n)}

Failures(backoff, p) == IF p \in DOMAIN backoff THEN backoff[p].failures ELSE 0

\* One failure more, up to the bound.
NextFailures(backoff, p) ==
  IF Failures(backoff, p) < MaxFailures THEN Failures(backoff, p) + 1
                                        ELSE MaxFailures

\* record_failure, with the delay that the jitter gave.
RecordFailure(backoff, p, delay) ==
  [q \in DOMAIN backoff \cup {p} |->
     IF q = p THEN [failures |-> NextFailures(backoff, p), wait |-> delay]
              ELSE backoff[q]]

\* Mutant: the count is reset and the entry stays.
RecordSuccessKeeping(backoff, p) ==
  [q \in DOMAIN backoff |->
     IF q = p THEN [failures |-> 0, wait |-> 0] ELSE backoff[q]]

RecordSuccess(backoff, p) == [q \in DOMAIN backoff \ {p} |-> backoff[q]]

\* prune keeps the entries with now < next_attempt + cap.
Prune(backoff) ==
  [q \in {q \in DOMAIN backoff : backoff[q].wait > -BackoffCap} |-> backoff[q]]

\* One unit of time passes.
Later(backoff) ==
  [q \in DOMAIN backoff |->
     [backoff[q] EXCEPT !.wait = IF @ > -BackoffCap THEN @ - 1 ELSE @]]
=============================================================================
