-------------------------- MODULE MaintenanceProofs --------------------------
(***************************************************************************)
(* Theorems about the maintenance loop, for any peers, addresses, limits   *)
(* and peerstores.                                                         *)
(***************************************************************************)
EXTENDS Maintenance, FiniteSetTheorems, SequenceTheorems, TLAPS

-----------------------------------------------------------------------------
(***************************************************************************)
(* Backoff                                                                 *)
(***************************************************************************)

Entry == [failures : 1..MaxFailures, wait : (-BackoffCap)..(2 * BackoffCap)]

BackoffInv == \A p \in DOMAIN backoff : backoff[p] \in Entry

\* What each operation of DialBackoff does to entries that are in range.
LEMMA BackoffOperations ==
  ASSUME NEW b, \A p \in DOMAIN b : b[p] \in Entry, NEW q
  PROVE  /\ \A p \in DOMAIN Prune(b) : Prune(b)[p] \in Entry
         /\ \A p \in DOMAIN Later(b) : Later(b)[p] \in Entry
         /\ \A p \in DOMAIN RecordSuccess(b, q) : RecordSuccess(b, q)[p] \in Entry
         /\ \A d \in Delays(NextFailures(b, q)) :
              \A p \in DOMAIN RecordFailure(b, q, d) :
                RecordFailure(b, q, d)[p] \in Entry
<1>1. \A p \in DOMAIN Prune(b) : Prune(b)[p] \in Entry
  BY DEF Prune
<1>2. \A p \in DOMAIN Later(b) : Later(b)[p] \in Entry
  <2>1. ASSUME NEW r \in Entry
        PROVE  [r EXCEPT !.wait = IF @ > -BackoffCap THEN @ - 1 ELSE @] \in Entry
    BY BackoffAssumption DEF Entry
  <2>2. QED
    BY <2>1 DEF Later
<1>3. \A p \in DOMAIN RecordSuccess(b, q) : RecordSuccess(b, q)[p] \in Entry
  BY DEF RecordSuccess
<1>4. ASSUME NEW d \in Delays(NextFailures(b, q)),
             NEW p \in DOMAIN RecordFailure(b, q, d)
      PROVE  RecordFailure(b, q, d)[p] \in Entry
  <2>1. NextFailures(b, q) \in 1..MaxFailures
    BY BackoffAssumption DEF NextFailures, Failures, Entry
  <2>2. d \in (-BackoffCap)..(2 * BackoffCap)
    BY BackoffAssumption DEF Delays
  <2>3. QED
    BY <2>1, <2>2 DEF RecordFailure, Entry
<1>5. QED
  BY <1>1, <1>2, <1>3, <1>4

\* Every step keeps the failures and the waits within their bounds.
LEMMA BackoffStep ==
  ASSUME BackoffInv, [Next]_vars
  PROVE  BackoffInv'
<1>1. ASSUME UNCHANGED backoff PROVE BackoffInv'
  BY <1>1 DEF BackoffInv
<1>2. ASSUME Environment PROVE UNCHANGED backoff
  BY <1>2 DEF Environment, Connects, Disconnects, PreferredChange, DialAnswered,
              SnapshotAnswered, EventLoopEnds
<1>3. ASSUME TimePasses \/ StartTick \/ DialSucceeds \/ DialFails
      PROVE  BackoffInv'
  BY <1>3, BackoffOperations
     DEF BackoffInv, TimePasses, StartTick, DialSucceeds, DialFails
<1>4. ASSUME SnapshotFails \/ Plan \/ EndTick \/ Wake PROVE UNCHANGED backoff
  BY <1>4 DEF SnapshotFails, Plan, PlanWith, EndTick, Wake
<1>5. ASSUME NEW c \in Upcoming, Skip(c) \/ Dial(c) PROVE UNCHANGED backoff
  BY <1>5 DEF Skip, Dial
<1>6. QED
  BY <1>1, <1>2, <1>3, <1>4, <1>5 DEF Next, Run, vars

\* Powers of two, from the cardinality of power sets.
LEMMA PowersOfTwo ==
  ASSUME NEW m \in Nat, NEW n \in Nat, m <= n
  PROVE  2^m \in Nat \ {0} /\ 2^n \in Nat /\ 2^m <= 2^n
<1> DEFINE S == SUBSET (1..m)
           T == SUBSET (1..n)
<1>1. /\ IsFiniteSet(1..m) /\ Cardinality(1..m) = m
      /\ IsFiniteSet(1..n) /\ Cardinality(1..n) = n
  BY FS_Interval
<1>2. /\ IsFiniteSet(S) /\ Cardinality(S) = 2^m
      /\ IsFiniteSet(T) /\ Cardinality(T) = 2^n
  BY <1>1, FS_SUBSET
<1>3. S \subseteq T /\ S # {}
  <2>1. 1..m \subseteq 1..n
    OBVIOUS
  <2>2. QED
    BY <2>1
<1> HIDE DEF S, T
<1>4. Cardinality(S) <= Cardinality(T)
  BY <1>2, <1>3, FS_Subset
<1>5. Cardinality(S) \in Nat /\ Cardinality(T) \in Nat /\ Cardinality(S) # 0
  BY <1>2, <1>3, FS_CardinalityType, FS_EmptySet
<1>6. QED
  BY <1>2, <1>4, <1>5

\* A failed peer is always given a delay, of at least half the base and at most
\* one and a half times the cap; and counting failures beyond MaxFailures would
\* change no delay.
THEOREM DelaysBounded ==
  /\ \A n \in Nat \ {0} :
       /\ Delays(n) # {}
       /\ \A d \in Delays(n) : BackoffBase <= 2 * d /\ 2 * d <= 3 * BackoffCap
  /\ \A n \in Nat : n >= MaxFailures => Delays(n) = Delays(MaxFailures)
<1>1. ASSUME NEW n \in Nat \ {0}
      PROVE  Capped(n) \in BackoffBase..BackoffCap
  <2>1. n - 1 \in Nat /\ 0 \in Nat /\ 0 <= n - 1
    OBVIOUS
  <2>2. 2^(n - 1) \in Nat \ {0}
    BY <2>1, PowersOfTwo
  <2> DEFINE x == 2^(n - 1)
  <2> HIDE DEF x
  <2>3. \A b \in Nat \ {0}, y \in Nat \ {0} : b * y \in Nat /\ b * y >= b
    OBVIOUS
  <2>4. BackoffBase * x \in Nat /\ BackoffBase * x >= BackoffBase
    BY <2>2, <2>3, BackoffAssumption DEF x
  <2>5. QED
    BY <2>4, BackoffAssumption DEF Capped, x
<1>2. ASSUME NEW n \in Nat \ {0}
      PROVE  /\ Delays(n) # {}
             /\ \A d \in Delays(n) : BackoffBase <= 2 * d /\ 2 * d <= 3 * BackoffCap
  <2>1. Capped(n) \in Delays(n)
    BY <1>1, BackoffAssumption DEF Delays
  <2>2. QED
    BY <1>1, <2>1, BackoffAssumption DEF Delays
<1>3. ASSUME NEW n \in Nat, n >= MaxFailures
      PROVE  Delays(n) = Delays(MaxFailures)
  <2>1. /\ MaxFailures - 1 \in Nat /\ n - 1 \in Nat /\ MaxFailures - 1 <= n - 1
    BY <1>3, BackoffAssumption
  <2> DEFINE x == 2^(MaxFailures - 1)
             y == 2^(n - 1)
  <2>2. x \in Nat /\ y \in Nat /\ x <= y
    BY <2>1, PowersOfTwo
  <2> HIDE DEF x, y
  <2>3. \A b \in Nat \ {0} : b * x <= b * y /\ b * x \in Nat /\ b * y \in Nat
    BY <2>2
  <2>4. BackoffBase * x >= BackoffCap /\ BackoffBase * y >= BackoffCap
        /\ BackoffBase * x \in Nat /\ BackoffBase * y \in Nat
    BY <2>3, BackoffAssumption DEF x
  <2>5. Capped(MaxFailures) = BackoffCap /\ Capped(n) = BackoffCap
    BY <2>4, BackoffAssumption DEF Capped, x, y
  <2>6. QED
    BY <2>5 DEF Delays
<1>4. QED
  BY <1>2, <1>3

-----------------------------------------------------------------------------
(***************************************************************************)
(* A tick and its budget                                                   *)
(***************************************************************************)

\* What a tick has spent on peers that are not bootstrap peers, with what it may
\* still spend, is within the bound.
Slack(snap) == IF Cardinality(snap) < LowWater
               THEN LowWater - Cardinality(snap) + 2 ELSE 0

Within(spent, pref, refill, snap) ==
  Cardinality(spent \ BootstrapPeers) + Cardinality(pref) + Cardinality(refill)
    <= MaxPreferredDials + Slack(snap)

BudgetKept == Within(attempted, preferred_todo, refill_todo, snapshot)

\* Between two ticks there is nothing to look at, and nothing was dialed.
IdleEmpty ==
  phase \notin {"dial", "waiting"} =>
    bootstrap_todo = <<>> /\ preferred_todo = {} /\ refill_todo = {} /\ attempted = {}

HintsTyped(list) ==
  DOMAIN list \subseteq Peer /\ \A p \in DOMAIN list : list[p] \subseteq Addr

TickTypes ==
  /\ connected \subseteq Peer /\ snapshot \subseteq Peer
  /\ phase \in {"start", "asked", "answered", "dial", "waiting", "sleep"}
  /\ HintsTyped(preferred) /\ HintsTyped(hints)
  /\ bootstrap_todo \in Seq([peer : BootstrapPeers, addr : Addr])
  /\ preferred_todo \subseteq Candidate
  /\ refill_todo \subseteq [peer : Peer, addr : Addr]
  /\ attempted \subseteq Peer
  /\ timer \in Nat

Awaiting ==
  IF phase = "waiting" THEN target \in Candidate /\ target.peer \notin snapshot
                       ELSE target = NoTarget /\ answer = "none"

TickInv == TickTypes /\ Awaiting /\ IdleEmpty /\ BudgetKept

MaintenanceInv == TickInv /\ BackoffInv

LEMMA BootstrapTyped ==
  /\ BootstrapPeers \subseteq Peer
  /\ Bootstrap \in Seq([peer : BootstrapPeers, addr : Addr])
<1>1. Bootstrap \in Seq([peer : Peer, addr : Addr])
  BY MaintenanceAssumption
<1>2. \A i \in 1..Len(Bootstrap) : Bootstrap[i] \in [peer : Peer, addr : Addr]
  BY <1>1, ElementOfSeq
<1>3. \A i \in 1..Len(Bootstrap) :
        Bootstrap[i] \in [peer : BootstrapPeers, addr : Addr]
  BY <1>2 DEF BootstrapPeers
<1>4. Bootstrap \in [1..Len(Bootstrap) -> [peer : BootstrapPeers, addr : Addr]]
  BY <1>1, <1>3, LenProperties
<1>5. Bootstrap \in Seq([peer : BootstrapPeers, addr : Addr])
  <2> DEFINE B == [peer : BootstrapPeers, addr : Addr]
  <2>1. Len(Bootstrap) \in Nat /\ Bootstrap \in [1..Len(Bootstrap) -> B]
    BY <1>1, <1>4, LenProperties
  <2> HIDE DEF B
  <2>2. Bootstrap \in Seq(B)
    BY <2>1, SeqDef
  <2>3. QED
    BY <2>2 DEF B
<1>6. QED
  BY <1>2, <1>5 DEF BootstrapPeers

\* Whatever is made of finitely many peers and addresses is finite.
LEMMA FiniteCandidates ==
  IsFiniteSet(Candidate) /\ IsFiniteSet([peer : Peer, addr : Addr])
<1>1. IsFiniteSet(Peer \X SUBSET Addr) /\ IsFiniteSet(Peer \X Addr)
  BY MaintenanceAssumption, FS_SUBSET, FS_Product
<1>2. IsFiniteSet(Candidate)
  <2> DEFINE f == [c \in Peer \X SUBSET Addr |-> [peer |-> c[1], addrs |-> c[2]]]
  <2>1. f \in [Peer \X SUBSET Addr -> Candidate]
    BY DEF Candidate
  <2>2. ASSUME NEW c \in Candidate PROVE \E x \in Peer \X SUBSET Addr : f[x] = c
    <3>1. <<c.peer, c.addrs>> \in Peer \X SUBSET Addr
      BY <2>2 DEF Candidate
    <3>2. f[<<c.peer, c.addrs>>] = c
      BY <2>2, <3>1 DEF Candidate
    <3>3. QED BY <3>1, <3>2
  <2> HIDE DEF f
  <2>3. f \in Surjection(Peer \X SUBSET Addr, Candidate)
    BY <2>1, <2>2 DEF Surjection
  <2>4. QED BY <1>1, <2>3, FS_Surjection
<1>3. IsFiniteSet([peer : Peer, addr : Addr])
  <2> DEFINE g == [c \in Peer \X Addr |-> [peer |-> c[1], addr |-> c[2]]]
  <2>1. g \in [Peer \X Addr -> [peer : Peer, addr : Addr]]
    OBVIOUS
  <2>2. ASSUME NEW c \in [peer : Peer, addr : Addr]
        PROVE  \E x \in Peer \X Addr : g[x] = c
    <3>1. <<c.peer, c.addr>> \in Peer \X Addr
      BY <2>2
    <3>2. g[<<c.peer, c.addr>>] = c
      BY <2>2, <3>1
    <3>3. QED BY <3>1, <3>2
  <2> HIDE DEF g
  <2>3. g \in Surjection(Peer \X Addr, [peer : Peer, addr : Addr])
    BY <2>1, <2>2 DEF Surjection
  <2>4. QED BY <1>1, <2>3, FS_Surjection
<1>4. QED BY <1>2, <1>3

\* The cardinalities that the budget adds up are numbers.
LEMMA Counts ==
  ASSUME NEW spent \in SUBSET Peer, NEW pref \in SUBSET Candidate,
         NEW refill \in SUBSET [peer : Peer, addr : Addr], NEW snap \in SUBSET Peer
  PROVE  /\ IsFiniteSet(spent \ BootstrapPeers)
         /\ Cardinality(spent \ BootstrapPeers) \in Nat
         /\ IsFiniteSet(pref) /\ Cardinality(pref) \in Nat
         /\ IsFiniteSet(refill) /\ Cardinality(refill) \in Nat
         /\ Cardinality(snap) \in Nat
         /\ Slack(snap) \in Nat
<1>1. IsFiniteSet(spent \ BootstrapPeers) /\ IsFiniteSet(pref)
  /\ IsFiniteSet(refill) /\ IsFiniteSet(snap)
  BY FiniteCandidates, FS_Subset, MaintenanceAssumption
<1>2. QED
  BY <1>1, FS_CardinalityType, MaintenanceAssumption DEF Slack

\* With nothing to look at and nothing dialed any snapshot is within budget.
LEMMA IdleBudget ==
  ASSUME NEW snap \in SUBSET Peer
  PROVE  Within({}, {}, {}, snap)
<1>1. Slack(snap) \in Nat
  BY Counts
<1>2. {} \ BootstrapPeers = {}
  OBVIOUS
<1>3. QED
  BY <1>1, <1>2, FS_EmptySet, MaintenanceAssumption DEF Within

\* A shuffled and truncated list is no longer than the truncation says.
LEMMA ShuffledBounded ==
  ASSUME NEW S, IsFiniteSet(S), NEW n \in Nat, NEW T \in Shuffled(S, n)
  PROVE  T \subseteq S /\ Cardinality(T) <= n
BY FS_CardinalityType DEF Shuffled, kSubset

LEMMA MaintenanceInit ==
  ASSUME Init PROVE MaintenanceInv
<1>1. HintsTyped(NoHints)
  BY DEF HintsTyped, NoHints
<1>2. TickTypes
  BY <1>1, EmptySeq DEF Init, TickTypes
<1>3. Awaiting /\ IdleEmpty
  BY DEF Init, Awaiting, IdleEmpty
<1>4. BudgetKept
  BY <1>2, IdleBudget DEF Init, TickTypes, BudgetKept
<1>5. BackoffInv
  BY DEF Init, BackoffInv, NoBackoff
<1>6. QED
  BY <1>2, <1>3, <1>4, <1>5 DEF MaintenanceInv, TickInv

\* The network changes what the next snapshot will say, and may answer a dial.
LEMMA EnvironmentStep ==
  ASSUME TickInv, Environment
  PROVE  TickInv'
<1> USE DEF TickInv, netVars, tickVars, todoVars
<1>1. ASSUME ~SnapshotAnswered
      PROVE  /\ UNCHANGED <<phase, tickVars, timer>>
             /\ phase # "waiting" => UNCHANGED answer
             /\ connected' \subseteq Peer
             /\ HintsTyped(preferred')
  <2>1. ASSUME NEW p \in Reachable, Connects(p) PROVE <1>1!2
    BY <2>1, MaintenanceAssumption DEF Connects, MayAnswer, TickTypes
  <2>2. ASSUME NEW p \in connected, Disconnects(p) PROVE <1>1!2
    BY <2>2 DEF Disconnects, TickTypes
  <2>3. ASSUME NEW h \in Hints, PreferredChange(h) PROVE <1>1!2
    <3>1. HintsTyped(h)
      BY MaintenanceAssumption DEF HintsTyped
    <3>2. HintsTyped(preferred')
      BY <2>3, <3>1 DEF PreferredChange
    <3>3. QED BY <2>3, <3>2 DEF PreferredChange, TickTypes
  <2>4. CASE DialAnswered
    BY <2>4 DEF DialAnswered, MayAnswer, TickTypes
  <2>5. CASE EventLoopEnds
    BY <2>5 DEF EventLoopEnds, MayAnswer, TickTypes
  <2>6. QED
    BY <1>1, <2>1, <2>2, <2>3, <2>4, <2>5 DEF Environment
<1>2. CASE ~SnapshotAnswered
  <2>1. TickTypes' BY <1>1, <1>2 DEF TickTypes
  <2>2. Awaiting' BY <1>1, <1>2 DEF Awaiting
  <2>3. IdleEmpty' BY <1>1, <1>2 DEF IdleEmpty
  <2>4. BudgetKept' BY <1>1, <1>2 DEF BudgetKept
  <2>5. QED BY <2>1, <2>2, <2>3, <2>4
<1>3. CASE SnapshotAnswered
  <2> USE <1>3 DEF SnapshotAnswered
  <2>1. TickTypes' BY DEF TickTypes
  <2>2. Awaiting' BY DEF Awaiting
  <2>3. IdleEmpty' BY DEF IdleEmpty
  <2>4. attempted' = {} /\ preferred_todo' = {} /\ refill_todo' = {}
    BY DEF IdleEmpty
  <2>5. BudgetKept'
    BY <2>1, <2>4, IdleBudget DEF BudgetKept, TickTypes
  <2>6. QED BY <2>1, <2>2, <2>3, <2>5
<1>4. QED BY <1>2, <1>3

\* The steps of the task that leave the lists and the dialed peers alone.
LEMMA QuietSteps ==
  ASSUME TickInv,
         \/ TimePasses \/ StartTick \/ SnapshotFails \/ DialSucceeds \/ DialFails
         \/ Wake
  PROVE  TickInv'
<1> USE DEF TickInv, netVars, tickVars, todoVars, TimePasses, StartTick,
            SnapshotFails, DialSucceeds, DialFails, DialOver, Wake
<1>1. UNCHANGED <<connected, preferred, snapshot, hints, bootstrap_todo,
                  preferred_todo, refill_todo, attempted>>
  OBVIOUS
<1>2. TickTypes'
  <2>1. timer' \in Nat
    BY MaintenanceAssumption DEF TickTypes
  <2>2. phase' \in {"start", "asked", "answered", "dial", "waiting", "sleep"}
    BY DEF TickTypes
  <2>3. QED BY <1>1, <2>1, <2>2 DEF TickTypes
<1>3. Awaiting'
  BY DEF Awaiting
<1>4. IdleEmpty'
  BY <1>1 DEF IdleEmpty
<1>5. BudgetKept'
  BY <1>1 DEF BudgetKept
<1>6. QED BY <1>2, <1>3, <1>4, <1>5

\* The tick's preparation fits its lists into the budget.
LEMMA PlanStep ==
  ASSUME TickInv, Plan
  PROVE  TickInv'
<1> USE DEF TickInv
<1>1. PICK store \in Stores, now \in Now : PlanWith(store, now)
  BY DEF Plan
<1>2. PreferredCandidates(snapshot, hints) \subseteq Candidate
  BY DEF PreferredCandidates, TickTypes, HintsTyped, Candidate
<1>3. RefillCandidates(store, now) \subseteq [peer : Peer, addr : Addr]
  <2>1. DialCandidates(store, MaxAge, now) \subseteq [peer : Peer, addr : Addr]
    <3>1. ASSUME NEW p \in DOMAIN store, NEW i \in 1..Len(store[p].addrs)
          PROVE  p \in Peer /\ store[p].addrs[i] \in Addr
      BY ElementOfSeq, MaintenanceAssumption
    <3>2. QED
      BY <3>1 DEF DialCandidates
  <2>2. QED
    BY <2>1 DEF RefillCandidates
<1>4. /\ preferred_todo' \subseteq PreferredCandidates(snapshot, hints)
      /\ Cardinality(preferred_todo') <= MaxPreferredDials
  <2>1. IsFiniteSet(PreferredCandidates(snapshot, hints))
    BY <1>2, FiniteCandidates, FS_Subset
  <2>2. QED
    BY <1>1, <2>1, ShuffledBounded, MaintenanceAssumption DEF PlanWith
<1>5. /\ refill_todo' \subseteq RefillCandidates(store, now)
      /\ Cardinality(refill_todo') <= Slack(snapshot)
  <2>1. Cardinality(snapshot) \in Nat
    BY Counts DEF TickTypes
  <2>2. IsFiniteSet(RefillCandidates(store, now))
    BY <1>3, FiniteCandidates, FS_Subset
  <2>3. RefillBudget \in Nat
    BY <2>1, MaintenanceAssumption DEF RefillBudget
  <2>4. /\ refill_todo' \subseteq RefillCandidates(store, now)
        /\ Cardinality(refill_todo') <= RefillBudget
    BY <1>1, <2>2, <2>3, ShuffledBounded DEF PlanWith
  <2>5. CASE Cardinality(snapshot) < LowWater
    BY <2>1, <2>4, <2>5, MaintenanceAssumption DEF RefillBudget, Slack
  <2>6. CASE ~(Cardinality(snapshot) < LowWater)
    <3>1. refill_todo' = {}
      BY <2>4, <2>6 DEF RefillCandidates
    <3>2. QED
      BY <2>4, <2>6, <3>1, FS_EmptySet DEF Slack
  <2>7. QED BY <2>5, <2>6
<1>6. TickTypes'
  <2>1. bootstrap_todo' \in Seq([peer : BootstrapPeers, addr : Addr])
    BY <1>1, BootstrapTyped, EmptySeq DEF PlanWith, BootstrapCandidates
  <2>2. HintsTyped(hints')
    BY <1>1 DEF PlanWith, HintsTyped, NoHints
  <2>3. QED
    BY <1>1, <1>2, <1>3, <1>4, <1>5, <2>1, <2>2 DEF PlanWith, TickTypes, netVars
<1>7. Awaiting'
  BY <1>1 DEF PlanWith, Awaiting
<1>8. IdleEmpty'
  BY <1>1 DEF PlanWith, IdleEmpty
<1>9. BudgetKept'
  <2>1. attempted' \ BootstrapPeers = {} /\ snapshot' = snapshot
    BY <1>1 DEF PlanWith
  <2>2. /\ Cardinality(preferred_todo') \in Nat /\ Cardinality(refill_todo') \in Nat
        /\ Slack(snapshot) \in Nat
    <3>1. /\ attempted' \in SUBSET Peer /\ preferred_todo' \in SUBSET Candidate
          /\ refill_todo' \in SUBSET [peer : Peer, addr : Addr]
          /\ snapshot \in SUBSET Peer
      BY <1>6, <2>1 DEF TickTypes
    <3>2. QED BY <3>1, Counts
  <2>3. Cardinality(attempted' \ BootstrapPeers) = 0
    BY <2>1, FS_EmptySet
  <2>4. Within(attempted', preferred_todo', refill_todo', snapshot)
    BY <1>4, <1>5, <2>2, <2>3, MaintenanceAssumption DEF Within
  <2>5. QED
    BY <2>1, <2>4 DEF BudgetKept
<1>10. QED BY <1>6, <1>7, <1>8, <1>9

\* A candidate that is looked at leaves its list; only a dial counts, and it
\* counts once.
LEMMA LookStep ==
  ASSUME TickInv, NEW c \in Upcoming, Skip(c) \/ Dial(c)
  PROVE  TickInv'
<1> USE DEF TickInv
<1>1. phase = "dial" /\ NextIs(c) /\ snapshot' = snapshot
  BY DEF Skip, Dial
<1>2. bootstrap_todo # <<>> =>
        /\ Head(bootstrap_todo) \in [peer : BootstrapPeers, addr : Addr]
        /\ Tail(bootstrap_todo) \in Seq([peer : BootstrapPeers, addr : Addr])
  BY HeadTailProperties DEF TickTypes
<1>3. /\ c \in Candidate
      /\ bootstrap_todo' \in Seq([peer : BootstrapPeers, addr : Addr])
      /\ preferred_todo' \subseteq preferred_todo
      /\ refill_todo' \subseteq refill_todo
  <2>1. CASE NextIsBootstrap(c)
    BY <2>1, <1>2, BootstrapTyped DEF NextIsBootstrap, Candidate
  <2>2. CASE NextIsPreferred(c)
    BY <2>2 DEF NextIsPreferred, TickTypes
  <2>3. CASE NextIsRefill(c)
    BY <2>3 DEF NextIsRefill, TickTypes, Candidate
  <2>4. QED BY <1>1, <2>1, <2>2, <2>3 DEF NextIs
<1>4. attempted' = attempted \/ attempted' = attempted \cup {c.peer}
  BY DEF Skip, Dial
<1>5. TickTypes'
  <2>1. attempted' \subseteq Peer
    BY <1>3, <1>4 DEF TickTypes, Candidate
  <2>2. timer' \in Nat /\ phase' \in {"dial", "waiting"}
    BY <1>1, MaintenanceAssumption DEF Skip, Dial, TickTypes
  <2>3. UNCHANGED <<connected, preferred, hints>>
    BY DEF Skip, Dial, netVars
  <2>4. QED
    BY <1>1, <1>3, <2>1, <2>2, <2>3 DEF TickTypes
<1>6. Awaiting'
  BY <1>1, <1>3 DEF Skip, Dial, Awaiting, Passed
<1>7. IdleEmpty'
  BY <1>1 DEF Skip, Dial, IdleEmpty
<1> DEFINE Spent == Cardinality(attempted \ BootstrapPeers)
           Left  == Cardinality(preferred_todo) + Cardinality(refill_todo)
<1>8. /\ Spent \in Nat /\ Cardinality(preferred_todo) \in Nat
      /\ Cardinality(refill_todo) \in Nat /\ Slack(snapshot) \in Nat
      /\ IsFiniteSet(attempted \ BootstrapPeers)
      /\ IsFiniteSet(preferred_todo) /\ IsFiniteSet(refill_todo)
  <2>1. /\ attempted \in SUBSET Peer /\ preferred_todo \in SUBSET Candidate
        /\ refill_todo \in SUBSET [peer : Peer, addr : Addr]
        /\ snapshot \in SUBSET Peer
    BY DEF TickTypes
  <2>2. QED BY <2>1, Counts
<1>9. \/ Spent' = Spent
      \/ Spent' = Spent + 1 /\ c.peer \notin BootstrapPeers
  <2>1. CASE c.peer \in BootstrapPeers \/ attempted' = attempted
    <3>1. attempted' \ BootstrapPeers = attempted \ BootstrapPeers
      BY <1>4, <2>1
    <3>2. QED BY <3>1
  <2>2. CASE c.peer \notin BootstrapPeers /\ attempted' = attempted \cup {c.peer}
    <3>1. attempted' \ BootstrapPeers = (attempted \ BootstrapPeers) \cup {c.peer}
      BY <2>2
    <3>2. QED BY <1>8, <2>2, <3>1, FS_AddElement
  <2>3. QED BY <1>4, <2>1, <2>2
<1>10. CASE NextIsBootstrap(c)
  <2>1. c.peer \in BootstrapPeers
    BY <1>2, <1>10 DEF NextIsBootstrap
  <2>2. Spent' = Spent /\ preferred_todo' = preferred_todo /\ refill_todo' = refill_todo
    BY <1>9, <1>10, <2>1 DEF NextIsBootstrap
  <2>3. BudgetKept'
    BY <1>1, <2>2 DEF BudgetKept, Within
  <2>4. QED BY <1>5, <1>6, <1>7, <2>3
<1>11. ASSUME NextIsPreferred(c) \/ NextIsRefill(c)
       PROVE  /\ Cardinality(preferred_todo') \in Nat
              /\ Cardinality(refill_todo') \in Nat
              /\ Left' = Left - 1
  <2>1. CASE NextIsPreferred(c)
    <3>1. c \in preferred_todo /\ refill_todo' = refill_todo
          /\ preferred_todo' = preferred_todo \ {c}
      BY <2>1 DEF NextIsPreferred
    <3>2. /\ Cardinality(preferred_todo') = Cardinality(preferred_todo) - 1
          /\ Cardinality(preferred_todo') \in Nat
      BY <1>8, <3>1, FS_RemoveElement, FS_CardinalityType
    <3>3. QED BY <1>8, <3>1, <3>2
  <2>2. CASE NextIsRefill(c)
    <3>1. PICK r \in refill_todo : refill_todo' = refill_todo \ {r}
      BY <2>2 DEF NextIsRefill
    <3>2. /\ Cardinality(refill_todo') = Cardinality(refill_todo) - 1
          /\ Cardinality(refill_todo') \in Nat
      BY <1>8, <3>1, FS_RemoveElement, FS_CardinalityType
    <3>3. preferred_todo' = preferred_todo
      BY <2>2 DEF NextIsRefill
    <3>4. QED BY <1>8, <3>2, <3>3
  <2>3. QED BY <1>11, <2>1, <2>2
<1>12. CASE NextIsPreferred(c) \/ NextIsRefill(c)
  <2>1. Spent' + Left' <= Spent + Left
    BY <1>8, <1>9, <1>11, <1>12, SMTT(30)
  <2>2. BudgetKept'
    BY <1>1, <1>8, <1>9, <1>11, <1>12, <2>1, MaintenanceAssumption
       DEF BudgetKept, Within
  <2>3. QED BY <1>5, <1>6, <1>7, <2>2
<1>13. QED BY <1>1, <1>10, <1>12 DEF NextIs

LEMMA EndTickStep ==
  ASSUME TickInv, EndTick
  PROVE  TickInv'
<1> USE DEF TickInv, EndTick, netVars, todoVars
<1>1. TickTypes'
  <2>1. timer' \in Nat
    BY MaintenanceAssumption
  <2>2. QED BY <2>1 DEF TickTypes
<1>2. Awaiting' BY DEF Awaiting
<1>3. IdleEmpty' BY DEF IdleEmpty
<1>4. BudgetKept'
  <2>1. /\ attempted' = {} /\ preferred_todo' = {} /\ refill_todo' = {}
        /\ snapshot' \in SUBSET Peer
    OBVIOUS
  <2>2. QED BY <2>1, IdleBudget DEF BudgetKept
<1>5. QED BY <1>1, <1>2, <1>3, <1>4

\* Every step keeps the tick's types, lists and budget.
LEMMA MaintenanceStep ==
  ASSUME MaintenanceInv, [Next]_vars
  PROVE  MaintenanceInv'
<1> USE DEF MaintenanceInv
<1>1. BackoffInv'
  BY BackoffStep
<1>2. CASE UNCHANGED vars
  <2>1. TickInv'
    BY <1>2 DEF vars, netVars, tickVars, todoVars, TickInv, TickTypes, Awaiting,
                IdleEmpty, BudgetKept
  <2>2. QED BY <1>1, <2>1
<1>3. CASE Next
  <2>1. TickInv'
    BY <1>3, EnvironmentStep, QuietSteps, PlanStep, LookStep, EndTickStep
       DEF Next, Run
  <2>2. QED BY <1>1, <2>1
<1>4. QED BY <1>2, <1>3

-----------------------------------------------------------------------------
(***************************************************************************)
(* Theorems                                                                *)
(***************************************************************************)

THEOREM MaintenanceInvariant == Spec => []MaintenanceInv
<1>1. Init => MaintenanceInv
  BY MaintenanceInit
<1>2. MaintenanceInv /\ [Next]_vars => MaintenanceInv'
  BY MaintenanceStep
<1>3. QED
  BY <1>1, <1>2, PTL DEF Spec

\* The loop awaits a dial exactly when it has a target, which its snapshot did not
\* list, and no backoff outgrows its cap, whatever the store and the hints hold.
THEOREM MaintenanceTypeCorrect == Spec => []TypeOK
<1>1. MaintenanceInv => TypeOK
  BY DEF MaintenanceInv, TickInv, TickTypes, Awaiting, BackoffInv, Entry, TypeOK
<1>2. QED
  BY <1>1, MaintenanceInvariant, PTL

\* A tick dials no more peers than the caps allow, however many are preferred or
\* known, and though its lists name a peer more than once.
THEOREM TicksBounded == Spec => []DialsPerTickBounded
<1>1. MaintenanceInv => DialsPerTickBounded
  <2> SUFFICES ASSUME MaintenanceInv PROVE DialsPerTickBounded
    OBVIOUS
  <2>1. /\ attempted \in SUBSET Peer /\ preferred_todo \in SUBSET Candidate
        /\ refill_todo \in SUBSET [peer : Peer, addr : Addr]
        /\ snapshot \in SUBSET Peer
    BY DEF MaintenanceInv, TickInv, TickTypes
  <2>2. /\ Cardinality(attempted \ BootstrapPeers) \in Nat
        /\ Cardinality(preferred_todo) \in Nat /\ Cardinality(refill_todo) \in Nat
        /\ Slack(snapshot) \in Nat
    BY <2>1, Counts
  <2>3. BudgetKept
    BY DEF MaintenanceInv, TickInv
  <2>4. QED
    BY <2>2, <2>3, MaintenanceAssumption
       DEF BudgetKept, Within, Slack, DialsPerTickBounded
<1>2. QED
  BY <1>1, MaintenanceInvariant, PTL
=============================================================================
