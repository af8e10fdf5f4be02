----------------------------- MODULE Maintenance -----------------------------
(***************************************************************************)
(* The maintenance loop of src/p2p/maintenance.rs: one task that, once per *)
(* interval, asks the event loop for a snapshot, lists the peers that      *)
(* ought to be dialed and dials them one after the other.                  *)
(*                                                                         *)
(* The network around it changes at any time, also between an answer of    *)
(* the event loop and the moment at which this task takes it.  Of          *)
(* dial_and_wait it uses only what DialService promises: "ok" is sent at a *)
(* moment at which the peer is connected.  Time passes while the loop      *)
(* waits for a dial or sleeps; the steps in between take none.             *)
(***************************************************************************)
EXTENDS DialBackoff, PeerStore, FiniteSets, FiniteSetsExt

CONSTANTS
  Peer, Addr,
  Reachable,          \* the peers with which a connection may come up
  Undialable,         \* loopback and unspecified addresses
  Bootstrap,          \* the configured peers: a sequence of [peer, addr]
  Hints,              \* the values that the event loop's dial_hints may take
  Stores,             \* the peerstores that a tick may find
  Now, MaxAge,        \* values of now_unix(), and PEERSTORE_MAX_AGE_SECS
  LowWater,           \* settings.low_water
  MaxPreferredDials,  \* MAX_PREFERRED_DIALS_PER_TICK
  Interval,           \* settings.interval
  DialTimeout         \* DIAL_TIMEOUT

ASSUME MaintenanceAssumption ==
  /\ IsFiniteSet(Peer) /\ IsFiniteSet(Addr)
  /\ Reachable \subseteq Peer
  /\ Undialable \subseteq Addr
  /\ Bootstrap \in Seq([peer : Peer, addr : Addr])
  /\ \A h \in Hints :
       DOMAIN h \subseteq Peer /\ \A p \in DOMAIN h : h[p] \subseteq Addr
  /\ \A store \in Stores : \A p \in DOMAIN store :
       p \in Peer /\ store[p].addrs \in Seq(Addr)
  /\ LowWater \in Nat /\ MaxPreferredDials \in Nat
  /\ Interval \in Nat \ {0} /\ DialTimeout \in Nat \ {0}

VARIABLES
  connected,       \* the peers in the event loop's table
  preferred,       \* the event loop's dial_hints
  alive,           \* the event loop runs
  phase,           \* "start", "asked", "answered", "dial", "waiting" or "sleep"
  snapshot,        \* snapshot.connected of this tick
  hints,           \* snapshot.preferred of this tick, until it is used
  bootstrap_todo, preferred_todo, refill_todo,   \* candidates still to look at
  attempted,       \* the peers dialed in this tick
  target,          \* the candidate of the dial that is awaited
  answer,          \* its answer, "none" until it is there
  timer,           \* what is left of DIAL_TIMEOUT or of the sleep
  backoff

netVars  == <<connected, preferred, alive>>
todoVars == <<bootstrap_todo, preferred_todo, refill_todo>>
tickVars == <<snapshot, hints, todoVars, attempted, target>>
vars == <<netVars, phase, tickVars, answer, timer, backoff>>

Candidate == [peer : Peer, addrs : SUBSET Addr]
NoTarget == [peer |-> "none", addrs |-> {}]

NoHints == [p \in {} |-> {}]

BootstrapPeers == {Bootstrap[i].peer : i \in 1..Len(Bootstrap)}

Init ==
  /\ connected = {}
  /\ preferred = NoHints
  /\ alive = TRUE
  /\ phase = "start"
  /\ snapshot = {}
  /\ hints = NoHints
  /\ bootstrap_todo = <<>>
  /\ preferred_todo = {}
  /\ refill_todo = {}
  /\ attempted = {}
  /\ target = NoTarget
  /\ answer = "none"
  /\ timer = 0
  /\ backoff = NoBackoff

-----------------------------------------------------------------------------
(***************************************************************************)
(* What happens around the loop                                            *)
(***************************************************************************)

\* The event loop may answer the dial of p that is awaited.
MayAnswer(p, reply) ==
  \/ UNCHANGED answer
  \/ phase = "waiting" /\ answer = "none" /\ target.peer = p /\ answer' = reply

Connects(p) ==
  /\ alive
  /\ connected' = connected \cup {p}
  /\ MayAnswer(p, "ok")
  /\ UNCHANGED <<preferred, alive, phase, tickVars, timer, backoff>>

Disconnects(p) ==
  /\ alive
  /\ connected' = connected \ {p}
  /\ UNCHANGED <<preferred, alive, phase, tickVars, answer, timer, backoff>>

PreferredChange(new_hints) ==
  /\ alive
  /\ preferred' = new_hints
  /\ UNCHANGED <<connected, alive, phase, tickVars, answer, timer, backoff>>

\* The dial is over, or was not begun, as the peer is connected.
DialAnswered ==
  /\ alive
  /\ \/ target.peer \in connected /\ MayAnswer(target.peer, "ok")
     \/ MayAnswer(target.peer, "error")
  /\ UNCHANGED <<netVars, phase, tickVars, timer, backoff>>

\* The event loop hands out what it has at that moment.
SnapshotAnswered ==
  /\ phase = "asked"
  /\ alive
  /\ phase' = "answered"
  /\ snapshot' = connected
  /\ hints' = preferred
  /\ UNCHANGED <<netVars, todoVars, attempted, target, answer, timer, backoff>>

EventLoopEnds ==
  /\ alive
  /\ alive' = FALSE
  /\ MayAnswer(target.peer, "error")
  /\ UNCHANGED <<connected, preferred, phase, tickVars, timer, backoff>>

\* A unit of the time that the loop spends waiting.
TimePasses ==
  /\ phase \in {"waiting", "sleep"}
  /\ timer > 0
  /\ timer' = timer - 1
  /\ backoff' = Later(backoff)
  /\ UNCHANGED <<netVars, phase, tickVars, answer>>

-----------------------------------------------------------------------------
(***************************************************************************)
(* A tick                                                                  *)
(***************************************************************************)

StartTick ==
  /\ phase = "start"
  /\ phase' = "asked"
  /\ backoff' = Prune(backoff)
  /\ UNCHANGED <<netVars, tickVars, answer, timer>>

\* network_snapshot() fails once the event loop is gone.
SnapshotFails ==
  /\ phase = "asked"
  /\ ~alive
  /\ phase' = "sleep"
  /\ timer' = Interval
  /\ UNCHANGED <<netVars, tickVars, answer, backoff>>

\* Mutant: any connection counts as an anchor.
BootstrapCandidatesIsolated ==
  IF snapshot # {} THEN <<>> ELSE Bootstrap

\* Each configured entry is a candidate of its own, with its one address.
BootstrapCandidates ==
  IF snapshot \cap BootstrapPeers # {} THEN <<>> ELSE Bootstrap

\* The preferred peers to dial, each with its dialable addresses.
PreferredCandidates(up, list) ==
  {[peer |-> p, addrs |-> list[p] \ Undialable] :
     p \in {q \in DOMAIN list \ up : list[q] \ Undialable # {}}}

\* settings.low_water.saturating_sub(snapshot.connected.len()) + 2
RefillBudget ==
  (IF LowWater > Cardinality(snapshot)
   THEN LowWater - Cardinality(snapshot) ELSE 0) + 2

\* (peer, address) pairs: a peer with several addresses is listed several times.
RefillCandidates(store, now) ==
  IF Cardinality(snapshot) < LowWater
  THEN {c \in DialCandidates(store, MaxAge, now) :
          c.peer \notin snapshot /\ c.addr \notin Undialable}
  ELSE {}

\* Mutant: the list is truncated without a shuffle.
Unshuffled(S, n) ==
  {CHOOSE T \in kSubset(IF Cardinality(S) < n THEN Cardinality(S) ELSE n, S) :
     TRUE}

\* The outcomes of shuffle and truncate(n): as the order shows in nothing but
\* the order of the dials, it is left to Look.
Shuffled(S, n) ==
  kSubset(IF Cardinality(S) < n THEN Cardinality(S) ELSE n, S)

\* The tick's preparation, which has no suspension point.
PlanWith(store, now) ==
  /\ phase = "answered"
  /\ phase' = "dial"
  /\ hints' = NoHints
  /\ bootstrap_todo' = BootstrapCandidates
  /\ preferred_todo' \in
       Shuffled(PreferredCandidates(snapshot, hints), MaxPreferredDials)
  /\ refill_todo' \in Shuffled(RefillCandidates(store, now), RefillBudget)
  /\ attempted' = {}
  /\ UNCHANGED <<netVars, snapshot, target, answer, timer, backoff>>

Plan == \E store \in Stores, now \in Now : PlanWith(store, now)

\* What there is to look at.
Upcoming ==
  IF bootstrap_todo # <<>>
  THEN {[peer |-> Head(bootstrap_todo).peer, addrs |-> {Head(bootstrap_todo).addr}]}
  ELSE preferred_todo \cup {[peer |-> r.peer, addrs |-> {r.addr}] : r \in refill_todo}

\* The candidate to look at next: bootstrap, then preferred, then refill.
NextIsBootstrap(c) ==
  /\ bootstrap_todo # <<>>
  /\ c = [peer  |-> Head(bootstrap_todo).peer,
          addrs |-> {Head(bootstrap_todo).addr}]
  /\ bootstrap_todo' = Tail(bootstrap_todo)
  /\ UNCHANGED <<preferred_todo, refill_todo>>

NextIsPreferred(c) ==
  /\ bootstrap_todo = <<>>
  /\ c \in preferred_todo
  /\ preferred_todo' = preferred_todo \ {c}
  /\ UNCHANGED <<bootstrap_todo, refill_todo>>

NextIsRefill(c) ==
  /\ bootstrap_todo = <<>>
  /\ preferred_todo = {}
  /\ \E r \in refill_todo :
       /\ c = [peer |-> r.peer, addrs |-> {r.addr}]
       /\ refill_todo' = refill_todo \ {r}
  /\ UNCHANGED <<bootstrap_todo, preferred_todo>>

NextIs(c) == NextIsBootstrap(c) \/ NextIsPreferred(c) \/ NextIsRefill(c)

Passed(c) ==
  c.peer \in snapshot \/ c.peer \in attempted \/ ~Ready(backoff, c.peer)

Skip(c) ==
  /\ phase = "dial"
  /\ NextIs(c)
  /\ Passed(c)
  /\ UNCHANGED <<netVars, phase, snapshot, hints, attempted, target, answer, timer,
                 backoff>>

\* Without an event loop the command cannot even be sent.
Dial(c) ==
  /\ phase = "dial"
  /\ NextIs(c)
  /\ ~Passed(c)
  /\ phase' = "waiting"
  /\ attempted' = attempted \cup {c.peer}
  /\ target' = c
  /\ answer' = IF alive THEN "none" ELSE "error"
  /\ timer' = DialTimeout
  /\ UNCHANGED <<netVars, snapshot, hints, backoff>>

\* The wait is over, one way or the other.
DialOver ==
  /\ phase' = "dial"
  /\ target' = NoTarget
  /\ answer' = "none"
  /\ timer' = 0
  /\ UNCHANGED <<netVars, snapshot, hints, todoVars, attempted>>

DialSucceeds ==
  /\ phase = "waiting"
  /\ answer = "ok"
  /\ backoff' = RecordSuccess(backoff, target.peer)
  /\ DialOver

\* An error, or no answer when DIAL_TIMEOUT is over.
DialFails ==
  /\ phase = "waiting"
  /\ answer = "error" \/ (answer = "none" /\ timer = 0)
  /\ \E delay \in Delays(NextFailures(backoff, target.peer)) :
       backoff' = RecordFailure(backoff, target.peer, delay)
  /\ DialOver

\* The tick's own variables go out of scope.
EndTick ==
  /\ phase = "dial"
  /\ bootstrap_todo = <<>> /\ preferred_todo = {} /\ refill_todo = {}
  /\ phase' = "sleep"
  /\ timer' = Interval
  /\ snapshot' = {}
  /\ attempted' = {}
  /\ UNCHANGED <<netVars, hints, todoVars, target, answer, backoff>>

Wake ==
  /\ phase = "sleep"
  /\ timer = 0
  /\ phase' = "start"
  /\ UNCHANGED <<netVars, tickVars, answer, timer, backoff>>

-----------------------------------------------------------------------------
Environment ==
  \/ \E p \in Reachable \ connected : Connects(p)
  \/ \E p \in connected : Disconnects(p)
  \/ \E new_hints \in Hints \ {preferred} : PreferredChange(new_hints)
  \/ DialAnswered
  \/ SnapshotAnswered
  \/ EventLoopEnds

Run ==
  \/ StartTick
  \/ SnapshotFails
  \/ Plan
  \/ \E c \in Upcoming : Skip(c) \/ Dial(c)
  \/ DialSucceeds
  \/ DialFails
  \/ EndTick
  \/ Wake

Next == Environment \/ TimePasses \/ Run

Spec == Init /\ [][Next]_vars

\* The peers that may become preferred.
Preferable == UNION {DOMAIN h : h \in Hints}

\* A tick whose shuffle keeps the preferred peer p while it may be dialed.
PlanKeeps(p) ==
  /\ Plan
  /\ Ready(backoff, p)
  /\ \E c \in preferred_todo' : c.peer = p

\* The peers that the peerstore offers whatever the clock says: a record that is
\* from the future is as good as a recent one.
Refillable ==
  {p \in Peer :
     \A store \in Stores, now \in Now :
       /\ p \in DOMAIN store
       /\ \E i \in DOMAIN store[p].addrs : store[p].addrs[i] \notin Undialable
       /\ now > store[p].last_seen => now - store[p].last_seen <= MaxAge}

\* A tick in whose refill the shuffle could keep the stored peer p, and one in
\* which it does.
PlanOffersRefill(p) ==
  /\ Ready(backoff, p)
  /\ \E store \in Stores, now \in Now :
       /\ PlanWith(store, now)
       /\ \E kept \in Shuffled(RefillCandidates(store, now), RefillBudget) :
            \E r \in kept : r.peer = p

PlanKeepsRefill(p) ==
  /\ Plan
  /\ Ready(backoff, p)
  /\ \E r \in refill_todo' : r.peer = p

\* Time goes on, the task is scheduled, and so is the event loop, which answers
\* the request for a snapshot; a shuffle that could keep a peer again and again
\* does so some time.  Nothing is asked of the network and the clock.
Fairness ==
  /\ WF_vars(TimePasses \/ Run)
  /\ WF_vars(SnapshotAnswered)
  /\ \A p \in Preferable : SF_vars(PlanKeeps(p))
  /\ \A p \in Refillable :
       []<><<PlanOffersRefill(p)>>_vars => []<><<PlanKeepsRefill(p)>>_vars

FairSpec == Spec /\ Fairness

-----------------------------------------------------------------------------
(***************************************************************************)
(* Properties                                                              *)
(***************************************************************************)

\* The loop awaits a dial exactly when it has a target, the target was never
\* in the tick's snapshot, and no wait outlasts its longest delay.
TypeOK ==
  /\ connected \subseteq Peer /\ snapshot \subseteq Peer
  /\ phase \in {"start", "asked", "answered", "dial", "waiting", "sleep"}
  /\ preferred_todo \subseteq Candidate
  /\ refill_todo \subseteq [peer : Peer, addr : Addr]
  /\ IF phase = "waiting" THEN target \in Candidate /\ target.peer \notin snapshot
                          ELSE target = NoTarget /\ answer = "none"
  /\ timer \in Nat
  /\ \A p \in DOMAIN backoff :
       /\ backoff[p].failures \in 1..MaxFailures
       /\ backoff[p].wait \in (-BackoffCap)..(2 * BackoffCap)

\* A tick is short whatever the registry and the peerstore hold: besides the
\* bootstrap peers it dials at most MaxPreferredDials peers, and below the low
\* watermark as many more as the watermark lacks, plus two.
DialsPerTickBounded ==
  Cardinality(attempted \ BootstrapPeers) <=
    MaxPreferredDials + (IF Cardinality(snapshot) < LowWater
                         THEN LowWater - Cardinality(snapshot) + 2 ELSE 0)

\* "Stay anchored to at least one bootstrap peer": without one, a bootstrap
\* peer is dialed again and again, whoever else is connected or preferred and
\* however long those dials take.
AnchorRetried ==
  []<>(\/ ~alive
       \/ connected \cap BootstrapPeers # {}
       \/ phase = "waiting" /\ target.peer \in BootstrapPeers)

\* "Preferred peers should always be connected": one that stays disconnected is
\* dialed again and again, though the shuffle may pass it over and its backoff
\* grows.
PreferredRetried ==
  \A p \in Preferable :
    []<>(\/ ~alive
         \/ p \in connected
         \/ \A c \in PreferredCandidates(connected, preferred) : c.peer # p
         \/ phase = "waiting" /\ target.peer = p)

\* Below the low watermark the node refills from the peers it has seen before: a
\* stored peer is dialed again and again, though peers with more addresses fill
\* the budget, its backoff grows and the clock is set back or forward.
RefillRetried ==
  \A p \in Refillable :
    []<>(\/ ~alive
         \/ p \in connected
         \/ Cardinality(connected) >= LowWater
         \/ phase = "waiting" /\ target.peer = p)

-----------------------------------------------------------------------------
(***************************************************************************)
(* What the repository says and the code does not do                       *)
(***************************************************************************)

\* The comment on the candidates (src/p2p/maintenance.rs): "Each candidate
\* carries all of its known addresses so a dead first address does not mask a
\* live one".  A bootstrap peer with two configured addresses is two
\* candidates, of which the second is passed over as attempted.
BootstrapDialCarriesAllAddresses ==
  phase = "waiting" /\ snapshot \cap BootstrapPeers = {} =>
    \A i \in 1..Len(Bootstrap) :
      Bootstrap[i].peer = target.peer => Bootstrap[i].addr \in target.addrs
=============================================================================
