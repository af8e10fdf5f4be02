# aleph-im p2p-service: specification, model checking and proofs

The p2p-service is a libp2p node with a gRPC front end: it keeps a healthy set
of connections, relays gossipsub messages between the network and local
subscribers, and remembers peers across restarts. The repository also vendors
and patches `core2`, a `no_std` version of `std::io`, for one of its
dependencies. The modules here model the state-changing code, TLC checks them on
small instances, and TLAPS proves the central invariants for every value of the
constants.

    tlc -config MCLimits.cfg MCEventLoop.tla     # a run, see "Runs"
    tlapm EventLoopProofs.tla                    # a proof module

## 1. The system

| Component | State | Operations | Interacts with |
|---|---|---|---|
| Event loop, `src/p2p/network.rs` | swarm, `pending_dials`, `connected`, `subnet_limits`, `protected`, `dial_hints`, gauge | one swarm event or one command at a time | everything else: commands through a channel, answers through oneshot channels, the shared peerstore, the subscriptions |
| Subnet limits, `src/p2p/subnet.rs` | counter per IPv4 /24 | `on_connection`, `on_disconnection` | called by the event loop |
| Peerstore, `src/p2p/peerstore.rs` | peer -> bounded address list and last-seen time; a file | `record`, `dial_candidates`, `load`, `save` | recorded by the event loop, read by maintenance, saved by the flusher and by main, under one mutex |
| Dial backoff, `src/p2p/backoff.rs` | peer -> failures, next attempt | `ready`, `record_failure`, `record_success`, `prune` | owned by maintenance |
| Maintenance, `src/p2p/maintenance.rs` | the candidates of a tick, the backoff | one tick per interval: prune, snapshot, candidates, dials, sleep | snapshot and dials through `P2PClient`, the peerstore |
| gRPC service, `src/grpc.rs` | one task per call, which the client may cancel | `Publish`, `Subscribe`, `SetPreferredPeers`, `Dial`, `GetPeers`, `Identify` | commands to the event loop, the subscriptions |
| Subscriptions, `src/subscriptions.rs` | topic -> broadcast channel | `subscribe`, `publish` | gossip messages from the loop, echoes from Publish, streams |
| Process, `src/main.rs` | tasks, signals, the peerstore file | startup, supervision, flush, final save | spawns and watches all of the above |
| core2 readers, `src/patches/core2-0.4.0/src/io` | buffer and positions of `BufReader`, `Cursor`, `Chain`, `Take` | `read`, `fill_buf`, `consume`, `seek`, the loops of `Read` | a reader below, a client above |
| core2 writers, same place | buffer and panic flag of `BufWriter`, `LineWriter` on top | `write`, `flush`, `into_inner`, the destructor, the loops of `Write`, `copy` | a writer below, a client above |
| Configuration, metrics, HTTP endpoints | none that matters here | | |

The service itself never calls core2's I/O: a dependency does, in builds without
the standard library. `BufReader`, `BufWriter`, `LineWriter` and `copy` exist only
with the feature `nightly` of the vendored crate.

The hard parts, each with its line and its properties in `PROJECT.json`
(`hazards`):

* dials of one peer that are joined, abandoned by a timeout, raced by inbound
  connections, refused at once, or cut off when the loop ends;
* limits that are evaluated when a connection comes up but undone when it
  closes, with connections in between that are rejected and still counted, and a
  protected set that changes meanwhile;
* a score bonus that is granted in two places, because gossipsub accepts a score
  only for connected peers;
* receivers, joins, publishes, echoes and network copies in any order, over
  bounded channels, under calls that are cancelled at an await while their
  command is still queued, and an event loop that may be gone;
* a maintenance tick that works for minutes on a snapshot, under backoff,
  random shuffles and caps, with records from a clock that was set back;
* crashes between the write and the rename of the peerstore file, failed saves,
  and tasks, signals and flushes that end together, during startup too;
* short reads and writes, interruptions and errors in the middle of a loop over
  them, seeks that are two seeks because the offset overflows, buffers that are
  bypassed, and panics that unwind through destructors which write.

What makes each component correct is what the property definitions say; they
stand at the end of each module with the code behaviour they are about.

## 2. Modules

    the service                                       the vendored core2

    SubnetLimits  PeerStore   DialBackoff             ByteStream    IoResults
           \       /     \      /                         |        /    |
           EventLoop    Maintenance   PubSub  Service   Readers --+   Writers
           /       \       /   |                           \          /
    DialService     \     /   BackoffHistory                 Copying
    refinement       Node

    Iterators: Rust's filter on lists, used by EventLoop and Grpc
    Multiaddr, Grpc: pure operators, used by the MC modules
    *Proofs: a proof module beside EventLoop (two), Maintenance, PubSub, Service,
             Readers, Writers and Copying

**SubnetLimits** has the two operations on the counters as operators. The map is
total; zero is "no entry".

**PeerStore** has `Record` and `DialCandidates` on the address lists. An address
is an opaque value; the suffix `/p2p/<id>` that libp2p may append to a dialed
address is not told apart from its absence.

**Multiaddr** is what the code reads out of an address, given as the sequence of
its components: its /24, whether identify's filter lets it through, whether
maintenance takes it for undialable, and how a configured bootstrap address
splits into a peer and an address. The MC modules derive their constants from
addresses with it, so the event loop's `SubnetOf` and `TcpAddr` and the
maintenance loop's `Bootstrap` and `Undialable` are what the code computes.

**Grpc** has the parsing of a `SetPreferredPeers` request (invalid peers and
addresses dropped, the first occurrence of a peer kept), from which `MCEventLoop`
builds the lists that the event loop is given, and the status codes of `Dial`.

**EventLoop** is the core. An action is one turn of the loop, or a step of a party
outside it:

| Action | Code |
|---|---|
| `HandleDial` = `JoinDial`, `ReportConnected`, `RefuseDial`, `StartDial` | `Command::Dial`, network.rs:559 |
| `InboundEstablished`, `OutboundEstablished` | `ConnectionEstablished`, network.rs:433, with `enforce_connection_limits`, network.rs:526 |
| `ConnectionClosed` | network.rs:482 |
| `OutgoingConnectionError` | network.rs:497 |
| `IdentifyReceived` | network.rs:408 |
| `SetPreferredPeers` | network.rs:621 |
| `Stop` | the end of `run`, network.rs:371, or the abort of its task |
| `SendDial`, `AbandonDial`, `TakeReply` | `dial_and_wait`, network.rs:227 and 247, and a caller that gives up (maintenance.rs:170) |
| `ScoreExpires` | the gossipsub scorer (external) |

Variables keep the names of the code. `conns`, `closing` and `dialing` stand for
the swarm: they change together with the event that reports the change, since
the loop owns the swarm and polls it in turns. A connection that was asked to
close stays until its `ConnectionClosed`. Abstractions: a `Vec` of addresses of a
connected peer is a set (the code's `retain` removes all equal entries, so a
multiplicity is never visible after a removal); a list of senders is a set of
callers; the system clock is any member of `Time`; the truncated product of
`high_water` and `max_protected_share` is a constant; the dial errors are the
classes of `classify_dial_error`; a dial that a disconnection aborts ends as
"unreachable". A connection record carries `exempt`, what the limits decided when
it came up; only `EnforceConnectionLimits`, of the same step, and the properties
read it.

**DialService** is the abstract specification of `dial_and_wait`: one answer per
question, "ok" only at a moment at which the peer is connected, a failure only to
those who asked for that peer, "internal" only once the service is down.
**EventLoopRefinement** maps the event loop to it and states
`ImplementsDialService`.

**DialBackoff** counts time relative to now: `wait` is `next_attempt - now`, and
stops at `-BackoffCap`, below which no operation distinguishes values. The jitter
is any delay between half and one and a half of the capped exponential. The
failure count stops at `MaxFailures`, where the delay has reached the cap.

**Maintenance** is the maintenance loop, over a network that changes at any time.
It relies on `DialService` only: a success is answered at a moment at which the
peer is connected, which may be over when the task takes the answer. `Plan` is the
part of the tick that has no suspension point after the snapshot. shuffle and
truncate choose any subset of the permitted size, and the order is chosen when the
candidates are looked at. Time passes in `waiting` and `sleep` only.
**BackoffHistory** adds a history of all failures.

**Node** composes EventLoop, PeerStore and Maintenance: `slot` is the call of
`dial_and_wait` that the maintenance task awaits, its dials are calls of the
event loop, its snapshot is the loop's table and hints, and its refill reads the
peerstore that the loop records into. A dial that the task gave up goes on in the
loop. `Loop` instantiates Maintenance over the joint state, and
`ImplementsMaintenance` states that what Maintenance leaves to chance contains
what the event loop does. `ValidConfig` is `validate_config`.

**PubSub** interleaves the event loop (joins, publishes, gossip messages, its
end), the Publish handlers and the Subscribe streams. A broadcast channel is a log
of which only the last `Capacity` entries can be read; a receiver is a position in
it. A cancelled call whose command is still in the queue is "forsaken": the loop
handles the command, nobody reads the answer. The duplicate cache never forgets
(1800 s in the code). `start`, `owed` and `lonely` are histories that the
properties need.

**Service** is the process: startup in its phases (load, join, bind), tasks that
end in any of them, signals, the flusher, the save in its steps (write, rename,
either may fail), exit, crash and restart. All tasks run on one thread
(`actix_web::main`), and a save holds the peerstore's lock, so no `record`
interleaves with it; a crash does.

**IoResults** names what a call of core2 may return. **ByteStream** is the abstract
specification of readers: two plain streams, one after the other, under a budget,
and seeks that go exactly where they say or nowhere. **Readers** is
`Take<Chain<BufReader<R, S>, Cursor<&[u8]>>>`, whose client also reaches into the
adapters: each method is an operator that returns the set of its outcomes, and
`read_exact`, `read_to_end` and `bytes` are loops of several steps. A byte is known
by its stream and position, never by its value. R (external) reads less than asked
for, is interrupted or fails at any time. Positions are `u64` and offsets `i64` of
a width that `Half` sets: the overflow checks of `seek` are the code's.

**Writers** is `BufWriter<W, S>` and `LineWriter` on top, over core2's slice,
cursor or vector, or over a device (external) that takes a part, fails or panics.
The client numbers its bytes. A call is a list of steps, one call of W each, so
that errors, `?` and panics cut it where the code does; a panic unwinds the client
and drops the writer. **Copying** is `copy` from the readers to a writer.

**MC...** modules give the constants values; each `.cfg` is a run.

## 3. Runs

| Run | Module, cfg | Shows |
|---|---|---|
| `limits` | MCEventLoop, MCLimits | types, table, counters, both limits, the protected set, scores and "protected is never closed" |
| `dials` | MCEventLoop, MCDials | no forgotten caller, every dial answered, the event loop implements DialService |
| `node` | MCNode, MCNode | the node implements Maintenance; no source port of an inbound connection is in an address list |
| `peerstore` | MCPeerStore, MCPeerStore | address lists are bounded and duplicate-free, and only the oldest addresses leave a list, in order |
| `pubsub` | MCPubSub, MCPubSub | nothing missed after joining, one delivery per payload |
| `maintenance` | MCMaintenance, MCMaintenance | types; bootstrap and preferred peers are dialed again and again, and below the low watermark the stored ones too, while the refill's budget is too small for all and the clock may be set back |
| `service` | MCService, MCService | the file is never torn, durable peers are kept, every exit saves, a dead task is replaced |
| `io` | MCIo, MCIo | readers implement ByteStream, account for every byte and report the end only there; writers deliver every acknowledged byte once and in order, before any byte that no client wrote, and nothing after a panic; copy is exact; every call ends |
| `closing_ok`, `bootstrap_addrs`, `prune_forgets`, `bufwriter` | | violations: the places where a doc or a comment and the code disagree (section 5) |

Bounds, and why they suffice:

* `limits`: four peers, one of them a bootstrap peer, three connections, four
  addresses in two subnets and one without, `PerSubnetCap = 1`, `HighWater = 2`,
  `ProtectedCap = 1`. Three connections are enough for a peer with two of them
  next to another peer, for a subnet over its cap and for a table over the
  watermark, with exempt peers in each place. The requests include lists beyond
  the cap, duplicates, unparsable entries and a bootstrap peer. The connection
  ids are symmetric. Without callers the loop may stop with nothing left to do,
  hence `CHECK_DEADLOCK FALSE`.
* `dials`: two callers of one peer with different addresses, and one of another
  peer without addresses, two connections, `HighWater = 1`, so that every dial
  path, joined, refused, raced, and answered "already connected" by a closing
  connection, occurs. No symmetry, since liveness is checked.
* `node`: a bootstrap peer and one that becomes preferred and also connects by
  itself, one connection each, and one call more than peers, so that a tick meets
  the dial that an earlier tick gave up. Lists of one address, while identify
  reports two, one of them without TCP; what happens in longer lists is the
  question of `peerstore`. All caps are 1. The calls of one peer are
  symmetric; only safety is checked. The event loop may stop while all callers
  have given up, hence `CHECK_DEADLOCK FALSE`.
* `peerstore`: the event loop with lists of two addresses and three that may be
  stored, one without TCP and one inbound source port. Two peers, a call that dials
  two of the addresses, and identify reports that are longer than the limit, name an
  address twice or name what the dial recorded, in any order. Connection ids are
  symmetric; only safety is checked, and the loop may have nothing left to do.
* `pubsub`: a stream on each of two topics, one of them joined at startup, a
  publish of one payload on both, with echo, a payload that comes from the network
  only, and channels of one slot, so that lags and duplicates are reached within a
  few messages.
* `maintenance`: a bootstrap peer and one other. Both may be preferred, and a tick
  may dial one preferred peer, so that the shuffle decides. In the peerstore the
  bootstrap peer has three dialable addresses and the other one, four pairs for a
  refill budget of three, and the pairs of the bootstrap peer waste the budget when
  it was attempted already. One clock finds the bootstrap peer's record too old, in
  the other's eyes the other record is from the future. Two steps of the
  exponential; delays of 1 to 3 units with ticks of one unit, so that backoffs
  outlast a tick.
* `service`: three peers, two tasks that run before the servers are bound, two
  after; crashes, failures and restarts are unbounded.
* `io`: a stream of four bytes before a slice of one, a buffer of two (a read of
  three bypasses it), `Half = 3`, so that seeks reach every overflow, limits
  within and beyond the data, empty reads; `BufWriter` with and without a buffer, four bytes
  offered in calls of up to three, a slice of two, a copy buffer of three. A
  client may be done, hence `CHECK_DEADLOCK FALSE`.

Fairness, only where the code has it: the event loop polls its command channel,
and the transport's timeout ends every dial (`EventLoop!Fairness`); the
maintenance task is scheduled, time goes on, the event loop answers the request
for a snapshot, and a random shuffle that could keep a peer again and again does
so some time, whatever the clock says at those times (`Maintenance!Fairness`: of the
refill, only ticks whose candidates include the peer oblige the shuffle); a save runs on, main is polled between the
flusher's saves, and the container runtime restarts a service that crashed or
exited non-zero (`Service!Fairness`); the client's thread runs, and the reader or
writer below does not interrupt it for ever (`CopyingFairness`). Callers, remote
peers, the scorer and the operator owe nothing.

Definitions marked "Mutant" are plausible bugs; no specification uses them. Put in
the place of the definition that `PROJECT.json` names, each makes the property
it is listed with fail.

## 4. Proofs

From the named assumptions on the constants (`EventLoopAssumption`,
`SubnetAssumption`, `MaxAddrsAssumption`, `BackoffAssumption`,
`MaintenanceAssumption`, `NodeAssumption`, `PubSubAssumption`,
`ServiceAssumption`, `ReadersAssumption`, `WritersAssumption`, `CopyingAssumption`), for all values:

**EventLoopProofs** proves `TypeCorrect`, `CallersNotForgotten`,
`ProtectedSetIsExact`, `ScoresFollowProtection`, `TableCorrect`,
`CountersCorrect`, `SubnetCapCorrect`, `HighWaterCorrect`, `ProtectedAreSafe`,
`PeerStoreIsBounded`, `OnlyDialableStored` and `EvictsInOrder`. The argument has four inductive
invariants, one for each group of variables:

* `DialInv`: types, and `NoCallerForgotten`, which is inductive with them.
* `PrefInv`: types, `ProtectedSetExact` and `ScoreFollowsProtection`. Scores need
  the exactness of the protected set, since the bonus on connection looks at
  `dial_hints` and `Bootstrap` and the reset looks at `protected`.
* `ConnInv`: types, `TableMatchesSwarm`, `CountersExact`, the two limits, and
  distinct connection ids. The limits alone are not inductive: a connection is
  let in because a counter, or the size of the table, is small, so the proof needs
  that the counter is the number of connections in the subnet and that the table
  has exactly the peers with a connection. Lemmas on the cardinality of filtered
  sets carry the step from the counter to the limited connections.
* `StoreInv`: a peer's list has distinct addresses, between one and
  `MaxAddrsPerPeer`, all of which may be persisted for that peer; and the swarm
  dials a peer only at addresses that some caller gave for it. The second part is
  what makes the first inductive: a connection that comes up records what was
  dialed.

`AddAddrs` and `Keep` are recursive functions over a list. The library's induction
theorems take an operator, which the provers cannot instantiate; instead
`LeastElement` gives induction over an interval with the hypothesis as a set of
numbers (`IntervalInduction`), and from it the existence of a recursively defined
function (`IterationExists`). `AddAddrsType` and `KeepElements` then say what the
two compute, for lists of any length.

`ProtectedAreSafe` is an action property and needs no invariant. `EvictsInOrder` is
one about the whole loop of `record`: a turn of it takes away at most the front
address (`TurnEvictsOldest`), and the induction over the turns carries how many
have left (`AddAddrsEvictsOldest`); it rests on `StoreInv`, since what leaves a list
depends on the list being within its limit.

**RefinementProofs** proves `DialServiceImplemented`: every step of the event loop
is one of `DialService` or a stutter. Which answer a step gives to whom rests on
`RefInv`: `DialInv` says that the waiting callers are those in `pending_dials`, and
`CallerInv` that a receiver that was dropped is still in the loop's hands, so that
its answer is visible to nobody.

It also proves `MaintenanceImplemented`: the event loop is a network as Maintenance
expects it. `NodeInv` adds to the event loop's invariants that the receiver that
the maintenance task holds (`slot`) is of a call for its target, which the event
loop has or has answered. Then an answer that appears is one that `MayAnswer`
allows: "ok" only at a moment at which the target is in the table. A refill is a
`Plan` because the recorded lists are bounded (`StoreInv`). Three consequences
follow. `NodeRunsEventLoop`: the node's behaviours are among the event loop's, so
the theorems above hold of the node, among them what the `node` and `peerstore` runs
check of the stored lists (`NodeStoreCorrect`). `NodeTicksBounded`: what `MaintenanceProofs` proves of a
tick holds in the node; the module is instantiated as the node instantiates
Maintenance, and its assumptions are proved of the node's constants. And
`PreferredListsAreParsed`: from any request, the gRPC parser makes a list without
repeated peers, with exactly the valid peers of the request, which is what
`EventLoopAssumption` asks of `PreferredList`.

**MaintenanceProofs** proves `MaintenanceTypeCorrect`, `TicksBounded` and
`DelaysBounded`. `TicksBounded` (`DialsPerTickBounded`) is proved and not run: to
exceed its bound a tick needs more stored peers than the bound allows, with caps of
one at least five besides the bootstrap peers, and the `maintenance` run has one.
What a tick has dialed and what it may still dial are together within the bound
(`BudgetKept`): the bound on what was dialed is not inductive by itself.
`BackoffInv` bounds failures and waits under every operation of the backoff.
`DelaysBounded` says what the delays are: there is one for every number of
failures, each lies between half the base and one and a half times the cap, and
`MaxFailures`, where the model stops counting, hides nothing, as the delays no
longer change there. Of the powers of two it needs that they are positive and
grow; that follows from the cardinalities of power sets.

**PubSubProofs** proves `NothingIsMissed` and `DeliveredOnce`. For the first, what a
stream is owed lies between its receiver's start and the end of the log
(`OwedInv`), which holds because the receiver is made before the topic is joined.
For the second, `DeliveryInv`: a payload that the duplicate cache does not know, or
that one handler has published but not echoed yet, is on no channel, and no two
handlers are to echo the same one.

**ServiceProofs** proves `ServiceTypeCorrect`, `DurableAreKept` and `ExitSaves`
from `StoreInv`. Besides the properties it states that the file is absent or
whole (`FileInv`): only then does a restart load what was durable.

**ReaderProofs** proves `ReadersTypeCorrect`, `BytesAccounted`, `EndsAreReal` and
`ByteStreamImplemented`. `ReaderInv` says that a non-empty rest of the buffer is
what lies right before the reader's position, and ties the progress of a running
call, and the result of the last one, to the limit. Each method has a lemma on all
its outcomes, composed as the adapters are; a step of the client is then a step of
`ByteStream` by the lemma of the outermost method.

**WriterProofs** proves `SilenceAfterPanic`. LineWriter writes complete lines
without the flag that keeps `BufWriter`'s destructor from writing again, so the
property is not about the flag alone: with a buffer of some length an unguarded
write always stands behind a flush (`Fenced`), and a flush that gets through
panics by itself; with a buffer of no length there is nothing to write again.

It also proves `AcknowledgedIsThere`. The property is the promise of a buffered
writer: what was acknowledged has arrived or is in the buffer. The code keeps it in
a degenerate way, as no write that would use the buffer gets through (section 5), so
the proof shows that all of it has arrived (`Received`). That, with the sink in
order, is not inductive: `SinkInv` adds how far the sink has got
(`Reached`), and that the steps a call has still to do hand W exactly the rest of
its bytes, one part after the other (`Delivers`: there is a function from the steps
that are left to the bytes sent before each of them). `write` is one step that may
be cut short (`Single`), and after a panic nothing but a destructor with no bytes
of its own is to come. The buffer never holds a byte (`SinkTypes`), since the copy
into it panics. The bytes that no client wrote come last because of `FillerInv`:
while the writer lives the sink has none, but for those of a flush that is still
going on, and that flush ends in a panic.

**CopyingProofs** proves `CopiesAreExact` from the outcome lemmas of the two: a
chunk that copy has read is the writer's job until all of it has arrived, and what
the writer is left to do is determined by what has arrived (`Remaining`). It also
carries the theorems on readers and writers over to the whole client that the `io`
run checks (`ClientReads`, `ClientSeesStreams`, `ClientIsSilent`,
`ClientBytesArrive`): every step of `copy` is one of the adapters below it.

Model-checked only: liveness (`EveryDialAnswered`, `AnchorRetried`,
`PreferredRetried`, `RefillRetried`, `EndedTaskIsReplaced`, `EveryCallReturns`, `EveryWriteEnds`,
`EveryCopyEnds`), which the prover does not reach. Every other property of the
passing runs has its theorem.

## 5. Where documentation and code disagree

* A dial may be reported as successful because of a connection that the limits are
  closing at that moment (`OkMeansConnectionStays`).
* The second address of a bootstrap peer is never dialed
  (`BootstrapDialCarriesAllAddresses`).
* Pruning a backoff entry forgets the failures (`PruneForgetsNoFailure`).
* A flush of core2's `BufWriter` that has written anything panics in its guard,
  which copies a slice into an array of another length, and so does the destructor
  (`DestructorNeverPanics`).

`PROJECT.json` quotes the sentences of these four. Three more need no run, as they
can be read off a definition or a step of a run above:

* A write to `BufWriter` that is shorter than the buffer does not put its bytes
  there: the copy into the buffer is between slices of different lengths and panics
  (buffered.rs:612 and 632, `Buffer` of Writers). The docs say that such writes are
  acknowledged, grouped together in the buffer and written out when it is flushed
  (buffered.rs:305-308 and 333-355; the example of LineWriter, 957-966, expects the
  same of what follows the last newline). So the buffer never holds a client's
  byte, and buffering, the purpose of the type, is not there. `AcknowledgedReachesSink`
  is stated as the docs have it and lets the last `len` acknowledged bytes wait in the
  buffer; that it holds says nothing in favour of the buffering, since with this code
  it is all of them that have reached W.
* A flush, and with it `seek`, `into_inner` and the destructor, first sends W the
  whole array of `S` zeros, which nobody offered, instead of the `len` bytes that
  are in use (buffered.rs:444, 454 and 472); a writer that is fresh and never written
  to does so too. The doc of `flush_buf` speaks of data that was "reported to our
  owner as "successfully written"" (buffered.rs:424-426). The zeros are the `Filler`
  of Writers and the first thing in the trace of `bufwriter`; what can be said about
  them, and is checked and proved, is that they come after all bytes of the client.
* A stream that lagged behind by `n` messages adds one to the metric
  `subscriber_lagged` (grpc.rs:211-214), while the API says that on overflow "the
  oldest messages are dropped and counted in metrics" (README.md:42-43,
  proto/aleph_p2p.proto:19-20).

Two smaller ones: the gauge `p2p_connected_peers` counts connections, which is what
`CountersExact` says of it, and limits are enforced only when a connection comes
up, so a peer that loses its protection stays above the watermark until it leaves.

## 6. Not modelled

* Configuration is data; `ValidConfig` and the assumptions are its validation. The
  metrics registry, the two HTTP endpoints and the read-only calls (`GetPeers`,
  `Identify`) change no state that anything reads. Key loading happens before
  anything runs.
* gossipsub, identify and the swarm are external: EventLoop and PubSub state what
  the code relies on.
* core2's error values beyond their kind: texts, `Display`, downcasts, sources. The
  check of `read_to_string` for UTF-8 is about contents; the forwarding
  implementations for references behave as what they forward to.
* A power failure: the temp file of a save is not synced before the rename, and
  what a file system then keeps is outside the model.
* The float arithmetic of the protected share: its truncated product is the
  constant `ProtectedCap`.

## 7. Plan

Done, in this order, the most important behaviour first: the event loop with its
limits and dials, the abstract dial service, publish and subscribe, the proofs of
the event loop, maintenance with its backoff, the service process and its proofs;
then cancelled calls and the end of the loop in PubSub, a clock that is set back,
the startup phases, addresses and statuses as operators, the composition in Node,
the refinement proof, the proofs of PubSub and Maintenance, and core2's readers,
writers and copy with their proofs; and then the proofs of the safety properties
that were left, of the refinement of the maintenance loop by the node, and of what
follows from it for the node.

Next: Node with the process around it, so that a restart reloads what the loop
recorded.
