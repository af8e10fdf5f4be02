--------------------------------- MODULE Node ---------------------------------
(***************************************************************************)
(* The event loop, the peerstore and the maintenance loop together.  The   *)
(* maintenance loop gets its snapshots from the event loop's table, dials  *)
(* through dial_and_wait, of which each dial is one call of EventLoop, and *)
(* refills from the peerstore that the event loop records into.  What      *)
(* Maintenance leaves to chance is here what the event loop does.          *)
(***************************************************************************)
EXTENDS EventLoop

CONSTANTS
  BootstrapList, Undialable, LowWater, MaxPreferredDials, Interval,
  DialTimeout, MaxAge,                    \* as in Maintenance
  BackoffBase, BackoffCap, MaxFailures,   \* as in DialBackoff
  Ids,     \* bounds the simultaneous connections of a peer: their ids
  Sources  \* bounds the addresses from which a peer itself connects

\* validate_config: with any other configuration main returns at once.
ValidConfig ==
  /\ LowWater <= HighWater
  /\ PerSubnetCap # 0
  /\ ProtectedCap <= HighWater   \* max_protected_share is in 0.0 .. 1.0
  /\ Interval # 0

NoSlot == "none"

ASSUME NodeAssumption ==
  /\ ValidConfig
  /\ NoSlot \notin Call
  /\ Ids \in [Peer -> SUBSET ConnId]
  /\ Sources \in [Peer -> SUBSET InboundAddr]
  /\ IsFiniteSet(Addr) /\ Undialable \subseteq Addr
  /\ BootstrapList \in Seq([peer : Peer, addr : Addr])
  /\ LowWater \in Nat /\ MaxPreferredDials \in Nat
  /\ Interval \in Nat /\ DialTimeout \in Nat \ {0}
  /\ BackoffBase \in Nat \ {0} /\ BackoffCap \in Nat
  /\ MaxFailures \in Nat \ {0}
  /\ BackoffBase <= BackoffCap
  /\ BackoffBase * 2^(MaxFailures - 1) >= BackoffCap
  /\ Bootstrap = {BootstrapList[i].peer : i \in 1..Len(BootstrapList)}

VARIABLES
  phase, snapshot, hints, bootstrap_todo, preferred_todo, refill_todo,
  attempted, target, timer, backoff,      \* as in Maintenance
  slot     \* the call of dial_and_wait that the loop awaits, NoSlot if none

\* The answer that the maintenance task will find when it is polled.
Answered ==
  IF slot = NoSlot \/ call[slot] \in {"sent", "waiting"} THEN "none"
  ELSE IF call[slot] = "ok" THEN "ok" ELSE "error"

\* The peerstores that the event loop may have recorded, and the hints that it
\* may have been given.
AnyStore ==
  UNION { [P -> [addrs     : UNION {[1..n -> Addr] : n \in 0..MaxAddrsPerPeer},
                 last_seen : Time]] : P \in SUBSET Peer }
AnyHints == {HintsOf(Accepted(list)) : list \in PreferredList}
              \cup {[p \in {} |-> {}]}

Loop == INSTANCE Maintenance WITH
  connected <- DOMAIN connected,
  preferred <- dial_hints,
  alive     <- running,
  answer    <- Answered,
  Reachable <- Peer,
  Bootstrap <- BootstrapList,
  Hints     <- AnyHints,
  Stores    <- AnyStore,
  Now       <- Time

loopVars == <<phase, snapshot, hints, bootstrap_todo, preferred_todo,
              refill_todo, attempted, target, timer, backoff, slot>>
nodeVars == <<vars, loopVars>>

NodeInit ==
  /\ Init
  /\ slot = NoSlot
  /\ Loop!Init

-----------------------------------------------------------------------------
(***************************************************************************)
(* Steps of the maintenance task                                           *)
(***************************************************************************)

\* A step in which it neither dials nor ends a dial.
LoopOnly(A) == UNCHANGED vars /\ UNCHANGED slot /\ A

PlanTick ==
  /\ phase = "answered"
  /\ UNCHANGED vars /\ UNCHANGED slot
  /\ \E now \in Time : Loop!PlanWith(peerstore, now)

\* dial_and_wait sends the command; the calls bound the dials of one candidate
\* that were given up and still run.
DialFromLoop(c) ==
  /\ phase = "dial"
  /\ \E k \in Call :
       /\ Callee[k] = c.peer /\ CalleeAddrs[k] = c.addrs
       /\ SendDial(k)
       /\ slot' = k
       /\ Loop!Dial(c)

TakeAnswer ==
  /\ phase = "waiting"
  /\ TakeReply(slot)
  /\ slot' = NoSlot
  /\ Loop!DialSucceeds \/ Loop!DialFails

\* DIAL_TIMEOUT is over: the receiver is dropped, the dial goes on.
GiveUpDial ==
  /\ phase = "waiting"
  /\ timer = 0
  /\ AbandonDial(slot)
  /\ slot' = NoSlot
  /\ Loop!DialFails

LoopRuns ==
  \/ LoopOnly(Loop!StartTick)
  \/ LoopOnly(Loop!SnapshotFails)
  \/ PlanTick
  \/ \E c \in Loop!Upcoming : LoopOnly(Loop!Skip(c))
  \/ \E c \in Loop!Upcoming : DialFromLoop(c)
  \/ TakeAnswer
  \/ GiveUpDial
  \/ LoopOnly(Loop!EndTick)
  \/ LoopOnly(Loop!Wake)
  \/ LoopOnly(Loop!TimePasses)

-----------------------------------------------------------------------------
(***************************************************************************)
(* Steps of the event loop and of the remote peers                         *)
(***************************************************************************)

\* Command::NetworkSnapshot
HandleSnapshot == LoopOnly(Loop!SnapshotAnswered)

EstablishedWith(p) ==
  \E i \in Ids[p] :
    \/ \E a \in Sources[p] : InboundEstablished(i, p, a)
    \/ \E a \in dialing[p] : OutboundEstablished(i, p, a)

EventLoopRuns ==
  /\ \/ \E k \in Call : HandleDial(k)
     \/ \E p \in Peer : EstablishedWith(p)
     \/ \E c \in conns : ConnectionClosed(c)
     \/ \E p \in Peer : DialFails(p)
     \/ \E p \in Peer, list \in Advertised : IdentifyReceived(p, list)
     \/ \E list \in PreferredList : SetPreferredPeers(list)
     \/ Stop
  /\ UNCHANGED loopVars

NodeNext == LoopRuns \/ HandleSnapshot \/ EventLoopRuns

NodeSpec == NodeInit /\ [][NodeNext]_nodeVars

-----------------------------------------------------------------------------
(***************************************************************************)
(* Properties                                                              *)
(***************************************************************************)

\* What Maintenance assumes of the network around it is what the event loop
\* does, although an answer may be taken after the connection is gone, belong
\* to a dial that an earlier tick began, or never come.
ImplementsMaintenance == Loop!Spec
==============================================================================
