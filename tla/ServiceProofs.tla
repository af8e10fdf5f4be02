---------------------------- MODULE ServiceProofs ----------------------------
(***************************************************************************)
(* Theorems about Service, for any peers and any tasks.                    *)
(***************************************************************************)
EXTENDS Service, TLAPS

\* What the temp file and the lock contribute: the file is absent or whole, and
\* the temp file that Rename installs is the peerstore of that very moment.
FileInv == file = Absent \/ file = Whole(file.peers)

\* The inductive invariant of the peerstore file.
StoreInv ==
  /\ TypeOK
  /\ FileInv
  /\ DurablePeersKept
  /\ ExitSavesEverything

LEMMA InitStoreInv == Init => StoreInv
  BY DEF Init, StoreInv, TypeOK, FileInv, DurablePeersKept, ExitSavesEverything,
         Up, File, Absent, Whole, Status, Starting

\* What is loaded contains the durable peers.
LEMMA LoadKeepsDurable ==
  ASSUME StoreInv
  PROVE  /\ Load \subseteq Peer
         /\ ~unread => durable \subseteq Load
  BY DEF StoreInv, TypeOK, FileInv, DurablePeersKept, Load, File, Absent, Whole

LEMMA StepStoreInv ==
  ASSUME StoreInv, [Next]_vars
  PROVE  StoreInv'
<1> USE DEF StoreInv
<1>1. CASE Start \/ StartUnreadable
  <2>1. /\ store' \subseteq Peer
        /\ ~unread' => durable' \subseteq store'
        /\ unread => unread'
    BY <1>1, LoadKeepsDurable DEF Start, StartUnreadable, Boot
  <2>2. QED
    BY <1>1, <2>1
       DEF Start, StartUnreadable, Boot, TypeOK, FileInv, DurablePeersKept,
           ExitSavesEverything, Up, Status, Starting
<1>2. CASE SpawnEventLoop \/ TopicsJoined \/ StartupDone \/ StartupFails
  BY <1>2 DEF SpawnEventLoop, TopicsJoined, StartupDone, StartupFails, TypeOK,
              FileInv, DurablePeersKept, ExitSavesEverything, Up, histVars,
              Status, Starting
<1>3. CASE \E p \in Peer : Record(p)
  BY <1>3 DEF Record, Spawned, TypeOK, FileInv, DurablePeersKept,
              ExitSavesEverything, Up, histVars, procVars, Status, Starting
<1>4. CASE \E t \in Task : TaskEnds(t)
  <2>1. PICK t \in Task : TaskEnds(t)
    BY <1>4
  <2>2. ended' \subseteq Task
    BY <2>1 DEF TaskEnds, TypeOK
  <2>3. QED
    BY <2>1, <2>2 DEF TaskEnds, TypeOK, FileInv, DurablePeersKept,
                      ExitSavesEverything, Up, histVars
<1>5. CASE FlushTick \/ Supervise
  BY <1>5 DEF FlushTick, Supervise, TypeOK, FileInv, DurablePeersKept,
              ExitSavesEverything, Up, histVars, procVars, File, Torn, Status,
              Starting
<1>6. CASE Write
  BY <1>6 DEF Write, TypeOK, FileInv, DurablePeersKept, ExitSavesEverything,
              Up, histVars, procVars, File, Whole
<1>7. CASE Rename
  BY <1>7 DEF Rename, AfterSave, TypeOK, FileInv, DurablePeersKept,
              ExitSavesEverything, Up, File, Whole, Absent, Status, Starting
<1>8. CASE SaveFails
  BY <1>8 DEF SaveFails, AfterSave, TypeOK, FileInv, DurablePeersKept,
              ExitSavesEverything, Up, Status, Starting
<1>9. CASE UNCHANGED vars
  BY <1>9 DEF vars, procVars, histVars, TypeOK, FileInv, DurablePeersKept,
              ExitSavesEverything, Up
<1>10. CASE Signal \/ Crash
  BY <1>10 DEF Signal, Crash, TypeOK, FileInv, DurablePeersKept,
               ExitSavesEverything, Up, histVars, Status, Starting
<1>11. QED
  BY <1>1, <1>2, <1>3, <1>4, <1>5, <1>6, <1>7, <1>8, <1>9, <1>10 DEF Next

LEMMA StoreInvariant == Spec => []StoreInv
  BY InitStoreInv, StepStoreInv, PTL DEF Spec

\* The variables have their types, and the peerstore file is never torn.
THEOREM ServiceTypeCorrect == Spec => []TypeOK
<1>1. StoreInv => TypeOK
  BY DEF StoreInv
<1>2. QED
  BY <1>1, StoreInvariant, PTL

\* No crash, failed save or restart loses a peer that was made durable.
THEOREM DurableAreKept == Spec => []DurablePeersKept
<1>1. StoreInv => DurablePeersKept
  BY DEF StoreInv
<1>2. QED
  BY <1>1, StoreInvariant, PTL

\* The file holds the whole peerstore after every exit through main.
THEOREM ExitSaves == Spec => []ExitSavesEverything
<1>1. StoreInv => ExitSavesEverything
  BY DEF StoreInv
<1>2. QED
  BY <1>1, StoreInvariant, PTL
=============================================================================
