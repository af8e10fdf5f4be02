------------------------------- MODULE Service -------------------------------
(***************************************************************************)
(* The process of src/main.rs: startup, the supervision of its critical    *)
(* tasks, shutdown, and the peerstore file that src/p2p/peerstore.rs loads *)
(* and saves.  Of the peerstore only the set of known peers matters here:  *)
(* record() adds to it and nothing ever takes a peer out.                  *)
(*                                                                         *)
(* A crash is the end of the process at any moment (SIGKILL, out of        *)
(* memory, any signal before main handles it); the operating system goes   *)
(* on and keeps what was written.                                          *)
(***************************************************************************)
CONSTANTS
  Peer,
  Task,        \* the tasks whose handles the supervision watches
  EventLoop,   \* the one that records peers
  Flusher,     \* the one that saves the peerstore from time to time
  Early        \* those that run before the servers are bound

ASSUME ServiceAssumption ==
  /\ Early \subseteq Task /\ Flusher \in Task \ Early
  /\ EventLoop \in Early

VARIABLES
  status,      \* how far the process is, see Status
  exit_code,   \* of the last exit; 1 also stands for a failed startup
  store,       \* the peers in memory
  file, tmp,   \* the peerstore file, and the one that a save writes first
  save,        \* the step at which a save is: "no", "write" or "rename"
  ended,       \* tasks that returned or panicked
  signalled,   \* SIGINT or SIGTERM has arrived
  durable,     \* history: the peers of the last save that succeeded
  unread,      \* history: a load met a file that it could not read
  unsaved      \* history: the final save of this exit failed

procVars == <<status, exit_code, ended, signalled>>
histVars == <<durable, unread, unsaved>>
vars == <<procVars, histVars, store, file, tmp, save>>

\* A file: not there, partly written, or the serialization of a set of peers.
File == [kind : {"absent", "torn", "whole"}, peers : SUBSET Peer]
Absent   == [kind |-> "absent", peers |-> {}]
Torn     == [kind |-> "torn", peers |-> {}]
Whole(S) == [kind |-> "whole", peers |-> S]

Init ==
  /\ status = "down"
  /\ exit_code = 1
  /\ store = {}
  /\ file = Absent
  /\ tmp = Absent
  /\ save = "no"
  /\ ended = {}
  /\ signalled = FALSE
  /\ durable = {}
  /\ unread = FALSE
  /\ unsaved = FALSE

\* "loading": nothing is spawned yet; "joining": main waits for the event loop
\* to listen and to join the topics; "binding": it binds the servers; "stopping":
\* the final save runs; "exited": main came to its end; "down": it did not.
Starting == {"loading", "joining", "binding"}
Status   == Starting \cup {"running", "stopping", "exited", "down"}

Up == status \in Starting \cup {"running", "stopping"}

-----------------------------------------------------------------------------
(***************************************************************************)
(* Startup                                                                 *)
(***************************************************************************)

\* Mutant: a restart begins with an empty peerstore.
LoadNothing == {}

\* A corrupt file counts as an empty peerstore, like one that is not there.
Load == IF file.kind = "whole" THEN file.peers ELSE {}

Boot(loaded) ==
  /\ status \in {"down", "exited"}
  /\ status' = "loading"
  /\ store' = loaded
  /\ ended' = {}
  /\ signalled' = FALSE
  /\ unsaved' = FALSE
  /\ UNCHANGED <<exit_code, file, tmp, save, durable>>

Start == Boot(Load) /\ UNCHANGED unread

\* Any error of read_to_string counts as "no peerstore".
StartUnreadable == Boot({}) /\ unread' = TRUE

\* network::new succeeds and the event loop is spawned.
SpawnEventLoop ==
  /\ status = "loading"
  /\ status' = "joining"
  /\ UNCHANGED <<exit_code, ended, signalled, histVars, store, file, tmp, save>>

\* start_listening and every subscribe were answered.
TopicsJoined ==
  /\ status = "joining"
  /\ EventLoop \notin ended
  /\ status' = "binding"
  /\ UNCHANGED <<exit_code, ended, signalled, histVars, store, file, tmp, save>>

StartupDone ==
  /\ status = "binding"
  /\ status' = "running"
  /\ UNCHANGED <<exit_code, ended, signalled, histVars, store, file, tmp, save>>

\* A step fails, or the event loop that main waits for is gone: main returns an
\* error or panics, and nothing is saved.
StartupFails ==
  /\ status \in Starting
  /\ status' = "down"
  /\ exit_code' = 1
  /\ store' = {}
  /\ UNCHANGED <<ended, signalled, histVars, file, tmp, save>>

-----------------------------------------------------------------------------
(***************************************************************************)
(* The running service                                                     *)
(***************************************************************************)

\* The tasks run on main's thread, so only while main awaits something.
Spawned ==
  CASE status = "joining" -> {EventLoop}
    [] status = "binding" -> Early
    [] status = "running" -> Task
    [] OTHER              -> {}

\* record() by the event loop, which needs the lock that a save holds.
Record(p) ==
  /\ EventLoop \in Spawned \ ended
  /\ save = "no"
  /\ store' = store \cup {p}
  /\ UNCHANGED <<procVars, histVars, file, tmp, save>>

\* None ends in the middle of a save; one that ends during startup is noticed
\* once main watches it.
TaskEnds(t) ==
  /\ t \in Spawned
  /\ save = "no"
  /\ ended' = ended \cup {t}
  /\ UNCHANGED <<status, exit_code, signalled, histVars, store, file, tmp, save>>

Signal ==
  /\ status = "running"
  /\ signalled' = TRUE
  /\ UNCHANGED <<status, exit_code, ended, histVars, store, file, tmp, save>>

\* The flusher's interval ticks: it takes the lock and opens the temp file.
FlushTick ==
  /\ status = "running"
  /\ Flusher \notin ended
  /\ save = "no"
  /\ save' = "write"
  /\ tmp' = Torn
  /\ UNCHANGED <<procVars, histVars, store, file>>

\* Mutant: the supervision forgets the flusher.
WatchedEndedButFlusher == ended \ {Flusher}

WatchedEnded == ended

\* Mutant: a signal ends the process without the final save.
SuperviseWithoutSave ==
  /\ status = "running"
  /\ save = "no"
  /\ signalled
  /\ status' = "exited"
  /\ exit_code' = 0
  /\ UNCHANGED <<ended, signalled, histVars, store, file, tmp, save>>

\* The select of main: 1 if a task ended, 0 if a signal came, either if both.
\* The tasks are aborted and the final save begins, without a suspension point.
Supervise ==
  /\ status = "running"
  /\ save = "no"
  /\ \/ WatchedEnded # {} /\ exit_code' = 1
     \/ signalled /\ exit_code' = 0
  /\ status' = "stopping"
  /\ save' = "write"
  /\ tmp' = Torn
  /\ UNCHANGED <<ended, signalled, histVars, store, file>>

-----------------------------------------------------------------------------
(***************************************************************************)
(* PeerStore::save, by the flusher or at the end of main                   *)
(***************************************************************************)

\* The final save is followed by process::exit, whatever it returned.
AfterSave ==
  /\ save' = "no"
  /\ status' = IF status = "stopping" THEN "exited" ELSE status
  /\ UNCHANGED <<exit_code, ended, signalled>>

\* Mutant: the file is written in place.
WriteInPlace ==
  /\ Up /\ save = "write"
  /\ file' = Torn
  /\ tmp' = Whole(store)
  /\ save' = "rename"
  /\ UNCHANGED <<procVars, histVars, store>>

Write ==
  /\ Up /\ save = "write"
  /\ tmp' = Whole(store)
  /\ save' = "rename"
  /\ UNCHANGED <<procVars, histVars, store, file>>

Rename ==
  /\ Up /\ save = "rename"
  /\ file' = tmp
  /\ tmp' = Absent
  /\ durable' = store
  /\ AfterSave
  /\ UNCHANGED <<unread, unsaved, store>>

\* write or rename returns an error, which is only logged.
SaveFails ==
  /\ Up /\ save # "no"
  /\ unsaved' = (status = "stopping")
  /\ AfterSave
  /\ UNCHANGED <<durable, unread, store, file, tmp>>

-----------------------------------------------------------------------------
Crash ==
  /\ Up
  /\ status' = "down"
  /\ exit_code' = 1
  /\ store' = {}
  /\ save' = "no"
  /\ UNCHANGED <<ended, signalled, histVars, file, tmp>>

Next ==
  \/ Start \/ StartUnreadable
  \/ SpawnEventLoop \/ TopicsJoined \/ StartupDone \/ StartupFails
  \/ \E p \in Peer : Record(p)
  \/ \E t \in Task : TaskEnds(t)
  \/ Signal
  \/ FlushTick
  \/ Supervise
  \/ Write \/ Rename \/ SaveFails
  \/ Crash

Spec == Init /\ [][Next]_vars

\* The container runtime restarts a service that crashed or exited non-zero.
Restart == exit_code # 0 /\ (Start \/ StartUnreadable)

\* A save runs on and main is polled between the saves of the flusher; nobody
\* must crash, fail or send a signal.
Fairness ==
  /\ WF_vars(Restart)
  /\ SF_vars(Supervise)
  /\ WF_vars(Write \/ Rename \/ SaveFails)

FairSpec == Spec /\ Fairness

-----------------------------------------------------------------------------
(***************************************************************************)
(* Properties                                                              *)
(***************************************************************************)

\* "Atomic save": the peerstore file is never partly written, wherever a crash,
\* a failed write or a restart strikes; a save is under way only in a process
\* that is up, and a temp file that it has not finished is never renamed.
TypeOK ==
  /\ status \in Status
  /\ exit_code \in {0, 1}
  /\ store \subseteq Peer /\ durable \subseteq Peer
  /\ file \in File /\ tmp \in File
  /\ file.kind # "torn"
  /\ save \in {"no", "write", "rename"}
  /\ save # "no" => status \in {"running", "stopping"}
  /\ save = "rename" => tmp = Whole(store)
  /\ ended \subseteq Task

\* "Persisted across restarts": a peer that a successful save made durable is
\* in the file and, whenever the service is up, in the peerstore, over any
\* number of crashes, failed saves and restarts, unless a file that could not be
\* read was taken for none.
DurablePeersKept ==
  ~unread => /\ durable \subseteq file.peers
             /\ Up => durable \subseteq store

\* However main came to its end, by a signal, a task that ended or both at the
\* same time, the file then holds everything that was recorded, or the final
\* save failed.
ExitSavesEverything ==
  status = "exited" /\ ~unsaved => file = Whole(store)

\* "Every spawned task is critical": if any one of them ends, the service comes
\* back with all of them, unless it is told to stop meanwhile.
EndedTaskIsReplaced ==
  status = "running" /\ ended # {} ~>
    \/ status = "loading"
    \/ status = "exited" /\ signalled
=============================================================================
