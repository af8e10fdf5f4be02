------------------------------- MODULE Copying -------------------------------
(***************************************************************************)
(* copy of the vendored core2::io: it moves everything that the stack of   *)
(* readers yields to a writer, a BufWriter of capacity 0 that passes every *)
(* write on to W.  A client of the library reads, writes or copies; which  *)
(* of the three is picked at the start.                                    *)
(***************************************************************************)
EXTENDS Readers, Writers

CONSTANT CopySize   \* the const parameter S of copy, the size of its buffer

ASSUME CopyingAssumption == CopySize \in Nat \ {0}

VARIABLES
  client,   \* "reads", "writes" or "copies"
  copy      \* [phase, had, base, written]: had and base are the limit of the
            \* readers and the length of the sink at its start (history)

NoCopy == [phase |-> "off", had |-> 0, base |-> 0, written |-> 0]

readerVars  == vars
copyingVars == <<client, copy, readerVars, writerVars>>

CopyingInit ==
  /\ Init /\ WriterInit
  /\ client \in {"reads", "writes", "copies"}
  /\ copy = NoCopy
  /\ client = "reads" => adapter = "buf" /\ capacity = 0 /\ target = "vec"
  /\ client = "writes" => \A n \in Limits : rd.limit <= n   \* not used
  /\ client = "copies" => adapter = "buf" /\ capacity = 0 /\ target # "cursor"

-----------------------------------------------------------------------------
Moved(c) == c.had - rd.limit          \* bytes taken from the readers since
Arrived(c) == Len(sink) - c.base      \* bytes that W has accepted since

StartCopy ==
  /\ life = "live"
  /\ copy.phase \notin {"read", "write"}
  /\ copy' = [phase |-> "read", had |-> rd.limit, base |-> Len(sink),
              written |-> 0]
  /\ peeked' = 0
  /\ out' = Nothing
  /\ UNCHANGED <<rd, call, result, writerVars>>

\* Mutant: an interrupted read ends the copy.
CopyReadInterrupted ==
  /\ copy.phase = "read"
  /\ \E o \in TakeRead(rd, CopySize) :
       /\ Reading(o)
       /\ IF Retried(o.kind) \/ (o.kind = "ok" /\ o.n = 0)
          THEN copy' = [copy EXCEPT !.phase = "ok"] /\ UNCHANGED writerVars
          ELSE UNCHANGED <<copy, writerVars>>
  /\ UNCHANGED <<call, result>>

\* A read of copy's loop, which begins the write_all of what was read.
CopyRead ==
  /\ copy.phase = "read"
  /\ \E o \in TakeRead(rd, CopySize) :
       /\ Reading(o)
       /\ IF Retried(o.kind) THEN UNCHANGED <<copy, writerVars>>
          ELSE IF o.kind # "ok" \/ o.n = 0
          THEN /\ copy' = [copy EXCEPT !.phase = IF o.kind = "ok" THEN "ok"
                                                                 ELSE "failed"]
               /\ UNCHANGED writerVars
          ELSE /\ copy' = [copy EXCEPT !.phase = "write"]
               /\ job' = [op |-> "write_all", from |-> offered, n |-> o.n, nl |-> 0]
               /\ todo' = WriteAll(o.n, 0)
               /\ sent' = 0
               /\ UNCHANGED <<typeVars, clientVars, len, panicked, written, room,
                              sink, life, blown>>
  /\ UNCHANGED <<call, result>>

\* A step of write_all; its end is that of the chunk.
CopyWrite ==
  /\ copy.phase = "write"
  /\ Flush \/ WrittenAll \/ WriteRest \/ Done
  /\ copy' = IF job' # NoJob THEN copy
             ELSE IF acked' # acked
             THEN [copy EXCEPT !.phase = "read", !.written = @ + job.n]
             ELSE [copy EXCEPT !.phase = "failed"]
  /\ UNCHANGED readerVars

\* A panic of W unwinds the copy and drops the writer.
CopyUnwinds ==
  /\ life = "unwinding"
  /\ DropUnwinding \/ Done
  /\ UNCHANGED <<copy, readerVars>>

CopySteps == CopyRead \/ CopyWrite \/ CopyUnwinds

-----------------------------------------------------------------------------
CopyingNext ==
  \/ client = "reads" /\ Next /\ UNCHANGED <<client, copy, writerVars>>
  \/ client = "writes" /\ WriterNext /\ UNCHANGED <<client, copy, readerVars>>
  \/ client = "copies" /\ (StartCopy \/ CopySteps) /\ UNCHANGED client

CopyingSpec == CopyingInit /\ [][CopyingNext]_copyingVars

\* The client's thread runs; R and W do not interrupt it for ever.
CopyingFairness ==
  /\ WF_copyingVars(client = "reads" /\ Turn /\ call' # call
                    /\ UNCHANGED <<client, copy, writerVars>>)
  /\ WF_copyingVars(client = "writes" /\ Work
                    /\ UNCHANGED <<client, copy, readerVars>>)
  /\ WF_copyingVars(client = "copies" /\ CopySteps
                    /\ <<copy, writerVars>>' # <<copy, writerVars>>
                    /\ UNCHANGED client)

FairCopyingSpec == CopyingSpec /\ CopyingFairness

-----------------------------------------------------------------------------
(***************************************************************************)
(* Properties                                                              *)
(***************************************************************************)

\* copy returns Ok(n) when it has moved all there was, n bytes, and W has them;
\* when it fails, at most the chunk in hand left the readers without arriving,
\* whatever was interrupted or cut short before.
CopyIsExact ==
  CASE copy.phase = "read"   -> Moved(copy) = copy.written /\ Arrived(copy) = copy.written
    [] copy.phase = "write"  -> /\ Moved(copy) = copy.written + job.n
                                /\ Arrived(copy) = copy.written + sent
    [] copy.phase = "ok"     -> /\ Moved(copy) = copy.written
                                /\ Arrived(copy) = copy.written
                                /\ AtEnd
    [] copy.phase = "failed" -> Moved(copy) - Arrived(copy) \in 0..CopySize
    [] OTHER                 -> TRUE

\* Every copy comes to its end, also over a writer that takes nothing.
EveryCopyEnds == copy.phase \in {"read", "write"} ~> copy.phase \in {"ok", "failed"}
===============================================================================
