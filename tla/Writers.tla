------------------------------- MODULE Writers -------------------------------
(***************************************************************************)
(* The writer side of the vendored core2::io: the loops of the Write       *)
(* trait, BufWriter<W, S> with its destructor, and LineWriter on top.      *)
(*                                                                         *)
(* The client numbers the bytes that it offers; a call to a writer becomes *)
(* a list of steps, each with one call to W.  W is external (a device), or *)
(* one of core2's own writers: a slice with little room, a cursor over it, *)
(* or a vector.  A panic unwinds the client's stack, which drops the       *)
(* writer.                                                                 *)
(***************************************************************************)
EXTENDS IoResults, Sequences, FiniteSets

CONSTANTS
  Capacities,   \* the values of the const parameter S
  Adapters,     \* "buf" for BufWriter, "line" for LineWriter
  Targets,      \* what W is: "device", "slice", "cursor" or "vec"
  Room,         \* the length of the slice, also under a cursor
  MaxOffer,     \* bounds the bytes of one call
  MaxData       \* bounds the bytes of all calls

ASSUME WritersAssumption ==
  /\ Capacities \subseteq Nat
  /\ Adapters \subseteq {"buf", "line"}
  /\ Targets \subseteq {"device", "slice", "cursor", "vec"}
  /\ Room \in Nat /\ MaxOffer \in Nat /\ MaxData \in Nat

VARIABLES
  capacity, adapter, target,   \* picked at the start: the type of the writer
  len, panicked,        \* fields of BufWriter
  written,              \* BufGuard.written while flush_buf runs
  room,                 \* what is left of the slice
  sink,                 \* what W accepted: the numbers of the client's bytes,
                        \* and Filler for a byte that no client wrote
  job,                  \* the call that runs: [op, from, n, nl]
  todo,                 \* its steps that remain
  sent,                 \* how many of its bytes W has accepted
  offered,              \* the number of the client's next byte
  acked,                \* the bytes that a call acknowledged
  life,                 \* "live", "dropped", "unwinding" (to be dropped by the
                        \* client's panic), "unwound" (it has been) or "aborted"
  blown                 \* history: a call of W's write panicked

typeVars   == <<capacity, adapter, target>>
clientVars == <<offered, acked>>
writerVars == <<typeVars, clientVars, len, panicked, written, room, sink, job, todo,
          sent, life, blown>>

Filler == -1
NoJob  == [op |-> "none", from |-> 0, n |-> 0, nl |-> 0]

WriterInit ==
  /\ capacity \in Capacities
  /\ adapter \in Adapters
  /\ target \in Targets
  /\ len = 0 /\ panicked = FALSE /\ written = 0
  /\ room = Room
  /\ sink = <<>>
  /\ job = NoJob /\ todo = <<>> /\ sent = 0
  /\ offered = 0 /\ acked = {}
  /\ life = "live"
  /\ blown = FALSE

-----------------------------------------------------------------------------
(***************************************************************************)
(* W                                                                       *)
(***************************************************************************)

Wrote(n) == [kind |-> "ok", n |-> n]

\* A device takes any part of n bytes, or fails (external).
DeviceWrite(n) ==
  {Wrote(k) : k \in 0..n}
  \cup {[kind |-> k, n |-> 0] : k \in {"interrupted", "other", "panic"}}

\* A slice takes what fits, and so does the slice after a cursor.
SliceWrite(n) == {Wrote(Least(n, room))}
CursorWrite(n) == SliceWrite(n)

\* A vector grows.
VecWrite(n) == {Wrote(n)}

\* The outcomes of write() with n bytes.
InnerWrite(n) ==
  CASE target = "vec"    -> VecWrite(n)
    [] target = "slice"  -> SliceWrite(n)
    [] target = "cursor" -> CursorWrite(n)
    [] target = "device" -> DeviceWrite(n)

Accept(bytes) ==
  /\ sink' = sink \o bytes
  /\ room' = IF target \in {"slice", "cursor"} THEN room - Len(bytes) ELSE room

-----------------------------------------------------------------------------
(***************************************************************************)
(* The calls, as lists of steps                                            *)
(***************************************************************************)
Step(do, n, guarded) == [do |-> do, n |-> n, guarded |-> guarded]
FlushBuf == <<Step("flush", 0, TRUE)>>

\* BufWriter's write and write_all (direct is "write" or "all"): what does not
\* fit flushes the buffer, and what is no smaller than it goes straight to W.
BufSteps(direct, n) ==
  (IF len + n > capacity THEN FlushBuf ELSE <<>>)
  \o <<IF n >= capacity THEN Step(direct, n, TRUE) ELSE Step("buffer", n, TRUE)>>

\* LineWriterShim's write; nl is the number of bytes up to the last newline.
\* flush_if_completed_line never flushes: the buffer's last byte is a zero.
LineWrite(n, nl) ==
  IF nl = 0 THEN BufSteps("write", n)
  ELSE FlushBuf \o <<Step("lines", nl, FALSE), Step("tail", n, FALSE)>>

\* LineWriterShim's write_all; buffered() is all of the S bytes.
LineWriteAll(n, nl) ==
  (IF nl = 0 THEN <<>>
   ELSE IF capacity = 0 THEN <<Step("all", nl, FALSE)>>
   ELSE BufSteps("all", nl) \o FlushBuf)
  \o BufSteps("all", n - nl)

WriteAll(n, nl) ==
  IF adapter = "line" THEN LineWriteAll(n, nl) ELSE BufSteps("all", n)

\* write_fmt: a write_all for each piece, here up to the newline and after it.  An
\* empty piece, which only a formatted value can produce, is left out: it does what
\* a write_all of nothing does.
Piece(n, nl) == IF n = 0 THEN <<>> ELSE WriteAll(n, nl)

WriteFmt(n, nl) == Piece(nl, nl) \o Piece(n - nl, 0)

\* Drop: a destructor that follows a panic of W leaves the buffer alone.
DropSteps == IF panicked THEN <<>> ELSE FlushBuf

Steps(op, n, nl) ==
  CASE op = "write"     -> IF adapter = "line" THEN LineWrite(n, nl)
                                               ELSE BufSteps("write", n)
    [] op = "write_all"  -> WriteAll(n, nl)
    [] op = "write_fmt"  -> WriteFmt(n, nl)
    [] op = "format_err" -> WriteFmt(n, nl) \o <<Step("fail", 0, FALSE)>>
    [] op = "flush"      -> FlushBuf \o <<Step("ask", 0, FALSE)>>
    [] op = "seek"       -> FlushBuf \o <<Step("ask", 0, FALSE)>>
    [] op = "into_inner" -> FlushBuf \o <<Step("take", 0, FALSE)>>
    [] op = "drop"       -> DropSteps

Data == {"write", "write_all", "write_fmt", "format_err"}
WriterOp   == Data \cup {"flush", "seek", "into_inner", "drop"}

\* The client calls, with n new bytes.
Call(op, n, nl) ==
  /\ life = "live" /\ job = NoJob
  /\ op \in Data \/ n = 0
  /\ op = "seek" => target \in {"device", "cursor"}
  /\ nl <= n /\ offered + n <= MaxData
  /\ job' = [op |-> op, from |-> offered, n |-> n, nl |-> nl]
  /\ todo' = Steps(op, n, nl)
  /\ sent' = 0
  /\ UNCHANGED <<typeVars, clientVars, len, panicked, written, room, sink, life,
                 blown>>

-----------------------------------------------------------------------------
(***************************************************************************)
(* How a step, a call and a writer end                                     *)
(***************************************************************************)
Doing(do)   == todo # <<>> /\ Head(todo).do = do
Proceed     == todo' = Tail(todo) /\ UNCHANGED <<job, clientVars, life>>
Stay        == UNCHANGED <<job, todo, clientVars, life>>
WriterStays == UNCHANGED <<typeVars, len, panicked, written, room, sink, sent, blown>>

EndCall == job' = NoJob /\ todo' = <<>>

Dropped == IF life = "unwinding" THEN "unwound" ELSE "dropped"

\* Ok(k).  After Ok(k) of write the client offers the rest again.
Finish(k) ==
  /\ EndCall
  /\ acked' = acked \cup job.from..(job.from + k - 1)
  /\ offered' = IF job.op = "write" THEN job.from + k ELSE job.from + job.n
  /\ life' = IF job.op \in {"drop", "into_inner"} THEN Dropped ELSE life

\* Err.  "If an error is returned then no bytes in the buffer were written": the
\* client offers them again; of write_all it cannot tell.  A destructor ignores
\* the error.
Refuse ==
  /\ EndCall
  /\ offered' = IF job.op = "write" THEN job.from ELSE job.from + job.n
  /\ life' = IF job.op = "drop" THEN Dropped ELSE life
  /\ UNCHANGED acked

\* A panic drops the writer; a second one meanwhile aborts the process.
Panic ==
  /\ EndCall
  /\ life' = IF life = "unwinding" THEN "aborted"
             ELSE IF job.op = "drop" THEN "unwound"
             ELSE "unwinding"
  /\ UNCHANGED clientVars

Abort == EndCall /\ life' = "aborted" /\ UNCHANGED clientVars

DropUnwinding ==
  /\ life = "unwinding" /\ job = NoJob
  /\ job' = [NoJob EXCEPT !.op = "drop", !.from = offered]
  /\ todo' = DropSteps
  /\ sent' = 0
  /\ UNCHANGED <<typeVars, clientVars, len, panicked, written, room, sink, life,
                 blown>>

\* No step is left.
Done ==
  /\ job # NoJob /\ todo = <<>>
  /\ Finish(IF job.op = "write" THEN sent ELSE job.n)
  /\ WriterStays

-----------------------------------------------------------------------------
(***************************************************************************)
(* flush_buf                                                               *)
(***************************************************************************)

\* Mutant: the flag is not set around the call of W.
Unflagged(o) == UNCHANGED panicked

\* self.panicked is TRUE while W's write runs.
Flagged(o) == panicked' = (panicked \/ o.kind = "panic")

\* BufGuard::drop copies the rest of the buffer into one of the full length,
\* which panics unless nothing was written.  `ending' is what comes otherwise.
DropGuard(ending) ==
  /\ written' = 0
  /\ IF written > 0 THEN Panic ELSE ending

\* A turn of flush_buf's loop.  It writes all of buf, not the first len;
\* the guard is dropped with a panic of W as well.
Flush ==
  /\ Doing("flush")
  /\ UNCHANGED <<typeVars, len, sent>>
  /\ IF written >= capacity
     THEN DropGuard(Proceed) /\ UNCHANGED <<panicked, room, sink, blown>>
     ELSE \E o \in InnerWrite(capacity - written) :
            /\ Accept([i \in 1..o.n |-> Filler])
            /\ Flagged(o)
            /\ blown' = (blown \/ o.kind = "panic")
            /\ CASE o.kind = "ok" /\ o.n > 0 -> written' = written + o.n /\ Stay
                 [] Retried(o.kind)          -> Stay /\ UNCHANGED written
                 [] o.kind = "panic"         -> /\ written' = 0
                                                /\ IF written > 0 THEN Abort
                                                                  ELSE Panic
                 [] OTHER                    -> DropGuard(Refuse)

-----------------------------------------------------------------------------
(***************************************************************************)
(* Writing the client's bytes                                              *)
(***************************************************************************)

\* Mutant: after a short write the loop starts with the first byte again.
OfferedFromStart(k) == [i \in 1..k |-> job.from + i - 1]

Offered(k) == [i \in 1..k |-> job.from + sent + i - 1]

\* One call of W, with the outcome o.
Writing(o) ==
  /\ Accept(Offered(o.n))
  /\ sent' = sent + o.n
  /\ IF Head(todo).guarded THEN Flagged(o) ELSE UNCHANGED panicked
  /\ blown' = (blown \/ o.kind = "panic")
  /\ UNCHANGED <<typeVars, len, written>>

\* A single write, whose result is the call's.
WriteOnce ==
  /\ Doing("write")
  /\ \E o \in InnerWrite(Head(todo).n) :
       /\ Writing(o)
       /\ CASE o.kind = "ok"    -> Proceed
            [] o.kind = "panic" -> Panic
            [] OTHER            -> Refuse

\* LineWriter writes the complete lines itself; Ok(0) ends the call.
WriteLines ==
  /\ Doing("lines")
  /\ \E o \in InnerWrite(Head(todo).n) :
       /\ Writing(o)
       /\ CASE o.kind = "ok" /\ o.n > 0 -> Proceed
            [] o.kind = "ok" /\ o.n = 0 -> Finish(0)
            [] o.kind = "panic"         -> Panic
            [] OTHER                    -> Refuse

\* Mutant: a write that took nothing is tried again.
WriteZeroRetried == Stay

\* Ok(0) in write_all is the error WriteZero.
WriteZero == Refuse

WrittenAll ==
  /\ Doing("all") /\ Head(todo).n = 0
  /\ Proceed
  /\ WriterStays

\* buf = &buf[n..]
After(k) == <<[Head(todo) EXCEPT !.n = @ - k]>> \o Tail(todo)

\* A turn of the loop of Write::write_all: it goes on after the bytes that W
\* took, and tries again if W was interrupted.
WriteRest ==
  /\ Doing("all") /\ Head(todo).n > 0
  /\ \E o \in InnerWrite(Head(todo).n) :
       /\ Writing(o)
       /\ CASE o.kind = "ok" /\ o.n > 0 ->
                 /\ todo' = After(o.n)
                 /\ UNCHANGED <<job, clientVars, life>>
            [] o.kind = "ok" /\ o.n = 0 -> WriteZero
            [] Retried(o.kind)          -> Stay
            [] o.kind = "panic"         -> Panic
            [] OTHER                    -> Refuse

\* self.buf.copy_from_slice(buf): the lengths differ, as n < S.
Buffer == Doing("buffer") /\ Panic /\ WriterStays

\* The bytes after the lines that W took: up to the last newline that fits.
TailLengths ==
  IF sent >= job.nl THEN {job.n - sent}
  ELSE IF job.nl - sent <= capacity THEN {job.nl - sent}
  ELSE 0..capacity

\* write_to_buf copies into a slice of buf that is as long as len.
BufferTail ==
  /\ Doing("tail")
  /\ \E n \in TailLengths :
       IF Least(capacity - len, n) = len
       THEN len' = len + Least(capacity - len, n) /\ Finish(sent + Least(capacity - len, n))
       ELSE Panic /\ UNCHANGED len
  /\ UNCHANGED <<typeVars, panicked, written, room, sink, sent, blown>>

\* W's own flush or seek.  A device may fail or panic, a cursor may refuse a
\* place that does not exist.
Ask ==
  /\ Doing("ask")
  /\ \/ Proceed
     \/ target = "device" /\ (Refuse \/ Panic)
     \/ target = "cursor" /\ job.op = "seek" /\ Refuse
  /\ WriterStays

\* A cursor moves to any place, in the slice or beyond it.
SeekCursor ==
  /\ Doing("ask") /\ job.op = "seek" /\ target = "cursor"
  /\ room' \in 0..Room
  /\ Proceed
  /\ UNCHANGED <<typeVars, len, panicked, written, sink, sent, blown>>

\* The value that is formatted reports an error.
FormatFails == Doing("fail") /\ Refuse /\ WriterStays

\* into_inner takes W out, and the destructor finds nothing to do.
Take == Doing("take") /\ Proceed /\ WriterStays

Work ==
  \/ DropUnwinding \/ Done \/ Flush \/ WriteOnce \/ WriteLines
  \/ WrittenAll \/ WriteRest \/ Buffer \/ BufferTail
  \/ Ask \/ SeekCursor \/ FormatFails \/ Take

WriterNext ==
  \/ \E op \in WriterOp, n, nl \in 0..MaxOffer : Call(op, n, nl)
  \/ Work

WriterSpec == WriterInit /\ [][WriterNext]_writerVars

\* The client's thread runs, and W does not interrupt it for ever: the step
\* that changes nothing is a call of W that was interrupted.
FairWriterSpec == WriterSpec /\ WF_writerVars(Work)

-----------------------------------------------------------------------------
(***************************************************************************)
(* Properties                                                              *)
(***************************************************************************)
\* A byte that some call acknowledged has reached W, once and in order, or is one
\* of the last acknowledged ones, which the buffer holds: also when a short or
\* failed write is repeated by the loop or by the client, and when the writer was
\* dropped after a panic.  Bytes that no client wrote come after all others.  As
\* the code stands the buffer holds nothing, ever: Buffer panics on what it would
\* hold.
InOrder(bytes) ==
  \A i, j \in 1..Len(bytes) :
    i < j /\ bytes[i] # Filler /\ bytes[j] # Filler => bytes[i] < bytes[j]

FillersLast(bytes) ==
  \A i, j \in 1..Len(bytes) : i < j /\ bytes[i] = Filler => bytes[j] = Filler

Buffered(b) == Cardinality({c \in acked : c >= b}) <= len

AcknowledgedReachesSink ==
  /\ InOrder(sink)
  /\ FillersLast(sink)
  /\ \A b \in acked : Buffered(b) \/ \E i \in 1..Len(sink) : sink[i] = b

\* "If the inner writer panics in a call to write, we don't want to write the
\* buffered data a second time in BufWriter's destructor": nothing at all is
\* written once W has panicked, although LineWriter writes past the flag.
SilentAfterPanic == [][blown => sink' = sink]_writerVars

\* Every call comes to its end, and a panic to the end of the writer.
EveryWriteEnds ==
  job # NoJob \/ life = "unwinding" ~> job = NoJob /\ life # "unwinding"

-----------------------------------------------------------------------------
(***************************************************************************)
(* What the repository says and the code does not do                       *)
(***************************************************************************)

\* The comment in BufWriter's Drop: "dtors should not panic, so we ignore a
\* failed flush".  The flush panics when it succeeds.
DestructorNeverPanics ==
  [][job.op = "drop" /\ life = "live" /\ ~blown' => life' # "unwound"]_writerVars
===============================================================================
