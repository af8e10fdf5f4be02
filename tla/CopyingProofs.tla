---------------------------- MODULE CopyingProofs ----------------------------
(***************************************************************************)
(* copy loses nothing, for any readers, any writer below and any sizes:    *)
(* the lemma on TakeRead says what leaves the readers, the one on W's      *)
(* write what arrives, and the steps of write_all tie the two together.    *)
(***************************************************************************)
EXTENDS Copying, ReaderProofs, WriterProofs, SequenceTheorems

\* The writer of a copy: nothing is ever in its buffer, which has no length.
PassThrough ==
  /\ Good(rd)
  /\ capacity = 0 /\ adapter = "buf" /\ len = 0 /\ WriterTypes /\ written = 0
  /\ sink \in Seq(Int)

\* What a client that may still copy can say of its bytes.
Living ==
  /\ life = "live"
  /\ offered \in Nat /\ acked \subseteq 0..(offered - 1)

\* write_all of n bytes after `sent' of them.
Remaining(n) ==
  \/ sent = 0 /\ todo = <<Step("flush", 0, TRUE), Step("all", n, TRUE)>>
  \/ todo = <<Step("all", n - sent, TRUE)>>
  \/ sent = n /\ todo = <<>>

\* The chunk that copy has read is the job of the writer.
Chunk ==
  /\ job = [op |-> "write_all", from |-> offered, n |-> job.n, nl |-> 0]
  /\ job.n \in 1..CopySize /\ sent \in 0..job.n
  /\ Remaining(job.n)

Between == job = NoJob /\ todo = <<>>

CopyInv ==
  /\ PassThrough
  /\ copy \in [phase : {"off", "read", "write", "ok", "failed"}, had : Nat, base : Nat,
               written : Nat]
  /\ copy.phase \in {"read", "write"} \/ life = "live" => Living
  /\ copy.phase = "write" => Chunk
  /\ copy.phase # "write" /\ life = "live" => Between
  /\ CopyIsExact

CopyingInv ==
  /\ client # "copies" => copy = NoCopy
  /\ client = "copies" => CopyInv

-----------------------------------------------------------------------------
LEMMA TwoSteps ==
  ASSUME NEW s \in StepType, NEW t \in StepType
  PROVE  <<s>> \o <<t>> = <<s, t>>
<1>1. /\ <<s>> \in Seq(StepType) /\ <<t>> \in Seq(StepType)
      /\ <<s, t>> \in Seq(StepType) /\ Len(<<s, t>>) = 2
      /\ <<s, t>>[1] = s /\ <<s, t>>[2] = t
  OBVIOUS
<1>2. /\ <<s>> \o <<t>> \in Seq(StepType) /\ Len(<<s>> \o <<t>>) = 2
      /\ (<<s>> \o <<t>>)[1] = s /\ (<<s>> \o <<t>>)[2] = t
  BY <1>1
<1>3. \A i \in 1..2 : (<<s>> \o <<t>>)[i] = <<s, t>>[i]
  <2>1. ASSUME NEW i \in 1..2 PROVE i = 1 \/ i = 2
    OBVIOUS
  <2>2. QED BY <1>1, <1>2, <2>1
<1>4. QED
  <2> DEFINE a == <<s>> \o <<t>>
             b == <<s, t>>
  <2>1. /\ a \in Seq(StepType) /\ b \in Seq(StepType) /\ Len(a) = Len(b)
        /\ \A i \in 1..Len(a) : a[i] = b[i]
    BY <1>1, <1>2, <1>3
  <2> HIDE DEF a, b
  <2>2. a = b
    BY <2>1, SeqEqual
  <2>3. QED BY <2>2 DEF a, b

LEMMA OfTwoSteps ==
  ASSUME NEW s \in StepType, NEW t \in StepType
  PROVE  /\ Head(<<s, t>>) = s /\ Tail(<<s, t>>) = <<t>> /\ Head(<<t>>) = t
         /\ Tail(<<t>>) = <<>> /\ <<t>> # <<>> /\ <<s, t>> # <<>>
<1>1. /\ <<s, t>> \in Seq(StepType) /\ <<t>> \in Seq(StepType) /\ Len(<<s, t>>) = 2
      /\ Len(<<t>>) = 1 /\ <<s, t>>[1] = s /\ <<s, t>>[2] = t /\ <<t>>[1] = t
  OBVIOUS
<1>2. /\ Head(<<s, t>>) = s /\ Head(<<t>>) = t
      /\ Tail(<<t>>) = <<>> /\ <<t>> # <<>> /\ <<s, t>> # <<>>
  BY <1>1
<1>3. Tail(<<s, t>>) = <<t>>
  <2> DEFINE a == Tail(<<s, t>>)
             b == <<t>>
  <2>1. a \in Seq(StepType) /\ Len(a) = 1 /\ a[1] = t
    BY <1>1
  <2>2. b \in Seq(StepType) /\ Len(b) = 1 /\ b[1] = t
    BY <1>1
  <2> HIDE DEF a, b
  <2>3. a = b
    BY <2>1, <2>2, SeqEqual
  <2>4. QED BY <2>3 DEF a, b
<1>4. QED BY <1>2, <1>3

LEMMA CopyingStarts ==
  CopyingInit => CopyingInv
<1> SUFFICES ASSUME CopyingInit PROVE CopyingInv
  OBVIOUS
<1>1. copy = NoCopy
  BY DEF CopyingInit
<1>2. ASSUME client = "copies" PROVE CopyInv
  <2>1. Good(rd)
    BY InitReaders DEF CopyingInit, ReaderInv, StackInv
  <2>2. WriterTypes
    BY WriterStarts DEF CopyingInit, WriterInv
  <2>3. PassThrough
    BY <1>2, <2>1, <2>2 DEF CopyingInit, WriterInit, PassThrough
  <2>4. Living /\ Between
    BY DEF CopyingInit, WriterInit, Living, Between
  <2>5. QED BY <1>1, <2>3, <2>4 DEF CopyInv, NoCopy, CopyIsExact
<1>3. QED BY <1>1, <1>2 DEF CopyingInv

LEMMA StartCopyKeeps ==
  ASSUME CopyInv, StartCopy
  PROVE  CopyInv'
<1>1. /\ rd' = rd /\ UNCHANGED writerVars
      /\ copy' = [phase |-> "read", had |-> rd.limit, base |-> Len(sink), written |-> 0]
      /\ life = "live" /\ copy.phase # "write"
  BY DEF StartCopy
<1>2. rd.limit \in Nat /\ Len(sink) \in Nat
  BY DEF CopyInv, PassThrough, Good, ReaderState, U64
<1>3. PassThrough'
  BY <1>1 DEF CopyInv, PassThrough, Good, WriterTypes, writerVars, typeVars
<1>4. Living' /\ Between'
  BY <1>1 DEF CopyInv, Living, Between, writerVars, typeVars, clientVars
<1>5. CopyIsExact'
  BY <1>1, <1>2 DEF CopyIsExact, Moved, Arrived, writerVars
<1>6. QED BY <1>1, <1>2, <1>3, <1>4, <1>5 DEF CopyInv

\* What a read of CopySize bytes makes of the readers.
LEMMA CopyReading ==
  ASSUME CopyInv, NEW o \in TakeRead(rd, CopySize), Reading(o)
  PROVE  /\ rd' = o.rd /\ Good(rd') /\ rd.limit \in Nat /\ rd'.limit \in Nat
         /\ o.n \in Nat /\ o.n <= CopySize /\ rd'.limit = rd.limit - o.n
         /\ o.kind \in {"ok", "interrupted", "other"}
         /\ o.kind # "ok" => o.n = 0
         /\ o.kind = "ok" /\ o.n = 0 => AtEnd'
<1>1. CopySize \in Nat \ {0} /\ Good(rd)
  BY CopyingAssumption DEF CopyInv, PassThrough
<1>2. TakeOutcome(rd, CopySize, o)
  BY <1>1, TakeReadOutcome
<1>3. rd' = o.rd
  BY DEF Reading
<1>4. /\ o \in Outcome /\ Good(o.rd) /\ o.rd.limit = rd.limit - o.n
      /\ o.n \in Nat /\ rd.limit \in Nat /\ o.rd.limit \in Nat
      /\ o.kind \in {"ok", "interrupted", "other"}
  BY <1>1, <1>2 DEF TakeOutcome, Outcome, Good, ReaderState, U64
<1>5. (o.kind # "ok" => o.n = 0) /\ o.n <= CopySize
  BY <1>1, <1>2, <1>4 DEF TakeOutcome, Reads, Stays
<1>6. o.kind = "ok" /\ o.n = 0 => AtEnd'
  BY <1>1, <1>2, <1>3 DEF TakeOutcome, Reads, Stays, AtEnd, Ended
<1>7. QED BY <1>3, <1>4, <1>5, <1>6

LEMMA CopyReadKeeps ==
  ASSUME CopyInv, CopyRead
  PROVE  CopyInv'
<1> DEFINE Outs(o) ==
      IF Retried(o.kind) THEN UNCHANGED <<copy, writerVars>>
      ELSE IF o.kind # "ok" \/ o.n = 0
      THEN /\ copy' = [copy EXCEPT !.phase = IF o.kind = "ok" THEN "ok" ELSE "failed"]
           /\ UNCHANGED writerVars
      ELSE /\ copy' = [copy EXCEPT !.phase = "write"]
           /\ job' = [op |-> "write_all", from |-> offered, n |-> o.n, nl |-> 0]
           /\ todo' = WriteAll(o.n, 0)
           /\ sent' = 0
           /\ UNCHANGED <<typeVars, clientVars, len, panicked, written, room, sink, life,
                          blown>>
<1>1. PICK o \in TakeRead(rd, CopySize) : Reading(o) /\ Outs(o)
  BY DEF CopyRead
<1>2. /\ rd' = o.rd /\ Good(rd') /\ rd.limit \in Nat /\ rd'.limit \in Nat
      /\ o.n \in Nat /\ o.n <= CopySize /\ rd'.limit = rd.limit - o.n
      /\ o.kind \in {"ok", "interrupted", "other"}
      /\ o.kind # "ok" => o.n = 0
      /\ o.kind = "ok" /\ o.n = 0 => AtEnd'
  BY <1>1, CopyReading
<1>3. /\ copy.phase = "read" /\ Living /\ Between
      /\ Moved(copy) = copy.written /\ Arrived(copy) = copy.written
      /\ copy \in [phase : {"off", "read", "write", "ok", "failed"}, had : Nat,
                   base : Nat, written : Nat]
      /\ CopySize \in Nat
  BY CopyingAssumption DEF CopyRead, CopyInv, CopyIsExact, Living
<1>4. CASE Retried(o.kind)
  <2>1. copy' = copy /\ UNCHANGED writerVars /\ rd'.limit = rd.limit
    BY <1>1, <1>2, <1>4 DEF Retried
  <2>2. PassThrough'
    BY <1>2, <2>1 DEF CopyInv, PassThrough, WriterTypes, writerVars, typeVars
  <2>3. Living' /\ Between'
    BY <1>3, <2>1 DEF Living, Between, writerVars, clientVars
  <2>4. CopyIsExact'
    BY <1>3, <2>1 DEF CopyIsExact, Moved, Arrived, writerVars
  <2>5. QED BY <1>3, <2>1, <2>2, <2>3, <2>4 DEF CopyInv
<1>5. CASE ~Retried(o.kind) /\ (o.kind # "ok" \/ o.n = 0)
  <2>1. /\ copy' = [copy EXCEPT !.phase = IF o.kind = "ok" THEN "ok" ELSE "failed"]
        /\ UNCHANGED writerVars /\ rd'.limit = rd.limit
    BY <1>1, <1>2, <1>5
  <2>2. PassThrough'
    BY <1>2, <2>1 DEF CopyInv, PassThrough, WriterTypes, writerVars, typeVars
  <2>3. Living' /\ Between'
    BY <1>3, <2>1 DEF Living, Between, writerVars, clientVars
  <2>4. /\ copy' \in [phase : {"off", "read", "write", "ok", "failed"}, had : Nat,
                      base : Nat, written : Nat]
        /\ copy'.had = copy.had /\ copy'.base = copy.base /\ copy'.written = copy.written
        /\ copy'.phase = IF o.kind = "ok" THEN "ok" ELSE "failed"
    BY <1>3, <2>1
  <2>5. /\ Moved(copy)' = copy'.written /\ Arrived(copy)' = copy'.written
        /\ copy'.written \in Nat
    BY <1>3, <2>1, <2>4 DEF Moved, Arrived, writerVars
  <2>6. CASE o.kind = "ok"
    BY <1>2, <1>5, <2>2, <2>3, <2>4, <2>5, <2>6 DEF CopyInv, CopyIsExact
  <2>7. CASE o.kind # "ok"
    <3>1. Moved(copy)' - Arrived(copy)' \in 0..CopySize
      BY <1>3, <2>5
    <3>2. CopyIsExact'
      BY <2>4, <2>7, <3>1 DEF CopyIsExact
    <3>3. QED BY <2>2, <2>3, <2>4, <2>7, <3>2 DEF CopyInv
  <2>8. QED BY <2>6, <2>7
<1>6. CASE ~Retried(o.kind) /\ o.kind = "ok" /\ o.n # 0
  <2>1. /\ copy' = [copy EXCEPT !.phase = "write"]
        /\ job' = [op |-> "write_all", from |-> offered, n |-> o.n, nl |-> 0]
        /\ todo' = WriteAll(o.n, 0) /\ sent' = 0
        /\ UNCHANGED <<typeVars, clientVars, len, panicked, written, room, sink, life,
                       blown>>
    BY <1>1, <1>6
  <2>2. capacity = 0 /\ adapter = "buf" /\ len = 0 /\ WriterTypes
    BY DEF CopyInv, PassThrough
  <2>3. todo' = <<Step("flush", 0, TRUE), Step("all", o.n, TRUE)>>
    <3>1. len + o.n > capacity /\ o.n >= capacity
      BY <1>2, <1>6, <2>2
    <3>2. todo' = <<Step("flush", 0, TRUE)>> \o <<Step("all", o.n, TRUE)>>
      BY <2>1, <2>2, <3>1 DEF WriteAll, BufSteps, FlushBuf
    <3>3. Step("flush", 0, TRUE) \in StepType /\ Step("all", o.n, TRUE) \in StepType
      BY <1>2 DEF Step, StepType, Do
    <3>4. QED BY <3>2, <3>3, TwoSteps
  <2>4. todo' \in Seq(StepType)
    BY <1>2, <2>1, WriteAllGuarded
  <2>5. PassThrough'
    BY <1>2, <2>1, <2>4 DEF CopyInv, PassThrough, WriterTypes, typeVars
  <2>6. Living'
    BY <1>3, <2>1 DEF Living, clientVars
  <2>7. /\ copy' \in [phase : {"off", "read", "write", "ok", "failed"}, had : Nat,
                      base : Nat, written : Nat]
        /\ copy'.had = copy.had /\ copy'.base = copy.base /\ copy'.written = copy.written
        /\ copy'.phase = "write"
    BY <1>3, <2>1
  <2>8. job'.n = o.n /\ offered' = offered /\ sink' = sink
    BY <2>1 DEF clientVars
  <2>9. Remaining(o.n)'
    BY <2>1, <2>3 DEF Remaining
  <2>10. Chunk'
    <3>1. job' = [op |-> "write_all", from |-> offered', n |-> job'.n, nl |-> 0]
      BY <2>1, <2>8
    <3>2. job'.n \in 1..CopySize /\ sent' \in 0..job'.n
      BY <1>2, <1>3, <1>6, <2>1, <2>8
    <3>3. Remaining(job.n)'
      BY <2>8, <2>9
    <3>4. QED BY <3>1, <3>2, <3>3 DEF Chunk
  <2>11. CopyIsExact'
    <3>1. copy.had - rd.limit = copy.written /\ copy.had \in Nat /\ copy.written \in Nat
      BY <1>3 DEF Moved
    <3>2. copy'.had - rd'.limit = copy'.written + job'.n
      BY <1>2, <2>7, <2>8, <3>1
    <3>3. Len(sink') - copy'.base = copy'.written + sent'
      BY <1>3, <2>1, <2>7, <2>8 DEF Arrived
    <3>4. QED BY <2>7, <3>2, <3>3 DEF CopyIsExact, Moved, Arrived
  <2>12. QED BY <2>5, <2>6, <2>7, <2>10, <2>11 DEF CopyInv
<1>7. QED BY <1>4, <1>5, <1>6

-----------------------------------------------------------------------------
(***************************************************************************)
(* The steps of write_all                                                  *)
(***************************************************************************)

\* What a step of write_all finds.
Writes ==
  /\ CopyInv /\ copy.phase = "write" /\ Living /\ Chunk
  /\ Moved(copy) = copy.written + job.n /\ Arrived(copy) = copy.written + sent
  /\ job # NoJob /\ job.n \in Nat /\ sent \in Nat /\ sent <= job.n

LEMMA ChunkInHand ==
  ASSUME CopyInv, CopyWrite
  PROVE  Writes
<1>1. copy.phase = "write" /\ Living /\ Chunk /\ CopyIsExact
  BY DEF CopyWrite, CopyInv
<1>2. job.n \in Nat /\ sent \in Nat /\ sent <= job.n
  BY <1>1, CopyingAssumption DEF Chunk
<1>3. job # NoJob
  <2>1. job.op = "write_all"
    BY <1>1 DEF Chunk
  <2>2. QED BY <2>1 DEF NoJob
<1>4. QED BY <1>1, <1>2, <1>3 DEF Writes, CopyIsExact

\* A step after which the write_all goes on, with k more bytes in the sink.
LEMMA ChunkGoesOn ==
  ASSUME Writes, NEW k \in Nat, sent' = sent + k, sent + k <= job.n,
         sink' \in Seq(Int), Len(sink') = Len(sink) + k,
         job' = job, copy' = copy, UNCHANGED readerVars, UNCHANGED clientVars,
         life' = life, len' = len, UNCHANGED typeVars, written' = 0, WriterTypes',
         Remaining(job.n)'
  PROVE  CopyInv'
<1>1. /\ rd' = rd /\ capacity' = capacity /\ adapter' = adapter
      /\ offered' = offered /\ acked' = acked
  BY DEF readerVars, vars, typeVars, clientVars
<1>2. PassThrough'
  BY <1>1 DEF Writes, CopyInv, PassThrough
<1>3. Living'
  BY <1>1 DEF Writes, Living
<1>4. Chunk'
  <2>1. sent' \in 0..job.n
    BY DEF Writes
  <2>2. QED BY <1>1, <2>1 DEF Writes, Chunk
<1>5. CopyIsExact'
  <2>1. Moved(copy)' = Moved(copy)
    BY <1>1 DEF Moved
  <2>2. Arrived(copy)' = copy.written + sent'
    <3>1. /\ Len(sink) \in Nat /\ copy.base \in Nat /\ copy.written \in Nat
          /\ Len(sink) - copy.base = copy.written + sent /\ sent \in Nat
      BY DEF Writes, CopyInv, PassThrough, Arrived
    <3> DEFINE a == Len(sink)
               b == copy.base
               w == copy.written
    <3>2. a \in Nat /\ b \in Nat /\ w \in Nat /\ a - b = w + sent /\ sent \in Nat
      BY <3>1
    <3> HIDE DEF a, b, w
    <3>3. (a + k) - b = w + (sent + k)
      BY <3>2
    <3>4. copy'.base = copy.base
      OBVIOUS
    <3>5. QED BY <3>3, <3>4, Zenon DEF Arrived, a, b, w
  <2>3. QED BY <2>1, <2>2 DEF Writes, CopyIsExact
<1>6. QED BY <1>2, <1>3, <1>4, <1>5 DEF Writes, CopyInv

\* A step that ends the write_all with an error or a panic.
LEMMA ChunkFails ==
  ASSUME Writes, sink' = sink, EndCall, UNCHANGED readerVars,
         copy' = [copy EXCEPT !.phase = "failed"],
         life' = "live" => life = "live" /\ offered' = offered + job.n,
         acked' = acked, len' = len, UNCHANGED typeVars, written' = 0, WriterTypes'
  PROVE  CopyInv'
<1>1. /\ rd' = rd /\ capacity' = capacity /\ adapter' = adapter
      /\ job' = NoJob /\ todo' = <<>>
  BY DEF readerVars, vars, typeVars, EndCall
<1>2. /\ copy' \in [phase : {"off", "read", "write", "ok", "failed"}, had : Nat,
                    base : Nat, written : Nat]
      /\ copy'.had = copy.had /\ copy'.base = copy.base /\ copy'.phase = "failed"
  BY DEF Writes, CopyInv
<1>3. PassThrough'
  BY <1>1 DEF Writes, CopyInv, PassThrough
<1>4. life' = "live" => Living' /\ Between'
  BY <1>1 DEF Writes, Living, Between
<1>5. CopyIsExact'
  <2>1. Moved(copy)' = copy.written + job.n /\ Arrived(copy)' = copy.written + sent
    BY <1>1, <1>2 DEF Writes, Moved, Arrived
  <2>2. /\ copy.written \in Nat /\ job.n \in Nat /\ sent \in Nat /\ sent <= job.n
        /\ job.n <= CopySize
    BY CopyingAssumption DEF Writes, CopyInv, Chunk
  <2>3. Moved(copy)' - Arrived(copy)' \in 0..CopySize
    BY <2>1, <2>2, CopyingAssumption
  <2>4. QED BY <1>2, <2>3 DEF CopyIsExact
<1>6. QED BY <1>2, <1>3, <1>4, <1>5 DEF CopyInv

LEMMA CopyFlushKeeps ==
  ASSUME Writes, CopyWrite, Flush
  PROVE  CopyInv'
<1>1. /\ Step("flush", 0, TRUE) \in StepType
      /\ \A n \in Nat : Step("all", n, TRUE) \in StepType /\ Step("all", n, TRUE).do = "all"
      /\ job.n \in Nat /\ job.n - sent \in Nat
  BY DEF Step, StepType, Do, Writes
<1> DEFINE flush == Step("flush", 0, TRUE)
           all   == Step("all", job.n, TRUE)
<1>1a. todo = <<flush, all>> /\ sent = 0
  <2>1. todo # <<>> /\ Head(todo).do = "flush"
    BY DEF Flush, Doing
  <2>2. todo # <<Step("all", job.n - sent, TRUE)>>
    BY <1>1, <2>1, OfTwoSteps
  <2>3. QED BY <2>1, <2>2 DEF Writes, Chunk, Remaining
<1>2. written = 0 /\ capacity = 0
  BY DEF Writes, CopyInv, PassThrough
<1>3. /\ written' = 0 /\ Proceed /\ UNCHANGED <<panicked, room, sink, blown>>
      /\ UNCHANGED <<typeVars, len, sent>>
  BY <1>2 DEF Flush, DropGuard
<1>4. todo' = <<all>>
  <2>1. todo' = Tail(todo)
    BY <1>3 DEF Proceed
  <2>2. flush \in StepType /\ all \in StepType
    BY <1>1
  <2> HIDE DEF flush, all
  <2>3. QED BY <1>1a, <2>1, <2>2, OfTwoSteps
<1>5. job' = job /\ UNCHANGED clientVars /\ life' = life
  BY <1>3 DEF Proceed
<1>6. copy' = copy
  BY <1>5 DEF CopyWrite, Writes
<1>7. WriterTypes'
  <2>1. todo' \in Seq(StepType)
    BY <1>4, SingleStep DEF Writes, Do
  <2>2. QED BY <1>3, <2>1 DEF Writes, CopyInv, PassThrough, WriterTypes, typeVars
<1>8. Remaining(job.n)'
  <2>1. sent' = 0 /\ job'.n = job.n /\ job.n - sent' = job.n
    BY <1>1, <1>1a, <1>3, <1>5
  <2>2. todo' = <<Step("all", job'.n - sent', TRUE)>>
    BY <1>4, <2>1
  <2>3. QED BY <2>2 DEF Remaining
<1>9. sink' \in Seq(Int) /\ Len(sink') = Len(sink) + 0 /\ sent' = sent + 0
  BY <1>1a, <1>3 DEF Writes, CopyInv, PassThrough
<1>10. QED
  BY <1>3, <1>5, <1>6, <1>7, <1>8, <1>9, ChunkGoesOn DEF Writes, CopyWrite

\* A step other than the first finds the step that writes.
LEMMA AllInHand ==
  ASSUME Writes, Doing("all")
  PROVE  /\ todo = <<Step("all", job.n - sent, TRUE)>>
         /\ Head(todo) = Step("all", job.n - sent, TRUE)
         /\ Head(todo).n = job.n - sent /\ Head(todo).guarded = TRUE
         /\ Tail(todo) = <<>> /\ job.n - sent \in Nat
<1>1. /\ Step("flush", 0, TRUE) \in StepType /\ Step("flush", 0, TRUE).do = "flush"
      /\ \A n \in Nat : /\ Step("all", n, TRUE) \in StepType
                        /\ Step("all", n, TRUE).n = n /\ Step("all", n, TRUE).guarded = TRUE
      /\ job.n \in Nat /\ job.n - sent \in Nat
  BY DEF Step, StepType, Do, Writes
<1>2. todo # <<>> /\ Head(todo).do = "all"
  BY DEF Doing
<1>3. todo # <<Step("flush", 0, TRUE), Step("all", job.n, TRUE)>>
  <2>1. Head(<<Step("flush", 0, TRUE), Step("all", job.n, TRUE)>>) = Step("flush", 0, TRUE)
    BY <1>1, OfTwoSteps
  <2>2. QED BY <1>1, <1>2, <2>1
<1>4. todo = <<Step("all", job.n - sent, TRUE)>>
  BY <1>2, <1>3 DEF Writes, Chunk, Remaining
<1>5. QED BY <1>1, <1>4, OfTwoSteps

LEMMA CopyWrittenAllKeeps ==
  ASSUME Writes, CopyWrite, WrittenAll
  PROVE  CopyInv'
<1>1. /\ Head(todo).n = job.n - sent /\ Tail(todo) = <<>>
      /\ job.n \in Nat /\ sent \in Nat
  BY AllInHand DEF WrittenAll, Writes
<1>2. sent = job.n
  BY <1>1 DEF WrittenAll
<1>3. /\ Proceed /\ UNCHANGED <<typeVars, len, panicked, written, room, sink, sent, blown>>
  BY DEF WrittenAll, WriterStays
<1>4. job' = job /\ UNCHANGED clientVars /\ life' = life /\ todo' = <<>>
  BY <1>1, <1>3 DEF Proceed
<1>5. copy' = copy
  BY <1>4 DEF CopyWrite, Writes
<1>6. WriterTypes' /\ written' = 0
  BY <1>3, <1>4, NoSteps DEF Writes, CopyInv, PassThrough, WriterTypes, typeVars
<1>7. Remaining(job.n)'
  BY <1>2, <1>3, <1>4 DEF Remaining
<1>8. sink' \in Seq(Int) /\ Len(sink') = Len(sink) + 0 /\ sent' = sent + 0
  BY <1>1, <1>3 DEF Writes, CopyInv, PassThrough
<1>9. sent + 0 <= job.n
  BY <1>1, <1>2
<1>10. QED
  BY <1>3, <1>4, <1>5, <1>6, <1>7, <1>8, <1>9, ChunkGoesOn DEF Writes, CopyWrite

\* write_all returns Ok, and what it acknowledges is new.
LEMMA CopyDoneKeeps ==
  ASSUME Writes, CopyWrite, Done
  PROVE  CopyInv'
<1>1. todo = <<>> /\ job.op = "write_all" /\ job.from = offered
  BY DEF Done, Writes, Chunk
<1>2. sent = job.n
  BY <1>1, OfTwoSteps DEF Writes, Chunk, Remaining, Step, StepType, Do
<1>3. /\ Finish(job.n) /\ UNCHANGED <<typeVars, len, panicked, written, room, sink, sent, blown>>
  BY <1>1 DEF Done, WriterStays
<1>4. /\ job' = NoJob /\ todo' = <<>> /\ life' = life
      /\ acked' = acked \cup offered..(offered + job.n - 1)
      /\ offered' = offered + job.n
  BY <1>1, <1>3 DEF Finish, EndCall
<1>5. /\ offered \in Nat /\ job.n \in Nat /\ job.n >= 1 /\ acked \subseteq 0..(offered - 1)
      /\ life = "live" /\ CopySize \in Nat
  BY CopyingAssumption DEF Writes, Chunk, Living
<1>6. acked' # acked
  <2>1. offered \in acked'
    BY <1>4, <1>5
  <2>2. offered \notin acked
    BY <1>5
  <2>3. QED BY <2>1, <2>2
<1>7. copy' = [copy EXCEPT !.phase = "read", !.written = @ + job.n]
  BY <1>4, <1>6 DEF CopyWrite
<1>8. /\ copy.written \in Nat /\ copy.written + job.n \in Nat
      /\ copy \in [phase : {"off", "read", "write", "ok", "failed"}, had : Nat,
                   base : Nat, written : Nat]
  BY <1>5 DEF Writes, CopyInv
<1>9. /\ copy' \in [phase : {"off", "read", "write", "ok", "failed"}, had : Nat,
                    base : Nat, written : Nat]
      /\ copy'.had = copy.had /\ copy'.base = copy.base /\ copy'.phase = "read"
      /\ copy'.written = copy.written + job.n
  BY <1>7, <1>8
<1>10. rd' = rd
  BY DEF CopyWrite, readerVars, vars
<1>11. PassThrough'
  BY <1>3, <1>4, <1>10, NoSteps DEF Writes, CopyInv, PassThrough, WriterTypes, typeVars
<1>12. Living' /\ Between'
  <2>1. offered' \in Nat /\ offered' = offered + job.n
    BY <1>4, <1>5
  <2>2. ASSUME NEW b \in acked' PROVE b \in 0..(offered' - 1)
    <3>1. CASE b \in acked
      BY <1>5, <2>1, <3>1
    <3>2. CASE b \in offered..(offered + job.n - 1)
      BY <1>5, <2>1, <3>2
    <3>3. QED BY <1>4, <3>1, <3>2
  <2>3. QED BY <1>4, <1>5, <2>1, <2>2 DEF Living, Between
<1>13. CopyIsExact'
  <2>1. Moved(copy)' = copy.written + job.n /\ Arrived(copy)' = copy.written + job.n
    BY <1>2, <1>3, <1>9, <1>10 DEF Writes, Moved, Arrived
  <2>2. QED BY <1>9, <2>1 DEF CopyIsExact
<1>14. QED BY <1>9, <1>11, <1>12, <1>13 DEF CopyInv

LEMMA CopyWriteRestKeeps ==
  ASSUME Writes, CopyWrite, WriteRest
  PROVE  CopyInv'
<1>1. /\ Head(todo).n = job.n - sent /\ Tail(todo) = <<>> /\ Head(todo).guarded = TRUE
      /\ Head(todo) = Step("all", job.n - sent, TRUE) /\ job.n - sent \in Nat
      /\ job.n \in Nat /\ sent \in Nat
  BY AllInHand DEF WriteRest, Writes
<1>2. PICK o \in InnerWrite(Head(todo).n) :
        /\ Writing(o)
        /\ CASE o.kind = "ok" /\ o.n > 0 ->
                  /\ todo' = After(o.n)
                  /\ UNCHANGED <<job, clientVars, life>>
             [] o.kind = "ok" /\ o.n = 0 -> WriteZero
             [] Retried(o.kind)          -> Stay
             [] o.kind = "panic"         -> Panic
             [] OTHER                    -> Refuse
  BY DEF WriteRest
<1>3. /\ o.n \in Nat /\ o.n <= job.n - sent /\ (o.kind # "ok" => o.n = 0)
      /\ target \in {"slice", "cursor"} => o.n <= room
      /\ o.kind \in {"ok", "interrupted", "other", "panic"}
  BY <1>1, <1>2, InnerWriteOutcome DEF Writes, CopyInv, PassThrough
<1>4. /\ sink' = sink \o Offered(o.n) /\ UNCHANGED typeVars /\ len' = len /\ written' = written
      /\ sent' = sent + o.n
      /\ room' = IF target \in {"slice", "cursor"} THEN room - Len(Offered(o.n)) ELSE room
      /\ panicked' = (panicked \/ o.kind = "panic") /\ blown' = (blown \/ o.kind = "panic")
  BY <1>1, <1>2 DEF Writing, Accept, Flagged
<1>5. Offered(o.n) \in Seq(Int) /\ Len(Offered(o.n)) = o.n
  <2>1. job.from \in Int
    BY DEF Writes, Chunk, Living
  <2>2. \A i \in 1..o.n : job.from + sent + i - 1 \in Int
    BY <1>1, <1>3, <2>1
  <2>3. QED BY <1>3, <2>2 DEF Offered
<1>6. sink' \in Seq(Int) /\ Len(sink') = Len(sink) + o.n
  <2> DEFINE a == Offered(o.n)
  <2>1. a \in Seq(Int) /\ Len(a) = o.n /\ sink \in Seq(Int) /\ sink' = sink \o a
    BY <1>4, <1>5 DEF Writes, CopyInv, PassThrough
  <2> HIDE DEF a
  <2>2. a \in Seq(Int) /\ sink \in Seq(Int)
    BY <2>1
  <2>3. sink \o a \in Seq(Int) /\ Len(sink \o a) = Len(sink) + Len(a)
    BY <2>2, BytesJoined
  <2> DEFINE t == sink \o a
  <2> HIDE DEF t
  <2>4. sink' = t /\ t \in Seq(Int) /\ Len(t) = Len(sink) + o.n
    BY <2>1, <2>3 DEF t
  <2>5. QED BY <2>4
<1>7. ASSUME todo' \in Seq(StepType) PROVE WriterTypes' /\ written' = 0
  BY <1>3, <1>4, <1>5, <1>7, SMTT(30)
     DEF Writes, CopyInv, PassThrough, WriterTypes, typeVars
<1>8. UNCHANGED readerVars
  BY DEF CopyWrite
<1>9. CASE o.kind = "ok" /\ o.n > 0
  <2>1. job' = job /\ UNCHANGED clientVars /\ life' = life /\ todo' = After(o.n)
    BY <1>2, <1>9 DEF Retried
  <2>2. copy' = copy
    BY <2>1 DEF CopyWrite, Writes
  <2> DEFINE m == job.n - sent - o.n
             t == Step("all", m, TRUE)
  <2>3. m \in Nat /\ m = job.n - sent'
    BY <1>1, <1>3, <1>4, SMTT(30)
  <2>4. [Head(todo) EXCEPT !.n = @ - o.n] = t
    <3> DEFINE h == [Head(todo) EXCEPT !.n = @ - o.n]
    <3>1. Head(todo) \in StepType /\ Head(todo).do = "all"
      <4>1. /\ Step("all", job.n - sent, TRUE) \in StepType
            /\ Step("all", job.n - sent, TRUE).do = "all"
        BY <1>1 DEF Step, StepType, Do
      <4>2. QED BY <1>1, <4>1
    <3>2. h \in StepType /\ h.do = "all" /\ h.n = m /\ h.guarded = TRUE
      BY <1>1, <2>3, <3>1 DEF StepType
    <3>3. t \in StepType /\ t.do = "all" /\ t.n = m /\ t.guarded = TRUE
      BY <2>3 DEF Step, StepType, Do
    <3> HIDE DEF h, t
    <3>4. h = t
      BY <3>2, <3>3 DEF StepType
    <3>5. QED BY <3>4 DEF h
  <2>5. t \in StepType
    BY <2>3 DEF Step, StepType, Do
  <2>6. After(o.n) = <<t>> \o <<>>
    BY <1>1, <2>4, Zenon DEF After
  <2>7. todo' = <<t>> /\ <<t>> \in Seq(StepType)
    <3> HIDE DEF t
    <3>1. <<t>> \o <<>> = <<t>> /\ <<t>> \in Seq(StepType)
      BY <2>5
    <3>2. QED BY <2>1, <2>6, <3>1
  <2>8. WriterTypes' /\ written' = 0
    BY <1>7, <2>7
  <2>9. Remaining(job.n)'
    <3>1. job'.n - sent' = m
      BY <2>1, <2>3
    <3>2. todo' = <<Step("all", job'.n - sent', TRUE)>>
      BY <2>7, <3>1
    <3>3. QED BY <3>2 DEF Remaining
  <2>10. sent + o.n <= job.n
    BY <1>1, <1>3
  <2>11. QED
    BY <1>3, <1>4, <1>6, <1>8, <2>1, <2>2, <2>8, <2>9, <2>10, ChunkGoesOn
<1>10. CASE o.kind = "interrupted"
  <2>1. job' = job /\ UNCHANGED clientVars /\ life' = life /\ todo' = todo /\ o.n = 0
    BY <1>2, <1>3, <1>10 DEF Stay, Retried
  <2>2. copy' = copy
    BY <2>1 DEF CopyWrite, Writes
  <2>3. WriterTypes' /\ written' = 0
    BY <1>7, <2>1 DEF Writes, CopyInv, PassThrough, WriterTypes
  <2>4. sent' = sent
    BY <1>1, <1>4, <2>1
  <2>5. Remaining(job.n)'
    BY <2>1, <2>4 DEF Writes, Chunk, Remaining
  <2>6. sent + o.n <= job.n
    BY <1>1, <1>3
  <2>7. QED
    BY <1>3, <1>4, <1>6, <1>8, <2>1, <2>2, <2>3, <2>5, <2>6, ChunkGoesOn
<1>11. CASE ~(o.kind = "ok" /\ o.n > 0) /\ o.kind # "interrupted"
  <2>1. Refuse \/ Panic
    BY <1>2, <1>3, <1>11 DEF WriteZero, Retried
  <2>2. o.n = 0
    BY <1>3, <1>11
  <2>3. sink' = sink
    <3> DEFINE a == Offered(o.n)
    <3>1. a \in Seq(Int) /\ Len(a) = 0 /\ sink \in Seq(Int)
      BY <1>5, <2>2 DEF Writes, CopyInv, PassThrough
    <3>2. sink' = sink \o a
      BY <1>4
    <3> HIDE DEF a
    <3>3. a = <<>>
      BY <3>1
    <3>4. QED BY <3>1, <3>2, <3>3
  <2>4. /\ EndCall /\ acked' = acked
        /\ life' = "live" => life = "live" /\ offered' = offered + job.n
    <3>1. job.op = "write_all" /\ job.from = offered /\ life = "live"
      BY DEF Writes, Chunk, Living
    <3>2. CASE Refuse
      BY <3>1, <3>2 DEF Refuse
    <3>3. CASE Panic
      BY <3>1, <3>3 DEF Panic, clientVars
    <3>4. QED BY <2>1, <3>2, <3>3
  <2>5. copy' = [copy EXCEPT !.phase = "failed"]
    BY <2>4 DEF CopyWrite, EndCall
  <2>6. WriterTypes' /\ written' = 0
    BY <1>7, <2>4, NoSteps DEF EndCall
  <2>7. QED BY <1>4, <1>8, <2>3, <2>4, <2>5, <2>6, ChunkFails
<1>12. QED BY <1>3, <1>9, <1>10, <1>11

LEMMA CopyUnwindsKeeps ==
  ASSUME CopyInv, CopyUnwinds
  PROVE  CopyInv'
<1>1. /\ life = "unwinding" /\ copy' = copy /\ rd' = rd
      /\ copy.phase \notin {"read", "write"}
  BY DEF CopyUnwinds, CopyInv, Living, readerVars, vars
<1>2. /\ UNCHANGED <<typeVars, len, panicked, written, room, sink, blown>>
      /\ life' # "live" /\ todo' \in {<<>>, FlushBuf}
  <2>1. CASE DropUnwinding
    BY <1>1, <2>1 DEF DropUnwinding, DropSteps
  <2>2. CASE Done
    BY <1>1, <2>2 DEF Done, WriterStays, Finish, EndCall, Dropped
  <2>3. QED BY <2>1, <2>2 DEF CopyUnwinds
<1>3. PassThrough'
  BY <1>1, <1>2, Flushing, NoSteps DEF CopyInv, PassThrough, WriterTypes, typeVars
<1>4. CopyIsExact'
  BY <1>1, <1>2 DEF CopyInv, CopyIsExact, Moved, Arrived, AtEnd, CursorFillBuf
<1>5. QED BY <1>1, <1>2, <1>3, <1>4 DEF CopyInv

-----------------------------------------------------------------------------
(***************************************************************************)
(* The theorem                                                             *)
(***************************************************************************)
LEMMA CopyingKeeps ==
  ASSUME CopyingInv, [CopyingNext]_copyingVars
  PROVE  CopyingInv'
<1>1. CASE client # "copies" /\ CopyingNext
  BY <1>1 DEF CopyingInv, CopyingNext
<1>2. CASE client = "copies" /\ CopyingNext
  <2>1. client' = client /\ CopyInv /\ (StartCopy \/ CopySteps)
    BY <1>2 DEF CopyingInv, CopyingNext
  <2>2. ASSUME CopyWrite PROVE CopyInv'
    <3>1. Writes
      BY <2>1, <2>2, ChunkInHand
    <3>2. Flush \/ WrittenAll \/ WriteRest \/ Done
      BY <2>2 DEF CopyWrite
    <3>3. QED
      BY <2>2, <3>1, <3>2, CopyFlushKeeps, CopyWrittenAllKeeps, CopyWriteRestKeeps,
         CopyDoneKeeps
  <2>3. CopyInv'
    BY <2>1, <2>2, StartCopyKeeps, CopyReadKeeps, CopyUnwindsKeeps DEF CopySteps
  <2>4. QED BY <1>2, <2>1, <2>3 DEF CopyingInv
<1>3. CASE UNCHANGED copyingVars
  <2>1. /\ client' = client /\ copy' = copy /\ rd' = rd /\ UNCHANGED writerVars
    BY <1>3 DEF copyingVars, readerVars, vars
  <2>2. /\ UNCHANGED <<typeVars, clientVars, len, panicked, written, room, sink, job, todo,
                       sent, life, blown>>
    BY <2>1 DEF writerVars
  <2>3. CopyInv => CopyInv'
    BY <2>1, <2>2 DEF CopyInv, PassThrough, Good, WriterTypes, Living, Chunk, Remaining,
       Between, CopyIsExact, Moved, Arrived, AtEnd, CursorFillBuf, typeVars, clientVars
  <2>4. QED BY <2>1, <2>3 DEF CopyingInv
<1>4. QED BY <1>1, <1>2, <1>3

\* copy returns Ok(n) exactly when it has moved everything, n bytes, and W has
\* them; a copy that fails leaves at most the chunk in hand behind, whatever was
\* interrupted or cut short.
THEOREM CopiesAreExact == CopyingSpec => []CopyIsExact
<1>1. CopyingInv => CopyIsExact
  BY DEF CopyingInv, CopyInv, CopyIsExact, NoCopy
<1>2. CopyingInv /\ [CopyingNext]_copyingVars => CopyingInv'
  BY CopyingKeeps
<1>3. QED BY <1>1, <1>2, CopyingStarts, PTL DEF CopyingSpec

-----------------------------------------------------------------------------
(***************************************************************************)
(* What holds of the readers and of the writers alone, for this client     *)
(***************************************************************************)

\* While it copies, the client makes no call of its own.
NoOtherCall == call = NoCall /\ result = NoResult /\ peeked = 0

ClientInv ==
  /\ CopyingInv /\ ReaderInv /\ WriterInv /\ SinkInv /\ FillerInv
  /\ client = "copies" => NoOtherCall

LEMMA ClientStarts ==
  CopyingInit => ClientInv /\ Stream!Init
BY CopyingStarts, InitReaders, WriterStarts, SinkStarts, FillersStart
   DEF CopyingInit, ClientInv, NoOtherCall, Init

\* A read of copy is one of the streams' steps.
LEMMA CopyReadReads ==
  ASSUME ReaderInv, NoOtherCall, CopyRead
  PROVE  ReaderInv' /\ NoOtherCall' /\ Stream!Next
<1>1. PICK o \in TakeRead(rd, CopySize) : Reading(o)
  BY DEF CopyRead
<1>2. Good(rd) /\ CopySize \in Nat
  BY CopyingAssumption DEF ReaderInv, StackInv
<1>3. TakeOutcome(rd, CopySize, o)
  BY <1>1, <1>2, TakeReadOutcome
<1>4. Stream!Next
  BY <1>1, <1>2, <1>3, ReadStep
<1>5. Good(rd') /\ peeked' = 0 /\ call' = NoCall /\ result' = NoResult
  BY <1>1, <1>3 DEF TakeOutcome, Reading, NoOtherCall, CopyRead
<1>6. StackInv'
  BY <1>5, NothingLent DEF StackInv
<1>7. QED BY <1>4, <1>5, <1>6, QuietResult DEF NoOtherCall

LEMMA StartCopyReads ==
  ASSUME ReaderInv, NoOtherCall, StartCopy
  PROVE  ReaderInv' /\ NoOtherCall' /\ Stream!Next
<1>1. /\ rd' = rd /\ peeked' = 0 /\ out' = Nothing
      /\ call' = NoCall /\ result' = NoResult
  BY DEF StartCopy, NoOtherCall
<1>2. Good(rd)
  BY DEF ReaderInv, StackInv
<1>3. StackInv'
  BY <1>1, <1>2, NothingLent DEF StackInv
<1>4. Stream!HandOutNothing
  BY <1>1, NothingStep
<1>5. QED BY <1>1, <1>3, <1>4, QuietResult DEF NoOtherCall, Stream!Next

\* What copy's read begins is a write_all, fenced like any other.
LEMMA CopyReadWrites ==
  ASSUME WriterInv, CopyInv, CopyRead
  PROVE  WriterInv' /\ sink' = sink
<1>1. PICK o \in TakeRead(rd, CopySize) :
        /\ Reading(o)
        /\ \/ UNCHANGED writerVars
           \/ /\ todo' = WriteAll(o.n, 0)
              /\ UNCHANGED <<typeVars, clientVars, len, panicked, written, room, sink,
                             life, blown>>
  BY DEF CopyRead
<1>2. CASE UNCHANGED writerVars
  BY <1>2 DEF writerVars, typeVars, WriterInv, WriterTypes, Fenced, AllGuarded, AfterPanic
<1>3. CASE /\ todo' = WriteAll(o.n, 0)
           /\ UNCHANGED <<typeVars, clientVars, len, panicked, written, room, sink,
                          life, blown>>
  <2>1. o.n \in Nat
    BY <1>1, CopyReading
  <2>2. todo' \in Seq(StepType) /\ capacity = 0
    <3>1. 0 \in Nat /\ 0 <= o.n
      BY <2>1
    <3>2. WriteAll(o.n, 0) \in Seq(StepType)
      BY <2>1, <3>1, WriteAllGuarded
    <3>3. QED BY <1>3, <3>2 DEF CopyInv, PassThrough
  <2>3. WriterTypes' /\ Fenced(todo)' /\ sink' = sink
    BY <1>3, <2>2 DEF WriterInv, WriterTypes, Fenced, typeVars
  <2>4. ~blown
    BY DEF CopyInv, CopyRead, Living, WriterInv, AfterPanic
  <2>5. QED BY <1>3, <2>3, <2>4 DEF WriterInv, AfterPanic
<1>4. QED BY <1>1, <1>2, <1>3

\* It offers the bytes that the read has brought, like a call of the client.
LEMMA CopyReadSinks ==
  ASSUME WriterInv, SinkInv, FillerInv, CopyInv, CopyRead
  PROVE  SinkInv' /\ FillerInv'
<1>1. PICK o \in TakeRead(rd, CopySize) :
        /\ Reading(o)
        /\ \/ UNCHANGED writerVars
           \/ /\ job' = [op |-> "write_all", from |-> offered, n |-> o.n, nl |-> 0]
              /\ todo' = WriteAll(o.n, 0)
              /\ sent' = 0
              /\ UNCHANGED <<typeVars, clientVars, len, panicked, written, room, sink,
                             life, blown>>
  BY DEF CopyRead
<1>2. CASE UNCHANGED writerVars
  BY <1>2, WriterSinks, WriterFillers DEF WriterInv
<1>3. CASE ~UNCHANGED writerVars
  <2>1. /\ job' = [op |-> "write_all", from |-> offered, n |-> o.n, nl |-> 0]
        /\ todo' = Steps("write_all", o.n, 0)
        /\ sent' = 0
        /\ UNCHANGED <<offered, acked, len, sink, life>>
    BY <1>1, <1>3 DEF clientVars, Steps
  <2>2. o.n \in Nat /\ 0 \in Nat /\ 0 <= o.n
    BY <1>1, CopyReading
  <2>3. "write_all" \in WriterOp /\ "write_all" \in Data
    BY DEF WriterOp, Data
  <2>4. job = NoJob /\ life = "live"
    BY DEF CopyInv, CopyRead, Living, Between
  <2>5. written = 0 /\ written' = 0
    BY <1>1, <1>3, <2>4 DEF FillerInv, SinkInv, WriterInv, WriterTypes
  <2>6. FillerInv'
    BY <2>1, <2>5, FillersStay
  <2>7. QED BY <2>1, <2>2, <2>3, <2>4, <2>6, SinkBegins
<1>4. QED BY <1>2, <1>3

\* Every step of copy is one of the adapters below it.
LEMMA CopyStep ==
  ASSUME ReaderInv, WriterInv, SinkInv, FillerInv, CopyInv, NoOtherCall,
         StartCopy \/ CopySteps
  PROVE  /\ ReaderInv' /\ WriterInv' /\ SinkInv' /\ FillerInv' /\ NoOtherCall'
         /\ [Stream!Next]_(Stream!vars)
         /\ blown => sink' = sink
<1>1. CASE StartCopy
  <2>1. UNCHANGED writerVars
    BY <1>1 DEF StartCopy
  <2>2. WriterInv' /\ SinkInv' /\ FillerInv' /\ sink' = sink
    BY <2>1, WriterKeeps, WriterSinks, WriterFillers DEF writerVars, WriterInv
  <2>3. QED BY <1>1, <2>2, StartCopyReads
<1>2. CASE CopyRead
  BY <1>2, CopyReadReads, CopyReadWrites, CopyReadSinks
<1>3. CASE CopyWrite \/ CopyUnwinds
  <2>1. Work /\ UNCHANGED readerVars
    BY <1>3 DEF CopyWrite, CopyUnwinds, Work
  <2>2. WriterInv' /\ SinkInv' /\ FillerInv' /\ (blown => sink' = sink)
    BY <2>1, WorkKeeps, WorkSinks, WriterFillers, SilentStep DEF WriterNext, WriterInv
  <2>3. ReaderInv' /\ [Stream!Next]_(Stream!vars)
    BY <2>1, ReaderStep DEF readerVars
  <2>4. NoOtherCall'
    BY <2>1 DEF NoOtherCall, readerVars, vars
  <2>5. QED BY <2>2, <2>3, <2>4
<1>4. QED BY <1>1, <1>2, <1>3 DEF CopySteps

LEMMA ClientStep ==
  ASSUME ClientInv, [CopyingNext]_copyingVars
  PROVE  /\ ClientInv'
         /\ [Stream!Next]_(Stream!vars)
         /\ blown => sink' = sink
<1> USE DEF ClientInv
<1>1. CopyingInv'
  BY CopyingKeeps
<1>2. CASE client = "copies" /\ (StartCopy \/ CopySteps) /\ UNCHANGED client
  <2>1. CopyInv
    BY <1>2 DEF CopyingInv
  <2>2. QED BY <1>1, <1>2, <2>1, CopyStep
<1>3. CASE ~(client = "copies" /\ (StartCopy \/ CopySteps) /\ UNCHANGED client)
  <2>1. /\ [Next]_vars /\ [WriterNext]_writerVars /\ client' = client
        /\ client = "copies" => UNCHANGED vars
    BY <1>3 DEF CopyingNext, copyingVars, readerVars
  <2>2. ReaderInv' /\ [Stream!Next]_(Stream!vars)
    BY <2>1, ReaderStep
  <2>3. WriterInv' /\ SinkInv' /\ FillerInv' /\ (blown => sink' = sink)
    BY <2>1, WriterKeeps, WriterSinks, WriterFillers, SilentStep DEF WriterInv
  <2>4. client' = "copies" => NoOtherCall'
    BY <2>1 DEF NoOtherCall, vars
  <2>5. QED BY <1>1, <2>2, <2>3, <2>4
<1>4. QED BY <1>2, <1>3

THEOREM ClientInvariant == CopyingSpec => []ClientInv
<1>1. ClientInv /\ [CopyingNext]_copyingVars => ClientInv'
  BY ClientStep
<1>2. QED BY <1>1, ClientStarts, PTL DEF CopyingSpec

\* Under a client that reads, writes or copies: the buffer holds what it should,
\* the loops of Read account for every byte, and no end is reported early.
THEOREM ClientReads ==
  CopyingSpec => [](TypeOK /\ EveryByteAccountedFor /\ EndIsReal)
<1>1. ClientInv => TypeOK /\ EveryByteAccountedFor /\ EndIsReal
  BY Typed DEF ClientInv, ReaderInv, CallInv, ResultInv, EveryByteAccountedFor
<1>2. QED BY <1>1, ClientInvariant, PTL

\* What reads and copies take from the adapters are two plain streams.
THEOREM ClientSeesStreams == CopyingSpec => ImplementsByteStream
<1>1. CopyingInit => Stream!Init
  BY ClientStarts
<1>2. ClientInv /\ [CopyingNext]_copyingVars => [Stream!Next]_(Stream!vars)
  BY ClientStep
<1>3. QED
  BY <1>1, <1>2, ClientInvariant, PTL DEF CopyingSpec, ImplementsByteStream, Stream!Spec

\* No destructor, call or copy writes once W has panicked.
THEOREM ClientIsSilent == CopyingSpec => SilentAfterPanic
<1>1. ClientInv /\ [CopyingNext]_copyingVars => [blown => sink' = sink]_writerVars
  BY ClientStep
<1>2. QED BY <1>1, ClientInvariant, PTL DEF CopyingSpec, SilentAfterPanic

\* Every byte that a write or a copy acknowledged is in the sink, once and in order,
\* or in the buffer.
THEOREM ClientBytesArrive == CopyingSpec => []AcknowledgedReachesSink
<1>1. ClientInv => AcknowledgedReachesSink
  BY ReceivedAcknowledged DEF ClientInv
<1>2. QED BY <1>1, ClientInvariant, PTL
===============================================================================
