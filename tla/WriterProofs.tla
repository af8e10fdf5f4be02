----------------------------- MODULE WriterProofs -----------------------------
(***************************************************************************)
(* Theorems about core2's writers, for any capacity, any writer below and  *)
(* any calls.  LineWriter writes complete lines without the flag that      *)
(* BufWriter sets around a call of W; the proof shows why no destructor    *)
(* writes after a panic all the same: behind a buffer of some length such  *)
(* a step is fenced off by a flush that never gets through.                *)
(* What is acknowledged is in W because a call's steps hand W exactly the  *)
(* bytes of the call, one after the other, from where the client is.       *)
(***************************************************************************)
EXTENDS Writers, TLAPS

Do == {"flush", "write", "all", "lines", "buffer", "tail", "ask", "fail", "take"}
StepType == [do : Do, n : Nat, guarded : BOOLEAN]

\* A step that calls W's write without the flag.
Unguarded(s) == s.do \in {"write", "all", "lines"} /\ ~s.guarded

AllGuarded(steps) == \A i \in 1..Len(steps) : ~Unguarded(steps[i])

\* With a buffer of some length, a flush comes before any unguarded step.
Fenced(steps) == capacity # 0 => AllGuarded(steps) \/ steps[1].do = "flush"

WriterTypes ==
  /\ capacity \in Nat /\ written \in Nat /\ room \in Nat
  /\ target \in {"device", "slice", "cursor", "vec"}
  /\ blown \in BOOLEAN /\ panicked \in BOOLEAN
  /\ todo \in Seq(StepType)

\* Once W has panicked the writer is on its way out, and all that is left to do
\* is a flush of an empty buffer.
AfterPanic ==
  blown => /\ life # "live"
           /\ capacity # 0 => panicked = TRUE
           /\ \/ todo = <<>>
              \/ capacity = 0 /\ todo = FlushBuf

WriterInv == WriterTypes /\ Fenced(todo) /\ AfterPanic

-----------------------------------------------------------------------------
(***************************************************************************)
(* The lists of steps                                                      *)
(***************************************************************************)
LEMMA Joined ==
  ASSUME NEW s \in Seq(StepType), NEW t \in Seq(StepType)
  PROVE  /\ s \o t \in Seq(StepType)
         /\ AllGuarded(s) /\ AllGuarded(t) => AllGuarded(s \o t)
         /\ s # <<>> => (s \o t)[1] = s[1]
<1>1. s \o t \in Seq(StepType) /\ Len(s \o t) = Len(s) + Len(t)
  OBVIOUS
<1>2. ASSUME AllGuarded(s), AllGuarded(t), NEW i \in 1..Len(s \o t)
      PROVE  ~Unguarded((s \o t)[i])
  <2>1. CASE i <= Len(s)
    <3>1. (s \o t)[i] = s[i] /\ i \in 1..Len(s)
      BY <1>1, <2>1
    <3>2. QED BY <1>2, <3>1 DEF AllGuarded
  <2>2. CASE i > Len(s)
    <3>1. (s \o t)[i] = t[i - Len(s)] /\ i - Len(s) \in 1..Len(t)
      BY <1>1, <2>2
    <3>2. QED BY <1>2, <3>1 DEF AllGuarded
  <2>3. QED BY <2>1, <2>2
<1>3. QED BY <1>1, <1>2 DEF AllGuarded

LEMMA SingleStep ==
  ASSUME NEW do \in Do, NEW n \in Nat, NEW guarded \in BOOLEAN
  PROVE  /\ <<Step(do, n, guarded)>> \in Seq(StepType)
         /\ <<Step(do, n, guarded)>> # <<>>
         /\ Tail(<<Step(do, n, guarded)>>) = <<>>
         /\ <<Step(do, n, guarded)>>[1].do = do
         /\ guarded \/ do \notin {"write", "all", "lines"} =>
              AllGuarded(<<Step(do, n, guarded)>>)
<1> DEFINE s == Step(do, n, guarded)
<1>1. s \in StepType /\ s.do = do /\ s.guarded = guarded
  BY DEF Step, StepType
<1> HIDE DEF s
<1>2. <<s>> \in Seq(StepType) /\ <<s>> # <<>> /\ Tail(<<s>>) = <<>> /\ <<s>>[1] = s
      /\ Len(<<s>>) = 1
  BY <1>1
<1>3. ASSUME guarded \/ do \notin {"write", "all", "lines"}
      PROVE  AllGuarded(<<s>>)
  <2>1. ~Unguarded(s)
    BY <1>1, <1>3 DEF Unguarded
  <2>2. QED BY <1>2, <2>1 DEF AllGuarded
<1>4. QED BY <1>1, <1>2, <1>3 DEF s

LEMMA Flushing ==
  /\ FlushBuf \in Seq(StepType) /\ AllGuarded(FlushBuf)
  /\ FlushBuf # <<>> /\ FlushBuf[1].do = "flush" /\ Tail(FlushBuf) = <<>>
<1>1. "flush" \in Do /\ 0 \in Nat /\ TRUE \in BOOLEAN
  BY DEF Do
<1>2. QED BY <1>1, SingleStep DEF FlushBuf

LEMMA NoSteps ==
  <<>> \in Seq(StepType) /\ AllGuarded(<<>>)
BY DEF AllGuarded

\* BufWriter sets the flag around every call of W.
LEMMA BufStepsGuarded ==
  ASSUME NEW direct \in {"write", "all"}, NEW n \in Nat
  PROVE  BufSteps(direct, n) \in Seq(StepType) /\ AllGuarded(BufSteps(direct, n))
<1> DEFINE first == IF len + n > capacity THEN FlushBuf ELSE <<>>
           do    == IF n >= capacity THEN direct ELSE "buffer"
<1>1. first \in Seq(StepType) /\ AllGuarded(first)
  BY Flushing, NoSteps
<1>2. do \in Do
  BY DEF Do
<1>3. BufSteps(direct, n) = first \o <<Step(do, n, TRUE)>>
  BY DEF BufSteps
<1> HIDE DEF first, do
<1>4. /\ <<Step(do, n, TRUE)>> \in Seq(StepType)
      /\ AllGuarded(<<Step(do, n, TRUE)>>)
  BY <1>2, SingleStep
<1>5. QED BY <1>1, <1>3, <1>4, Joined

LEMMA LineWriteFenced ==
  ASSUME NEW n \in Nat, NEW nl \in Nat
  PROVE  LineWrite(n, nl) \in Seq(StepType) /\ Fenced(LineWrite(n, nl))
<1>1. CASE nl = 0
  <2>1. LineWrite(n, nl) = BufSteps("write", n)
    BY <1>1 DEF LineWrite
  <2>2. QED BY <2>1, BufStepsGuarded DEF Fenced
<1>2. CASE nl # 0
  <2> DEFINE s == Step("lines", nl, FALSE)
             t == Step("tail", n, FALSE)
  <2>1. s \in StepType /\ t \in StepType
    BY DEF Step, StepType, Do
  <2>2. LineWrite(n, nl) = FlushBuf \o <<s, t>>
    BY <1>2 DEF LineWrite
  <2> HIDE DEF s, t
  <2>3. <<s, t>> \in Seq(StepType)
    BY <2>1
  <2>4. QED BY <2>2, <2>3, Flushing, Joined DEF Fenced
<1>3. QED BY <1>1, <1>2

\* write_all calls W without the flag only through a buffer of length 0.
LEMMA WriteAllGuarded ==
  ASSUME NEW n \in Nat, NEW nl \in Nat, nl <= n
  PROVE  /\ WriteAll(n, nl) \in Seq(StepType)
         /\ capacity # 0 => AllGuarded(WriteAll(n, nl))
<1> DEFINE first == IF nl = 0 THEN <<>>
                    ELSE IF capacity = 0 THEN <<Step("all", nl, FALSE)>>
                    ELSE BufSteps("all", nl) \o FlushBuf
           last  == BufSteps("all", n - nl)
<1>1. first \in Seq(StepType) /\ (capacity # 0 => AllGuarded(first))
  <2>1. CASE nl = 0
    BY <2>1, NoSteps
  <2>2. CASE nl # 0 /\ capacity = 0
    <3>1. first = <<Step("all", nl, FALSE)>>
      BY <2>2
    <3>2. <<Step("all", nl, FALSE)>> \in Seq(StepType)
      BY SingleStep DEF Do
    <3>3. QED BY <2>2, <3>1, <3>2
  <2>3. CASE nl # 0 /\ capacity # 0
    <3>1. first = BufSteps("all", nl) \o FlushBuf
      BY <2>3
    <3>2. BufSteps("all", nl) \in Seq(StepType) /\ AllGuarded(BufSteps("all", nl))
      BY BufStepsGuarded
    <3>3. QED BY <3>1, <3>2, Flushing, Joined
  <2>4. QED BY <2>1, <2>2, <2>3
<1>2. last \in Seq(StepType) /\ AllGuarded(last)
  <2>1. n - nl \in Nat
    OBVIOUS
  <2>2. QED BY <2>1, BufStepsGuarded
<1>3. LineWriteAll(n, nl) = first \o last
  BY DEF LineWriteAll
<1>4. BufSteps("all", n) \in Seq(StepType) /\ AllGuarded(BufSteps("all", n))
  BY BufStepsGuarded
<1> HIDE DEF first, last
<1>5. LineWriteAll(n, nl) \in Seq(StepType)
      /\ (capacity # 0 => AllGuarded(LineWriteAll(n, nl)))
  BY <1>1, <1>2, <1>3, Joined
<1>6. CASE adapter = "line"
  BY <1>5, <1>6 DEF WriteAll
<1>7. CASE adapter # "line"
  BY <1>4, <1>7 DEF WriteAll
<1>8. QED BY <1>6, <1>7

LEMMA PieceGuarded ==
  ASSUME NEW n \in Nat, NEW nl \in Nat, nl <= n
  PROVE  /\ Piece(n, nl) \in Seq(StepType)
         /\ capacity # 0 => AllGuarded(Piece(n, nl))
<1>1. CASE n = 0
  BY <1>1, NoSteps DEF Piece
<1>2. CASE n # 0
  BY <1>2, WriteAllGuarded DEF Piece
<1>3. QED BY <1>1, <1>2

LEMMA WriteFmtGuarded ==
  ASSUME NEW n \in Nat, NEW nl \in Nat, nl <= n
  PROVE  /\ WriteFmt(n, nl) \in Seq(StepType)
         /\ capacity # 0 => AllGuarded(WriteFmt(n, nl))
<1>1. /\ Piece(nl, nl) \in Seq(StepType)
      /\ capacity # 0 => AllGuarded(Piece(nl, nl))
  BY PieceGuarded
<1>2. n - nl \in Nat
  OBVIOUS
<1>3. /\ Piece(n - nl, 0) \in Seq(StepType)
      /\ capacity # 0 => AllGuarded(Piece(n - nl, 0))
  BY <1>2, PieceGuarded
<1>4. QED BY <1>1, <1>3, Joined DEF WriteFmt

LEMMA StepsFenced ==
  ASSUME NEW op \in WriterOp, NEW n \in Nat, NEW nl \in Nat, nl <= n
  PROVE  Steps(op, n, nl) \in Seq(StepType) /\ Fenced(Steps(op, n, nl))
<1>1. CASE op = "write"
  <2>1. CASE adapter = "line"
    <3>1. Steps(op, n, nl) = LineWrite(n, nl)
      BY <1>1, <2>1 DEF Steps
    <3>2. QED BY <3>1, LineWriteFenced
  <2>2. CASE adapter # "line"
    <3>1. Steps(op, n, nl) = BufSteps("write", n)
      BY <1>1, <2>2 DEF Steps
    <3>2. QED BY <3>1, BufStepsGuarded DEF Fenced
  <2>3. QED BY <2>1, <2>2
<1>2. CASE op = "write_all"
  <2>1. Steps(op, n, nl) = WriteAll(n, nl)
    BY <1>2 DEF Steps
  <2>2. QED BY <2>1, WriteAllGuarded DEF Fenced
<1>3. CASE op = "write_fmt"
  <2>1. Steps(op, n, nl) = WriteFmt(n, nl)
    BY <1>3 DEF Steps
  <2>2. QED BY <2>1, WriteFmtGuarded DEF Fenced
<1>4. CASE op = "format_err"
  <2>1. Steps(op, n, nl) = WriteFmt(n, nl) \o <<Step("fail", 0, FALSE)>>
    BY <1>4 DEF Steps
  <2>2. <<Step("fail", 0, FALSE)>> \in Seq(StepType)
        /\ AllGuarded(<<Step("fail", 0, FALSE)>>)
    BY SingleStep DEF Do
  <2>3. /\ WriteFmt(n, nl) \in Seq(StepType)
        /\ capacity # 0 => AllGuarded(WriteFmt(n, nl))
    BY WriteFmtGuarded
  <2> HIDE <2>1
  <2>4. /\ WriteFmt(n, nl) \o <<Step("fail", 0, FALSE)>> \in Seq(StepType)
        /\ capacity # 0 => AllGuarded(WriteFmt(n, nl) \o <<Step("fail", 0, FALSE)>>)
    BY <2>2, <2>3, Joined
  <2>5. QED BY <2>1, <2>4 DEF Fenced
<1>5. CASE op \in {"flush", "seek", "into_inner"}
  <2>1. PICK do \in {"ask", "take"} : Steps(op, n, nl) = FlushBuf \o <<Step(do, 0, FALSE)>>
    BY <1>5 DEF Steps
  <2>2. <<Step(do, 0, FALSE)>> \in Seq(StepType) /\ AllGuarded(<<Step(do, 0, FALSE)>>)
    BY SingleStep DEF Do
  <2>3. QED BY <2>1, <2>2, Flushing, Joined DEF Fenced
<1>6. CASE op = "drop"
  <2>1. Steps(op, n, nl) \in {<<>>, FlushBuf}
    BY <1>6 DEF Steps, DropSteps
  <2>2. QED BY <2>1, Flushing, NoSteps DEF Fenced
<1>7. QED BY <1>1, <1>2, <1>3, <1>4, <1>5, <1>6 DEF WriterOp, Data

LEMMA TailOfSteps ==
  ASSUME NEW s \in Seq(StepType), s # <<>>
  PROVE  /\ Head(s) \in StepType /\ Head(s) = s[1]
         /\ Tail(s) \in Seq(StepType)
         /\ AllGuarded(s) => AllGuarded(Tail(s))
<1>1. /\ Len(s) \in Nat \ {0} /\ Head(s) \in StepType /\ Head(s) = s[1]
      /\ Tail(s) \in Seq(StepType) /\ Len(Tail(s)) = Len(s) - 1
      /\ \A i \in 1..Len(Tail(s)) : Tail(s)[i] = s[i + 1] /\ i + 1 \in 1..Len(s)
  OBVIOUS
<1>2. QED BY <1>1 DEF AllGuarded

-----------------------------------------------------------------------------
(***************************************************************************)
(* The steps                                                               *)
(***************************************************************************)

\* What W accepts of n bytes, and of the room that a slice has left.
LEMMA InnerWriteOutcome ==
  ASSUME WriterTypes, NEW n \in Nat, NEW o \in InnerWrite(n)
  PROVE  /\ o.n \in Nat /\ o.n <= n /\ (o.kind # "ok" => o.n = 0)
         /\ target \in {"slice", "cursor"} => o.n <= room
         /\ o.kind \in {"ok", "interrupted", "other", "panic"}
<1>1. CASE target = "device"
  BY <1>1 DEF InnerWrite, DeviceWrite, Wrote
<1>2. CASE target \in {"slice", "cursor"}
  <2>1. o = Wrote(Least(n, room))
    BY <1>2 DEF InnerWrite, SliceWrite, CursorWrite
  <2>2. QED BY <1>2, <2>1 DEF WriterTypes, Wrote, Least
<1>3. CASE target = "vec"
  BY <1>3 DEF InnerWrite, VecWrite, Wrote
<1>4. QED BY <1>1, <1>2, <1>3 DEF WriterTypes

\* The step that ends a call leaves nothing to do.
LEMMA EndStep ==
  ASSUME WriterInv, EndCall, UNCHANGED typeVars, written' \in Nat, room' \in Nat,
         blown' \in BOOLEAN, panicked' \in BOOLEAN,
         blown' => life' # "live" /\ (capacity # 0 => panicked' = TRUE)
  PROVE  WriterInv'
<1>1. todo' = <<>> /\ capacity' = capacity /\ target' = target
  BY DEF EndCall, typeVars
<1>2. todo' \in Seq(StepType) /\ AllGuarded(todo')
  BY <1>1, NoSteps
<1>3. WriterTypes'
  BY <1>1, <1>2 DEF WriterInv, WriterTypes
<1>4. Fenced(todo)'
  BY <1>1, <1>2 DEF Fenced
<1>5. AfterPanic'
  BY <1>1 DEF AfterPanic
<1>6. QED BY <1>3, <1>4, <1>5 DEF WriterInv

LEMMA Ending ==
  /\ Panic \/ Abort => EndCall /\ life' # "live"
  /\ Refuse => EndCall /\ (life # "live" => life' # "live")
  /\ \A k : Finish(k) => EndCall /\ (life # "live" => life' # "live")
BY DEF Panic, Abort, Refuse, Finish, Dropped

\* After a panic there is no step but a flush.
LEMMA NotBlown ==
  ASSUME WriterInv, todo # <<>>, Head(todo).do # "flush"
  PROVE  ~blown
<1>1. todo \in Seq(StepType) /\ Head(todo) = todo[1]
  BY TailOfSteps DEF WriterInv, WriterTypes
<1>2. QED BY <1>1, Flushing DEF WriterInv, AfterPanic

\* A flush gets through only when the buffer has no length.
LEMMA ProceedStep ==
  ASSUME WriterInv, todo # <<>>, Head(todo).do # "flush" \/ capacity = 0, Proceed,
         UNCHANGED typeVars, written' \in Nat, room' \in Nat, blown' = blown,
         panicked' = panicked
  PROVE  WriterInv'
<1>1. /\ todo' = Tail(todo) /\ capacity' = capacity /\ target' = target
      /\ life' = life /\ capacity \in Nat
  BY DEF Proceed, typeVars, WriterInv, WriterTypes
<1>2. /\ todo \in Seq(StepType) /\ Tail(todo) \in Seq(StepType) /\ Head(todo) = todo[1]
      /\ AllGuarded(todo) => AllGuarded(Tail(todo))
  BY TailOfSteps DEF WriterInv, WriterTypes
<1>3. WriterTypes'
  BY <1>1, <1>2 DEF WriterInv, WriterTypes
<1>4. Fenced(todo)'
  BY <1>1, <1>2 DEF WriterInv, Fenced
<1>5. ASSUME blown' PROVE capacity = 0 /\ todo = FlushBuf /\ life # "live"
  <2>1. blown
    BY <1>5
  <2>2. Head(todo).do = "flush"
    BY <2>1, NotBlown
  <2>3. QED BY <2>1, <2>2 DEF WriterInv, AfterPanic
<1>6. AfterPanic'
  BY <1>1, <1>5, Flushing DEF AfterPanic
<1>7. QED BY <1>3, <1>4, <1>6 DEF WriterInv

\* A call of W's write by a step other than a flush.
LEMMA WritingStep ==
  ASSUME WriterInv, todo # <<>>, Head(todo).do \in {"write", "all", "lines"},
         NEW o \in InnerWrite(Head(todo).n), Writing(o)
  PROVE  /\ UNCHANGED typeVars /\ written' \in Nat /\ room' \in Nat
         /\ o.n \in Nat /\ o.n <= Head(todo).n
         /\ o.kind \in {"ok", "interrupted", "other", "panic"}
         /\ blown = FALSE /\ blown' \in BOOLEAN /\ panicked' \in BOOLEAN
         /\ o.kind # "panic" => blown' = blown /\ panicked' = panicked
         /\ blown' /\ capacity # 0 => panicked' = TRUE
<1>1. /\ Head(todo) \in StepType /\ Head(todo).n \in Nat /\ Head(todo) = todo[1]
      /\ Len(todo) \in Nat \ {0}
  <2>1. todo \in Seq(StepType)
    BY DEF WriterInv, WriterTypes
  <2>2. Head(todo) \in StepType /\ Head(todo) = todo[1]
    BY <2>1, TailOfSteps
  <2>3. Len(todo) \in Nat \ {0}
    BY <2>1
  <2>4. QED BY <2>2, <2>3 DEF StepType
<1>2. /\ o.n \in Nat /\ o.n <= Head(todo).n
      /\ target \in {"slice", "cursor"} => o.n <= room
      /\ o.kind \in {"ok", "interrupted", "other", "panic"}
  BY <1>1, InnerWriteOutcome DEF WriterInv
<1>3. UNCHANGED typeVars /\ written' \in Nat
  BY DEF Writing, WriterInv, WriterTypes
<1>4. room' \in Nat
  <2>1. Len(Offered(o.n)) = o.n
    BY <1>2 DEF Offered
  <2>2. QED BY <1>2, <2>1 DEF Writing, Accept, WriterInv, WriterTypes
<1>5. ~blown
  BY NotBlown
<1>6. /\ blown' = (blown \/ o.kind = "panic")
      /\ IF Head(todo).guarded THEN panicked' = (panicked \/ o.kind = "panic")
                               ELSE panicked' = panicked
  BY DEF Writing, Flagged
<1>7. blown \in BOOLEAN /\ panicked \in BOOLEAN
  BY DEF WriterInv, WriterTypes
<1>8. ASSUME capacity # 0 PROVE Head(todo).guarded
  <2>1. ~Unguarded(todo[1])
    BY <1>1, <1>8 DEF WriterInv, Fenced, AllGuarded
  <2>2. QED BY <1>1, <2>1 DEF Unguarded
<1>9. blown = FALSE /\ blown' \in BOOLEAN /\ panicked' \in BOOLEAN
  BY <1>5, <1>6, <1>7
<1>10. o.kind # "panic" => blown' = blown /\ panicked' = panicked
  BY <1>5, <1>6, <1>7
<1>11. blown' /\ capacity # 0 => panicked' = TRUE
  BY <1>5, <1>6, <1>7, <1>8
<1>12. QED BY <1>2, <1>3, <1>4, <1>9, <1>10, <1>11

\* How such a call may end.
LEMMA WritingEnds ==
  ASSUME WriterInv, todo # <<>>, Head(todo).do \in {"write", "all", "lines"},
         NEW o \in InnerWrite(Head(todo).n), Writing(o),
         \/ o.kind # "panic" /\ Proceed
         \/ o.kind # "panic" /\ Refuse
         \/ o.kind # "panic" /\ \E k : Finish(k)
         \/ Panic
  PROVE  WriterInv'
<1>1. /\ UNCHANGED typeVars /\ written' \in Nat /\ room' \in Nat
      /\ blown = FALSE /\ blown' \in BOOLEAN /\ panicked' \in BOOLEAN
      /\ o.kind # "panic" => blown' = blown /\ panicked' = panicked
      /\ blown' /\ capacity # 0 => panicked' = TRUE
  BY WritingStep
<1>2. CASE o.kind # "panic" /\ Proceed
  BY <1>1, <1>2, ProceedStep
<1>3. CASE o.kind # "panic" /\ (Refuse \/ \E k : Finish(k))
  BY <1>1, <1>3, Ending, EndStep
<1>4. CASE Panic
  BY <1>1, <1>4, Ending, EndStep
<1>5. QED BY <1>2, <1>3, <1>4

LEMMA WriteOnceKeeps ==
  ASSUME WriterInv, WriteOnce
  PROVE  WriterInv'
<1>1. PICK o \in InnerWrite(Head(todo).n) :
        /\ Writing(o)
        /\ CASE o.kind = "ok"    -> Proceed
             [] o.kind = "panic" -> Panic
             [] OTHER            -> Refuse
  BY DEF WriteOnce
<1>2. todo # <<>> /\ Head(todo).do = "write"
  BY DEF WriteOnce, Doing
<1>3. \/ o.kind # "panic" /\ Proceed
      \/ o.kind # "panic" /\ Refuse
      \/ Panic
  BY <1>1
<1>4. QED BY <1>1, <1>2, <1>3, WritingEnds

LEMMA WriteLinesKeeps ==
  ASSUME WriterInv, WriteLines
  PROVE  WriterInv'
<1>1. PICK o \in InnerWrite(Head(todo).n) :
        /\ Writing(o)
        /\ CASE o.kind = "ok" /\ o.n > 0 -> Proceed
             [] o.kind = "ok" /\ o.n = 0 -> Finish(0)
             [] o.kind = "panic"         -> Panic
             [] OTHER                    -> Refuse
  BY DEF WriteLines
<1>2. todo # <<>> /\ Head(todo).do = "lines"
  BY DEF WriteLines, Doing
<1>3. \/ o.kind # "panic" /\ Proceed
      \/ o.kind # "panic" /\ Refuse
      \/ o.kind # "panic" /\ Finish(0)
      \/ Panic
  BY <1>1
<1>4. QED BY <1>1, <1>2, <1>3, WritingEnds

LEMMA WriteRestKeeps ==
  ASSUME WriterInv, WriteRest
  PROVE  WriterInv'
<1>1. PICK o \in InnerWrite(Head(todo).n) :
        /\ Writing(o)
        /\ CASE o.kind = "ok" /\ o.n > 0 ->
                  /\ todo' = After(o.n)
                  /\ UNCHANGED <<job, clientVars, life>>
             [] o.kind = "ok" /\ o.n = 0 -> WriteZero
             [] Retried(o.kind)          -> Stay
             [] o.kind = "panic"         -> Panic
             [] OTHER                    -> Refuse
  BY DEF WriteRest
<1>2. todo # <<>> /\ Head(todo).do = "all"
  BY DEF WriteRest, Doing
<1>3. /\ UNCHANGED typeVars /\ written' \in Nat /\ room' \in Nat
      /\ o.n \in Nat /\ o.n <= Head(todo).n
      /\ blown = FALSE /\ blown' \in BOOLEAN /\ panicked' \in BOOLEAN
      /\ o.kind # "panic" => blown' = blown /\ panicked' = panicked
  BY <1>1, <1>2, WritingStep
<1>4. CASE o.kind = "ok" /\ o.n > 0
  <2> DEFINE h == [Head(todo) EXCEPT !.n = @ - o.n]
  <2>1. /\ Head(todo) \in StepType /\ Head(todo) = todo[1] /\ Tail(todo) \in Seq(StepType)
        /\ todo \in Seq(StepType)
    BY <1>2, TailOfSteps DEF WriterInv, WriterTypes
  <2>2. h \in StepType /\ h.do = "all" /\ h.guarded = Head(todo).guarded
    BY <1>2, <1>3, <2>1 DEF StepType
  <2>3. todo' = <<h>> \o Tail(todo)
    <3>1. todo' = After(o.n)
      BY <1>1, <1>4 DEF Retried
    <3>2. QED BY <3>1, Zenon DEF After
  <2> HIDE DEF h
  <2>4. todo' \in Seq(StepType) /\ <<h>> \in Seq(StepType) /\ Len(<<h>>) = 1 /\ <<h>>[1] = h
    BY <2>1, <2>2, <2>3
  <2>5. ASSUME AllGuarded(todo) PROVE AllGuarded(todo')
    <3>1. ~Unguarded(todo[1])
      BY <1>2, <2>1, <2>5 DEF AllGuarded
    <3>2. ~Unguarded(h)
      BY <1>2, <2>1, <2>2, <3>1 DEF Unguarded
    <3>3. AllGuarded(<<h>>)
      BY <2>4, <3>2 DEF AllGuarded
    <3>4. AllGuarded(Tail(todo))
      BY <1>2, <2>1, <2>5, TailOfSteps
    <3>5. QED BY <2>1, <2>3, <2>4, <3>3, <3>4, Joined
  <2>6. capacity' = capacity /\ target' = target /\ blown' = FALSE
    BY <1>3, <1>4 DEF typeVars
  <2>7. WriterTypes'
    BY <1>3, <2>4, <2>6 DEF WriterInv, WriterTypes
  <2>8. Fenced(todo)'
    BY <1>2, <2>1, <2>5, <2>6 DEF WriterInv, Fenced
  <2>9. QED BY <2>6, <2>7, <2>8 DEF WriterInv, AfterPanic
<1>5. CASE o.kind = "interrupted"
  <2>1. todo' = todo /\ capacity' = capacity /\ target' = target /\ blown' = FALSE
    BY <1>1, <1>3, <1>5 DEF Stay, Retried, typeVars
  <2>2. WriterTypes'
    BY <1>3, <2>1 DEF WriterInv, WriterTypes
  <2>3. QED BY <2>1, <2>2 DEF WriterInv, Fenced, AfterPanic
<1>6. CASE ~(o.kind = "ok" /\ o.n > 0) /\ o.kind # "interrupted"
  <2>1. (o.kind # "panic" /\ Refuse) \/ Panic
    BY <1>1, <1>6 DEF Retried, WriteZero
  <2>2. QED BY <1>1, <1>2, <2>1, WritingEnds
<1>7. QED BY <1>4, <1>5, <1>6

LEMMA CallKeeps ==
  ASSUME WriterInv, NEW op \in WriterOp, NEW n \in 0..MaxOffer, NEW nl \in 0..MaxOffer,
         Call(op, n, nl)
  PROVE  WriterInv'
<1>1. n \in Nat /\ nl \in Nat /\ nl <= n
  BY WritersAssumption DEF Call
<1>2. /\ todo' = Steps(op, n, nl) /\ capacity' = capacity /\ target' = target
      /\ written' = written /\ room' = room /\ panicked' = panicked
      /\ life' = life /\ blown' = blown /\ life = "live"
  BY DEF Call, typeVars
<1>3. blown' = FALSE
  BY <1>2 DEF WriterInv, WriterTypes, AfterPanic
<1>4. todo' \in Seq(StepType) /\ (capacity # 0 => AllGuarded(todo') \/ todo'[1].do = "flush")
  BY <1>1, <1>2, StepsFenced DEF Fenced
<1>5. WriterTypes'
  BY <1>2, <1>4 DEF WriterInv, WriterTypes
<1>6. Fenced(todo)'
  BY <1>2, <1>4 DEF Fenced
<1>7. QED BY <1>3, <1>5, <1>6 DEF WriterInv, AfterPanic

LEMMA DropUnwindingKeeps ==
  ASSUME WriterInv, DropUnwinding
  PROVE  WriterInv'
<1>1. /\ todo' = DropSteps /\ capacity' = capacity /\ target' = target
      /\ written' = written /\ room' = room /\ panicked' = panicked
      /\ life' = life /\ blown' = blown
  BY DEF DropUnwinding, typeVars
<1>2. IF panicked THEN todo' = <<>> ELSE todo' = FlushBuf
  BY <1>1 DEF DropSteps
<1>3. todo' \in Seq(StepType) /\ AllGuarded(todo')
  BY <1>2, Flushing, NoSteps
<1>4. WriterTypes'
  BY <1>1, <1>3 DEF WriterInv, WriterTypes
<1>5. Fenced(todo)'
  BY <1>3 DEF Fenced
<1>6. AfterPanic'
  BY <1>1, <1>2 DEF WriterInv, AfterPanic
<1>7. QED BY <1>4, <1>5, <1>6 DEF WriterInv

\* The calls to W's write in a flush_buf, and the end of one.
LEMMA FlushKeeps ==
  ASSUME WriterInv, Flush
  PROVE  WriterInv'
<1>1. todo # <<>> /\ UNCHANGED typeVars /\ written \in Nat /\ capacity \in Nat
  BY DEF Flush, Doing, WriterInv, WriterTypes
<1>2. CASE written >= capacity
  <2>1. /\ written' = 0 /\ panicked' = panicked /\ room' = room /\ blown' = blown
        /\ IF written > 0 THEN Panic ELSE Proceed
    BY <1>2 DEF Flush, DropGuard
  <2>2. CASE written > 0
    BY <1>1, <2>1, <2>2, Ending, EndStep DEF WriterInv, WriterTypes, AfterPanic
  <2>3. CASE written = 0
    <3>1. capacity = 0
      BY <1>1, <1>2, <2>3
    <3>2. QED BY <1>1, <2>1, <2>3, <3>1, ProceedStep DEF WriterInv, WriterTypes
  <2>4. QED BY <1>1, <2>2, <2>3
<1>3. CASE written < capacity
  <2>1. PICK o \in InnerWrite(capacity - written) :
          /\ Accept([i \in 1..o.n |-> Filler])
          /\ Flagged(o)
          /\ blown' = (blown \/ o.kind = "panic")
          /\ CASE o.kind = "ok" /\ o.n > 0 -> written' = written + o.n /\ Stay
               [] Retried(o.kind)          -> Stay /\ UNCHANGED written
               [] o.kind = "panic"         -> /\ written' = 0
                                              /\ IF written > 0 THEN Abort
                                                                ELSE Panic
               [] OTHER                    -> DropGuard(Refuse)
    BY <1>1, <1>3 DEF Flush
  <2>2. capacity - written \in Nat /\ capacity # 0
    BY <1>1, <1>3
  <2>3. /\ o.n \in Nat /\ (target \in {"slice", "cursor"} => o.n <= room)
        /\ o.kind \in {"ok", "interrupted", "other", "panic"}
    BY <2>2, InnerWriteOutcome DEF WriterInv
  <2>4. room' \in Nat
    <3>1. Len([i \in 1..o.n |-> Filler]) = o.n
      BY <2>3
    <3>2. QED BY <2>1, <2>3, <3>1 DEF Accept, WriterInv, WriterTypes
  <2>5. ~blown /\ blown \in BOOLEAN /\ panicked \in BOOLEAN
    BY <1>1, <2>2 DEF WriterInv, WriterTypes, AfterPanic, Flush, Doing
  <2>6. /\ blown' \in BOOLEAN /\ panicked' \in BOOLEAN
        /\ blown' => o.kind = "panic" /\ panicked' = TRUE
    BY <2>1, <2>5 DEF Flagged
  <2>7. CASE (o.kind = "ok" /\ o.n > 0) \/ o.kind = "interrupted"
    <3>1. written' \in Nat /\ Stay
      BY <1>1, <2>1, <2>3, <2>7 DEF Retried
    <3>2. /\ todo' = todo /\ life' = life /\ capacity' = capacity
          /\ target' = target /\ ~blown'
      BY <1>1, <2>6, <2>7, <3>1 DEF Stay, typeVars
    <3>3. WriterTypes'
      BY <2>4, <2>6, <3>1, <3>2 DEF WriterInv, WriterTypes
    <3>4. QED BY <3>2, <3>3 DEF WriterInv, Fenced, AfterPanic
  <2>8. CASE o.kind = "panic"
    <3>1. written' \in Nat /\ (Panic \/ Abort)
      BY <2>1, <2>8 DEF Retried
    <3>2. QED BY <1>1, <2>4, <2>6, <3>1, Ending, EndStep
  <2>9. CASE (o.kind = "ok" /\ o.n = 0) \/ o.kind = "other"
    <3>1. written' \in Nat /\ (Panic \/ Refuse)
      BY <2>1, <2>9 DEF DropGuard, Retried
    <3>2. ~blown'
      BY <2>6, <2>9
    <3>3. QED BY <1>1, <2>4, <2>6, <3>1, <3>2, Ending, EndStep
  <2>10. QED BY <2>3, <2>7, <2>8, <2>9
<1>4. QED BY <1>1, <1>2, <1>3

\* The steps that do not call W's write.
LEMMA QuietKeeps ==
  ASSUME WriterInv, UNCHANGED typeVars, UNCHANGED <<panicked, written, blown>>,
         room' \in Nat,
         \/ todo # <<>> /\ Head(todo).do # "flush" /\ Proceed
         \/ Refuse \/ Panic \/ \E k : Finish(k)
  PROVE  WriterInv'
<1>1. /\ written' \in Nat /\ blown' = blown /\ panicked' = panicked
      /\ blown' \in BOOLEAN /\ panicked' \in BOOLEAN
      /\ blown' => life # "live" /\ (capacity # 0 => panicked' = TRUE)
  BY DEF WriterInv, WriterTypes, AfterPanic
<1>2. CASE todo # <<>> /\ Head(todo).do # "flush" /\ Proceed
  BY <1>1, <1>2, ProceedStep
<1>3. CASE Refuse \/ Panic \/ \E k : Finish(k)
  BY <1>1, <1>3, Ending, EndStep
<1>4. QED BY <1>2, <1>3

LEMMA OtherStepsKeep ==
  ASSUME WriterInv,
         Done \/ WrittenAll \/ Buffer \/ BufferTail \/ Ask \/ SeekCursor \/ FormatFails \/ Take
  PROVE  WriterInv'
<1>1. CASE Done
  BY <1>1, QuietKeeps DEF Done, WriterStays, WriterInv, WriterTypes
<1>2. CASE WrittenAll
  BY <1>2, QuietKeeps DEF WrittenAll, Doing, WriterStays, WriterInv, WriterTypes
<1>3. CASE Buffer
  BY <1>3, QuietKeeps DEF Buffer, Doing, WriterStays, WriterInv, WriterTypes
<1>4. CASE BufferTail
  <2>1. Panic \/ \E k : Finish(k)
    BY <1>4 DEF BufferTail
  <2>2. QED BY <1>4, <2>1, QuietKeeps DEF BufferTail, WriterInv, WriterTypes
<1>5. CASE Ask
  BY <1>5, QuietKeeps DEF Ask, Doing, WriterStays, WriterInv, WriterTypes
<1>6. CASE SeekCursor
  <2>1. room' \in Nat
    BY <1>6, WritersAssumption DEF SeekCursor
  <2>2. QED BY <1>6, <2>1, QuietKeeps DEF SeekCursor, Doing
<1>7. CASE FormatFails
  BY <1>7, QuietKeeps DEF FormatFails, WriterStays, WriterInv, WriterTypes
<1>8. CASE Take
  BY <1>8, QuietKeeps DEF Take, Doing, WriterStays, WriterInv, WriterTypes
<1>9. QED BY <1>1, <1>2, <1>3, <1>4, <1>5, <1>6, <1>7, <1>8

-----------------------------------------------------------------------------
(***************************************************************************)
(* What the steps of a call hand to W                                      *)
(***************************************************************************)
\* What a step has still to hand to W; a copy into the buffer never ends.
Owed(s) == IF s.do \in {"all", "buffer"} THEN s.n ELSE 0

\* The steps of a call other than write: acc[i] bytes are sent before the i-th,
\* from a at the start to b at the end.
Delivers(steps, a, b) ==
  /\ \A i \in 1..Len(steps) :
       steps[i].do \in {"flush", "all", "buffer", "ask", "take", "fail"}
  /\ \E acc \in [1..(Len(steps) + 1) -> 0..b] :
       /\ acc[1] = a /\ acc[Len(steps) + 1] = b
       /\ \A i \in 1..Len(steps) : acc[i + 1] = acc[i] + Owed(steps[i])

\* The steps of write: its only call of W comes last, but for what follows the
\* lines.
Single(steps) ==
  /\ \A i \in 1..Len(steps) :
       steps[i].do \in {"flush", "write", "lines", "buffer", "tail"}
  /\ \A i \in 1..(Len(steps) - 1) :
       \/ steps[i].do = "flush"
       \/ steps[i].do = "lines" /\ steps[i + 1].do = "tail"

LEMMA NoneDelivers ==
  ASSUME NEW a \in Nat
  PROVE  Delivers(<<>>, a, a) /\ Single(<<>>)
<1> DEFINE acc == [i \in 1..1 |-> a]
<1>1. Len(<<>>) = 0 /\ acc \in [1..1 -> 0..a] /\ acc[1] = a
  OBVIOUS
<1> HIDE DEF acc
<1>2. QED BY <1>1 DEF Delivers, Single

LEMMA StepDelivers ==
  ASSUME NEW s \in StepType, NEW a \in Nat,
         s.do \in {"flush", "all", "buffer", "ask", "take", "fail"}
  PROVE  Delivers(<<s>>, a, a + Owed(s))
<1> DEFINE b   == a + Owed(s)
           acc == [i \in 1..2 |-> IF i = 1 THEN a ELSE b]
<1>1. Len(<<s>>) = 1 /\ <<s>>[1] = s /\ Owed(s) \in Nat
  BY DEF Owed, StepType
<1>2. acc \in [1..2 -> 0..b] /\ acc[1] = a /\ acc[2] = b
  BY <1>1
<1>3. b = a + Owed(s)
  OBVIOUS
<1> HIDE DEF acc, b
<1>4. Delivers(<<s>>, a, b)
  BY <1>1, <1>2, <1>3 DEF Delivers
<1>5. QED BY <1>3, <1>4

LEMMA JoinedDelivers ==
  ASSUME NEW s \in Seq(StepType), NEW t \in Seq(StepType),
         NEW a \in Nat, NEW b \in Nat, NEW c \in Nat,
         Delivers(s, a, b), Delivers(t, b, c)
  PROVE  Delivers(s \o t, a, c)
<1>1. PICK f \in [1..(Len(s) + 1) -> 0..b] :
        /\ f[1] = a /\ f[Len(s) + 1] = b
        /\ \A i \in 1..Len(s) : f[i + 1] = f[i] + Owed(s[i])
  BY DEF Delivers
<1>2. PICK g \in [1..(Len(t) + 1) -> 0..c] :
        /\ g[1] = b /\ g[Len(t) + 1] = c
        /\ \A i \in 1..Len(t) : g[i + 1] = g[i] + Owed(t[i])
  BY DEF Delivers
<1> DEFINE h == [i \in 1..(Len(s \o t) + 1) |-> IF i <= Len(s) THEN f[i] ELSE g[i - Len(s)]]
<1>3. /\ Len(s) \in Nat /\ Len(t) \in Nat /\ Len(s \o t) = Len(s) + Len(t)
      /\ \A i \in 1..Len(s) : (s \o t)[i] = s[i]
      /\ \A i \in (Len(s) + 1)..Len(s \o t) :
           i - Len(s) \in 1..Len(t) /\ (s \o t)[i] = t[i - Len(s)]
  OBVIOUS
<1>4. b <= c
  BY <1>2, <1>3
<1>5. ASSUME NEW i \in 1..(Len(s \o t) + 1) PROVE h[i] \in 0..c
  <2>1. CASE i <= Len(s)
    <3>1. h[i] = f[i] /\ i \in 1..(Len(s) + 1)
      BY <1>3, <2>1
    <3>2. QED BY <1>1, <1>4, <3>1
  <2>2. CASE i > Len(s)
    <3>1. h[i] = g[i - Len(s)] /\ i - Len(s) \in 1..(Len(t) + 1)
      BY <1>3, <2>2
    <3>2. QED BY <1>2, <3>1
  <2>3. QED BY <1>3, <2>1, <2>2
<1>6. h \in [1..(Len(s \o t) + 1) -> 0..c]
  BY <1>5
<1>7. h[1] = a
  BY <1>1, <1>2, <1>3
<1>8. h[Len(s \o t) + 1] = c
  BY <1>2, <1>3
<1>9. ASSUME NEW i \in 1..Len(s \o t) PROVE h[i + 1] = h[i] + Owed((s \o t)[i])
  <2>1. CASE i < Len(s)
    BY <1>1, <1>3, <2>1, SMTT(30)
  <2>2. CASE i = Len(s)
    BY <1>1, <1>2, <1>3, <2>2, SMTT(30)
  <2>3. CASE i > Len(s)
    <3>1. /\ i - Len(s) \in 1..Len(t) /\ (s \o t)[i] = t[i - Len(s)]
          /\ h[i] = g[i - Len(s)] /\ h[i + 1] = g[(i - Len(s)) + 1]
      BY <1>3, <2>3
    <3>2. QED BY <1>2, <3>1
  <2>4. QED BY <1>3, <2>1, <2>2, <2>3
<1>10. ASSUME NEW i \in 1..Len(s \o t)
       PROVE  (s \o t)[i].do \in {"flush", "all", "buffer", "ask", "take", "fail"}
  <2>1. CASE i <= Len(s)
    BY <1>3, <2>1 DEF Delivers
  <2>2. CASE i > Len(s)
    BY <1>3, <2>2 DEF Delivers
  <2>3. QED BY <1>3, <2>1, <2>2
<1> HIDE DEF h
<1>11. QED BY <1>6, <1>7, <1>8, <1>9, <1>10 DEF Delivers

LEMMA RestDelivers ==
  ASSUME NEW s \in Seq(StepType), s # <<>>, NEW a \in Nat, NEW b \in Nat,
         Delivers(s, a, b)
  PROVE  /\ Head(s).do \in {"flush", "all", "buffer", "ask", "take", "fail"}
         /\ Owed(Head(s)) \in Nat /\ a + Owed(Head(s)) <= b
         /\ Delivers(Tail(s), a + Owed(Head(s)), b)
<1>1. /\ Len(s) \in Nat \ {0} /\ Head(s) = s[1] /\ Len(Tail(s)) = Len(s) - 1
      /\ \A i \in 1..Len(Tail(s)) : Tail(s)[i] = s[i + 1] /\ i + 1 \in 1..Len(s)
  OBVIOUS
<1>2. PICK f \in [1..(Len(s) + 1) -> 0..b] :
        /\ f[1] = a /\ f[Len(s) + 1] = b
        /\ \A i \in 1..Len(s) : f[i + 1] = f[i] + Owed(s[i])
  BY DEF Delivers
<1>3. Head(s) \in StepType
  BY TailOfSteps
<1>4. Owed(Head(s)) \in Nat
  BY <1>3 DEF Owed, StepType
<1>5. f[2] = a + Owed(Head(s)) /\ f[2] \in 0..b
  <2>1. 1 \in 1..Len(s) /\ 1 + 1 = 2 /\ 2 \in 1..(Len(s) + 1)
    BY <1>1
  <2>2. QED BY <1>1, <1>2, <2>1
<1> DEFINE g == [i \in 1..(Len(Tail(s)) + 1) |-> f[i + 1]]
<1>6. g \in [1..(Len(Tail(s)) + 1) -> 0..b]
  BY <1>1, <1>2
<1>7. g[1] = a + Owed(Head(s)) /\ g[Len(Tail(s)) + 1] = b
  BY <1>1, <1>2, <1>5
<1>8. \A i \in 1..Len(Tail(s)) : g[i + 1] = g[i] + Owed(Tail(s)[i])
  BY <1>1, <1>2
<1>9. \A i \in 1..Len(Tail(s)) :
        Tail(s)[i].do \in {"flush", "all", "buffer", "ask", "take", "fail"}
  BY <1>1 DEF Delivers
<1> HIDE DEF g
<1>10. Delivers(Tail(s), a + Owed(Head(s)), b)
  BY <1>6, <1>7, <1>8, <1>9 DEF Delivers
<1>11. Head(s).do \in {"flush", "all", "buffer", "ask", "take", "fail"}
  BY <1>1 DEF Delivers
<1>12. QED BY <1>4, <1>5, <1>10, <1>11

\* The steps never send more than the call has, and the last of it is all of it.
LEMMA NoMoreThanDelivered ==
  ASSUME NEW s \in Seq(StepType), NEW a \in Nat, NEW b \in Nat, Delivers(s, a, b)
  PROVE  a <= b /\ (s = <<>> => a = b)
<1>1. PICK f \in [1..(Len(s) + 1) -> 0..b] : f[1] = a /\ f[Len(s) + 1] = b
  BY DEF Delivers
<1>2. Len(s) \in Nat /\ (s = <<>> => Len(s) = 0)
  OBVIOUS
<1>3. QED BY <1>1, <1>2

LEMMA TakenDelivers ==
  ASSUME NEW s \in Seq(StepType), s # <<>>, Head(s).do = "all",
         NEW a \in Nat, NEW b \in Nat, Delivers(s, a, b),
         NEW k \in Nat, k <= Head(s).n
  PROVE  Delivers(<<[Head(s) EXCEPT !.n = @ - k]>> \o Tail(s), a + k, b)
<1> DEFINE h == [Head(s) EXCEPT !.n = @ - k]
<1>1. Head(s) \in StepType /\ Tail(s) \in Seq(StepType)
  BY TailOfSteps
<1>2. h \in StepType /\ h.do = "all" /\ h.n = Head(s).n - k
  BY <1>1 DEF StepType
<1> HIDE DEF h
<1>3. Owed(h) = Head(s).n - k /\ Owed(Head(s)) = Head(s).n /\ Head(s).n \in Nat
  BY <1>1, <1>2 DEF Owed, StepType
<1>4. Delivers(Tail(s), a + Head(s).n, b)
  BY <1>3, RestDelivers
<1>5. Delivers(<<h>>, a + k, (a + k) + Owed(h))
  BY <1>2, StepDelivers
<1>6. (a + k) + Owed(h) = a + Head(s).n
  BY <1>3
<1>7. <<h>> \in Seq(StepType)
  BY <1>2
<1>8. Delivers(<<h>> \o Tail(s), a + k, b)
  <2> DEFINE from == a + k
             to   == a + Head(s).n
  <2>1. from \in Nat /\ to \in Nat /\ Delivers(<<h>>, from, to) /\ Delivers(Tail(s), to, b)
    BY <1>3, <1>4, <1>5, <1>6
  <2> HIDE DEF from, to
  <2>2. Delivers(<<h>> \o Tail(s), from, b)
    BY <1>1, <1>7, <2>1, JoinedDelivers
  <2>3. QED BY <2>2 DEF from
<1>9. QED BY <1>8 DEF h

LEMMA FlushDelivers ==
  ASSUME NEW a \in Nat
  PROVE  Delivers(FlushBuf, a, a)
<1> DEFINE s == Step("flush", 0, TRUE)
<1>1. s \in StepType /\ s.do = "flush" /\ Owed(s) = 0
  BY DEF Step, StepType, Do, Owed
<1>2. FlushBuf = <<s>>
  BY DEF FlushBuf
<1> HIDE DEF s
<1>3. Delivers(<<s>>, a, a + Owed(s)) /\ a + Owed(s) = a
  BY <1>1, StepDelivers
<1>4. QED BY <1>2, <1>3

LEMMA BufStepsDeliver ==
  ASSUME NEW n \in Nat, NEW a \in Nat
  PROVE  Delivers(BufSteps("all", n), a, a + n)
<1> DEFINE first == IF len + n > capacity THEN FlushBuf ELSE <<>>
           s     == IF n >= capacity THEN Step("all", n, TRUE) ELSE Step("buffer", n, TRUE)
           b     == a + n
<1>1. first \in Seq(StepType) /\ Delivers(first, a, a)
  BY Flushing, NoSteps, FlushDelivers, NoneDelivers
<1>2. s \in StepType /\ s.do \in {"all", "buffer"} /\ s.n = n
  BY DEF Step, StepType, Do
<1>3. BufSteps("all", n) = first \o <<s>>
  BY DEF BufSteps
<1>4. b = a + n /\ b \in Nat
  OBVIOUS
<1> HIDE DEF first, s, b
<1>5. Delivers(<<s>>, a, b) /\ <<s>> \in Seq(StepType)
  BY <1>2, <1>4, StepDelivers DEF Owed
<1>6. Delivers(first \o <<s>>, a, b)
  BY <1>1, <1>4, <1>5, JoinedDelivers
<1>7. QED BY <1>3, <1>4, <1>6

LEMMA WriteAllDelivers ==
  ASSUME NEW n \in Nat, NEW nl \in Nat, nl <= n, NEW a \in Nat
  PROVE  Delivers(WriteAll(n, nl), a, a + n)
<1> DEFINE first == IF nl = 0 THEN <<>>
                    ELSE IF capacity = 0 THEN <<Step("all", nl, FALSE)>>
                    ELSE BufSteps("all", nl) \o FlushBuf
           last  == BufSteps("all", n - nl)
           b     == a + nl
           c     == a + n
<1>1. b \in Nat /\ c \in Nat /\ n - nl \in Nat /\ b + (n - nl) = c /\ b = a + nl /\ c = a + n
  OBVIOUS
<1>2. LineWriteAll(n, nl) = first \o last
  BY DEF LineWriteAll
<1> HIDE DEF b, c
<1>3. first \in Seq(StepType) /\ Delivers(first, a, b)
  <2>1. CASE nl = 0
    <3>1. a = b
      BY <1>1, <2>1
    <3>2. QED BY <2>1, <3>1, NoSteps, NoneDelivers
  <2>2. CASE nl # 0 /\ capacity = 0
    <3> DEFINE s == Step("all", nl, FALSE)
    <3>1. s \in StepType /\ s.do = "all" /\ s.n = nl
      BY DEF Step, StepType, Do
    <3>2. first = <<s>>
      BY <2>2
    <3> HIDE DEF s, first
    <3>3. Delivers(<<s>>, a, b) /\ <<s>> \in Seq(StepType)
      BY <1>1, <3>1, StepDelivers DEF Owed
    <3>4. QED BY <3>2, <3>3
  <2>3. CASE nl # 0 /\ capacity # 0
    <3>1. first = BufSteps("all", nl) \o FlushBuf
      BY <2>3
    <3>2. BufSteps("all", nl) \in Seq(StepType) /\ FlushBuf \in Seq(StepType)
      BY BufStepsGuarded, Flushing
    <3>3. Delivers(BufSteps("all", nl), a, b) /\ Delivers(FlushBuf, b, b)
      BY <1>1, BufStepsDeliver, FlushDelivers
    <3> HIDE DEF first
    <3>4. QED BY <1>1, <3>1, <3>2, <3>3, Joined, JoinedDelivers
  <2>4. QED BY <2>1, <2>2, <2>3
<1>4. last \in Seq(StepType) /\ Delivers(last, b, c)
  <2>1. last \in Seq(StepType)
    BY <1>1, BufStepsGuarded
  <2>2. Delivers(last, b, b + (n - nl))
    BY <1>1, BufStepsDeliver
  <2>3. QED BY <1>1, <2>1, <2>2
<1> HIDE DEF first, last
<1>5. Delivers(LineWriteAll(n, nl), a, c)
  BY <1>1, <1>2, <1>3, <1>4, JoinedDelivers
<1>6. Delivers(BufSteps("all", n), a, c)
  BY <1>1, BufStepsDeliver
<1>7. QED BY <1>1, <1>5, <1>6 DEF WriteAll

LEMMA PieceDelivers ==
  ASSUME NEW n \in Nat, NEW nl \in Nat, nl <= n, NEW a \in Nat
  PROVE  Delivers(Piece(n, nl), a, a + n)
<1>1. CASE n = 0
  <2>1. a + n = a /\ Piece(n, nl) = <<>>
    BY <1>1 DEF Piece
  <2>2. QED BY <2>1, NoneDelivers
<1>2. CASE n # 0
  BY <1>2, WriteAllDelivers DEF Piece
<1>3. QED BY <1>1, <1>2

LEMMA WriteFmtDelivers ==
  ASSUME NEW n \in Nat, NEW nl \in Nat, nl <= n
  PROVE  Delivers(WriteFmt(n, nl), 0, n)
<1>1. n - nl \in Nat /\ nl + (n - nl) = n /\ 0 + nl = nl /\ nl <= nl /\ 0 <= n - nl
  OBVIOUS
<1>2. Piece(nl, nl) \in Seq(StepType) /\ Delivers(Piece(nl, nl), 0, nl)
  <2>1. Piece(nl, nl) \in Seq(StepType)
    BY <1>1, PieceGuarded
  <2>2. Delivers(Piece(nl, nl), 0, 0 + nl)
    BY <1>1, PieceDelivers
  <2>3. QED BY <1>1, <2>1, <2>2
<1>3. Piece(n - nl, 0) \in Seq(StepType) /\ Delivers(Piece(n - nl, 0), nl, n)
  <2>1. Piece(n - nl, 0) \in Seq(StepType)
    BY <1>1, PieceGuarded
  <2>2. Delivers(Piece(n - nl, 0), nl, nl + (n - nl))
    BY <1>1, PieceDelivers
  <2>3. QED BY <1>1, <2>1, <2>2
<1>4. QED BY <1>2, <1>3, JoinedDelivers DEF WriteFmt

\* A step that hands W nothing, after others.
LEMMA LastDelivers ==
  ASSUME NEW s \in Seq(StepType), NEW b \in Nat, Delivers(s, 0, b),
         NEW do \in {"ask", "fail", "take"}
  PROVE  Delivers(s \o <<Step(do, 0, FALSE)>>, 0, b)
<1> DEFINE t == Step(do, 0, FALSE)
<1>1. t \in StepType /\ t.do = do /\ Owed(t) = 0
  BY DEF Step, StepType, Do, Owed
<1> HIDE DEF t
<1>2. <<t>> \in Seq(StepType) /\ b + Owed(t) = b
  BY <1>1
<1>3. Delivers(<<t>>, b, b)
  <2>1. Delivers(<<t>>, b, b + Owed(t))
    BY <1>1, StepDelivers
  <2>2. QED BY <1>2, <2>1
<1>4. QED BY <1>2, <1>3, JoinedDelivers DEF t

LEMMA StepsDeliver ==
  ASSUME NEW op \in WriterOp \ {"write"}, NEW n \in Nat, NEW nl \in Nat, nl <= n,
         op \in Data \/ n = 0
  PROVE  Delivers(Steps(op, n, nl), 0, n)
<1>1. CASE op = "write_all"
  <2>1. Delivers(WriteAll(n, nl), 0, 0 + n) /\ 0 + n = n
    BY WriteAllDelivers
  <2>2. QED BY <1>1, <2>1 DEF Steps
<1>2. CASE op = "write_fmt"
  BY <1>2, WriteFmtDelivers DEF Steps
<1>3. CASE op = "format_err"
  <2>1. WriteFmt(n, nl) \in Seq(StepType) /\ Delivers(WriteFmt(n, nl), 0, n)
    BY WriteFmtGuarded, WriteFmtDelivers
  <2>2. Steps(op, n, nl) = WriteFmt(n, nl) \o <<Step("fail", 0, FALSE)>>
    BY <1>3 DEF Steps
  <2>3. QED BY <2>1, <2>2, LastDelivers
<1>4. CASE op \in {"flush", "seek", "into_inner"}
  <2>1. PICK do \in {"ask", "take"} : Steps(op, n, nl) = FlushBuf \o <<Step(do, 0, FALSE)>>
    BY <1>4 DEF Steps
  <2>2. n = 0
    BY <1>4 DEF Data
  <2>3. QED BY <2>1, <2>2, Flushing, FlushDelivers, LastDelivers
<1>5. CASE op = "drop"
  <2>1. Steps(op, n, nl) \in {<<>>, FlushBuf}
    BY <1>5 DEF Steps, DropSteps
  <2>2. n = 0
    BY <1>5 DEF Data
  <2>3. QED BY <2>1, <2>2, FlushDelivers, NoneDelivers
<1>6. QED BY <1>1, <1>2, <1>3, <1>4, <1>5 DEF WriterOp, Data

\* write calls W once for the client's bytes.
LEMMA StepsOfWrite ==
  ASSUME NEW n \in Nat, NEW nl \in Nat
  PROVE  Single(Steps("write", n, nl))
<1>1. Single(BufSteps("write", n))
  <2> DEFINE f == Step("flush", 0, TRUE)
             s == IF n >= capacity THEN Step("write", n, TRUE) ELSE Step("buffer", n, TRUE)
  <2>1. /\ f \in StepType /\ f.do = "flush"
        /\ s \in StepType /\ s.do \in {"write", "buffer"}
    BY DEF Step, StepType, Do
  <2>2. BufSteps("write", n) = (IF len + n > capacity THEN <<f>> ELSE <<>>) \o <<s>>
    BY DEF BufSteps, FlushBuf
  <2> HIDE DEF f, s
  <2>3. /\ (<<f>> \o <<s>>)[1] = f /\ (<<f>> \o <<s>>)[2] = s /\ Len(<<f>> \o <<s>>) = 2
        /\ <<>> \o <<s>> = <<s>> /\ <<s>>[1] = s /\ Len(<<s>>) = 1
    BY <2>1
  <2>4. Single(<<f>> \o <<s>>)
    BY <2>1, <2>3 DEF Single
  <2>5. Single(<<s>>)
    BY <2>1, <2>3 DEF Single
  <2>6. QED BY <2>2, <2>3, <2>4, <2>5
<1>2. ASSUME nl # 0 PROVE Single(LineWrite(n, nl))
  <2> DEFINE f == Step("flush", 0, TRUE)
             s == Step("lines", nl, FALSE)
             t == Step("tail", n, FALSE)
             all == <<f>> \o <<s, t>>
  <2>1. /\ f \in StepType /\ f.do = "flush"
        /\ s \in StepType /\ s.do = "lines" /\ t \in StepType /\ t.do = "tail"
    BY DEF Step, StepType, Do
  <2>2. LineWrite(n, nl) = all
    BY <1>2 DEF LineWrite, FlushBuf
  <2> HIDE DEF f, s, t
  <2>3. <<f>> \in Seq(StepType) /\ <<s, t>> \in Seq(StepType) /\ Len(<<f>>) = 1
        /\ Len(<<s, t>>) = 2 /\ <<f>>[1] = f /\ <<s, t>>[1] = s /\ <<s, t>>[2] = t
    BY <2>1
  <2>4. Len(all) = 3 /\ all[1] = f /\ all[2] = s /\ all[3] = t
    BY <2>3
  <2> HIDE DEF all
  <2>5. Single(all)
    <3>1. 1..3 = {1, 2, 3} /\ 1..(3 - 1) = {1, 2}
      OBVIOUS
    <3>2. QED BY <2>1, <2>4, <3>1 DEF Single
  <2>6. QED BY <2>2, <2>5
<1>3. Steps("write", n, nl) = IF adapter = "line" THEN LineWrite(n, nl)
                                                  ELSE BufSteps("write", n)
  BY DEF Steps
<1>4. QED BY <1>1, <1>2, <1>3 DEF LineWrite

-----------------------------------------------------------------------------
(***************************************************************************)
(* The bytes in the sink                                                   *)
(***************************************************************************)
InSink(b) == \E i \in 1..Len(sink) : sink[i] = b

\* The buffer holds nothing, so what was acknowledged is in the sink.
Received == InOrder(sink) /\ \A b \in acked : InSink(b)

\* The calls to W have got this far in the client's bytes.
Reached == IF job = NoJob THEN offered ELSE offered + sent

SinkTypes ==
  /\ len = 0 /\ sink \in Seq(Int) /\ offered \in Nat /\ sent \in Nat
  /\ job \in [op : WriterOp \cup {"none"}, from : Nat, n : Nat, nl : Nat]

\* What of the running call is in the sink, and what its steps will still send.
\* A panic leaves bytes in the sink that the client does not know of, but then
\* there is only a destructor to come.
JobInv ==
  /\ job.from = offered
  /\ \A b \in offered..(offered + sent - 1) : InSink(b)
  /\ job.op # "write" => Delivers(todo, sent, job.n)
  /\ job.op = "write" => /\ Single(todo)
                         /\ todo # <<>> /\ Head(todo).do # "tail" => sent = 0
  /\ life # "live" => job.op # "write" /\ job.n = 0

SinkInv ==
  /\ SinkTypes
  /\ Received
  /\ life = "live" => \A i \in 1..Len(sink) : sink[i] < Reached
  /\ job = NoJob => todo = <<>>
  /\ job # NoJob => JobInv

\* What a step does to the sink while a call runs.
SinkGrows ==
  /\ len' = 0 /\ sink' \in Seq(Int) /\ InOrder(sink')
  /\ sent' \in Nat
  /\ \A b : InSink(b) => InSink(b)'
  /\ \A b \in offered..(offered + sent' - 1) : InSink(b)'
  /\ life = "live" => \A i \in 1..Len(sink') : sink'[i] < offered + sent'

\* W takes k bytes that begin with byte a, where all it had came before.
LEMMA Appended ==
  ASSUME NEW s \in Seq(Int), NEW t \in Seq(Int), NEW a \in Nat, NEW k \in Nat,
         Len(s) + k = Len(t),
         \A i \in 1..Len(t) : t[i] = IF i <= Len(s) THEN s[i] ELSE a + (i - Len(s)) - 1,
         InOrder(s), k = 0 \/ \A i \in 1..Len(s) : s[i] < a
  PROVE  /\ InOrder(t)
         /\ (\A i \in 1..Len(s) : s[i] < a) => \A i \in 1..Len(t) : t[i] < a + k
         /\ \A i \in 1..Len(s) : i \in 1..Len(t) /\ t[i] = s[i]
<1>1. Len(s) \in Nat /\ Len(t) = Len(s) + k
  OBVIOUS
<1>2. \A i \in 1..Len(s) : i \in 1..Len(t) /\ t[i] = s[i] /\ s[i] \in Int
  BY <1>1
<1>3. \A i \in 1..Len(t) :
        i > Len(s) => t[i] = a + (i - Len(s)) - 1 /\ i - Len(s) \in 1..k
  BY <1>1
<1>4. ASSUME \A i \in 1..Len(s) : s[i] < a, NEW i \in 1..Len(t)
      PROVE  t[i] < a + k
  <2>1. CASE i <= Len(s)
    <3>1. i \in 1..Len(s)
      BY <1>1, <2>1
    <3>2. QED BY <1>2, <1>4, <3>1
  <2>2. CASE i > Len(s)
    BY <1>1, <1>3, <2>2
  <2>3. QED BY <1>1, <2>1, <2>2
<1>5. ASSUME NEW i \in 1..Len(t), NEW j \in 1..Len(t), i < j, t[i] # Filler, t[j] # Filler
      PROVE  t[i] < t[j]
  <2>1. CASE j <= Len(s)
    <3>1. i \in 1..Len(s) /\ j \in 1..Len(s)
      BY <1>1, <1>5, <2>1
    <3>2. QED BY <1>2, <1>5, <3>1 DEF InOrder
  <2>2. CASE j > Len(s)
    <3>1. j - Len(s) \in 1..k /\ t[j] = a + (j - Len(s)) - 1
      BY <1>3, <2>2
    <3>2. CASE i <= Len(s)
      <4>1. i \in 1..Len(s) /\ k # 0
        BY <1>1, <3>1, <3>2
      <4>2. s[i] < a /\ s[i] \in Int /\ t[i] = s[i]
        BY <1>2, <4>1
      <4>3. QED BY <1>1, <3>1, <4>2
    <3>3. CASE i > Len(s)
      <4>1. t[i] = a + (i - Len(s)) - 1
        BY <1>3, <3>3
      <4>2. QED BY <1>1, <1>5, <3>1, <4>1
    <3>4. QED BY <1>1, <3>2, <3>3
  <2>3. QED BY <1>1, <2>1, <2>2
<1>6. QED BY <1>2, <1>4, <1>5 DEF InOrder

\* W takes bytes that no client wrote.
LEMMA Filled ==
  ASSUME NEW s \in Seq(Int), NEW t \in Seq(Int), Len(s) <= Len(t),
         \A i \in 1..Len(t) : t[i] = IF i <= Len(s) THEN s[i] ELSE Filler,
         InOrder(s)
  PROVE  /\ InOrder(t)
         /\ \A a \in Nat : (\A i \in 1..Len(s) : s[i] < a) => \A i \in 1..Len(t) : t[i] < a
         /\ \A i \in 1..Len(s) : i \in 1..Len(t) /\ t[i] = s[i]
<1>1. Len(s) \in Nat /\ Len(t) \in Nat
  OBVIOUS
<1>2. \A i \in 1..Len(s) : i \in 1..Len(t) /\ t[i] = s[i]
  BY <1>1
<1>3. \A i \in 1..Len(t) : i \in 1..Len(s) \/ t[i] = Filler
  BY <1>1
<1>4. InOrder(t)
  BY <1>1, <1>2, <1>3 DEF InOrder
<1>5. ASSUME NEW a \in Nat, \A i \in 1..Len(s) : s[i] < a, NEW i \in 1..Len(t)
      PROVE  t[i] < a
  BY <1>2, <1>3, <1>5 DEF Filler
<1>6. QED BY <1>2, <1>4, <1>5

LEMMA SinkStays ==
  ASSUME SinkInv, job # NoJob, UNCHANGED <<len, sink, sent>>
  PROVE  SinkGrows
BY DEF SinkInv, SinkTypes, JobInv, SinkGrows, Received, InSink, Reached

LEMMA SinkFills ==
  ASSUME SinkInv, job # NoJob, NEW k \in Nat, Accept([i \in 1..k |-> Filler]),
         UNCHANGED <<len, sent>>
  PROVE  SinkGrows
<1> DEFINE u == [i \in 1..k |-> Filler]
<1>1. u \in Seq(Int) /\ Len(u) = k /\ \A i \in 1..k : u[i] = Filler
  BY DEF Filler
<1>2. /\ sink \in Seq(Int) /\ InOrder(sink) /\ offered + sent \in Nat
      /\ sink' = sink \o u
  BY DEF SinkInv, SinkTypes, Received, Accept
<1> HIDE DEF u
<1>3. /\ sink' \in Seq(Int) /\ Len(sink) <= Len(sink')
      /\ \A i \in 1..Len(sink') : sink'[i] = IF i <= Len(sink) THEN sink[i] ELSE Filler
  BY <1>1, <1>2
<1>4. /\ sink' \in Seq(Int) /\ InOrder(sink')
      /\ \A a \in Nat : (\A i \in 1..Len(sink) : sink[i] < a)
                          => \A i \in 1..Len(sink') : sink'[i] < a
      /\ \A i \in 1..Len(sink) : i \in 1..Len(sink') /\ sink'[i] = sink[i]
  BY <1>2, <1>3, Filled
<1>5. \A b : InSink(b) => InSink(b)'
  BY <1>4 DEF InSink
<1>6. \A b \in offered..(offered + sent' - 1) : InSink(b)'
  BY <1>5 DEF SinkInv, JobInv
<1>7. life = "live" => \A i \in 1..Len(sink') : sink'[i] < offered + sent'
  BY <1>2, <1>4 DEF SinkInv, Reached
<1>8. QED BY <1>4, <1>5, <1>6, <1>7 DEF SinkGrows, SinkInv, SinkTypes

\* What the next step has still to send is no more than the call has left.
LEMMA HeadInHand ==
  ASSUME SinkInv, WriterTypes, todo # <<>>
  PROVE  /\ job # NoJob /\ JobInv /\ Head(todo) \in StepType
         /\ job.op # "write" =>
              /\ Head(todo).do \in {"flush", "all", "buffer", "ask", "take", "fail"}
              /\ Owed(Head(todo)) \in Nat /\ sent + Owed(Head(todo)) <= job.n
              /\ Delivers(Tail(todo), sent + Owed(Head(todo)), job.n)
         /\ job.op = "write" =>
              Head(todo).do \in {"flush", "write", "lines", "buffer", "tail"}
<1>1. job # NoJob /\ JobInv /\ todo \in Seq(StepType) /\ sent \in Nat /\ job.n \in Nat
  BY DEF SinkInv, SinkTypes, WriterTypes
<1>2. Head(todo) \in StepType /\ Head(todo) = todo[1] /\ 1 \in 1..Len(todo)
  <2>1. Len(todo) \in Nat \ {0}
    BY <1>1
  <2>2. QED BY <1>1, <2>1, TailOfSteps
<1>3. CASE job.op # "write"
  <2>1. Delivers(todo, sent, job.n)
    BY <1>1, <1>3 DEF JobInv
  <2>2. QED BY <1>1, <1>2, <1>3, <2>1, RestDelivers
<1>4. CASE job.op = "write"
  BY <1>1, <1>2, <1>4 DEF JobInv, Single
<1>5. QED BY <1>3, <1>4

LEMMA BytesJoined ==
  ASSUME NEW s \in Seq(Int), NEW u \in Seq(Int)
  PROVE  /\ s \o u \in Seq(Int) /\ Len(s \o u) = Len(s) + Len(u)
         /\ \A i \in 1..Len(s \o u) :
              (s \o u)[i] = IF i <= Len(s) THEN s[i] ELSE u[i - Len(s)]
OBVIOUS

LEMMA SinkTakes ==
  ASSUME SinkInv, WriterTypes, todo # <<>>, Head(todo).do \in {"write", "all", "lines"},
         NEW o \in InnerWrite(Head(todo).n), Writing(o)
  PROVE  /\ SinkGrows
         /\ o.n \in Nat /\ o.n <= Head(todo).n /\ sent' = sent + o.n
         /\ o.kind # "ok" => o.n = 0
         /\ o.kind \in {"ok", "interrupted", "other", "panic"}
<1>1. /\ job # NoJob /\ JobInv /\ Head(todo).n \in Nat
      /\ life # "live" => job.op # "write" /\ job.n = 0
  BY HeadInHand DEF StepType, JobInv
<1>2. /\ o.n \in Nat /\ o.n <= Head(todo).n /\ (o.kind # "ok" => o.n = 0)
      /\ o.kind \in {"ok", "interrupted", "other", "panic"}
  BY <1>1, InnerWriteOutcome
<1>3. sent' = sent + o.n /\ len' = 0 /\ sent \in Nat /\ offered \in Nat
  BY DEF Writing, SinkInv, SinkTypes
<1>4. life # "live" => o.n = 0
  <2>1. SUFFICES ASSUME life # "live" PROVE o.n = 0
    OBVIOUS
  <2>2. /\ job.op # "write" /\ job.n = 0 /\ Head(todo).do = "all"
        /\ sent + Owed(Head(todo)) <= 0
    BY <1>1, <2>1, HeadInHand
  <2>3. QED BY <1>1, <1>2, <1>3, <2>2 DEF Owed
<1> DEFINE a == offered + sent
           u == [i \in 1..o.n |-> a + i - 1]
<1>5. /\ sink \in Seq(Int) /\ InOrder(sink) /\ a \in Nat
      /\ sink' = sink \o u
  <2>1. job.from + sent = a
    BY <1>1 DEF JobInv
  <2>2. Offered(o.n) = u
    BY <2>1 DEF Offered
  <2>3. QED BY <1>3, <2>2 DEF SinkInv, SinkTypes, Received, Writing, Accept
<1>6. life = "live" => \A i \in 1..Len(sink) : sink[i] < a
  BY <1>1 DEF SinkInv, Reached
<1>7. a + o.n = offered + sent' /\ a = offered + sent
  BY <1>2, <1>3
<1>8. u \in Seq(Int) /\ Len(u) = o.n /\ \A i \in 1..o.n : u[i] = a + i - 1
  <2>1. \A i \in 1..o.n : a + i - 1 \in Int
    BY <1>2, <1>5
  <2> HIDE DEF a
  <2>2. QED BY <1>2, <2>1
<1> HIDE DEF a, u
<1>9. o.n = 0 \/ \A i \in 1..Len(sink) : sink[i] < a
  BY <1>4, <1>6
<1>10. /\ sink' \in Seq(Int) /\ Len(sink') = Len(sink) + o.n
       /\ \A i \in 1..Len(sink') :
            sink'[i] = IF i <= Len(sink) THEN sink[i] ELSE a + (i - Len(sink)) - 1
  <2> DEFINE t == sink \o u
             k == o.n
  <2>1. /\ t \in Seq(Int) /\ Len(t) = Len(sink) + k
        /\ \A i \in 1..Len(t) : t[i] = IF i <= Len(sink) THEN sink[i]
                                                        ELSE u[i - Len(sink)]
    <3> HIDE DEF k
    <3>1. k = Len(u) /\ sink \in Seq(Int) /\ u \in Seq(Int)
      BY <1>5, <1>8 DEF k
    <3>2. QED BY <3>1, BytesJoined
  <2>2. k \in Nat /\ Len(sink) \in Nat /\ \A i \in 1..k : u[i] = a + i - 1
    BY <1>2, <1>5, <1>8
  <2> HIDE DEF t, k
  <2>3. ASSUME NEW i \in 1..Len(t)
        PROVE  t[i] = IF i <= Len(sink) THEN sink[i] ELSE a + (i - Len(sink)) - 1
    <3>1. CASE i <= Len(sink)
      BY <2>1, <3>1
    <3>2. CASE ~(i <= Len(sink))
      <4>1. i - Len(sink) \in 1..k
        BY <2>1, <2>2, <3>2
      <4>2. QED BY <2>1, <2>2, <3>2, <4>1
    <3>3. QED BY <3>1, <3>2
  <2>4. t = sink' /\ k = o.n
    BY <1>5 DEF t, k
  <2>5. QED BY <2>1, <2>3, <2>4
<1>11. /\ sink' \in Seq(Int) /\ InOrder(sink')
       /\ (\A i \in 1..Len(sink) : sink[i] < a) => \A i \in 1..Len(sink') : sink'[i] < a + o.n
       /\ \A i \in 1..Len(sink) : i \in 1..Len(sink') /\ sink'[i] = sink[i]
  <2> DEFINE k == o.n
             s == sink
             t == sink'
  <2>1. /\ k \in Nat /\ a \in Nat /\ s \in Seq(Int) /\ t \in Seq(Int) /\ InOrder(s)
        /\ Len(s) + k = Len(t)
        /\ \A i \in 1..Len(t) : t[i] = IF i <= Len(s) THEN s[i] ELSE a + (i - Len(s)) - 1
        /\ k = 0 \/ \A i \in 1..Len(s) : s[i] < a
    BY <1>2, <1>5, <1>9, <1>10
  <2> HIDE DEF k, s, t
  <2>2. InOrder(t)
    BY <2>1, Appended
  <2>3. (\A i \in 1..Len(s) : s[i] < a) => \A i \in 1..Len(t) : t[i] < a + k
    BY <2>1, Appended
  <2>4. \A i \in 1..Len(s) : i \in 1..Len(t) /\ t[i] = s[i]
    BY <2>1, Appended
  <2>5. QED BY <2>1, <2>2, <2>3, <2>4 DEF k, s, t
<1>12. \A b : InSink(b) => InSink(b)'
  BY <1>11 DEF InSink
<1>13. ASSUME NEW b \in offered..(offered + sent' - 1) PROVE InSink(b)'
  <2>1. CASE b < a
    <3>1. b \in offered..(offered + sent - 1)
      BY <1>3, <1>7, <2>1
    <3>2. QED BY <1>1, <1>12, <3>1 DEF JobInv
  <2>2. CASE b >= a
    <3> DEFINE i == Len(sink) + (b - a) + 1
    <3>1. /\ Len(sink) \in Nat /\ b \in Int
          /\ i \in 1..Len(sink') /\ i > Len(sink) /\ a + (i - Len(sink)) - 1 = b
      <4>1. Len(sink) \in Nat /\ Len(sink') = Len(sink) + o.n /\ b \in Int /\ b < a + o.n
        BY <1>2, <1>3, <1>5, <1>7, <1>10, SMTT(30)
      <4>2. QED BY <1>2, <1>5, <2>2, <4>1, SMTT(30)
    <3> HIDE DEF i
    <3>2. sink'[i] = b
      BY <1>10, <3>1
    <3>3. QED BY <3>1, <3>2 DEF InSink
  <2>3. QED BY <1>5, <2>1, <2>2
<1>14. life = "live" => \A i \in 1..Len(sink') : sink'[i] < offered + sent'
  BY <1>6, <1>7, <1>11
<1>15. sent' \in Nat
  BY <1>2, <1>3
<1>16. SinkGrows
  BY <1>3, <1>11, <1>12, <1>13, <1>14, <1>15 DEF SinkGrows
<1>17. QED BY <1>2, <1>3, <1>16

-----------------------------------------------------------------------------
(***************************************************************************)
(* How a call goes on, and how it ends                                     *)
(***************************************************************************)
\* A call ends: the bytes that it acknowledges are in the sink, and the client
\* goes on after those that are.
LEMMA CallEnds ==
  ASSUME SinkInv, SinkGrows, EndCall, offered' \in Nat,
         \A b \in acked' : b \in acked \/ b \in offered..(offered + sent' - 1),
         life' = "live" => life = "live" /\ offered + sent' <= offered'
  PROVE  SinkInv'
<1>1. job' = NoJob /\ todo' = <<>>
  BY DEF EndCall
<1>2. SinkTypes'
  <2>1. NoJob \in [op : WriterOp \cup {"none"}, from : Nat, n : Nat, nl : Nat]
    BY DEF NoJob
  <2>2. QED BY <1>1, <2>1 DEF SinkTypes, SinkGrows
<1>3. Received'
  BY DEF SinkInv, SinkGrows, Received, InSink
<1>4. ASSUME life' = "live", NEW i \in 1..Len(sink') PROVE sink'[i] < offered'
  <2>1. sink'[i] < offered + sent' /\ offered + sent' <= offered' /\ sink'[i] \in Int
    BY <1>4 DEF SinkGrows
  <2>2. offered + sent' \in Int /\ offered' \in Int
    BY DEF SinkInv, SinkTypes, SinkGrows
  <2>3. \A x, y, z \in Int : x < y /\ y <= z => x < z
    OBVIOUS
  <2>4. QED BY <2>1, <2>2, <2>3
<1>5. QED BY <1>1, <1>2, <1>3, <1>4 DEF SinkInv, Reached

\* How many bytes the job has sent by its end.
LEMMA SentInHand ==
  ASSUME SinkInv, WriterTypes, job # NoJob, job.op # "write"
  PROVE  sent <= job.n /\ (todo = <<>> => sent = job.n)
<1>1. todo \in Seq(StepType) /\ sent \in Nat /\ job.n \in Nat /\ Delivers(todo, sent, job.n)
  BY DEF SinkInv, SinkTypes, JobInv, WriterTypes
<1>2. QED BY <1>1, NoMoreThanDelivered

LEMMA SinkRefuses ==
  ASSUME SinkInv, job # NoJob, SinkGrows, Refuse,
         IF job.op = "write" THEN sent' = 0 ELSE sent' <= job.n
  PROVE  SinkInv'
<1>1. /\ EndCall /\ acked' = acked
      /\ offered' = IF job.op = "write" THEN job.from ELSE job.from + job.n
      /\ life' = IF job.op = "drop" THEN Dropped ELSE life
  BY DEF Refuse
<1>2. job.from = offered /\ offered \in Nat /\ job.n \in Nat /\ sent' \in Nat
  BY DEF SinkInv, SinkTypes, JobInv, SinkGrows
<1>3. offered' \in Nat /\ offered + sent' <= offered'
  BY <1>1, <1>2
<1>4. life' = "live" => life = "live"
  BY <1>1 DEF Dropped
<1>5. QED BY <1>1, <1>3, <1>4, CallEnds

LEMMA SinkPanics ==
  ASSUME SinkInv, SinkGrows, Panic \/ Abort
  PROVE  SinkInv'
<1>1. EndCall /\ life' # "live" /\ acked' = acked /\ offered' = offered
  BY DEF Panic, Abort, clientVars
<1>2. offered' \in Nat
  BY <1>1 DEF SinkInv, SinkTypes
<1>3. QED BY <1>1, <1>2, CallEnds

LEMMA SinkFinishes ==
  ASSUME SinkInv, job # NoJob, SinkGrows, Finish(sent'), job.op # "write" => sent' = job.n
  PROVE  SinkInv'
<1>1. /\ EndCall
      /\ acked' = acked \cup job.from..(job.from + sent' - 1)
      /\ offered' = IF job.op = "write" THEN job.from + sent' ELSE job.from + job.n
      /\ life' = IF job.op \in {"drop", "into_inner"} THEN Dropped ELSE life
  BY DEF Finish
<1>2. job.from = offered /\ offered \in Nat /\ job.n \in Nat /\ sent' \in Nat
  BY DEF SinkInv, SinkTypes, JobInv, SinkGrows
<1>3. offered' \in Nat /\ offered' = offered + sent' /\ offered + sent' <= offered'
  <2>1. offered' = offered + sent'
    BY <1>1, <1>2
  <2>2. \A x, y \in Nat : x + y \in Nat /\ x + y <= x + y
    OBVIOUS
  <2>3. QED BY <1>2, <2>1, <2>2, Zenon
<1>4. life' = "live" => life = "live"
  BY <1>1 DEF Dropped
<1>5. acked' = acked \cup offered..(offered + sent' - 1)
  BY <1>1, <1>2
<1>6. QED BY <1>1, <1>3, <1>4, <1>5, CallEnds

\* A step is done, and the next one follows.
LEMMA SinkProceeds ==
  ASSUME SinkInv, WriterTypes, todo # <<>>, SinkGrows, Proceed,
         job.op # "write" => sent' = sent + Owed(Head(todo)),
         job.op = "write" /\ Head(todo).do = "flush" => sent' = sent
  PROVE  SinkInv'
<1>1. job' = job /\ acked' = acked /\ offered' = offered /\ life' = life /\ todo' = Tail(todo)
  BY DEF Proceed, clientVars
<1>2. job # NoJob /\ JobInv
  BY HeadInHand
<1>3. SinkTypes' /\ Received'
  BY <1>1 DEF SinkInv, SinkTypes, SinkGrows, Received, InSink
<1>4. ASSUME job.op = "write"
      PROVE  Single(todo') /\ (todo' # <<>> /\ Head(todo').do # "tail" => sent' = 0)
  <2>1. Single(todo) /\ todo \in Seq(StepType)
    BY <1>2, <1>4 DEF JobInv, WriterTypes
  <2>2. /\ Len(todo) \in Nat \ {0} /\ Head(todo) = todo[1] /\ Len(Tail(todo)) = Len(todo) - 1
        /\ Tail(todo) \in Seq(StepType)
        /\ \A i \in 1..Len(Tail(todo)) : Tail(todo)[i] = todo[i + 1] /\ i + 1 \in 1..Len(todo)
    BY <2>1
  <2>3. Single(Tail(todo))
    BY <2>1, <2>2 DEF Single
  <2>4. ASSUME Tail(todo) # <<>>, Head(Tail(todo)).do # "tail" PROVE sent' = 0
    <3>1. Len(Tail(todo)) \in Nat \ {0} /\ Head(Tail(todo)) = Tail(todo)[1]
      BY <2>2, <2>4
    <3>2. Tail(todo)[1] = todo[2] /\ 1 \in 1..(Len(todo) - 1) /\ 1 + 1 = 2
      BY <2>2, <3>1
    <3>3. todo[1].do = "flush"
      BY <2>1, <2>4, <3>1, <3>2 DEF Single
    <3>4. sent = 0
      BY <1>2, <1>4, <2>2, <3>3 DEF JobInv
    <3>5. QED BY <1>4, <2>2, <3>3, <3>4
  <2>5. QED BY <1>1, <2>3, <2>4
<1>5. JobInv'
  <2>1. job'.op # "write" => Delivers(todo', sent', job'.n)
    BY <1>1, HeadInHand
  <2>2. \A b \in offered'..(offered' + sent' - 1) : InSink(b)'
    BY <1>1 DEF SinkGrows
  <2>3. QED BY <1>1, <1>2, <1>4, <2>1, <2>2 DEF JobInv
<1>6. life' = "live" => \A i \in 1..Len(sink') : sink'[i] < offered' + sent'
  BY <1>1 DEF SinkGrows
<1>7. QED BY <1>1, <1>2, <1>3, <1>5, <1>6 DEF SinkInv, Reached

\* The step is not done yet, and has sent nothing.
LEMMA SinkWaits ==
  ASSUME SinkInv, SinkGrows, Stay, job # NoJob, sent' = sent
  PROVE  SinkInv'
<1>1. job' = job /\ acked' = acked /\ offered' = offered /\ life' = life /\ todo' = todo
  BY DEF Stay, clientVars
<1>2. SinkTypes' /\ Received'
  BY <1>1 DEF SinkInv, SinkTypes, SinkGrows, Received, InSink
<1>3. JobInv'
  <2>1. \A b \in offered'..(offered' + sent' - 1) : InSink(b)'
    BY <1>1 DEF SinkGrows
  <2>2. QED BY <1>1, <2>1 DEF SinkInv, JobInv
<1>4. life' = "live" => \A i \in 1..Len(sink') : sink'[i] < offered' + sent'
  BY <1>1 DEF SinkGrows
<1>5. QED BY <1>1, <1>2, <1>3, <1>4 DEF SinkInv, Reached

LEMMA SinkBegins ==
  ASSUME SinkInv, job = NoJob, NEW op \in WriterOp, NEW n \in Nat, NEW nl \in Nat, nl <= n,
         op \in Data \/ n = 0, life # "live" => op = "drop",
         job' = [op |-> op, from |-> offered, n |-> n, nl |-> nl],
         todo' = Steps(op, n, nl), sent' = 0,
         UNCHANGED <<offered, acked, len, sink, life>>
  PROVE  SinkInv'
<1>1. /\ job'.op = op /\ job'.from = offered' /\ job'.n = n /\ job' # NoJob
      /\ job' \in [op : WriterOp \cup {"none"}, from : Nat, n : Nat, nl : Nat]
  <2>1. op # "none" /\ offered \in Nat
    BY DEF WriterOp, Data, SinkInv, SinkTypes
  <2>2. QED BY <2>1 DEF NoJob
<1>2. SinkTypes' /\ Received'
  BY <1>1 DEF SinkInv, SinkTypes, Received, InSink
<1>3. life' = "live" => \A i \in 1..Len(sink') : sink'[i] < offered' + sent'
  <2>1. offered' + sent' = offered
    BY DEF SinkInv, SinkTypes
  <2>2. QED BY <2>1 DEF SinkInv, Reached
<1>4. JobInv'
  <2>1. op # "write" => Delivers(todo', sent', n)
    BY StepsDeliver
  <2>2. op = "write" => Single(todo')
    BY StepsOfWrite
  <2>3. offered'..(offered' + sent' - 1) = {}
    BY DEF SinkInv, SinkTypes
  <2>4. life' # "live" => op # "write" /\ n = 0
    BY DEF Data
  <2>5. QED BY <1>1, <2>1, <2>2, <2>3, <2>4 DEF JobInv
<1>5. QED BY <1>1, <1>2, <1>3, <1>4 DEF SinkInv, Reached

LEMMA CallSinks ==
  ASSUME SinkInv, NEW op \in WriterOp, NEW n \in 0..MaxOffer, NEW nl \in 0..MaxOffer,
         Call(op, n, nl)
  PROVE  SinkInv'
<1>1. n \in Nat /\ nl \in Nat /\ nl <= n /\ (op \in Data \/ n = 0)
  BY WritersAssumption DEF Call
<1>2. /\ job = NoJob /\ life = "live" /\ todo' = Steps(op, n, nl) /\ sent' = 0
      /\ job' = [op |-> op, from |-> offered, n |-> n, nl |-> nl]
      /\ UNCHANGED <<offered, acked, len, sink, life>>
  BY DEF Call, clientVars
<1>3. QED BY <1>1, <1>2, SinkBegins

LEMMA DropUnwindingSinks ==
  ASSUME SinkInv, DropUnwinding
  PROVE  SinkInv'
<1>1. job' = [op |-> "drop", from |-> offered, n |-> 0, nl |-> 0]
  BY DEF DropUnwinding, NoJob
<1>2. todo' = Steps("drop", 0, 0) /\ "drop" \in WriterOp
  BY DEF DropUnwinding, Steps, WriterOp
<1>3. job = NoJob /\ sent' = 0 /\ UNCHANGED <<offered, acked, len, sink, life>>
  BY DEF DropUnwinding, clientVars
<1>4. 0 \in Nat /\ 0 <= 0
  OBVIOUS
<1>5. QED BY <1>1, <1>2, <1>3, <1>4, SinkBegins

\* A flush sends none of the job's bytes.
LEMMA FlushSinks ==
  ASSUME SinkInv, WriterTypes, Flush
  PROVE  SinkInv'
<1>1. /\ todo # <<>> /\ Head(todo).do = "flush" /\ sent' = sent /\ len' = len
      /\ written \in Nat /\ capacity \in Nat
  BY DEF Flush, Doing, WriterTypes
<1>2. job # NoJob /\ JobInv /\ sent \in Nat /\ Owed(Head(todo)) = 0
  BY <1>1, HeadInHand DEF Owed, SinkInv, SinkTypes
<1>3. IF job.op = "write" THEN sent' = 0 ELSE sent' <= job.n
  BY <1>1, <1>2, SentInHand DEF JobInv
<1>4. CASE written >= capacity
  <2>1. SinkGrows
    BY <1>1, <1>2, <1>4, SinkStays DEF Flush
  <2>2. Panic \/ Proceed
    BY <1>4 DEF Flush, DropGuard
  <2>3. sent' = sent + Owed(Head(todo))
    BY <1>1, <1>2
  <2>4. QED BY <1>1, <2>1, <2>2, <2>3, SinkPanics, SinkProceeds
<1>5. CASE written < capacity
  <2>1. PICK o \in InnerWrite(capacity - written) :
          /\ Accept([i \in 1..o.n |-> Filler])
          /\ Stay \/ Panic \/ Abort \/ Refuse
    BY <1>1, <1>5 DEF Flush, DropGuard
  <2>2. o.n \in Nat
    BY <1>1, <1>5, InnerWriteOutcome
  <2>3. SinkGrows
    BY <1>1, <1>2, <2>1, <2>2, SinkFills
  <2>4. QED BY <1>1, <1>2, <1>3, <2>1, <2>3, SinkWaits, SinkPanics, SinkRefuses
<1>6. QED BY <1>1, <1>4, <1>5

LEMMA WriteOnceSinks ==
  ASSUME SinkInv, WriterTypes, WriteOnce
  PROVE  SinkInv'
<1>1. PICK o \in InnerWrite(Head(todo).n) :
        /\ Writing(o)
        /\ CASE o.kind = "ok"    -> Proceed
             [] o.kind = "panic" -> Panic
             [] OTHER            -> Refuse
  BY DEF WriteOnce
<1>2. todo # <<>> /\ Head(todo).do = "write"
  BY DEF WriteOnce, Doing
<1>3. job # NoJob /\ job.op = "write" /\ sent = 0
  BY <1>2, HeadInHand DEF JobInv
<1>4. /\ SinkGrows /\ o.n \in Nat /\ sent' = sent + o.n
      /\ o.kind # "ok" => o.n = 0
  BY <1>1, <1>2, SinkTakes
<1>5. CASE o.kind = "ok" /\ Proceed
  BY <1>2, <1>3, <1>4, <1>5, SinkProceeds
<1>6. CASE o.kind # "ok" /\ Refuse
  <2>1. sent' = 0
    BY <1>3, <1>4, <1>6
  <2>2. QED BY <1>3, <1>4, <1>6, <2>1, SinkRefuses
<1>7. CASE Panic
  BY <1>4, <1>7, SinkPanics
<1>8. QED BY <1>1, <1>5, <1>6, <1>7

LEMMA WriteLinesSinks ==
  ASSUME SinkInv, WriterTypes, WriteLines
  PROVE  SinkInv'
<1>1. PICK o \in InnerWrite(Head(todo).n) :
        /\ Writing(o)
        /\ CASE o.kind = "ok" /\ o.n > 0 -> Proceed
             [] o.kind = "ok" /\ o.n = 0 -> Finish(0)
             [] o.kind = "panic"         -> Panic
             [] OTHER                    -> Refuse
  BY DEF WriteLines
<1>2. todo # <<>> /\ Head(todo).do = "lines"
  BY DEF WriteLines, Doing
<1>3. job # NoJob /\ job.op = "write" /\ sent = 0
  BY <1>2, HeadInHand DEF JobInv
<1>4. /\ SinkGrows /\ o.n \in Nat /\ sent' = sent + o.n
      /\ o.kind # "ok" => o.n = 0
  BY <1>1, <1>2, SinkTakes
<1>5. CASE o.kind = "ok" /\ o.n > 0
  <2>1. Proceed
    BY <1>1, <1>5
  <2>2. QED BY <1>2, <1>3, <1>4, <2>1, SinkProceeds
<1>6. CASE o.kind = "ok" /\ o.n = 0
  <2>1. Finish(0) /\ sent' = 0
    BY <1>1, <1>3, <1>4, <1>6
  <2>2. Finish(sent')
    BY <2>1
  <2>3. QED BY <1>3, <1>4, <2>2, SinkFinishes
<1>7. CASE o.kind # "ok"
  <2>1. Panic \/ Refuse
    BY <1>1, <1>7
  <2>2. sent' = 0
    BY <1>3, <1>4, <1>7
  <2>3. QED BY <1>3, <1>4, <2>1, <2>2, SinkPanics, SinkRefuses
<1>8. QED BY <1>4, <1>5, <1>6, <1>7

LEMMA WriteRestSinks ==
  ASSUME SinkInv, WriterTypes, WriteRest
  PROVE  SinkInv'
<1>1. PICK o \in InnerWrite(Head(todo).n) :
        /\ Writing(o)
        /\ CASE o.kind = "ok" /\ o.n > 0 ->
                  /\ todo' = After(o.n)
                  /\ UNCHANGED <<job, clientVars, life>>
             [] o.kind = "ok" /\ o.n = 0 -> WriteZero
             [] Retried(o.kind)          -> Stay
             [] o.kind = "panic"         -> Panic
             [] OTHER                    -> Refuse
  BY DEF WriteRest
<1>2. todo # <<>> /\ Head(todo).do = "all" /\ todo \in Seq(StepType)
  BY DEF WriteRest, Doing, WriterTypes
<1>3. /\ job # NoJob /\ JobInv /\ job.op # "write" /\ Head(todo) \in StepType
      /\ Owed(Head(todo)) = Head(todo).n /\ sent + Head(todo).n <= job.n
  BY <1>2, HeadInHand DEF Owed
<1>4. /\ SinkGrows /\ o.n \in Nat /\ o.n <= Head(todo).n /\ sent' = sent + o.n
      /\ o.kind # "ok" => o.n = 0
  BY <1>1, <1>2, SinkTakes
<1>5. Head(todo).n \in Nat /\ sent \in Nat /\ job.n \in Nat /\ offered \in Nat
  BY <1>3 DEF StepType, SinkInv, SinkTypes
<1>6. CASE o.kind = "ok" /\ o.n > 0
  <2>1. todo' = After(o.n) /\ UNCHANGED <<job, clientVars, life>>
    BY <1>1, <1>6 DEF Retried
  <2>2. job' = job /\ offered' = offered /\ acked' = acked /\ life' = life
    BY <2>1 DEF clientVars
  <2>3. Delivers(todo', sent', job.n)
    <3>1. Delivers(todo, sent, job.n)
      BY <1>3 DEF JobInv
    <3>2. Delivers(<<[Head(todo) EXCEPT !.n = @ - o.n]>> \o Tail(todo), sent + o.n, job.n)
      BY <1>2, <1>4, <1>5, <3>1, TakenDelivers
    <3>3. todo' = <<[Head(todo) EXCEPT !.n = @ - o.n]>> \o Tail(todo)
      BY <2>1, Zenon DEF After
    <3>4. QED BY <1>4, <3>2, <3>3, Zenon
  <2>4. SinkTypes' /\ Received'
    BY <1>4, <2>2 DEF SinkInv, SinkTypes, SinkGrows, Received, InSink
  <2>5. JobInv'
    BY <1>3, <1>4, <2>2, <2>3 DEF JobInv, SinkGrows
  <2>6. life' = "live" => \A i \in 1..Len(sink') : sink'[i] < offered' + sent'
    BY <1>4, <2>2 DEF SinkGrows
  <2>7. QED BY <1>3, <2>2, <2>4, <2>5, <2>6 DEF SinkInv, Reached
<1>7. CASE ~(o.kind = "ok" /\ o.n > 0)
  <2>1. Stay \/ Panic \/ Refuse
    BY <1>1, <1>4, <1>7 DEF WriteZero
  <2>2. sent' = sent /\ sent' <= job.n
    BY <1>3, <1>4, <1>5, <1>7
  <2>3. QED BY <1>3, <1>4, <2>1, <2>2, SinkWaits, SinkPanics, SinkRefuses
<1>8. QED BY <1>6, <1>7

\* The steps that do not call W's write.
LEMMA QuietSinks ==
  ASSUME SinkInv, WriterTypes, UNCHANGED <<len, sink, sent>>,
         \/ /\ todo # <<>> /\ Head(todo).do \in {"ask", "fail", "take"}
            /\ Proceed \/ Refuse \/ Panic
         \/ todo # <<>> /\ Head(todo).do = "all" /\ Head(todo).n = 0 /\ Proceed
         \/ todo # <<>> /\ Panic
  PROVE  SinkInv'
<1>1. todo # <<>>
  OBVIOUS
<1>2. job # NoJob /\ SinkGrows /\ sent \in Nat
  BY <1>1, HeadInHand, SinkStays DEF SinkInv, SinkTypes
<1>3. CASE Panic
  BY <1>2, <1>3, SinkPanics
<1>4. CASE ~Panic
  <2>1. Head(todo).do \in {"ask", "fail", "take", "all"} /\ Owed(Head(todo)) = 0
    BY <1>4 DEF Owed
  <2>2. job.op # "write"
    BY <1>1, <2>1, HeadInHand
  <2>3. sent' <= job.n /\ sent' = sent + Owed(Head(todo))
    BY <1>2, <2>1, <2>2, SentInHand
  <2>4. QED BY <1>1, <1>2, <1>4, <2>2, <2>3, SinkProceeds, SinkRefuses
<1>5. QED BY <1>3, <1>4

LEMMA DoneSinks ==
  ASSUME SinkInv, WriterTypes, Done
  PROVE  SinkInv'
<1>1. job # NoJob /\ todo = <<>> /\ UNCHANGED <<len, sink, sent>>
      /\ Finish(IF job.op = "write" THEN sent ELSE job.n)
  BY DEF Done, WriterStays
<1>2. job.op # "write" => sent = job.n
  BY <1>1, SentInHand
<1>3. Finish(sent') /\ (job.op # "write" => sent' = job.n)
  BY <1>1, <1>2
<1>4. QED BY <1>1, <1>3, SinkStays, SinkFinishes

LEMMA BufferTailSinks ==
  ASSUME SinkInv, WriterTypes, BufferTail
  PROVE  SinkInv'
<1>1. /\ todo # <<>> /\ Head(todo).do = "tail" /\ UNCHANGED <<sink, sent>>
      /\ capacity \in Nat /\ len = 0 /\ sent \in Nat
  BY DEF BufferTail, Doing, WriterTypes, SinkInv, SinkTypes
<1>2. job # NoJob /\ job.op = "write"
  BY <1>1, HeadInHand
<1>3. PICK n \in TailLengths :
        IF Least(capacity - len, n) = len
        THEN len' = len + Least(capacity - len, n) /\ Finish(sent + Least(capacity - len, n))
        ELSE Panic /\ UNCHANGED len
  BY DEF BufferTail
<1>4. CASE Least(capacity - len, n) = len
  <2>1. Least(capacity - len, n) = 0 /\ len + 0 = len /\ sent + 0 = sent'
    BY <1>1, <1>4
  <2>2. len' = len /\ Finish(sent')
    BY <1>3, <1>4, <2>1, Zenon
  <2>3. QED BY <1>1, <1>2, <2>2, SinkStays, SinkFinishes
<1>5. CASE Least(capacity - len, n) # len
  BY <1>1, <1>2, <1>3, <1>5, SinkStays, SinkPanics
<1>6. QED BY <1>4, <1>5

LEMMA WorkSinks ==
  ASSUME SinkInv, WriterTypes, Work
  PROVE  SinkInv'
<1>1. CASE WrittenAll
  BY <1>1, QuietSinks DEF WrittenAll, Doing, WriterStays
<1>2. CASE Buffer
  BY <1>2, QuietSinks DEF Buffer, Doing, WriterStays
<1>3. CASE Ask
  BY <1>3, QuietSinks DEF Ask, Doing, WriterStays
<1>4. CASE SeekCursor
  BY <1>4, QuietSinks DEF SeekCursor, Doing
<1>5. CASE FormatFails
  BY <1>5, QuietSinks DEF FormatFails, Doing, WriterStays
<1>6. CASE Take
  BY <1>6, QuietSinks DEF Take, Doing, WriterStays
<1>7. QED BY <1>1, <1>2, <1>3, <1>4, <1>5, <1>6, DropUnwindingSinks, FlushSinks,
             WriteOnceSinks, WriteLinesSinks, WriteRestSinks, DoneSinks, BufferTailSinks
          DEF Work

LEMMA SinkStarts == WriterInit => SinkInv
<1> SUFFICES ASSUME WriterInit PROVE SinkInv
  OBVIOUS
<1>1. /\ len = 0 /\ sink = <<>> /\ offered = 0 /\ sent = 0 /\ acked = {} /\ job = NoJob
      /\ todo = <<>> /\ Len(sink) = 0 /\ sink \in Seq(Int)
  BY DEF WriterInit
<1>2. NoJob \in [op : WriterOp \cup {"none"}, from : Nat, n : Nat, nl : Nat]
  BY DEF NoJob
<1>3. QED BY <1>1, <1>2 DEF SinkInv, SinkTypes, Received, InOrder

LEMMA WriterSinks ==
  ASSUME SinkInv, WriterTypes, [WriterNext]_writerVars
  PROVE  SinkInv'
<1>1. CASE WriterNext
  BY <1>1, CallSinks, WorkSinks DEF WriterNext
<1>2. CASE UNCHANGED writerVars
  BY <1>2 DEF writerVars, clientVars, SinkInv, SinkTypes, JobInv, Received,
              InSink, Reached
<1>3. QED BY <1>1, <1>2

-----------------------------------------------------------------------------
(***************************************************************************)
(* The bytes that no client wrote                                          *)
(***************************************************************************)
\* A flush that has sent some of them is still going on or has panicked.
FillerInv ==
  /\ FillersLast(sink)
  /\ written > 0 => todo # <<>> /\ Head(todo).do = "flush"
  /\ life = "live" /\ written = 0 => \A i \in 1..Len(sink) : sink[i] # Filler

\* None is sent, and no flush has begun to send.
LEMMA FillersStay ==
  ASSUME FillerInv, written = 0, written' = 0, sink' = sink,
         life' = "live" => life = "live"
  PROVE  FillerInv'
BY DEF FillerInv, FillersLast

\* Bytes of the client are sent while the sink has no others.
LEMMA FillersWrite ==
  ASSUME SinkInv, WriterTypes, FillerInv, todo # <<>>,
         Head(todo).do \in {"write", "all", "lines"},
         NEW o \in InnerWrite(Head(todo).n), Writing(o), life' = "live" => life = "live"
  PROVE  FillerInv'
<1>1. written = 0 /\ written' = 0
  BY DEF FillerInv, WriterTypes, Writing
<1>2. job # NoJob /\ JobInv /\ Head(todo).n \in Nat
  BY HeadInHand DEF StepType
<1>3. o.n \in Nat /\ o.n <= Head(todo).n
  BY <1>2, InnerWriteOutcome
<1> DEFINE a == job.from + sent
           u == [i \in 1..o.n |-> a + i - 1]
<1>4. sink \in Seq(Int) /\ sink' = sink \o u /\ a \in Nat
  BY <1>2 DEF Writing, Accept, Offered, SinkInv, SinkTypes
<1>5. u \in Seq(Int) /\ Len(u) = o.n /\ \A i \in 1..o.n : u[i] # Filler
  <2> HIDE DEF a
  <2>1. \A i \in 1..o.n : a + i - 1 \in Int /\ a + i - 1 # Filler
    BY <1>3, <1>4 DEF Filler
  <2>2. QED BY <1>3, <2>1
<1> HIDE DEF a, u
<1>6. /\ Len(sink') = Len(sink) + o.n
      /\ \A i \in 1..Len(sink') :
           sink'[i] = IF i <= Len(sink) THEN sink[i] ELSE u[i - Len(sink)]
  BY <1>4, <1>5, BytesJoined
<1>7. CASE life = "live"
  <2>1. \A i \in 1..Len(sink) : sink[i] # Filler
    BY <1>1, <1>7 DEF FillerInv
  <2>2. Len(sink) \in Nat
    BY <1>4
  <2>3. ASSUME NEW i \in 1..Len(sink') PROVE sink'[i] # Filler
    <3>1. CASE i <= Len(sink)
      BY <1>6, <2>1, <2>2, <3>1
    <3>2. CASE i > Len(sink)
      <4>1. i - Len(sink) \in 1..o.n /\ sink'[i] = u[i - Len(sink)]
        BY <1>3, <1>6, <2>2, <3>2
      <4>2. QED BY <1>5, <4>1
    <3>3. QED BY <2>2, <3>1, <3>2
  <2>4. QED BY <1>1, <2>3 DEF FillerInv, FillersLast
<1>8. CASE life # "live"
  <2>1. /\ job.op # "write" /\ job.n = 0 /\ sent \in Nat
        /\ Head(todo).do = "all" /\ sent + Owed(Head(todo)) <= 0
    BY <1>2, <1>8, HeadInHand DEF JobInv, SinkInv, SinkTypes
  <2>2. o.n = 0
    BY <1>2, <1>3, <2>1 DEF Owed
  <2>3. sink' = sink
    <3>1. Len(u) = 0
      BY <1>5, <2>2
    <3>2. u = <<>>
      BY <1>5, <3>1
    <3>3. QED BY <1>4, <3>2
  <2>4. QED BY <1>1, <2>3, FillersStay
<1>9. QED BY <1>7, <1>8

\* A flush sends nothing else, behind all that is there, and panics after it.
LEMMA FlushFillers ==
  ASSUME WriterTypes, SinkInv, FillerInv, Flush
  PROVE  FillerInv'
<1>1. /\ todo # <<>> /\ Head(todo).do = "flush"
      /\ written \in Nat /\ capacity \in Nat /\ sink \in Seq(Int)
  BY DEF Flush, Doing, WriterTypes, SinkInv, SinkTypes
<1>2. CASE written >= capacity
  <2>1. written' = 0 /\ sink' = sink /\ (IF written > 0 THEN Panic ELSE Proceed)
    BY <1>2 DEF Flush, DropGuard
  <2>2. CASE written > 0
    BY <1>1, <2>1, <2>2, Ending DEF FillerInv, FillersLast
  <2>3. CASE written = 0
    BY <1>1, <2>1, <2>3, FillersStay DEF Proceed
  <2>4. QED BY <1>1, <2>2, <2>3
<1>3. CASE written < capacity
  <2>1. PICK o \in InnerWrite(capacity - written) :
          /\ Accept([i \in 1..o.n |-> Filler])
          /\ CASE o.kind = "ok" /\ o.n > 0 -> written' = written + o.n /\ Stay
               [] Retried(o.kind)          -> Stay /\ UNCHANGED written
               [] o.kind = "panic"         -> /\ written' = 0
                                              /\ IF written > 0 THEN Abort ELSE Panic
               [] OTHER                    -> DropGuard(Refuse)
    BY <1>1, <1>3 DEF Flush
  <2>2. o.n \in Nat /\ (o.kind # "ok" => o.n = 0)
        /\ o.kind \in {"ok", "interrupted", "other", "panic"}
    BY <1>1, <1>3, InnerWriteOutcome
  <2> DEFINE u == [i \in 1..o.n |-> Filler]
  <2>3. u \in Seq(Int) /\ Len(u) = o.n /\ (\A i \in 1..o.n : u[i] = Filler)
        /\ sink' = sink \o u
    <3>1. u \in Seq(Int) /\ Len(u) = o.n /\ \A i \in 1..o.n : u[i] = Filler
      <4> DEFINE k == o.n
      <4>1. k \in Nat /\ Filler \in Int
        BY <2>2 DEF Filler
      <4> HIDE DEF k
      <4>2. [i \in 1..k |-> Filler] \in Seq(Int) /\ Len([i \in 1..k |-> Filler]) = k
        BY <4>1
      <4>3. QED BY <4>2 DEF k
    <3>2. sink' = sink \o u
      BY <2>1 DEF Accept
    <3>3. QED BY <3>1, <3>2
  <2> HIDE DEF u
  <2>4. FillersLast(sink')
    <3>1. /\ Len(sink') = Len(sink) + o.n /\ Len(sink) \in Nat
          /\ \A i \in 1..Len(sink') :
               sink'[i] = IF i <= Len(sink) THEN sink[i] ELSE u[i - Len(sink)]
      BY <1>1, <2>3, BytesJoined
    <3>2. ASSUME NEW i \in 1..Len(sink'), i > Len(sink) PROVE sink'[i] = Filler
      <4>1. i - Len(sink) \in 1..o.n
        BY <2>2, <3>1, <3>2
      <4>2. QED BY <2>3, <3>1, <3>2, <4>1
    <3>3. \A i \in 1..Len(sink) : i \in 1..Len(sink') /\ sink'[i] = sink[i]
      BY <2>2, <3>1
    <3>4. ASSUME NEW i \in 1..Len(sink'), NEW j \in 1..Len(sink'),
                 i < j, sink'[i] = Filler
          PROVE  sink'[j] = Filler
      <4>1. CASE j > Len(sink)
        BY <3>2, <4>1
      <4>2. CASE j <= Len(sink)
        <5>1. i \in 1..Len(sink) /\ j \in 1..Len(sink)
          BY <3>1, <3>4, <4>2
        <5>2. QED BY <3>3, <3>4, <5>1 DEF FillerInv, FillersLast
      <4>3. QED BY <3>1, <4>1, <4>2
    <3>5. QED BY <3>4 DEF FillersLast
  <2>5. CASE o.kind = "ok" /\ o.n > 0
    <3>1. written' = written + o.n /\ todo' = todo
      BY <2>1, <2>5 DEF Stay, Retried
    <3>2. written' > 0
      BY <1>1, <2>2, <2>5, <3>1
    <3>3. QED BY <1>1, <2>4, <3>1, <3>2 DEF FillerInv
  <2>6. CASE o.kind # "ok" \/ o.n = 0
    <3>1. o.n = 0
      BY <2>2, <2>6
    <3>2. sink' = sink
      <4>1. Len(u) = 0
        BY <2>3, <3>1
      <4>2. u = <<>>
        BY <2>3, <4>1
      <4>3. QED BY <1>1, <2>3, <4>2
    <3>3. CASE Stay /\ UNCHANGED written
      BY <1>1, <3>2, <3>3 DEF Stay, FillerInv, FillersLast
    <3>4. CASE written' = 0 /\ (Panic \/ Abort)
      BY <2>4, <3>4, Ending DEF FillerInv
    <3>5. CASE written' = 0 /\ written = 0 /\ Refuse
      BY <3>2, <3>5, FillersStay DEF Refuse, Dropped
    <3>6. \/ Stay /\ UNCHANGED written
          \/ written' = 0 /\ (Panic \/ Abort)
          \/ written' = 0 /\ written = 0 /\ Refuse
      BY <1>1, <2>1, <2>2, <3>1 DEF DropGuard, Retried
    <3>7. QED BY <3>3, <3>4, <3>5, <3>6
  <2>7. QED BY <2>2, <2>5, <2>6
<1>4. QED BY <1>1, <1>2, <1>3

\* A writer that is on its way out does not come back.
LEMMA LifeGoesOn ==
  ASSUME WriterNext
  PROVE  life' = "live" => life = "live"
BY DEF WriterNext, Work, Call, DropUnwinding, Done, Flush, WriteOnce, WriteLines, WrittenAll,
       WriteRest, Buffer, BufferTail, Ask, SeekCursor, FormatFails, Take, DropGuard,
       WriterStays, Proceed, Stay, Finish, Refuse, Panic, Abort, Dropped, WriteZero

LEMMA WriterFillers ==
  ASSUME SinkInv, WriterTypes, FillerInv, [WriterNext]_writerVars
  PROVE  FillerInv'
<1>1. CASE Flush
  BY <1>1, FlushFillers
<1>2. CASE (WriteOnce \/ WriteLines \/ WriteRest) /\ WriterNext
  <2>1. PICK o \in InnerWrite(Head(todo).n) : Writing(o)
    BY <1>2 DEF WriteOnce, WriteLines, WriteRest
  <2>2. todo # <<>> /\ Head(todo).do \in {"write", "all", "lines"}
    BY <1>2 DEF WriteOnce, WriteLines, WriteRest, Doing
  <2>3. QED BY <1>2, <2>1, <2>2, LifeGoesOn, FillersWrite
<1>3. CASE /\ WriterNext
           /\ \/ \E op \in WriterOp, n, nl \in 0..MaxOffer : Call(op, n, nl)
              \/ DropUnwinding \/ Done \/ WrittenAll \/ Buffer \/ BufferTail
              \/ Ask \/ SeekCursor \/ FormatFails \/ Take
  <2>1. todo = <<>> \/ Head(todo).do # "flush"
    BY <1>3 DEF Call, DropUnwinding, Done, WrittenAll, Buffer, BufferTail, Ask, SeekCursor,
                FormatFails, Take, Doing, SinkInv
  <2>2. written' = written /\ sink' = sink
    BY <1>3 DEF Call, DropUnwinding, Done, WrittenAll, Buffer, BufferTail, Ask, SeekCursor,
                FormatFails, Take, WriterStays
  <2>3. written = 0
    BY <2>1 DEF FillerInv, WriterTypes
  <2>4. QED BY <1>3, <2>2, <2>3, LifeGoesOn, FillersStay
<1>4. CASE UNCHANGED writerVars
  BY <1>4 DEF writerVars, FillerInv, FillersLast
<1>5. QED BY <1>1, <1>2, <1>3, <1>4 DEF WriterNext, Work

LEMMA FillersStart == WriterInit => FillerInv
<1> SUFFICES ASSUME WriterInit PROVE FillerInv
  OBVIOUS
<1>1. sink = <<>> /\ written = 0 /\ Len(sink) = 0
  BY DEF WriterInit
<1>2. QED BY <1>1 DEF FillerInv, FillersLast

LEMMA ReceivedAcknowledged ==
  ASSUME SinkInv, FillerInv
  PROVE  AcknowledgedReachesSink
BY DEF SinkInv, FillerInv, Received, InSink, AcknowledgedReachesSink

-----------------------------------------------------------------------------
(***************************************************************************)
(* The theorems                                                            *)
(***************************************************************************)
LEMMA WriterStarts == WriterInit => WriterInv
<1> SUFFICES ASSUME WriterInit PROVE WriterInv
  OBVIOUS
<1>1. WriterTypes /\ ~blown /\ todo = <<>>
  BY WritersAssumption, NoSteps DEF WriterInit, WriterTypes
<1>2. QED BY <1>1, NoSteps DEF WriterInv, Fenced, AfterPanic

LEMMA WorkKeeps ==
  ASSUME WriterInv, Work
  PROVE  WriterInv'
BY DropUnwindingKeeps, FlushKeeps, WriteOnceKeeps, WriteLinesKeeps, WriteRestKeeps,
   OtherStepsKeep DEF Work

LEMMA WriterKeeps ==
  ASSUME WriterInv, [WriterNext]_writerVars
  PROVE  WriterInv'
<1>1. CASE WriterNext
  BY <1>1, CallKeeps, WorkKeeps DEF WriterNext
<1>2. CASE UNCHANGED writerVars
  BY <1>2 DEF writerVars, typeVars, WriterInv, WriterTypes, Fenced, AllGuarded, AfterPanic
<1>3. QED BY <1>1, <1>2

\* After a panic of W a step that would call it is not the next one, except a
\* flush, and that finds a buffer of length 0.
LEMMA SilentStep ==
  ASSUME WriterInv, [WriterNext]_writerVars, blown
  PROVE  sink' = sink
<1>1. /\ todo = <<>> \/ (capacity = 0 /\ Head(todo).do = "flush")
      /\ written \in Nat /\ life # "live"
  <2>1. todo \in Seq(StepType)
    BY DEF WriterInv, WriterTypes
  <2>2. CASE todo = <<>>
    BY <2>2 DEF WriterInv, WriterTypes, AfterPanic
  <2>3. CASE todo # <<>>
    BY <2>3, NotBlown DEF WriterInv, WriterTypes, AfterPanic
  <2>4. QED BY <2>2, <2>3
<1>2. CASE Flush
  <2>1. capacity = 0
    BY <1>1, <1>2 DEF Flush, Doing
  <2>2. written >= capacity
    BY <1>1, <2>1
  <2>3. QED BY <1>2, <2>2 DEF Flush
<1>3. ~(WriteOnce \/ WriteLines \/ WriteRest)
  BY <1>1 DEF WriteOnce, WriteLines, WriteRest, Doing
<1>4. CASE \E op \in WriterOp, n, nl \in 0..MaxOffer : Call(op, n, nl)
  BY <1>4 DEF Call
<1>5. CASE DropUnwinding
  BY <1>5 DEF DropUnwinding
<1>6. CASE Done \/ WrittenAll \/ Buffer \/ BufferTail \/ Ask \/ SeekCursor
           \/ FormatFails \/ Take
  BY <1>6 DEF Done, WrittenAll, Buffer, BufferTail, Ask, SeekCursor, FormatFails, Take,
              WriterStays
<1>7. CASE UNCHANGED writerVars
  BY <1>7 DEF writerVars
<1>8. QED BY <1>2, <1>3, <1>4, <1>5, <1>6, <1>7 DEF WriterNext, Work

THEOREM WriterInvariant == WriterSpec => []WriterInv
<1>1. WriterInv /\ [WriterNext]_writerVars => WriterInv'
  BY WriterKeeps
<1>2. QED BY <1>1, WriterStarts, PTL DEF WriterSpec

\* Nothing is written once W has panicked in a call of its write, neither by the
\* destructor nor by anything else, although LineWriter writes past the flag.
THEOREM SilenceAfterPanic == WriterSpec => SilentAfterPanic
<1>1. WriterInv /\ [WriterNext]_writerVars => [blown => sink' = sink]_writerVars
  BY SilentStep
<1>2. QED BY <1>1, WriterInvariant, PTL DEF WriterSpec, SilentAfterPanic

\* What a writer has acknowledged is in the sink, once and in order, or in the
\* buffer, for any capacity, any W and any calls, whatever W accepts, refuses or
\* interrupts; and what no client wrote comes behind all of it.
THEOREM AcknowledgedIsThere == WriterSpec => []AcknowledgedReachesSink
<1> DEFINE Inv == SinkInv /\ FillerInv
<1>1. Inv /\ WriterInv /\ [WriterNext]_writerVars => Inv'
  BY WriterSinks, WriterFillers DEF WriterInv
<1>2. Inv => AcknowledgedReachesSink
  BY ReceivedAcknowledged
<1>3. WriterInit => Inv
  BY SinkStarts, FillersStart
<1> HIDE DEF Inv
<1>4. QED BY <1>1, <1>2, <1>3, WriterInvariant, PTL DEF WriterSpec
===============================================================================
