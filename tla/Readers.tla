------------------------------- MODULE Readers -------------------------------
(***************************************************************************)
(* The reader side of the vendored core2::io: BufReader, Cursor, Chain and *)
(* Take, and the loops that Read provides on top of read().  One client    *)
(* uses Take<Chain<BufReader<R, S>, Cursor<&[u8]>>>, the stack in which    *)
(* each adapter meets the others, and also reaches into it (get_mut).      *)
(*                                                                         *)
(* Bytes are known by the stream they belong to (1: R's, 2: the slice      *)
(* under the cursor) and their position in it.  An operator that stands    *)
(* for a method returns the set of its outcomes, a new state with a        *)
(* result; `?' is the branch that passes an error on.  R is external: it   *)
(* returns less than asked for, is interrupted, or fails at any time.      *)
(***************************************************************************)
EXTENDS IoResults

CONSTANTS
  Size,     \* <<length of R's stream, length of the slice>>
  S,        \* the capacity of the BufReader
  Half,     \* i64 is -Half .. Half - 1 and u64 is 0 .. 2 * Half - 1
  Limits,   \* what take() and set_limit() are given
  Lengths,  \* the lengths of the client's buffers
  Seeks     \* the client's SeekFrom values

U64 == 0..(2 * Half - 1)
I64 == (-Half)..(Half - 1)
SeekFrom == [from : {"start"}, n : U64] \cup [from : {"end", "current"}, n : I64]

ASSUME ReadersAssumption ==
  /\ Half \in Nat \ {0}
  /\ Size \in [{1, 2} -> U64]
  /\ S \in 1..(Half - 1)      \* a remainder fits into an i64
  /\ Limits \subseteq U64
  /\ Lengths \subseteq U64
  /\ Seeks \subseteq SeekFrom

VARIABLES
  rd,       \* the stack of readers
  peeked,   \* how many bytes of the last fill_buf() may be consumed
  call,     \* the call that runs: [op, want, got, had]; `had' is the limit
            \* that it began with (history)
  out,      \* what the last step handed out, or where it moved to
  result    \* how the last call ended: [op, kind, want, got, had]

vars == <<rd, peeked, call, out, result>>

Op == {"read", "read_exact", "read_to_end", "next"}
NoCall   == [op |-> "none", want |-> 0, got |-> 0, had |-> 0]
NoResult == [op |-> "none", kind |-> "ok", want |-> 0, got |-> 0, had |-> 0]

Nothing == [kind |-> "nothing"]
Bytes(s, from, n) == [kind |-> "bytes", src |-> s, from |-> from, n |-> n]
MovedTo(s, p)     == [kind |-> "moved", src |-> s, to |-> p]

\* `start' is the stream position of the byte in slot 0 of the buffer.
ReaderState ==
  [inner : U64, start : U64, pos : Nat, cap : Nat, done_first : BOOLEAN,
   cursor : U64, limit : U64]

Init ==
  /\ \E limit \in Limits :
       rd = [inner |-> 0, start |-> 0, pos |-> 0, cap |-> 0,
             done_first |-> FALSE, cursor |-> 0, limit |-> limit]
  /\ peeked = 0
  /\ call = NoCall
  /\ out = Nothing
  /\ result = NoResult

\* Ok(n), with the place that the n bytes came from, and Err(kind).
Got(r, s, from, n) ==
  [rd |-> r, kind |-> "ok", src |-> s, from |-> from, n |-> n]
Fails(r, kind) == [rd |-> r, kind |-> kind, src |-> 1, from |-> 0, n |-> 0]

-----------------------------------------------------------------------------
(***************************************************************************)
(* R and BufReader                                                         *)
(***************************************************************************)

\* R::read (external): some bytes, 0 exactly at the end or for an empty
\* buffer, or an error, which leaves R where it was.
InnerRead(r, len) ==
  {Got([r EXCEPT !.inner = @ + n], 1, r.inner, n) :
     n \in IF len = 0 \/ r.inner >= Size[1] THEN {0}
           ELSE 1..Least(len, Size[1] - r.inner)}
  \cup {Fails(r, kind) : kind \in {"interrupted", "other"}}

Remainder(r) == r.cap - r.pos

Discard(r) == [r EXCEPT !.pos = 0, !.cap = 0]

FillBuf(r) ==
  IF r.pos < r.cap THEN {Got(r, 1, r.start + r.pos, Remainder(r))}
  ELSE {IF o.kind = "ok"
        THEN [o EXCEPT !.rd = [@ EXCEPT !.start = r.inner, !.pos = 0, !.cap = o.n]]
        ELSE o : o \in InnerRead(r, S)}

Consume(r, amt) == [r EXCEPT !.pos = Least(@ + amt, r.cap)]

\* Mutant: the massive read bypasses a buffer that still holds data.
BufReadBypassing(r, len) ==
  IF len >= S THEN InnerRead(Discard(r), len)
  ELSE {IF o.kind = "ok"
        THEN Got(Consume(o.rd, Least(len, o.n)), 1, o.from, Least(len, o.n))
        ELSE o : o \in FillBuf(r)}

\* read: a massive read bypasses an empty buffer.
BufRead(r, len) ==
  IF r.pos = r.cap /\ len >= S THEN InnerRead(Discard(r), len)
  ELSE {IF o.kind = "ok"
        THEN Got(Consume(o.rd, Least(len, o.n)), 1, o.from, Least(len, o.n))
        ELSE o : o \in FillBuf(r)}

\* R::seek (external) may also refuse a target that exists.
InnerTarget(r, how) ==
  how.n + (CASE how.from = "start"   -> 0
             [] how.from = "end"     -> Size[1]
             [] how.from = "current" -> r.inner)

InnerSeek(r, how) ==
  {Got([r EXCEPT !.inner = p], 1, p, 0) : p \in {InnerTarget(r, how)} \cap U64}
  \cup {Fails(r, "other")}

Current(n) == [from |-> "current", n |-> n]

\* Mutant: the failed second seek of two leaves the buffer in place.
SeekKeepingBuffer(r, how) ==
  LET rem == Remainder(r)
      discarding(outs) ==
        {IF o.kind = "ok" THEN [o EXCEPT !.rd = Discard(@)] ELSE o : o \in outs}
  IN  IF how.from # "current" THEN discarding(InnerSeek(r, how))
      ELSE IF how.n - rem \in I64 THEN discarding(InnerSeek(r, Current(how.n - rem)))
      ELSE UNION {IF o.kind = "ok" THEN discarding(InnerSeek(o.rd, how)) ELSE {o} :
                    o \in InnerSeek(r, Current(-rem))}

\* seek: relative to what the client has seen; two seeks of R if the offset
\* that takes the buffer into account is no i64 (checked_sub).
BufSeek(r, how) ==
  LET rem == Remainder(r)
      discarding(outs) ==
        {IF o.kind = "ok" THEN [o EXCEPT !.rd = Discard(@)] ELSE o : o \in outs}
  IN  IF how.from # "current" THEN discarding(InnerSeek(r, how))
      ELSE IF how.n - rem \in I64 THEN discarding(InnerSeek(r, Current(how.n - rem)))
      ELSE UNION {IF o.kind = "ok" THEN discarding(InnerSeek(Discard(o.rd), how))
                                   ELSE {o} :
                    o \in InnerSeek(r, Current(-rem))}

-----------------------------------------------------------------------------
(***************************************************************************)
(* Cursor over a slice                                                     *)
(***************************************************************************)

\* read and read_exact of &[u8] with `rest' bytes left; -1 is UnexpectedEof.
SliceRead(rest, len)      == Least(len, rest)
SliceReadExact(rest, len) == IF len > rest THEN -1 ELSE len

\* The rest of the slice; a cursor beyond the end sees an empty one.
CursorFillBuf(r) ==
  LET amt == Least(r.cursor, Size[2]) IN Got(r, 2, amt, Size[2] - amt)

\* The cursor moves on by the n bytes that the slice gave.
CursorGot(r, n) ==
  Got([r EXCEPT !.cursor = @ + n], 2, CursorFillBuf(r).from, n)

CursorRead(r, len) == CursorGot(r, SliceRead(CursorFillBuf(r).n, len))

\* read_exact takes all or nothing.
CursorReadExact(r, len) ==
  LET n == SliceReadExact(CursorFillBuf(r).n, len)
  IN  IF n < 0 THEN Fails(r, "unexpected_eof") ELSE CursorGot(r, n)

\* seek with checked_add and checked_sub.
CursorSeek(r, how) ==
  LET p == how.n + (CASE how.from = "start"   -> 0
                      [] how.from = "end"     -> Size[2]
                      [] how.from = "current" -> r.cursor)
  IN  IF p \in U64 THEN Got([r EXCEPT !.cursor = p], 2, p, 0)
                   ELSE Fails(r, "invalid_input")

-----------------------------------------------------------------------------
(***************************************************************************)
(* Chain and Take                                                          *)
(***************************************************************************)

\* Mutant: the end of the first reader is reported as that of the chain.
ChainReadPausing(r, len) ==
  IF r.done_first THEN {CursorRead(r, len)}
  ELSE {IF o.kind = "ok" /\ o.n = 0 /\ len # 0
        THEN [o EXCEPT !.rd = [@ EXCEPT !.done_first = TRUE]]
        ELSE o : o \in BufRead(r, len)}

ChainRead(r, len) ==
  IF r.done_first THEN {CursorRead(r, len)}
  ELSE {IF o.kind = "ok" /\ o.n = 0 /\ len # 0
        THEN CursorRead([o.rd EXCEPT !.done_first = TRUE], len)
        ELSE o : o \in BufRead(r, len)}

ChainFillBuf(r) ==
  IF r.done_first THEN {CursorFillBuf(r)}
  ELSE {IF o.kind = "ok" /\ o.n = 0
        THEN CursorFillBuf([o.rd EXCEPT !.done_first = TRUE])
        ELSE o : o \in FillBuf(r)}

ChainConsume(r, amt) ==
  IF r.done_first THEN [r EXCEPT !.cursor = @ + amt] ELSE Consume(r, amt)

\* At the limit the inner readers are not asked at all.
TakeRead(r, len) ==
  IF r.limit = 0 THEN {Got(r, 1, 0, 0)}
  ELSE {IF o.kind = "ok" THEN [o EXCEPT !.rd.limit = @ - o.n] ELSE o :
          o \in ChainRead(r, Least(len, r.limit))}

TakeFillBuf(r) ==
  IF r.limit = 0 THEN {Got(r, 1, 0, 0)}
  ELSE {IF o.kind = "ok" THEN [o EXCEPT !.n = Least(@, r.limit)] ELSE o :
          o \in ChainFillBuf(r)}

TakeConsume(r, amt) ==
  LET cut == Least(amt, r.limit)
  IN  ChainConsume([r EXCEPT !.limit = @ - cut], cut)

-----------------------------------------------------------------------------
(***************************************************************************)
(* Single calls on the stack, or on a part of it through get_mut           *)
(***************************************************************************)
Idle == call = NoCall

Seen(o) == IF o.kind = "ok" /\ o.n > 0 THEN Bytes(o.src, o.from, o.n) ELSE Nothing

\* fill_buf() lends bytes; only consume() hands them out.
Peek ==
  /\ Idle
  /\ \E o \in TakeFillBuf(rd) : rd' = o.rd /\ peeked' = o.n
  /\ out' = Nothing
  /\ result' = NoResult
  /\ UNCHANGED call

\* consume(amt), for no more than fill_buf() lent; a limit set meanwhile cuts it.
ConsumePeeked(amt) ==
  /\ Idle
  /\ amt \in 1..peeked
  /\ rd' = TakeConsume(rd, amt)
  /\ peeked' = peeked - amt
  /\ LET n == rd.limit - rd'.limit
     IN  out' = IF n = 0 THEN Nothing
                ELSE IF rd.done_first THEN Bytes(2, rd.cursor, n)
                ELSE Bytes(1, rd.start + rd.pos, n)
  /\ result' = NoResult
  /\ UNCHANGED call

SetLimit(n) ==
  /\ Idle
  /\ rd' = [rd EXCEPT !.limit = n]
  /\ out' = Nothing
  /\ result' = NoResult
  /\ UNCHANGED <<peeked, call>>

\* into_inner of Take, Chain and BufReader takes the stack apart, and new() of
\* each builds it again: what was buffered is lost.
Rebuild(n) ==
  /\ Idle
  /\ rd' = [Discard(rd) EXCEPT !.done_first = FALSE, !.limit = n]
  /\ peeked' = 0
  /\ out' = Nothing
  /\ result' = NoResult
  /\ UNCHANGED call

\* seek on the BufReader, and seek or set_position on the Cursor.
Seek(outcomes) ==
  /\ Idle
  /\ \E o \in outcomes :
       /\ rd' = o.rd
       /\ out' = IF o.kind = "ok" THEN MovedTo(o.src, o.from) ELSE Nothing
  /\ peeked' = 0
  /\ result' = NoResult
  /\ UNCHANGED call

SeekFirst(how)  == Seek(BufSeek(rd, how))
SeekSecond(how) == Seek({CursorSeek(rd, how)})

-----------------------------------------------------------------------------
(***************************************************************************)
(* Calls that may take several reads                                       *)
(***************************************************************************)
Begin(op, want) ==
  /\ Idle
  /\ call' = [op |-> op, want |-> want, got |-> 0, had |-> rd.limit]
  /\ peeked' = 0
  /\ out' = Nothing
  /\ result' = NoResult
  /\ UNCHANGED rd

\* One read() of the stack, whose outcome the call goes on with.
Reading(o) ==
  /\ rd' = o.rd
  /\ out' = Seen(o)
  /\ UNCHANGED peeked

Return(kind, got) ==
  /\ call' = NoCall
  /\ result' = [op |-> call.op, kind |-> kind, want |-> call.want, got |-> got,
                had |-> call.had]

GoOn(got) ==
  /\ call' = [call EXCEPT !.got = got]
  /\ UNCHANGED result

Read ==
  /\ call.op = "read"
  /\ \E o \in TakeRead(rd, call.want) : Reading(o) /\ Return(o.kind, o.n)

\* Mutant: what was read so far is forgotten when R is interrupted.
ReadExactRestarting ==
  /\ call.op = "read_exact"
  /\ call.got < call.want
  /\ \E o \in TakeRead(rd, call.want - call.got) :
       /\ Reading(o)
       /\ IF Retried(o.kind) THEN GoOn(0)
          ELSE IF o.kind # "ok" THEN Return(o.kind, call.got)
          ELSE IF o.n = 0 THEN Return("unexpected_eof", call.got)
          ELSE GoOn(call.got + o.n)

\* Mutant: the loop waits for more at the end of the stream.
ReadExactWaiting ==
  /\ call.op = "read_exact"
  /\ call.got < call.want
  /\ \E o \in TakeRead(rd, call.want - call.got) :
       /\ Reading(o)
       /\ IF Retried(o.kind) THEN GoOn(call.got)
          ELSE IF o.kind # "ok" THEN Return(o.kind, call.got)
          ELSE GoOn(call.got + o.n)

\* A turn of read_exact's loop: an interrupted read is tried again.
ReadExact ==
  /\ call.op = "read_exact"
  /\ call.got < call.want
  /\ \E o \in TakeRead(rd, call.want - call.got) :
       /\ Reading(o)
       /\ IF Retried(o.kind) THEN GoOn(call.got)
          ELSE IF o.kind # "ok" THEN Return(o.kind, call.got)
          ELSE IF o.n = 0 THEN Return("unexpected_eof", call.got)
          ELSE GoOn(call.got + o.n)

ReadExactFilled ==
  /\ call.op = "read_exact"
  /\ call.got = call.want
  /\ Return("ok", call.got)
  /\ out' = Nothing
  /\ UNCHANGED <<rd, peeked>>

\* A turn of read_to_end's loop, with the room that the vector happens to have;
\* an error leaves what was read in the vector (Guard).
ReadToEnd ==
  /\ call.op = "read_to_end"
  /\ \E room \in Lengths \ {0} : \E o \in TakeRead(rd, room) :
       /\ Reading(o)
       /\ IF Retried(o.kind) THEN GoOn(call.got)
          ELSE IF o.kind # "ok" \/ o.n = 0 THEN Return(o.kind, call.got)
          ELSE GoOn(call.got + o.n)

\* Bytes::next; None is the end.
NextByte ==
  /\ call.op = "next"
  /\ \E o \in TakeRead(rd, 1) :
       /\ Reading(o)
       /\ IF Retried(o.kind) THEN GoOn(0) ELSE Return(o.kind, o.n)

\* read_exact on the cursor alone.
SecondReadExact(len) ==
  /\ Idle
  /\ LET o == CursorReadExact(rd, len)
     IN  /\ rd' = o.rd
         /\ out' = Seen(o)
  /\ peeked' = 0
  /\ result' = NoResult
  /\ UNCHANGED call

Turn == Read \/ ReadExact \/ ReadExactFilled \/ ReadToEnd \/ NextByte

Next ==
  \/ Peek
  \/ \E amt \in Lengths : ConsumePeeked(amt)
  \/ \E n \in Limits : SetLimit(n)
  \/ \E n \in Limits : Rebuild(n)
  \/ \E how \in Seeks : SeekFirst(how)
  \/ \E how \in Seeks : SeekSecond(how)
  \/ \E op \in Op, want \in Lengths : Begin(op, want)
  \/ \E len \in Lengths : SecondReadExact(len)
  \/ Turn

Spec == Init /\ [][Next]_vars

\* The client's thread runs, and R is not interrupted for ever.
Fairness == WF_vars(Turn /\ call' # call)

FairSpec == Spec /\ Fairness

-----------------------------------------------------------------------------
(***************************************************************************)
(* Properties                                                              *)
(***************************************************************************)

\* How many bytes a consume() may take without leaving the buffer or slice.
Available ==
  IF rd.done_first THEN CursorFillBuf(rd).n ELSE Remainder(rd)

\* The buffer always holds the bytes right before R's position, none of them
\* beyond the end of the stream, after any mix of short reads, errors, bypasses
\* and seeks; and what fill_buf() lent can still be consumed.
TypeOK ==
  /\ rd \in ReaderState
  /\ rd.pos <= rd.cap /\ rd.cap <= S
  /\ rd.pos < rd.cap => rd.start + rd.cap = rd.inner /\ rd.inner <= Size[1]
  /\ peeked \in 0..Available
  /\ call.op \in Op \cup {"none"}
  /\ call.got \in 0..call.had /\ call.had \in U64 /\ call.want \in U64

\* The adapters are as good as two plain streams: buffering, chaining, the
\* limit and the arithmetic of seeks lose, repeat, reorder or invent no byte,
\* and a failed seek leaves the client's position where it was.
Stream == INSTANCE ByteStream WITH
  at       <- <<rd.inner - Remainder(rd), rd.cursor>>,
  switched <- rd.done_first,
  budget   <- rd.limit

ImplementsByteStream == Stream!Spec

\* The loops of read_exact, read_to_end and Bytes account for every byte that
\* left the adapters, also those read before an interruption or an error.
EveryByteAccountedFor ==
  /\ call.op # "none" => call.got = call.had - rd.limit
  /\ result.op # "none" => result.got = result.had - rd.limit

\* The end of the stream for the client: the limit, or the end of both readers.
AtEnd == rd.limit = 0 \/ (rd.done_first /\ CursorFillBuf(rd).n = 0)

EndReported ==
  \/ result.kind = "unexpected_eof"
  \/ result.op = "read_to_end" /\ result.kind = "ok"
  \/ /\ result.op \in {"read", "next"} /\ result.kind = "ok"
     /\ result.want > 0 /\ result.got = 0

\* read_exact returns Ok exactly when it filled the buffer, and a call reports
\* the end of the stream only there: no short read, interruption or boundary
\* between the two readers is taken for it.
EndIsReal ==
  /\ result.op = "read_exact" => (result.kind = "ok" <=> result.got = result.want)
  /\ EndReported => AtEnd

\* The loops that retry on Interrupted come to an end.
EveryCallReturns == call.op # "none" ~> call.op = "none"
===============================================================================
