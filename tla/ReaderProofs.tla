----------------------------- MODULE ReaderProofs -----------------------------
(***************************************************************************)
(* Theorems about core2's readers, for any streams, buffer, limits and     *)
(* width of the integers.  Each method gets a lemma on its outcomes, and   *)
(* the lemma on TakeRead is all that the loops of Read need to know.       *)
(***************************************************************************)
EXTENDS Readers, TLAPS

-----------------------------------------------------------------------------
(***************************************************************************)
(* Good states and outcomes                                                *)
(***************************************************************************)

\* The part of TypeOK about the stack, for any state of it.
Good(r) ==
  /\ r \in ReaderState
  /\ r.pos <= r.cap /\ r.cap <= S
  /\ r.pos < r.cap => r.start + r.cap = r.inner /\ r.inner <= Size[1]

\* The client's position in the first stream.
At(r) == r.inner - Remainder(r)

Outcome ==
  [rd : ReaderState, kind : {"ok", "interrupted", "other"}, src : {1, 2},
   from : U64, n : Nat]

\* What a read of the first stream leaves alone.
RestKept(r, t) ==
  /\ t.done_first = r.done_first /\ t.cursor = r.cursor /\ t.limit = r.limit

\* The end of both streams.
Ended(r) == r.done_first /\ CursorFillBuf(r).n = 0

\* The outcome o of BufRead in state r, for a buffer of length len.
FirstRead(r, len, o) ==
  /\ o \in Outcome /\ Good(o.rd) /\ RestKept(r, o.rd)
  /\ o.kind = "ok" /\ o.n > 0 =>
       /\ o.src = 1 /\ o.from = At(r) /\ o.n <= len
       /\ At(o.rd) = At(r) + o.n /\ At(o.rd) <= Size[1]
  /\ o.kind # "ok" \/ o.n = 0 => At(o.rd) = At(r) /\ o.n = 0
  /\ o.kind = "ok" /\ o.n = 0 => len = 0 \/ At(r) >= Size[1]

\* An outcome of the chain, or of the whole stack, that hands out o.n bytes, and
\* one that hands out nothing.
Reads(r, len, o) ==
  /\ o.kind = "ok" /\ o.n \in 1..len
  /\ \/ /\ o.src = 1 /\ ~r.done_first /\ ~o.rd.done_first
        /\ o.from = At(r) /\ At(o.rd) = At(r) + o.n /\ At(o.rd) <= Size[1]
        /\ o.rd.cursor = r.cursor
     \/ /\ o.src = 2 /\ o.rd.done_first
        /\ r.done_first \/ At(r) >= Size[1]
        /\ o.from = r.cursor /\ o.rd.cursor = r.cursor + o.n
        /\ o.rd.cursor <= Size[2] /\ At(o.rd) = At(r)

Stays(r, o) ==
  /\ o.kind # "ok" \/ o.n = 0
  /\ o.n = 0
  /\ At(o.rd) = At(r) /\ o.rd.cursor = r.cursor
  /\ o.rd.done_first # r.done_first => o.rd.done_first /\ At(r) >= Size[1]

ChainOutcome(r, len, o) ==
  /\ o \in Outcome /\ Good(o.rd) /\ o.rd.limit = r.limit
  /\ Reads(r, len, o) \/ Stays(r, o)
  /\ Stays(r, o) /\ o.kind = "ok" => len = 0 \/ Ended(o.rd)

TakeOutcome(r, len, o) ==
  /\ o \in Outcome /\ Good(o.rd)
  /\ o.n <= r.limit /\ o.rd.limit = r.limit - o.n
  /\ Reads(r, len, o) \/ Stays(r, o)
  /\ Stays(r, o) /\ o.kind = "ok" => len = 0 \/ o.rd.limit = 0 \/ Ended(o.rd)

LEMMA Constants ==
  /\ Half \in Nat /\ Half >= 1 /\ S \in Nat /\ S >= 1 /\ S < Half
  /\ Size[1] \in Nat /\ Size[1] \in U64 /\ Size[2] \in Nat /\ Size[2] \in U64
BY ReadersAssumption DEF U64

-----------------------------------------------------------------------------
(***************************************************************************)
(* The outcomes of the methods                                             *)
(***************************************************************************)

\* An error leaves R where it was.
LEMMA InnerReadFails ==
  ASSUME NEW r, Good(r), NEW len \in Nat, NEW o \in InnerRead(r, len), o.kind # "ok"
  PROVE  o \in Outcome /\ o.rd = r /\ o.n = 0
BY Constants DEF Fails, Outcome, Good, U64, InnerRead, Got

\* R is asked only while nothing is buffered.
LEMMA InnerReadOutcome ==
  ASSUME NEW r, Good(r), NEW len \in Nat, NEW o \in InnerRead(r, len)
  PROVE  /\ o \in Outcome
         /\ o.kind = "ok" =>
              /\ o.src = 1 /\ o.from = r.inner /\ o.n <= len
              /\ o.rd = [r EXCEPT !.inner = r.inner + o.n]
              /\ o.n > 0 => r.inner + o.n <= Size[1]
              /\ o.n = 0 => len = 0 \/ r.inner >= Size[1]
<1>1. CASE o \in {Fails(r, kind) : kind \in {"interrupted", "other"}}
  BY <1>1, Constants DEF Fails, Outcome, Good, U64
<1>2. ASSUME NEW n \in IF len = 0 \/ r.inner >= Size[1] THEN {0}
                       ELSE 1..Least(len, Size[1] - r.inner),
             o = Got([r EXCEPT !.inner = @ + n], 1, r.inner, n)
      PROVE  /\ n \in Nat /\ n <= len /\ o \in Outcome
             /\ n > 0 => r.inner + n <= Size[1]
             /\ n = 0 => len = 0 \/ r.inner >= Size[1]
  <2>1. r \in ReaderState /\ r.inner \in Nat /\ r.inner \in U64
    BY DEF Good, ReaderState, U64
  <2>2. /\ n \in Nat /\ n <= len
        /\ n > 0 => r.inner + n <= Size[1]
        /\ n = 0 => len = 0 \/ r.inner >= Size[1]
    BY <2>1, <1>2, Constants DEF Least
  <2>3. r.inner + n \in U64
    BY <2>1, <2>2, Constants DEF U64
  <2>4. [r EXCEPT !.inner = @ + n] \in ReaderState
    BY <2>1, <2>3 DEF ReaderState
  <2>5. o \in Outcome
    BY <1>2, <2>1, <2>2, <2>4 DEF Got, Outcome
  <2>6. QED BY <2>2, <2>5
<1>3. QED
  BY <1>1, <1>2 DEF InnerRead, Got, Fails

LEMMA Discarded ==
  ASSUME NEW r, Good(r)
  PROVE  /\ Good(Discard(r)) /\ Discard(r).inner = r.inner
         /\ Discard(r).pos = 0 /\ Discard(r).cap = 0
         /\ At(Discard(r)) = r.inner /\ RestKept(r, Discard(r))
         /\ r.pos = r.cap => At(Discard(r)) = At(r)
<1> DEFINE d == Discard(r)
<1>1. r \in ReaderState /\ r.inner \in Nat /\ r.pos \in Nat /\ r.cap \in Nat
  BY DEF Good, ReaderState, U64
<1>2. d \in ReaderState /\ d.inner = r.inner /\ d.pos = 0 /\ d.cap = 0 /\ RestKept(r, d)
  BY <1>1 DEF Discard, ReaderState, RestKept
<1> HIDE DEF d
<1>3. Good(d) /\ At(d) = r.inner /\ (r.pos = r.cap => At(r) = r.inner)
  BY <1>1, <1>2, Constants DEF Good, At, Remainder
<1>4. QED BY <1>2, <1>3 DEF d

\* The position is never negative, and the buffer holds what lies before R's.
LEMMA Positions ==
  ASSUME NEW r, Good(r)
  PROVE  /\ At(r) \in Nat /\ At(r) \in U64 /\ Remainder(r) \in Nat
         /\ Remainder(r) <= S
         /\ r.pos < r.cap => At(r) = r.start + r.pos /\ At(r) + Remainder(r) <= Size[1]
BY Constants DEF Good, ReaderState, At, Remainder, U64

LEMMA FillBufOutcome ==
  ASSUME NEW r, Good(r), NEW o \in FillBuf(r)
  PROVE  /\ o \in Outcome /\ Good(o.rd) /\ RestKept(r, o.rd) /\ At(o.rd) = At(r)
         /\ o.kind = "ok" => /\ o.src = 1 /\ o.from = At(r) /\ o.n = Remainder(o.rd)
                             /\ o.n = 0 => At(r) >= Size[1]
         /\ o.kind # "ok" => o.n = 0
<1>1. CASE r.pos < r.cap
  <2>1. o = Got(r, 1, r.start + r.pos, Remainder(r))
    BY <1>1 DEF FillBuf
  <2>2. o.rd = r /\ o.n = Remainder(r) /\ o.from = At(r) /\ o.n > 0
        /\ o.kind = "ok" /\ o.src = 1
    BY <1>1, <2>1, Positions DEF Got, Remainder, Good, ReaderState
  <2>3. o \in Outcome
    BY <2>1, <2>2, Positions DEF Got, Outcome, Good
  <2>4. QED BY <2>2, <2>3 DEF RestKept
<1>2. CASE ~(r.pos < r.cap)
  <2>1. PICK i \in InnerRead(r, S) :
          o = IF i.kind = "ok"
              THEN [i EXCEPT !.rd = [@ EXCEPT !.start = r.inner, !.pos = 0, !.cap = i.n]]
              ELSE i
    BY <1>2 DEF FillBuf
  <2>2. r.pos = r.cap /\ At(r) = r.inner /\ r.inner \in U64 /\ r \in ReaderState
    BY <1>2 DEF Good, ReaderState, At, Remainder, U64
  <2>3. CASE i.kind # "ok"
    <3>1. i \in Outcome /\ i.rd = r /\ i.n = 0
      BY <2>3, InnerReadFails, Constants
    <3>2. QED BY <2>1, <2>3, <3>1 DEF RestKept
  <2>4. CASE i.kind = "ok"
    <3>1. /\ i \in Outcome /\ i.n <= S /\ i.rd = [r EXCEPT !.inner = r.inner + i.n]
          /\ i.src = 1 /\ i.from = r.inner
          /\ i.n > 0 => r.inner + i.n <= Size[1]
          /\ i.n = 0 => r.inner >= Size[1]
      BY <2>4, InnerReadOutcome, Constants
    <3>2. i.rd \in ReaderState /\ i.n \in Nat
      BY <3>1 DEF Outcome
    <3> DEFINE t == [i.rd EXCEPT !.start = r.inner, !.pos = 0, !.cap = i.n]
    <3>3. /\ t \in ReaderState /\ t.pos = 0 /\ t.cap = i.n /\ t.start = r.inner
          /\ t.inner = r.inner + i.n /\ RestKept(r, t)
      BY <2>2, <3>1, <3>2 DEF ReaderState, RestKept
    <3>4. o = [i EXCEPT !.rd = t]
      BY <2>1, <2>4
    <3>5. o \in Outcome /\ o.rd = t /\ o.n = i.n /\ o.src = 1 /\ o.from = r.inner
          /\ o.kind = "ok"
      BY <2>4, <3>1, <3>3, <3>4 DEF Outcome
    <3> HIDE DEF t
    <3>6. Good(t) /\ At(t) = r.inner /\ Remainder(t) = i.n
      BY <2>2, <3>1, <3>2, <3>3 DEF Good, At, Remainder, U64
    <3>7. QED
      BY <2>2, <3>1, <3>3, <3>5, <3>6
  <2>5. QED BY <2>3, <2>4
<1>3. QED BY <1>1, <1>2

\* consume(amt) for an amt that is there moves on by amt.
LEMMA Consumed ==
  ASSUME NEW r, Good(r), NEW amt \in Nat, amt <= Remainder(r)
  PROVE  /\ Good(Consume(r, amt)) /\ RestKept(r, Consume(r, amt))
         /\ At(Consume(r, amt)) = At(r) + amt
         /\ Remainder(Consume(r, amt)) = Remainder(r) - amt
<1>1. r \in ReaderState /\ r.pos \in Nat /\ r.cap \in Nat /\ r.inner \in Int
  BY DEF Good, ReaderState, U64
<1>2. Least(r.pos + amt, r.cap) = r.pos + amt
  BY <1>1 DEF Least, Remainder
<1>3. Consume(r, amt) = [r EXCEPT !.pos = r.pos + amt]
  BY <1>2 DEF Consume
<1>4. QED
  BY <1>1, <1>3 DEF Good, ReaderState, At, Remainder, RestKept

LEMMA BufReadOutcome ==
  ASSUME NEW r, Good(r), NEW len \in Nat, NEW o \in BufRead(r, len)
  PROVE  FirstRead(r, len, o)
<1>1. CASE r.pos = r.cap /\ len >= S
  <2> DEFINE d == Discard(r)
  <2>1. Good(d) /\ d.pos = 0 /\ d.cap = 0 /\ d.inner = At(r) /\ RestKept(r, d)
    BY <1>1, Discarded DEF At, Remainder, Good, ReaderState, U64
  <2>2. o \in InnerRead(d, len)
    BY <1>1 DEF BufRead
  <2> HIDE DEF d
  <2>3. d \in ReaderState /\ d.inner \in Nat
    BY <2>1 DEF Good, ReaderState, U64
  <2>4. CASE o.kind # "ok"
    <3>1. o \in Outcome /\ o.rd = d /\ o.n = 0
      BY <2>1, <2>2, <2>4, InnerReadFails
    <3>2. At(d) = At(r)
      BY <2>1, <2>3 DEF At, Remainder
    <3>3. QED BY <2>1, <2>4, <3>1, <3>2 DEF FirstRead
  <2>5. CASE o.kind = "ok"
    <3>1. /\ o \in Outcome /\ o.src = 1 /\ o.from = d.inner /\ o.n <= len
          /\ o.rd = [d EXCEPT !.inner = d.inner + o.n]
          /\ o.n > 0 => d.inner + o.n <= Size[1]
          /\ o.n = 0 => len = 0 \/ d.inner >= Size[1]
      BY <2>1, <2>2, <2>5, InnerReadOutcome
    <3>2. o.rd \in ReaderState /\ o.n \in Nat
      BY <3>1 DEF Outcome
    <3>3. /\ o.rd.inner = d.inner + o.n /\ o.rd.pos = 0 /\ o.rd.cap = 0
          /\ RestKept(d, o.rd)
      BY <2>1, <2>3, <3>1 DEF ReaderState, RestKept
    <3>4. Good(o.rd) /\ At(o.rd) = d.inner + o.n /\ RestKept(r, o.rd)
      BY <2>1, <2>3, <3>2, <3>3, Constants DEF Good, At, Remainder, RestKept
    <3>5. At(o.rd) = At(r) + o.n
      BY <2>1, <3>4
    <3>6. QED
      BY <2>1, <2>3, <2>5, <3>1, <3>2, <3>4, <3>5 DEF FirstRead
  <2>6. QED BY <2>4, <2>5
<1>2. CASE ~(r.pos = r.cap /\ len >= S)
  <2>1. PICK i \in FillBuf(r) :
          o = IF i.kind = "ok"
              THEN Got(Consume(i.rd, Least(len, i.n)), 1, i.from, Least(len, i.n))
              ELSE i
    BY <1>2 DEF BufRead
  <2>2. CASE i.kind # "ok"
    BY <2>1, <2>2, FillBufOutcome DEF FirstRead
  <2>3. CASE i.kind = "ok"
    <3> DEFINE n == Least(len, i.n)
    <3>1. /\ i \in Outcome /\ Good(i.rd) /\ RestKept(r, i.rd) /\ At(i.rd) = At(r)
          /\ i.from = At(r) /\ i.n = Remainder(i.rd) /\ i.n \in Nat
          /\ i.n = 0 => At(r) >= Size[1]
      BY <2>3, FillBufOutcome DEF Outcome
    <3>2. /\ n \in Nat /\ n <= len /\ n <= i.n
          /\ n = 0 => len = 0 \/ i.n = 0
      BY <3>1 DEF Least
    <3>3. o = Got(Consume(i.rd, n), 1, At(r), n)
      BY <2>1, <2>3, <3>1
    <3> HIDE DEF n
    <3>4. /\ o.rd = Consume(i.rd, n) /\ o.n = n /\ o.from = At(r) /\ o.src = 1
          /\ o.kind = "ok"
      BY <3>3 DEF Got
    <3>5. /\ Good(o.rd) /\ RestKept(i.rd, o.rd) /\ At(o.rd) = At(r) + n
      BY <3>1, <3>2, <3>4, Consumed
    <3>6. o \in Outcome
      BY <3>2, <3>3, <3>4, <3>5, Positions DEF Got, Outcome, Good
    <3>7. n > 0 => At(o.rd) <= Size[1]
      <4>1. i.rd.pos < i.rd.cap <=> i.n > 0
        BY <3>1 DEF Good, ReaderState, Remainder
      <4>2. i.n > 0 => At(r) + i.n <= Size[1]
        BY <3>1, <4>1, Positions
      <4>3. At(r) \in Nat
        BY Positions
      <4>4. QED BY <3>1, <3>2, <3>5, <4>2, <4>3, Constants
    <3>8. RestKept(r, o.rd)
      BY <3>1, <3>5 DEF RestKept
    <3>9. At(r) \in Nat
      BY Positions
    <3>10. QED
      BY <3>1, <3>2, <3>4, <3>5, <3>6, <3>7, <3>8, <3>9 DEF FirstRead
  <2>4. QED BY <2>2, <2>3
<1>3. QED BY <1>1, <1>2

\* The cursor hands out what is left of the slice, in its place.
LEMMA CursorReadOutcome ==
  ASSUME NEW r, Good(r), r.done_first, NEW len \in Nat
  PROVE  ChainOutcome(r, len, CursorRead(r, len))
<1> DEFINE amt == Least(r.cursor, Size[2])
           n == Least(len, Size[2] - amt)
           t == [r EXCEPT !.cursor = r.cursor + n]
<1>1. r \in ReaderState /\ r.cursor \in Nat /\ r.cursor \in U64
  BY DEF Good, ReaderState, U64
<1>2. CursorRead(r, len) = Got(t, 2, amt, n)
  BY DEF CursorRead, CursorGot, CursorFillBuf, SliceRead, Got
<1>3. /\ n \in Nat /\ n <= len /\ amt \in Nat /\ amt \in U64 /\ amt <= Size[2]
      /\ n > 0 => amt = r.cursor /\ r.cursor + n <= Size[2]
      /\ n = 0 => len = 0 \/ Size[2] - amt = 0
  BY <1>1, Constants DEF Least, U64
<1> HIDE DEF n, amt
<1>4. r.cursor + n \in U64
  BY <1>1, <1>3, Constants DEF U64
<1>5. /\ t \in ReaderState /\ t.cursor = r.cursor + n /\ t.done_first = r.done_first
      /\ t.inner = r.inner /\ t.pos = r.pos /\ t.cap = r.cap /\ t.start = r.start
      /\ t.limit = r.limit
  BY <1>1, <1>4 DEF ReaderState
<1> HIDE DEF t
<1>6. Good(t) /\ At(t) = At(r)
  BY <1>5 DEF Good, At, Remainder
<1> DEFINE o == CursorRead(r, len)
<1>7. /\ o \in Outcome /\ o.rd = t /\ o.n = n /\ o.kind = "ok" /\ o.src = 2
      /\ o.from = amt
  BY <1>2, <1>3, <1>5 DEF Got, Outcome
<1> HIDE DEF o
<1>8. CASE n > 0
  <2>1. o.n \in 1..len
    BY <1>3, <1>7, <1>8
  <2>2. o.from = r.cursor /\ o.rd.cursor = r.cursor + o.n /\ o.rd.cursor <= Size[2]
    BY <1>3, <1>5, <1>7, <1>8
  <2>3. Reads(r, len, o)
    BY <1>5, <1>6, <1>7, <2>1, <2>2 DEF Reads
  <2>4. o.n # 0
    BY <2>1
  <2>5. ~Stays(r, o)
    BY <2>4 DEF Stays
  <2>6. QED BY <1>5, <1>6, <1>7, <2>3, <2>5 DEF ChainOutcome, o
<1>9. CASE n = 0
  <2>1. t.cursor = r.cursor
    BY <1>1, <1>5, <1>9
  <2>2. Stays(r, o)
    BY <1>5, <1>6, <1>7, <1>9, <2>1 DEF Stays
  <2>3. CursorFillBuf(t).n = Size[2] - amt
    BY <2>1 DEF CursorFillBuf, Got, amt
  <2>4. len = 0 \/ Ended(o.rd)
    BY <1>3, <1>5, <1>7, <1>9, <2>3 DEF Ended
  <2>5. QED BY <1>5, <1>6, <1>7, <2>2, <2>4 DEF ChainOutcome, o
<1>10. QED BY <1>3, <1>8, <1>9

\* The chain switches only at the end of the first reader.
LEMMA ChainReadOutcome ==
  ASSUME NEW r, Good(r), NEW len \in Nat, NEW o \in ChainRead(r, len)
  PROVE  ChainOutcome(r, len, o)
<1>1. CASE r.done_first
  BY <1>1, CursorReadOutcome DEF ChainRead
<1>2. CASE ~r.done_first
  <2>1. PICK i \in BufRead(r, len) :
          o = IF i.kind = "ok" /\ i.n = 0 /\ len # 0
              THEN CursorRead([i.rd EXCEPT !.done_first = TRUE], len) ELSE i
    BY <1>2 DEF ChainRead
  <2>2. FirstRead(r, len, i)
    BY BufReadOutcome
  <2>3. /\ i \in Outcome /\ Good(i.rd) /\ RestKept(r, i.rd) /\ i.n \in Nat
        /\ i.rd \in ReaderState
    BY <2>2 DEF FirstRead, Outcome
  <2>4. CASE i.kind = "ok" /\ i.n = 0 /\ len # 0
    <3> DEFINE t == [i.rd EXCEPT !.done_first = TRUE]
    <3>1. /\ t \in ReaderState /\ t.cursor = r.cursor /\ t.done_first
          /\ t.inner = i.rd.inner /\ t.pos = i.rd.pos /\ t.cap = i.rd.cap
          /\ t.start = i.rd.start /\ t.limit = r.limit
      BY <2>3 DEF ReaderState, RestKept
    <3>2. o = CursorRead(t, len)
      BY <2>1, <2>4
    <3> HIDE DEF t
    <3>3. At(t) = At(r) /\ At(r) >= Size[1]
      BY <2>2, <2>4, <3>1 DEF FirstRead, At, Remainder
    <3>4. Good(t)
      BY <2>3, <3>1 DEF Good
    <3>5. ChainOutcome(t, len, o)
      BY <3>1, <3>2, <3>4, CursorReadOutcome
    <3>6. Reads(t, len, o) => Reads(r, len, o)
      BY <1>2, <3>1, <3>3 DEF Reads
    <3>7. Stays(t, o) => o.rd.done_first
      BY <3>1 DEF Stays
    <3>8. Stays(t, o) => Stays(r, o)
      BY <3>1, <3>3, <3>7 DEF Stays
    <3>9. Stays(r, o) => ~Reads(t, len, o)
      BY DEF Stays, Reads
    <3>10. QED
      BY <3>1, <3>5, <3>6, <3>8, <3>9 DEF ChainOutcome
  <2>5. CASE ~(i.kind = "ok" /\ i.n = 0 /\ len # 0)
    <3>1. o = i
      BY <2>1, <2>5
    <3>2. CASE i.kind = "ok" /\ i.n > 0
      <4>1. Reads(r, len, i)
        BY <1>2, <2>2, <2>3, <3>2 DEF FirstRead, Reads, RestKept
      <4>2. ~Stays(r, i)
        BY <3>2 DEF Stays
      <4>3. QED BY <2>3, <3>1, <4>1, <4>2 DEF ChainOutcome, RestKept
    <3>3. CASE i.kind # "ok" \/ i.n = 0
      <4>1. Stays(r, i)
        BY <2>2, <2>3, <3>3 DEF FirstRead, Stays, RestKept
      <4>2. i.kind = "ok" => len = 0
        BY <2>2, <2>5, <3>3 DEF FirstRead
      <4>3. QED BY <2>3, <3>1, <4>1, <4>2 DEF ChainOutcome, RestKept
    <3>4. QED BY <2>3, <3>2, <3>3
  <2>6. QED BY <2>4, <2>5
<1>3. QED BY <1>1, <1>2

\* What the loops of Read rely on.
LEMMA TakeReadOutcome ==
  ASSUME NEW r, Good(r), NEW len \in Nat, NEW o \in TakeRead(r, len)
  PROVE  TakeOutcome(r, len, o)
<1>1. r \in ReaderState /\ r.limit \in Nat /\ r.limit \in U64
  BY DEF Good, ReaderState, U64
<1>2. CASE r.limit = 0
  <2>1. o = Got(r, 1, 0, 0)
    BY <1>2 DEF TakeRead
  <2>2. o \in Outcome /\ o.rd = r /\ o.n = 0 /\ o.kind = "ok"
    BY <1>1, <2>1, Constants DEF Got, Outcome, U64
  <2>3. Stays(r, o)
    BY <2>2 DEF Stays
  <2>4. QED BY <1>1, <1>2, <2>2, <2>3 DEF TakeOutcome
<1>3. CASE r.limit # 0
  <2> DEFINE most == Least(len, r.limit)
  <2>1. PICK i \in ChainRead(r, most) :
          o = IF i.kind = "ok" THEN [i EXCEPT !.rd.limit = @ - i.n] ELSE i
    BY <1>3 DEF TakeRead
  <2>2. most \in Nat /\ most <= len /\ most <= r.limit /\ (most = 0 => len = 0)
    BY <1>1, <1>3 DEF Least
  <2> HIDE DEF most
  <2>3. ChainOutcome(r, most, i)
    BY <2>2, ChainReadOutcome
  <2>4. /\ i \in Outcome /\ Good(i.rd) /\ i.rd.limit = r.limit /\ i.n \in Nat
        /\ i.rd \in ReaderState /\ i.n <= r.limit
        /\ Reads(r, most, i) \/ Stays(r, i)
        /\ Stays(r, i) /\ i.kind = "ok" => len = 0 \/ Ended(i.rd)
    BY <1>1, <2>2, <2>3 DEF ChainOutcome, Outcome, Reads, Stays
  <2>5. CASE i.kind # "ok"
    <3>1. o = i
      BY <2>1, <2>5
    <3>2. Stays(r, i) /\ i.n = 0
      BY <2>4, <2>5 DEF Reads, Stays
    <3>3. QED BY <1>1, <2>4, <2>5, <3>1, <3>2 DEF TakeOutcome
  <2>6. CASE i.kind = "ok"
    <3> DEFINE t == [i.rd EXCEPT !.limit = i.rd.limit - i.n]
    <3>1. r.limit - i.n \in U64
      BY <1>1, <2>4, Constants DEF U64
    <3>2. /\ t \in ReaderState /\ t.cursor = i.rd.cursor
          /\ t.done_first = i.rd.done_first /\ t.start = i.rd.start
          /\ t.inner = i.rd.inner /\ t.pos = i.rd.pos /\ t.cap = i.rd.cap
          /\ t.limit = r.limit - i.n
      BY <2>4, <3>1 DEF ReaderState
    <3>3. o = [i EXCEPT !.rd = t]
      BY <2>1, <2>4, <2>6 DEF Outcome, ReaderState
    <3> HIDE DEF t
    <3>4. /\ o \in Outcome /\ o.rd = t /\ o.n = i.n /\ o.src = i.src /\ o.kind = "ok"
          /\ o.from = i.from
      BY <2>4, <2>6, <3>2, <3>3 DEF Outcome
    <3>5. Good(t) /\ At(t) = At(i.rd) /\ (Ended(i.rd) => Ended(t))
      BY <2>4, <3>2 DEF Good, At, Remainder, Ended, CursorFillBuf, Got
    <3>6. Reads(r, most, i) => Reads(r, len, o)
      BY <2>2, <2>4, <3>2, <3>4, <3>5 DEF Reads
    <3>7. Stays(r, i) <=> Stays(r, o)
      BY <2>6, <3>2, <3>4, <3>5 DEF Stays
    <3>8. QED
      BY <2>4, <2>6, <3>2, <3>4, <3>5, <3>6, <3>7 DEF TakeOutcome
  <2>7. QED BY <2>5, <2>6
<1>4. QED BY <1>2, <1>3

\* How many bytes a consume() may take.
Avail(r) == IF r.done_first THEN CursorFillBuf(r).n ELSE Remainder(r)

LEMMA CursorRest ==
  ASSUME NEW r, Good(r)
  PROVE  /\ CursorFillBuf(r).n \in Nat /\ CursorFillBuf(r).rd = r
         /\ CursorFillBuf(r).kind = "ok"
         /\ CursorFillBuf(r).from \in Nat
         /\ CursorFillBuf(r).n > 0 =>
              /\ CursorFillBuf(r).from = r.cursor
              /\ r.cursor + CursorFillBuf(r).n <= Size[2]
<1>1. r.cursor \in Nat
  BY DEF Good, ReaderState, U64
<1>2. QED
  BY <1>1, Constants DEF CursorFillBuf, Got, Least

LEMMA TakeFillBufOutcome ==
  ASSUME NEW r, Good(r), NEW o \in TakeFillBuf(r)
  PROVE  /\ Good(o.rd) /\ At(o.rd) = At(r) /\ o.rd.cursor = r.cursor
         /\ o.rd.limit = r.limit
         /\ o.rd.done_first # r.done_first => o.rd.done_first /\ At(r) >= Size[1]
         /\ o.n \in 0..Avail(o.rd)
<1>1. Good(r) => r \in ReaderState /\ r.limit \in Nat /\ Remainder(r) \in Nat
  BY Positions DEF Good, ReaderState, U64
<1>2. CASE r.limit = 0
  <2>1. o.rd = r /\ o.n = 0
    BY <1>2 DEF TakeFillBuf, Got
  <2>2. Avail(r) \in Nat
    BY CursorRest, Positions DEF Avail
  <2>3. QED BY <2>1, <2>2
<1>3. CASE r.limit # 0
  <2>1. PICK i \in ChainFillBuf(r) :
          o = IF i.kind = "ok" THEN [i EXCEPT !.n = Least(@, r.limit)] ELSE i
    BY <1>3 DEF TakeFillBuf
  <2>2. /\ Good(i.rd) /\ At(i.rd) = At(r) /\ i.rd.cursor = r.cursor
        /\ i.rd.limit = r.limit
        /\ i.rd.done_first # r.done_first => i.rd.done_first /\ At(r) >= Size[1]
        /\ IF i.kind = "ok" THEN i.n = Avail(i.rd) ELSE i.n = 0
        /\ i = [rd |-> i.rd, kind |-> i.kind, src |-> i.src, from |-> i.from, n |-> i.n]
    <3>1. CASE r.done_first
      <4>1. i = CursorFillBuf(r)
        BY <3>1 DEF ChainFillBuf
      <4>2. i = [rd |-> i.rd, kind |-> i.kind, src |-> i.src, from |-> i.from, n |-> i.n]
        BY <4>1 DEF CursorFillBuf, Got
      <4>3. QED BY <3>1, <4>1, <4>2, CursorRest DEF Avail
    <3>2. CASE ~r.done_first
      <4>1. PICK b \in FillBuf(r) :
              i = IF b.kind = "ok" /\ b.n = 0
                  THEN CursorFillBuf([b.rd EXCEPT !.done_first = TRUE]) ELSE b
        BY <3>2 DEF ChainFillBuf
      <4>2. /\ b \in Outcome /\ Good(b.rd) /\ RestKept(r, b.rd) /\ At(b.rd) = At(r)
            /\ b.kind = "ok" => b.n = Remainder(b.rd)
            /\ b.kind = "ok" /\ b.n = 0 => At(r) >= Size[1]
        BY FillBufOutcome
      <4>3. b.kind # "ok" => b.n = 0
        BY FillBufOutcome
      <4>4. CASE b.kind = "ok" /\ b.n = 0
        <5> DEFINE t == [b.rd EXCEPT !.done_first = TRUE]
        <5>1. b.rd \in ReaderState
          BY <4>2 DEF Good
        <5>2. /\ t \in ReaderState /\ t.cursor = r.cursor /\ t.done_first
              /\ t.inner = b.rd.inner /\ t.pos = b.rd.pos /\ t.cap = b.rd.cap
              /\ t.start = b.rd.start /\ t.limit = r.limit
          BY <4>2, <5>1 DEF ReaderState, RestKept
        <5>3. i = CursorFillBuf(t)
          BY <4>1, <4>4
        <5> HIDE DEF t
        <5>4. Good(t) /\ At(t) = At(r)
          BY <4>2, <5>2 DEF Good, At, Remainder
        <5>5. i = [rd |-> i.rd, kind |-> i.kind, src |-> i.src, from |-> i.from, n |-> i.n]
          BY <5>3 DEF CursorFillBuf, Got
        <5>6. i.rd = t /\ i.kind = "ok" /\ i.n = Avail(t)
          BY <5>2, <5>3, <5>4, CursorRest DEF Avail
        <5>7. QED BY <4>2, <4>4, <5>2, <5>4, <5>5, <5>6
      <4>5. CASE ~(b.kind = "ok" /\ b.n = 0)
        <5>1. i = b
          BY <4>1, <4>5
        <5>2. i = [rd |-> i.rd, kind |-> i.kind, src |-> i.src, from |-> i.from, n |-> i.n]
          BY <4>2, <5>1 DEF Outcome
        <5>3. QED BY <3>2, <4>2, <4>3, <5>1, <5>2 DEF RestKept, Avail
      <4>6. QED BY <4>4, <4>5
    <3>3. QED BY <3>1, <3>2
  <2>3. Avail(i.rd) \in Nat
    BY <2>2, CursorRest, Positions DEF Avail
  <2>4. o.rd = i.rd /\ o.n = IF i.kind = "ok" THEN Least(i.n, r.limit) ELSE i.n
    BY <2>1, <2>2
  <2>5. o.n \in 0..Avail(i.rd)
    BY <1>1, <2>2, <2>3, <2>4 DEF Least
  <2>6. QED BY <2>2, <2>4, <2>5
<1>4. QED BY <1>2, <1>3

LEMMA TakeConsumed ==
  ASSUME NEW r, Good(r), NEW amt \in Nat, amt <= Avail(r),
         NEW t, t = TakeConsume(r, amt)
  PROVE  /\ Good(t) /\ t.done_first = r.done_first
         /\ t.limit \in Nat /\ r.limit \in Nat /\ t.limit <= r.limit
         /\ r.done_first => /\ At(t) = At(r)
                            /\ t.cursor = r.cursor + (r.limit - t.limit)
                            /\ t.limit # r.limit => t.cursor <= Size[2]
         /\ ~r.done_first => /\ t.cursor = r.cursor
                             /\ At(t) = At(r) + (r.limit - t.limit)
                             /\ t.limit # r.limit =>
                                  At(t) <= Size[1] /\ At(r) = r.start + r.pos
         /\ Avail(t) \in Nat /\ Avail(r) - amt <= Avail(t)
<1> DEFINE cut == Least(amt, r.limit)
           l == [r EXCEPT !.limit = r.limit - cut]
<1>1. r \in ReaderState /\ r.limit \in Nat /\ r.limit \in U64 /\ r.cursor \in Nat
      /\ r.cursor \in U64
  BY DEF Good, ReaderState, U64
<1>2. cut \in Nat /\ cut <= amt /\ cut <= r.limit
  BY <1>1 DEF Least
<1>3. t = ChainConsume(l, cut)
  BY DEF TakeConsume
<1> HIDE DEF cut
<1>4. r.limit - cut \in U64 /\ r.limit - cut \in Nat
  BY <1>1, <1>2, Constants DEF U64
<1>5. /\ l \in ReaderState /\ l.limit = r.limit - cut /\ l.cursor = r.cursor
      /\ l.done_first = r.done_first /\ l.inner = r.inner /\ l.pos = r.pos
      /\ l.cap = r.cap /\ l.start = r.start
  BY <1>1, <1>4 DEF ReaderState
<1> HIDE DEF l
<1>6. Good(l) /\ At(l) = At(r) /\ Remainder(l) = Remainder(r)
  BY <1>5 DEF Good, At, Remainder
<1>7. r.limit - l.limit = cut /\ (l.limit # r.limit <=> cut > 0)
  BY <1>1, <1>2, <1>5
<1>8. CASE r.done_first
  <2> DEFINE u == [l EXCEPT !.cursor = l.cursor + cut]
  <2>1. t = u
    BY <1>3, <1>5, <1>8 DEF ChainConsume
  <2>2. CursorFillBuf(r).n \in Nat /\ amt <= CursorFillBuf(r).n
    BY <1>8, CursorRest DEF Avail
  <2>3. cut > 0 => r.cursor + cut <= Size[2]
    BY <1>1, <1>2, <2>2, CursorRest, Constants
  <2>4. r.cursor + cut \in U64
    BY <1>1, <1>2, <2>3, Constants DEF U64
  <2>5. /\ u \in ReaderState /\ u.limit = l.limit /\ u.cursor = r.cursor + cut
        /\ u.done_first /\ u.inner = r.inner /\ u.pos = r.pos
        /\ u.cap = r.cap /\ u.start = r.start
    BY <1>5, <1>8, <2>4 DEF ReaderState
  <2> HIDE DEF u
  <2>6. Good(u) /\ At(u) = At(r)
    BY <2>5 DEF Good, At, Remainder
  <2>7. Avail(u) = Size[2] - Least(r.cursor + cut, Size[2])
    BY <2>5 DEF Avail, CursorFillBuf, Got
  <2>8. Avail(r) = Size[2] - Least(r.cursor, Size[2])
    BY <1>8 DEF Avail, CursorFillBuf, Got
  <2>9. Avail(u) \in Nat /\ Avail(r) - amt <= Avail(u)
    BY <1>1, <1>2, <2>7, <2>8, Constants DEF Least
  <2>10. QED
    BY <1>1, <1>4, <1>5, <1>7, <1>8, <2>1, <2>3, <2>5, <2>6, <2>9, <1>2
<1>9. CASE ~r.done_first
  <2>1. t = Consume(l, cut)
    BY <1>3, <1>5, <1>9 DEF ChainConsume
  <2>2. Remainder(r) \in Nat /\ cut <= Remainder(l) /\ amt <= Remainder(r)
    BY <1>2, <1>6, <1>9, Positions DEF Avail
  <2>3. /\ Good(t) /\ RestKept(l, t) /\ At(t) = At(l) + cut
        /\ Remainder(t) = Remainder(l) - cut
    BY <1>2, <1>6, <2>1, <2>2, Consumed
  <2>4. cut > 0 => r.pos < r.cap
    BY <1>1, <1>2, <2>2 DEF Remainder, ReaderState
  <2>5. At(r) \in Nat
    BY Positions
  <2>6. cut > 0 => At(t) <= Size[1] /\ At(r) = r.start + r.pos
    BY <1>2, <1>6, <2>2, <2>3, <2>4, <2>5, Positions, Constants
  <2>7. /\ t.done_first = r.done_first /\ t.limit = l.limit /\ t.cursor = r.cursor
    BY <1>5, <2>3 DEF RestKept
  <2>8. Avail(t) = Remainder(r) - cut /\ Avail(r) = Remainder(r)
    BY <1>6, <1>9, <2>3, <2>7 DEF Avail
  <2>9. QED
    BY <1>1, <1>2, <1>4, <1>5, <1>6, <1>7, <1>9, <2>2, <2>3, <2>5, <2>6, <2>7, <2>8
<1>10. QED BY <1>8, <1>9

-----------------------------------------------------------------------------
(***************************************************************************)
(* Seeks                                                                   *)
(***************************************************************************)

\* Where a seek on the first reader ought to go.
FirstTarget(r, how) ==
  CASE how.from = "start"   -> how.n
    [] how.from = "end"     -> Size[1] + how.n
    [] how.from = "current" -> At(r) + how.n

\* It goes there, or the client's position is as before.
FirstSeek(r, how, o) ==
  /\ Good(o.rd) /\ RestKept(r, o.rd)
  /\ IF o.kind = "ok"
     THEN /\ FirstTarget(r, how) \in U64 /\ At(o.rd) = FirstTarget(r, how)
          /\ o.src = 1 /\ o.from = FirstTarget(r, how)
     ELSE At(o.rd) = At(r)

LEMMA SeekTypes ==
  ASSUME NEW how \in SeekFrom
  PROVE  how.n \in Int /\ how.from \in {"start", "end", "current"}
BY ReadersAssumption DEF SeekFrom, U64, I64

LEMMA InnerSeekOutcome ==
  ASSUME NEW r, Good(r), NEW how, how.n \in Int,
         how.from \in {"start", "end", "current"}, NEW o \in InnerSeek(r, how)
  PROVE  \/ /\ o.kind = "ok" /\ o.src = 1 /\ o.from = InnerTarget(r, how)
            /\ o.from \in U64 /\ o.rd = [r EXCEPT !.inner = o.from]
            /\ o = [rd |-> o.rd, kind |-> "ok", src |-> 1, from |-> o.from, n |-> 0]
         \/ o.kind # "ok" /\ o.rd = r
<1>1. CASE o = Fails(r, "other")
  BY <1>1 DEF Fails
<1>2. ASSUME NEW p \in {InnerTarget(r, how)} \cap U64,
             o = Got([r EXCEPT !.inner = p], 1, p, 0)
      PROVE  /\ o.kind = "ok" /\ o.src = 1 /\ o.from = InnerTarget(r, how)
             /\ o.from \in U64 /\ o.rd = [r EXCEPT !.inner = o.from]
             /\ o = [rd |-> o.rd, kind |-> "ok", src |-> 1, from |-> o.from, n |-> 0]
  BY <1>2 DEF Got
<1>3. QED BY <1>1, <1>2 DEF InnerSeek

\* R moved to p, with the buffer thrown away or empty.
LEMMA Moved1 ==
  ASSUME NEW r, Good(r), NEW p \in U64
  PROVE  LET t == Discard([r EXCEPT !.inner = p])
         IN  Good(t) /\ RestKept(r, t) /\ At(t) = p /\ t.inner = p
<1> DEFINE t == Discard([r EXCEPT !.inner = p])
<1>1. r \in ReaderState
  BY DEF Good
<1>2. [r EXCEPT !.inner = p] \in ReaderState
  BY <1>1 DEF ReaderState
<1>3. t \in ReaderState /\ t.inner = p /\ t.pos = 0 /\ t.cap = 0 /\ RestKept(r, t)
  BY <1>1, <1>2 DEF Discard, ReaderState, RestKept
<1> HIDE DEF t
<1>4. p \in Nat
  BY Constants DEF U64
<1>5. Good(t) /\ At(t) = p
  BY <1>3, <1>4, Constants DEF Good, At, Remainder
<1>6. QED BY <1>3, <1>5 DEF t

LEMMA BufSeekOutcome ==
  ASSUME NEW r, Good(r), NEW how \in SeekFrom, NEW o \in BufSeek(r, how)
  PROVE  FirstSeek(r, how, o)
<1> DEFINE discarding(outs) ==
             {IF i.kind = "ok" THEN [i EXCEPT !.rd = Discard(@)] ELSE i : i \in outs}
           rem == Remainder(r)
<1>1. r \in ReaderState /\ r.inner \in Nat /\ rem \in Nat /\ At(r) \in Nat
      /\ At(r) = r.inner - rem /\ At(r) \in U64
  BY Positions DEF Good, ReaderState, U64, At
<1> HIDE DEF rem
<1>2. ASSUME NEW s, Good(s), RestKept(r, s), At(s) = At(r),
             NEW h, h.n \in Int, h.from \in {"start", "end", "current"},
             InnerTarget(s, h) = FirstTarget(r, how),
             o \in discarding(InnerSeek(s, h))
      PROVE  FirstSeek(r, how, o)
  <2>1. PICK i \in InnerSeek(s, h) :
          o = IF i.kind = "ok" THEN [i EXCEPT !.rd = Discard(@)] ELSE i
    BY <1>2
  <2>2. CASE i.kind # "ok"
    BY <1>2, <2>1, <2>2, InnerSeekOutcome DEF FirstSeek
  <2>3. CASE i.kind = "ok"
    <3>1. /\ i.src = 1 /\ i.from = FirstTarget(r, how) /\ i.from \in U64
          /\ i.rd = [s EXCEPT !.inner = i.from]
      BY <1>2, <2>3, InnerSeekOutcome
    <3>3. i = [rd |-> i.rd, kind |-> "ok", src |-> 1, from |-> i.from, n |-> 0]
      BY <1>2, <2>3, InnerSeekOutcome
    <3>4. o = [i EXCEPT !.rd = Discard(i.rd)]
      BY <2>1, <2>3
    <3>5. o.rd = Discard(i.rd) /\ o.kind = "ok" /\ o.src = 1 /\ o.from = i.from
      BY <2>3, <3>1, <3>3, <3>4
    <3>6. Good(o.rd) /\ RestKept(s, o.rd) /\ At(o.rd) = i.from
      BY <1>2, <3>1, <3>5, Moved1
    <3>7. QED
      BY <1>2, <3>1, <3>5, <3>6 DEF FirstSeek, RestKept
  <2>4. QED BY <2>2, <2>3
<1>3. how.n \in Int /\ how.from \in {"start", "end", "current"}
  BY SeekTypes
<1>4. RestKept(r, r)
  BY DEF RestKept
<1>5. CASE how.from # "current"
  <2>1. InnerTarget(r, how) = FirstTarget(r, how)
    BY <1>3, <1>5, Constants DEF InnerTarget, FirstTarget
  <2>2. o \in discarding(InnerSeek(r, how))
    BY <1>5 DEF BufSeek, rem
  <2>3. QED BY <1>2, <1>3, <1>4, <2>1, <2>2
<1>6. CASE how.from = "current" /\ how.n - rem \in I64
  <2> DEFINE h == Current(how.n - rem)
  <2>1. h.n = how.n - rem /\ h.from = "current" /\ h.n \in Int
    BY <1>1, <1>3 DEF Current
  <2>2. o \in discarding(InnerSeek(r, h))
    BY <1>6 DEF BufSeek, rem
  <2> HIDE DEF h
  <2>3. InnerTarget(r, h) = FirstTarget(r, how)
    BY <1>1, <1>3, <1>6, <2>1 DEF InnerTarget, FirstTarget
  <2>4. QED BY <1>2, <1>4, <2>1, <2>2, <2>3
<1>7. CASE how.from = "current" /\ how.n - rem \notin I64
  <2> DEFINE h == Current(-rem)
  <2>1. h.n = -rem /\ h.from = "current" /\ h.n \in Int
    BY <1>1 DEF Current
  <2>2. PICK i \in InnerSeek(r, h) :
          o \in IF i.kind = "ok" THEN discarding(InnerSeek(Discard(i.rd), how))
                ELSE {i}
    BY <1>7 DEF BufSeek, rem
  <2> HIDE DEF h
  <2>3. InnerTarget(r, h) = At(r)
    BY <1>1, <2>1 DEF InnerTarget
  <2>4. CASE i.kind # "ok"
    BY <1>4, <2>1, <2>2, <2>4, InnerSeekOutcome DEF FirstSeek
  <2>5. CASE i.kind = "ok"
    <3> DEFINE s == Discard(i.rd)
    <3>1. i.rd = [r EXCEPT !.inner = At(r)]
      <4>1. i.rd = [r EXCEPT !.inner = i.from] /\ i.from = InnerTarget(r, h)
        BY <2>1, <2>5, InnerSeekOutcome
      <4>2. QED BY <2>3, <4>1
    <3>2. Good(s) /\ RestKept(r, s) /\ At(s) = At(r) /\ s.inner = At(r)
      BY <1>1, <3>1, Moved1
    <3>3. o \in discarding(InnerSeek(s, how))
      BY <2>2, <2>5
    <3> HIDE DEF s
    <3>4. InnerTarget(s, how) = FirstTarget(r, how)
      BY <1>1, <1>3, <1>7, <3>2 DEF InnerTarget, FirstTarget
    <3>5. QED BY <1>2, <1>3, <3>2, <3>3, <3>4
  <2>6. QED BY <2>4, <2>5
<1>8. QED BY <1>5, <1>6, <1>7

SecondTarget(r, how) ==
  CASE how.from = "start"   -> how.n
    [] how.from = "end"     -> Size[2] + how.n
    [] how.from = "current" -> r.cursor + how.n

LEMMA CursorSeekOutcome ==
  ASSUME NEW r, Good(r), NEW how \in SeekFrom, NEW o, o = CursorSeek(r, how)
  PROVE  /\ Good(o.rd) /\ At(o.rd) = At(r) /\ o.rd.limit = r.limit
         /\ o.rd.done_first = r.done_first
         /\ IF o.kind = "ok"
            THEN /\ SecondTarget(r, how) \in U64 /\ o.src = 2
                 /\ o.rd.cursor = SecondTarget(r, how) /\ o.from = o.rd.cursor
            ELSE o.rd.cursor = r.cursor /\ SecondTarget(r, how) \notin U64
<1> DEFINE p == SecondTarget(r, how)
           t == [r EXCEPT !.cursor = p]
<1>1. how.n \in Int /\ how.from \in {"start", "end", "current"}
  BY SeekTypes
<1>2. r \in ReaderState /\ r.cursor \in Nat
  BY DEF Good, ReaderState, U64
<1>3. ASSUME NEW base, how.n + base = p,
             CursorSeek(r, how) = IF how.n + base \in U64
                                  THEN Got([r EXCEPT !.cursor = how.n + base], 2,
                                           how.n + base, 0)
                                  ELSE Fails(r, "invalid_input")
      PROVE  o = IF p \in U64 THEN Got(t, 2, p, 0) ELSE Fails(r, "invalid_input")
  BY <1>3
<1>4. o = IF p \in U64 THEN Got(t, 2, p, 0) ELSE Fails(r, "invalid_input")
  <2>1. CASE how.from = "start"
    <3>1. how.n + 0 = p
      BY <1>1, <2>1 DEF SecondTarget
    <3>2. QED BY <1>3, <2>1, <3>1 DEF CursorSeek
  <2>2. CASE how.from = "end"
    <3>1. how.n + Size[2] = p
      BY <1>1, <2>2, Constants DEF SecondTarget
    <3>2. QED BY <1>3, <2>2, <3>1 DEF CursorSeek
  <2>3. CASE how.from = "current"
    <3>1. how.n + r.cursor = p
      BY <1>1, <1>2, <2>3 DEF SecondTarget
    <3>2. QED BY <1>3, <2>3, <3>1 DEF CursorSeek
  <2>4. QED BY <1>1, <2>1, <2>2, <2>3
<1> HIDE DEF p
<1>5. CASE p \notin U64
  BY <1>4, <1>5 DEF Fails, p
<1>6. CASE p \in U64
  <2>1. /\ t \in ReaderState /\ t.cursor = p /\ t.done_first = r.done_first
        /\ t.inner = r.inner /\ t.pos = r.pos /\ t.cap = r.cap /\ t.start = r.start
        /\ t.limit = r.limit
    BY <1>2, <1>6 DEF ReaderState
  <2>2. o.rd = t /\ o.kind = "ok" /\ o.src = 2 /\ o.from = p
    BY <1>4, <1>6 DEF Got
  <2> HIDE DEF t
  <2>3. Good(t) /\ At(t) = At(r)
    BY <2>1 DEF Good, At, Remainder
  <2>4. QED BY <1>6, <2>1, <2>2, <2>3 DEF p
<1>7. QED BY <1>5, <1>6

LEMMA CursorReadExactOutcome ==
  ASSUME NEW r, Good(r), NEW len \in Nat, NEW o, o = CursorReadExact(r, len)
  PROVE  /\ Good(o.rd) /\ At(o.rd) = At(r) /\ o.rd.limit = r.limit
         /\ o.rd.done_first = r.done_first
         /\ \/ /\ o.kind = "ok" /\ o.n \in 1..len /\ o.src = 2 /\ o.from = r.cursor
               /\ o.rd.cursor = r.cursor + o.n /\ o.rd.cursor <= Size[2]
            \/ (o.kind # "ok" \/ o.n = 0) /\ o.rd.cursor = r.cursor /\ o.n \in Nat
<1> DEFINE rest == CursorFillBuf(r).n
           t == [r EXCEPT !.cursor = r.cursor + len]
<1>1. /\ rest \in Nat /\ CursorFillBuf(r).from \in Nat
      /\ rest > 0 => CursorFillBuf(r).from = r.cursor /\ r.cursor + rest <= Size[2]
  BY CursorRest
<1>2. r \in ReaderState /\ r.cursor \in Nat /\ r.cursor \in U64
  BY DEF Good, ReaderState, U64
<1> HIDE DEF rest
<1>3. CASE len > rest
  <2>1. o = Fails(r, "unexpected_eof")
    BY <1>1, <1>3 DEF CursorReadExact, SliceReadExact, rest
  <2>2. QED BY <2>1 DEF Fails
<1>4. CASE len <= rest
  <2>1. o = Got(t, 2, CursorFillBuf(r).from, len)
    BY <1>1, <1>4 DEF CursorReadExact, SliceReadExact, CursorGot, rest
  <2>2. r.cursor + len \in U64
    BY <1>1, <1>2, <1>4, Constants DEF U64
  <2>3. /\ t \in ReaderState /\ t.cursor = r.cursor + len
        /\ t.done_first = r.done_first
        /\ t.inner = r.inner /\ t.pos = r.pos /\ t.cap = r.cap /\ t.start = r.start
        /\ t.limit = r.limit
    BY <1>2, <2>2 DEF ReaderState
  <2>4. /\ o.rd = t /\ o.kind = "ok" /\ o.src = 2 /\ o.n = len
        /\ o.from = CursorFillBuf(r).from
    BY <2>1 DEF Got
  <2> HIDE DEF t
  <2>5. Good(t) /\ At(t) = At(r)
    BY <2>3 DEF Good, At, Remainder
  <2>6. QED BY <1>1, <1>2, <1>4, <2>3, <2>4, <2>5, Constants
<1>5. QED BY <1>1, <1>3, <1>4

-----------------------------------------------------------------------------
(***************************************************************************)
(* The two streams                                                         *)
(***************************************************************************)

LEMMA Pairs ==
  ASSUME NEW a, NEW b, NEW c
  PROVE  /\ [<<a, b>> EXCEPT ![1] = c] = <<c, b>>
         /\ [<<a, b>> EXCEPT ![2] = c] = <<a, c>>
OBVIOUS

\* A step hands out nothing if it moves no position.
LEMMA NothingStep ==
  ASSUME At(rd') = At(rd), rd'.cursor = rd.cursor, rd'.limit = rd.limit,
         rd'.done_first # rd.done_first => rd'.done_first /\ At(rd) >= Size[1],
         out' = Nothing
  PROVE  Stream!HandOutNothing
BY DEF Stream!HandOutNothing, Stream!MaySwitch, Stream!Nothing, Nothing, At

\* What a read hands out is the next of one of the streams.
LEMMA ReadStep ==
  ASSUME Good(rd), NEW len \in Nat, NEW o, TakeOutcome(rd, len, o), Reading(o)
  PROVE  Stream!Next
<1>1. rd' = o.rd /\ out' = Seen(o)
  BY DEF Reading
<1>2. /\ o.n \in Nat /\ o.n <= rd.limit /\ o.rd.limit = rd.limit - o.n
      /\ rd.limit \in Nat /\ rd.limit \in U64 /\ rd.cursor \in Nat
      /\ At(rd) \in Nat
  BY Positions DEF TakeOutcome, Outcome, Good, ReaderState, U64
<1>3. CASE Stays(rd, o)
  <2>1. out' = Nothing /\ o.rd.limit = rd.limit
    BY <1>1, <1>2, <1>3 DEF Seen, Stays
  <2>2. Stream!HandOutNothing
    BY <1>1, <1>3, <2>1, NothingStep DEF Stays
  <2>3. QED BY <2>2 DEF Stream!Next
<1>4. CASE Reads(rd, len, o)
  <2>1. o.n \in 1..rd.limit /\ o.n \in U64
    BY <1>2, <1>4, Constants DEF Reads, U64
  <2>2. out' = Bytes(o.src, o.from, o.n)
    BY <1>1, <1>4, <2>1 DEF Reads, Seen
  <2>3. CASE /\ o.src = 1 /\ ~rd.done_first /\ ~o.rd.done_first
             /\ o.from = At(rd) /\ At(o.rd) = At(rd) + o.n /\ At(o.rd) <= Size[1]
             /\ o.rd.cursor = rd.cursor
    <3>1. /\ rd'.done_first = FALSE /\ rd.done_first = FALSE
          /\ At(rd') = At(rd) + o.n /\ At(rd) + o.n <= Size[1]
          /\ rd'.cursor = rd.cursor /\ rd'.limit = rd.limit - o.n
          /\ out' = Bytes(1, At(rd), o.n)
      BY <1>1, <1>2, <2>2, <2>3 DEF TakeOutcome, Good, ReaderState
    <3>2. <<At(rd'), rd'.cursor>> = [<<At(rd), rd.cursor>> EXCEPT ![1] = At(rd) + o.n]
      BY <3>1, Pairs
    <3>3. Stream!HandOut(1, o.n)
      <4>1. Stream!MaySwitch
        BY <3>1 DEF Stream!MaySwitch
      <4>2. rd.done_first' = (1 = 2)
        <5>1. (1 = 2) = FALSE
          BY SMT
        <5>2. rd'.done_first = FALSE
          BY <3>1
        <5>3. QED BY <5>1, <5>2, Zenon
      <4>3. /\ <<At(rd), rd.cursor>>[1] + o.n <= Size[1]
            /\ out' = Stream!Bytes(1, <<At(rd), rd.cursor>>[1], o.n)
        BY <3>1 DEF Stream!Bytes, Bytes
      <4>4. <<At(rd), rd.cursor>>'
              = [<<At(rd), rd.cursor>> EXCEPT ![1] = <<At(rd), rd.cursor>>[1] + o.n]
        BY <3>2
      <4>5. QED
        BY <2>1, <3>1, <4>1, <4>2, <4>3, <4>4 DEF Stream!HandOut, At
    <3>4. QED BY <2>1, <3>3 DEF Stream!Next, Stream!U64, U64
  <2>4. CASE /\ o.src = 2 /\ o.rd.done_first
             /\ rd.done_first \/ At(rd) >= Size[1]
             /\ o.from = rd.cursor /\ o.rd.cursor = rd.cursor + o.n
             /\ o.rd.cursor <= Size[2] /\ At(o.rd) = At(rd)
    <3>1. /\ rd'.done_first = TRUE /\ (rd.done_first = TRUE \/ At(rd) >= Size[1])
          /\ At(rd') = At(rd) /\ rd.cursor + o.n <= Size[2]
          /\ rd'.cursor = rd.cursor + o.n /\ rd'.limit = rd.limit - o.n
          /\ out' = Bytes(2, rd.cursor, o.n)
      BY <1>1, <1>2, <2>2, <2>4 DEF TakeOutcome, Good, ReaderState
    <3>2. <<At(rd'), rd'.cursor>> = [<<At(rd), rd.cursor>> EXCEPT ![2] = rd.cursor + o.n]
      BY <3>1, Pairs
    <3>3. Stream!HandOut(2, o.n)
      BY <2>1, <3>1, <3>2 DEF Stream!HandOut, Stream!MaySwitch, Stream!Bytes, Bytes, At
    <3>4. QED BY <2>1, <3>3 DEF Stream!Next, Stream!U64, U64
  <2>5. QED BY <1>4, <2>3, <2>4 DEF Reads
<1>5. QED BY <1>3, <1>4 DEF TakeOutcome

-----------------------------------------------------------------------------
(***************************************************************************)
(* The invariant                                                           *)
(***************************************************************************)
StackInv == Good(rd) /\ peeked \in 0..Avail(rd)

\* A call has what left the adapters since it began, and nothing is lent while
\* it runs.
CallInv ==
  /\ call \in [op : Op \cup {"none"}, want : U64, got : Nat, had : U64]
  /\ IF call.op = "none" THEN call = NoCall
     ELSE /\ call.got = call.had - rd.limit
          /\ peeked = 0
          /\ result = NoResult
          /\ call.op \in {"read", "next"} => call.got = 0

ResultInv ==
  /\ result.op # "none" => result.got = result.had - rd.limit
  /\ EndIsReal

ReaderInv == StackInv /\ CallInv /\ ResultInv

\* A step that ends with no call and no result.
LEMMA QuietResult ==
  ASSUME StackInv', call' = NoCall, result' = NoResult
  PROVE  ReaderInv'
<1>1. CallInv'
  <2>1. NoCall \in [op : Op \cup {"none"}, want : U64, got : Nat, had : U64]
    BY Constants DEF NoCall, U64
  <2>2. QED BY <2>1 DEF CallInv, NoCall
<1>2. ResultInv'
  BY DEF ResultInv, EndIsReal, EndReported, NoResult
<1>3. QED BY <1>1, <1>2 DEF ReaderInv

\* An idle step on the stack alone.
LEMMA IdleStep ==
  ASSUME ReaderInv, Idle, result' = NoResult, UNCHANGED call, Good(rd'),
         peeked' \in 0..Avail(rd')
  PROVE  ReaderInv'
BY QuietResult DEF Idle, StackInv

LEMMA NothingLent ==
  ASSUME NEW r, Good(r)
  PROVE  0 \in 0..Avail(r)
BY CursorRest, Positions DEF Avail

LEMMA PeekStep ==
  ASSUME ReaderInv, Peek
  PROVE  ReaderInv' /\ Stream!Next
<1> USE DEF ReaderInv, StackInv
<1>1. PICK o \in TakeFillBuf(rd) : rd' = o.rd /\ peeked' = o.n
  BY DEF Peek
<1>2. /\ Good(rd') /\ At(rd') = At(rd) /\ rd'.cursor = rd.cursor
      /\ rd'.limit = rd.limit
      /\ rd'.done_first # rd.done_first => rd'.done_first /\ At(rd) >= Size[1]
      /\ peeked' \in 0..Avail(rd')
  BY <1>1, TakeFillBufOutcome
<1>3. ReaderInv'
  BY <1>2, IdleStep DEF Peek
<1>4. Stream!HandOutNothing
  BY <1>2, NothingStep DEF Peek
<1>5. QED BY <1>3, <1>4 DEF Stream!Next

LEMMA ConsumeStep ==
  ASSUME ReaderInv, NEW amt \in Lengths, ConsumePeeked(amt)
  PROVE  ReaderInv' /\ Stream!Next
<1> USE DEF ReaderInv, StackInv
<1> DEFINE n == rd.limit - rd'.limit
<1>1. /\ amt \in Nat /\ amt <= peeked /\ peeked \in Nat /\ peeked <= Avail(rd)
      /\ Avail(rd) \in Nat
  BY CursorRest, Positions DEF ConsumePeeked, Avail
<1>2. /\ Good(rd') /\ rd'.done_first = rd.done_first
      /\ rd'.limit \in Nat /\ rd.limit \in Nat /\ rd'.limit <= rd.limit
      /\ rd.done_first => /\ At(rd') = At(rd)
                          /\ rd'.cursor = rd.cursor + n
                          /\ rd'.limit # rd.limit => rd'.cursor <= Size[2]
      /\ ~rd.done_first => /\ rd'.cursor = rd.cursor
                           /\ At(rd') = At(rd) + n
                           /\ rd'.limit # rd.limit =>
                                At(rd') <= Size[1] /\ At(rd) = rd.start + rd.pos
      /\ Avail(rd') \in Nat /\ Avail(rd) - amt <= Avail(rd')
  <2>1. rd' = TakeConsume(rd, amt)
    BY DEF ConsumePeeked
  <2>2. QED BY <1>1, <2>1, TakeConsumed
<1>3. ReaderInv'
  <2>1. peeked' \in 0..Avail(rd')
    BY <1>1, <1>2 DEF ConsumePeeked
  <2>2. QED BY <1>2, <2>1, IdleStep DEF ConsumePeeked
<1>4. out' = IF n = 0 THEN Nothing
             ELSE IF rd.done_first THEN Bytes(2, rd.cursor, n)
             ELSE Bytes(1, rd.start + rd.pos, n)
  BY DEF ConsumePeeked
<1>5. rd.limit \in U64 /\ rd.cursor \in Nat /\ At(rd) \in Nat /\ rd.done_first \in BOOLEAN
  BY Positions DEF Good, ReaderState, U64
<1>6. n \in Nat /\ n <= rd.limit /\ n \in U64 /\ rd'.limit = rd.limit - n
  BY <1>2, <1>5, Constants DEF U64
<1> HIDE DEF n
<1>7. CASE n = 0
  <2>1. /\ At(rd') = At(rd) /\ rd'.cursor = rd.cursor /\ rd'.limit = rd.limit
        /\ out' = Nothing
    BY <1>2, <1>4, <1>5, <1>6, <1>7 DEF n
  <2>2. Stream!HandOutNothing
    BY <1>2, <2>1, NothingStep
  <2>3. QED BY <1>3, <2>2 DEF Stream!Next
<1>8. CASE n # 0 /\ ~rd.done_first
  <2>1. /\ rd'.done_first = FALSE /\ rd.done_first = FALSE
        /\ At(rd') = At(rd) + n /\ At(rd) + n <= Size[1]
        /\ rd'.cursor = rd.cursor
        /\ out' = Bytes(1, At(rd), n)
    BY <1>2, <1>4, <1>5, <1>6, <1>8 DEF n
  <2>2. <<At(rd'), rd'.cursor>> = [<<At(rd), rd.cursor>> EXCEPT ![1] = At(rd) + n]
    BY <2>1, Pairs
  <2>3. Stream!HandOut(1, n)
    <3>1. Stream!MaySwitch
      BY <2>1 DEF Stream!MaySwitch
    <3>2. rd.done_first' = (1 = 2)
      <4>1. (1 = 2) = FALSE
        BY SMT
      <4>2. rd'.done_first = FALSE
        BY <2>1
      <4>3. QED BY <4>1, <4>2, Zenon
    <3>3. /\ <<At(rd), rd.cursor>>[1] + n <= Size[1]
          /\ out' = Stream!Bytes(1, <<At(rd), rd.cursor>>[1], n)
      BY <2>1 DEF Stream!Bytes, Bytes
    <3>4. <<At(rd), rd.cursor>>'
            = [<<At(rd), rd.cursor>> EXCEPT ![1] = <<At(rd), rd.cursor>>[1] + n]
      BY <2>2
    <3>5. n \in 1..rd.limit
      BY <1>2, <1>6, <1>8
    <3>6. QED
      BY <1>6, <3>1, <3>2, <3>3, <3>4, <3>5 DEF Stream!HandOut, At
  <2>4. QED BY <1>3, <1>6, <2>3 DEF Stream!Next, Stream!U64, U64
<1>9. CASE n # 0 /\ rd.done_first
  <2>1. /\ rd'.done_first = TRUE /\ rd.done_first = TRUE
        /\ At(rd') = At(rd) /\ rd.cursor + n <= Size[2]
        /\ rd'.cursor = rd.cursor + n
        /\ out' = Bytes(2, rd.cursor, n)
    BY <1>2, <1>4, <1>5, <1>6, <1>9 DEF n
  <2>2. <<At(rd'), rd'.cursor>> = [<<At(rd), rd.cursor>> EXCEPT ![2] = rd.cursor + n]
    BY <2>1, Pairs
  <2>3. n \in 1..rd.limit
    BY <1>2, <1>6, <1>9
  <2>4. Stream!HandOut(2, n)
    BY <1>6, <2>1, <2>2, <2>3
       DEF Stream!HandOut, Stream!MaySwitch, Stream!Bytes, Bytes, At
  <2>5. QED BY <1>3, <1>6, <2>4 DEF Stream!Next, Stream!U64, U64
<1>10. QED BY <1>7, <1>8, <1>9

LEMMA SetLimitStep ==
  ASSUME ReaderInv, NEW n \in Limits, SetLimit(n)
  PROVE  ReaderInv' /\ Stream!Next
<1> USE DEF ReaderInv, StackInv
<1>1. n \in U64 /\ rd \in ReaderState
  BY ReadersAssumption DEF Good
<1>2. /\ rd' \in ReaderState /\ rd'.limit = n /\ rd'.inner = rd.inner
      /\ rd'.pos = rd.pos /\ rd'.cap = rd.cap /\ rd'.start = rd.start
      /\ rd'.cursor = rd.cursor /\ rd'.done_first = rd.done_first
  BY <1>1 DEF SetLimit, ReaderState
<1>3. Good(rd') /\ At(rd') = At(rd) /\ Avail(rd') = Avail(rd)
  BY <1>2 DEF Good, At, Remainder, Avail, CursorFillBuf, Got
<1>4. ReaderInv'
  BY <1>3, IdleStep DEF SetLimit
<1>5. Stream!SetBudget(n)
  BY <1>2, <1>3 DEF SetLimit, Stream!SetBudget, Stream!Nothing, Nothing, At
<1>6. QED BY <1>1, <1>4, <1>5 DEF Stream!Next, Stream!U64, U64

LEMMA RebuildStep ==
  ASSUME ReaderInv, NEW n \in Limits, Rebuild(n)
  PROVE  ReaderInv' /\ Stream!Next
<1> USE DEF ReaderInv, StackInv
<1> DEFINE d == Discard(rd)
<1>1. n \in U64 /\ rd \in ReaderState /\ rd.inner \in Nat
  BY ReadersAssumption DEF Good, ReaderState, U64
<1>2. Good(d) /\ d.inner = rd.inner /\ d.pos = 0 /\ d.cap = 0 /\ d.cursor = rd.cursor
  BY Discarded DEF RestKept
<1>3. rd' = [d EXCEPT !.done_first = FALSE, !.limit = n]
  BY DEF Rebuild
<1> HIDE DEF d
<1>4. d \in ReaderState
  BY <1>2 DEF Good
<1>5. /\ rd' \in ReaderState /\ rd'.limit = n /\ rd'.inner = rd.inner
      /\ rd'.pos = 0 /\ rd'.cap = 0 /\ rd'.cursor = rd.cursor
      /\ rd'.done_first = FALSE
  BY <1>1, <1>2, <1>3, <1>4 DEF ReaderState
<1>6. Good(rd') /\ At(rd') = rd.inner
  BY <1>1, <1>5, Constants DEF Good, At, Remainder
<1>7. ReaderInv'
  BY <1>6, IdleStep, NothingLent DEF Rebuild
<1>8. rd.inner \in {At(rd)} \cup At(rd)..Size[1]
  <2>1. CASE rd.pos = rd.cap
    BY <1>1, <2>1 DEF At, Remainder, Good, ReaderState
  <2>2. CASE rd.pos # rd.cap
    BY <1>1, <2>2, Positions, Constants DEF At, Remainder, Good, ReaderState
  <2>3. QED BY <2>1, <2>2
<1>9. <<At(rd'), rd'.cursor>> = [<<At(rd), rd.cursor>> EXCEPT ![1] = rd.inner]
  BY <1>5, <1>6, Pairs
<1>10. Stream!Restart(n)
  <2>1. \E p \in {At(rd)} \cup At(rd)..Size[1] :
          <<At(rd), rd.cursor>>' = [<<At(rd), rd.cursor>> EXCEPT ![1] = p]
    BY <1>8, <1>9
  <2>2. \E p \in {<<At(rd), rd.cursor>>[1]} \cup <<At(rd), rd.cursor>>[1]..Size[1] :
          <<At(rd), rd.cursor>>' = [<<At(rd), rd.cursor>> EXCEPT ![1] = p]
    BY <2>1
  <2>3. QED
    BY <1>5, <2>2 DEF Rebuild, Stream!Restart, Stream!Nothing, Nothing, At
<1>11. QED BY <1>1, <1>7, <1>10 DEF Stream!Next, Stream!U64, U64

LEMMA SeekFirstStep ==
  ASSUME ReaderInv, NEW how \in Seeks, SeekFirst(how)
  PROVE  ReaderInv' /\ Stream!Next
<1> USE DEF ReaderInv, StackInv
<1>1. how \in SeekFrom /\ how.n \in Int /\ how.from \in {"start", "end", "current"}
  BY SeekTypes, ReadersAssumption
<1>2. PICK o \in BufSeek(rd, how) :
        /\ rd' = o.rd
        /\ out' = IF o.kind = "ok" THEN MovedTo(o.src, o.from) ELSE Nothing
  BY DEF SeekFirst, Seek
<1>3. FirstSeek(rd, how, o)
  BY <1>1, BufSeekOutcome
<1>4. ReaderInv'
  <2>1. Good(rd') /\ peeked' \in 0..Avail(rd')
    BY <1>2, <1>3, NothingLent DEF FirstSeek, SeekFirst, Seek
  <2>2. QED BY <2>1, IdleStep DEF SeekFirst, Seek
<1>5. /\ rd'.done_first = rd.done_first /\ rd'.limit = rd.limit
      /\ rd'.cursor = rd.cursor
  BY <1>2, <1>3 DEF FirstSeek, RestKept
<1>6. CASE o.kind = "ok"
  <2>1. /\ FirstTarget(rd, how) \in U64 /\ At(rd') = FirstTarget(rd, how)
        /\ out' = MovedTo(1, FirstTarget(rd, how))
    BY <1>2, <1>3, <1>6 DEF FirstSeek
  <2>2. <<At(rd'), rd'.cursor>>
          = [<<At(rd), rd.cursor>> EXCEPT ![1] = FirstTarget(rd, how)]
    BY <1>5, <2>1, Pairs
  <2>3. Stream!Target(1, how) = FirstTarget(rd, how)
    BY <1>1 DEF Stream!Target, FirstTarget, At
  <2>4. Stream!Seek(1, how)
    BY <1>5, <2>1, <2>2, <2>3
       DEF Stream!Seek, Stream!MovedTo, MovedTo, At, Stream!U64, U64
  <2>5. QED BY <1>1, <1>4, <2>4 DEF Stream!Next, Stream!SeekFrom, SeekFrom,
                                    Stream!U64, U64, Stream!I64, I64
<1>7. CASE o.kind # "ok"
  <2>1. At(rd') = At(rd) /\ out' = Nothing
    BY <1>2, <1>3, <1>7 DEF FirstSeek
  <2>2. Stream!HandOutNothing
    BY <1>5, <2>1, NothingStep
  <2>3. QED BY <1>4, <2>2 DEF Stream!Next
<1>8. QED BY <1>6, <1>7

LEMMA SeekSecondStep ==
  ASSUME ReaderInv, NEW how \in Seeks, SeekSecond(how)
  PROVE  ReaderInv' /\ Stream!Next
<1> USE DEF ReaderInv, StackInv
<1> DEFINE o == CursorSeek(rd, how)
<1>1. how \in SeekFrom /\ how.n \in Int /\ how.from \in {"start", "end", "current"}
  BY SeekTypes, ReadersAssumption
<1>2. /\ rd' = o.rd
      /\ out' = IF o.kind = "ok" THEN MovedTo(o.src, o.from) ELSE Nothing
  BY DEF SeekSecond, Seek
<1>3. /\ Good(o.rd) /\ At(o.rd) = At(rd) /\ o.rd.limit = rd.limit
      /\ o.rd.done_first = rd.done_first
      /\ IF o.kind = "ok"
         THEN /\ SecondTarget(rd, how) \in U64 /\ o.src = 2
              /\ o.rd.cursor = SecondTarget(rd, how) /\ o.from = o.rd.cursor
         ELSE o.rd.cursor = rd.cursor /\ SecondTarget(rd, how) \notin U64
  BY <1>1, CursorSeekOutcome
<1> HIDE DEF o
<1>4. ReaderInv'
  <2>1. Good(rd') /\ peeked' \in 0..Avail(rd')
    BY <1>2, <1>3, NothingLent DEF SeekSecond, Seek
  <2>2. QED BY <2>1, IdleStep DEF SeekSecond, Seek
<1>5. CASE o.kind = "ok"
  <2>1. /\ SecondTarget(rd, how) \in U64 /\ rd'.cursor = SecondTarget(rd, how)
        /\ out' = MovedTo(2, SecondTarget(rd, how))
    BY <1>2, <1>3, <1>5
  <2>2. <<At(rd'), rd'.cursor>>
          = [<<At(rd), rd.cursor>> EXCEPT ![2] = SecondTarget(rd, how)]
    BY <1>2, <1>3, <2>1, Pairs
  <2>3. Stream!Target(2, how) = SecondTarget(rd, how)
    BY <1>1 DEF Stream!Target, SecondTarget
  <2>4. Stream!Seek(2, how)
    BY <1>2, <1>3, <2>1, <2>2, <2>3
       DEF Stream!Seek, Stream!MovedTo, MovedTo, At, Stream!U64, U64
  <2>5. QED BY <1>1, <1>4, <2>4 DEF Stream!Next, Stream!SeekFrom, SeekFrom,
                                    Stream!U64, U64, Stream!I64, I64
<1>6. CASE o.kind # "ok"
  <2>1. Stream!HandOutNothing
    BY <1>2, <1>3, <1>6, NothingStep
  <2>2. QED BY <1>4, <2>1 DEF Stream!Next
<1>7. QED BY <1>5, <1>6

LEMMA SecondReadExactStep ==
  ASSUME ReaderInv, NEW len \in Lengths, SecondReadExact(len)
  PROVE  ReaderInv' /\ Stream!Next
<1> USE DEF ReaderInv, StackInv
<1> DEFINE o == CursorReadExact(rd, len)
<1>1. len \in Nat
  BY ReadersAssumption DEF U64
<1>2. rd' = o.rd /\ out' = Seen(o)
  BY DEF SecondReadExact
<1>3. /\ Good(o.rd) /\ At(o.rd) = At(rd) /\ o.rd.limit = rd.limit
      /\ o.rd.done_first = rd.done_first
      /\ \/ /\ o.kind = "ok" /\ o.n \in 1..len /\ o.src = 2 /\ o.from = rd.cursor
            /\ o.rd.cursor = rd.cursor + o.n /\ o.rd.cursor <= Size[2]
         \/ (o.kind # "ok" \/ o.n = 0) /\ o.rd.cursor = rd.cursor /\ o.n \in Nat
  BY <1>1, CursorReadExactOutcome
<1> HIDE DEF o
<1>4. ReaderInv'
  <2>1. Good(rd') /\ peeked' \in 0..Avail(rd')
    BY <1>2, <1>3, NothingLent DEF SecondReadExact
  <2>2. QED BY <2>1, IdleStep DEF SecondReadExact
<1>5. CASE /\ o.kind = "ok" /\ o.n \in 1..len /\ o.src = 2 /\ o.from = rd.cursor
           /\ o.rd.cursor = rd.cursor + o.n /\ o.rd.cursor <= Size[2]
  <2>1. o.n \in U64 \ {0}
    BY <1>5, <1>1, ReadersAssumption, Constants DEF U64
  <2>2. /\ At(rd') = At(rd) /\ rd'.cursor = rd.cursor + o.n
        /\ rd.cursor + o.n <= Size[2] /\ rd'.limit = rd.limit
        /\ rd'.done_first = rd.done_first /\ out' = Bytes(2, rd.cursor, o.n)
    BY <1>1, <1>2, <1>3, <1>5 DEF Seen
  <2>3. <<At(rd'), rd'.cursor>> = [<<At(rd), rd.cursor>> EXCEPT ![2] = rd.cursor + o.n]
    BY <2>2, Pairs
  <2>4. Stream!HandOutDirectly(o.n)
    BY <2>1, <2>2, <2>3
       DEF Stream!HandOutDirectly, Stream!Bytes, Bytes, At, Stream!U64, U64
  <2>5. QED BY <1>4, <2>1, <2>4 DEF Stream!Next, Stream!U64, U64
<1>6. CASE (o.kind # "ok" \/ o.n = 0) /\ o.rd.cursor = rd.cursor /\ o.n \in Nat
  <2>1. out' = Nothing
    BY <1>2, <1>6 DEF Seen
  <2>2. Stream!HandOutNothing
    BY <1>2, <1>3, <1>6, <2>1, NothingStep
  <2>3. QED BY <1>4, <2>2 DEF Stream!Next
<1>7. QED BY <1>3, <1>5, <1>6

LEMMA BeginStep ==
  ASSUME ReaderInv, NEW op \in Op, NEW want \in Lengths, Begin(op, want)
  PROVE  ReaderInv' /\ Stream!Next
<1> USE DEF ReaderInv, StackInv
<1>1. rd.limit \in U64 /\ rd.limit \in Nat /\ want \in U64
  BY ReadersAssumption DEF Good, ReaderState, U64
<1>2. Stream!HandOutNothing
  BY NothingStep DEF Begin
<1>3. StackInv'
  BY NothingLent DEF Begin
<1>4. CallInv'
  BY <1>1 DEF Begin, CallInv, Op
<1>5. ResultInv'
  BY DEF Begin, ResultInv, EndIsReal, EndReported, NoResult
<1>6. QED BY <1>2, <1>3, <1>4, <1>5 DEF Stream!Next

-----------------------------------------------------------------------------
(***************************************************************************)
(* The turns of the loops                                                  *)
(***************************************************************************)

\* What a read makes of the call that it belongs to.
LEMMA Turned ==
  ASSUME ReaderInv, call.op # "none", NEW len \in Nat, NEW o \in TakeRead(rd, len),
         Reading(o)
  PROVE  /\ Stream!Next /\ TakeOutcome(rd, len, o)
         /\ Good(rd') /\ rd' = o.rd /\ peeked' = 0 /\ peeked = 0
         /\ o.n \in Nat /\ call.got \in Nat
         /\ call.got + o.n = call.had - rd'.limit
         /\ o.kind # "ok" => o.n = 0
         /\ o.kind = "ok" /\ o.n = 0 /\ len # 0 => AtEnd'
         /\ o.n <= len
         /\ o.kind \in {"ok", "interrupted", "other"}
<1> USE DEF ReaderInv, StackInv
<1>1. TakeOutcome(rd, len, o)
  BY TakeReadOutcome
<1>2. Stream!Next
  BY <1>1, ReadStep
<1>3. /\ o \in Outcome /\ Good(o.rd) /\ o.rd.limit = rd.limit - o.n
      /\ o.n \in Nat /\ rd.limit \in Nat /\ o.kind \in {"ok", "interrupted", "other"}
  BY <1>1 DEF TakeOutcome, Outcome, Good, ReaderState, U64
<1>4. rd' = o.rd /\ peeked' = peeked /\ peeked = 0
  BY DEF Reading, CallInv
<1>5. call.got \in Nat /\ call.had \in Nat /\ call.got = call.had - rd.limit
  BY DEF CallInv, U64
<1>6. (o.kind # "ok" => o.n = 0) /\ o.n <= len
  BY <1>1, <1>3 DEF TakeOutcome, Reads, Stays
<1>7. o.kind = "ok" /\ o.n = 0 /\ len # 0 => AtEnd'
  BY <1>1, <1>4 DEF TakeOutcome, Reads, Stays, AtEnd, Ended
<1>8. QED BY <1>1, <1>2, <1>3, <1>4, <1>5, <1>6, <1>7

LEMMA GoOnStep ==
  ASSUME ReaderInv, call.op # "none", Good(rd'), peeked' = 0, NEW got \in Nat,
         got = call.had - rd'.limit, GoOn(got),
         call.op \in {"read", "next"} => got = 0
  PROVE  ReaderInv'
<1> USE DEF ReaderInv, StackInv
<1>1. StackInv'
  BY NothingLent
<1>2. call' = [call EXCEPT !.got = got] /\ result' = result /\ result = NoResult
  BY DEF GoOn, CallInv
<1>3. CallInv'
  BY <1>2 DEF CallInv
<1>4. ResultInv'
  BY <1>2 DEF ResultInv, EndIsReal, EndReported, NoResult
<1>5. QED BY <1>1, <1>3, <1>4

LEMMA ReturnStep ==
  ASSUME ReaderInv, call.op # "none", Good(rd'), peeked' = 0,
         NEW kind, NEW got \in Nat, got = call.had - rd'.limit, Return(kind, got),
         call.op = "read_exact" => (kind = "ok" <=> got = call.want),
         ( \/ kind = "unexpected_eof"
           \/ call.op = "read_to_end" /\ kind = "ok"
           \/ /\ call.op \in {"read", "next"} /\ kind = "ok"
              /\ call.want > 0 /\ got = 0 ) => AtEnd'
  PROVE  ReaderInv'
<1> USE DEF ReaderInv, StackInv
<1>1. StackInv'
  BY NothingLent
<1>2. /\ call' = NoCall
      /\ result'.op = call.op /\ result'.kind = kind /\ result'.want = call.want
      /\ result'.got = got /\ result'.had = call.had
  BY DEF Return
<1>3. CallInv'
  BY <1>2, Constants DEF CallInv, NoCall, U64
<1>4. ResultInv'
  <2>1. result'.got = result'.had - rd'.limit
    BY <1>2
  <2>2. EndReported' => AtEnd'
    BY <1>2 DEF EndReported
  <2>3. result'.op = "read_exact" => (result'.kind = "ok" <=> result'.got = result'.want)
    BY <1>2
  <2>4. QED BY <2>1, <2>2, <2>3 DEF ResultInv, EndIsReal
<1>5. QED BY <1>1, <1>3, <1>4

LEMMA ReadTurn ==
  ASSUME ReaderInv, Read
  PROVE  ReaderInv' /\ Stream!Next
<1>1. call.op = "read" /\ call.want \in Nat /\ call.got = 0
  BY DEF Read, ReaderInv, CallInv, U64
<1>2. PICK o \in TakeRead(rd, call.want) : Reading(o) /\ Return(o.kind, o.n)
  BY DEF Read
<1>3. /\ Stream!Next /\ Good(rd') /\ peeked' = 0 /\ o.n \in Nat
      /\ call.got + o.n = call.had - rd'.limit
      /\ o.kind = "ok" /\ o.n = 0 /\ call.want # 0 => AtEnd'
      /\ o.kind \in {"ok", "interrupted", "other"}
  BY <1>1, <1>2, Turned
<1>4. ReaderInv'
  BY <1>1, <1>2, <1>3, ReturnStep
<1>5. QED BY <1>3, <1>4

LEMMA ReadExactTurn ==
  ASSUME ReaderInv, ReadExact
  PROVE  ReaderInv' /\ Stream!Next
<1> DEFINE len == call.want - call.got
<1>1. call.op = "read_exact" /\ call.want \in Nat /\ call.got \in Nat /\ call.got < call.want
  BY DEF ReadExact, ReaderInv, CallInv, U64
<1>2. len \in Nat /\ len # 0
  BY <1>1
<1>3. PICK o \in TakeRead(rd, len) :
        /\ Reading(o)
        /\ IF Retried(o.kind) THEN GoOn(call.got)
           ELSE IF o.kind # "ok" THEN Return(o.kind, call.got)
           ELSE IF o.n = 0 THEN Return("unexpected_eof", call.got)
           ELSE GoOn(call.got + o.n)
  BY DEF ReadExact
<1>4. /\ Stream!Next /\ Good(rd') /\ peeked' = 0 /\ o.n \in Nat
      /\ call.got + o.n = call.had - rd'.limit
      /\ o.kind # "ok" => o.n = 0
      /\ o.kind = "ok" /\ o.n = 0 => AtEnd'
      /\ o.kind \in {"ok", "interrupted", "other"}
  BY <1>1, <1>2, <1>3, Turned
<1>5. CASE Retried(o.kind)
  BY <1>1, <1>3, <1>4, <1>5, GoOnStep DEF Retried
<1>6. CASE ~Retried(o.kind) /\ o.kind # "ok"
  BY <1>1, <1>3, <1>4, <1>6, ReturnStep
<1>7. CASE ~Retried(o.kind) /\ o.kind = "ok" /\ o.n = 0
  BY <1>1, <1>3, <1>4, <1>7, ReturnStep
<1>8. CASE ~Retried(o.kind) /\ o.kind = "ok" /\ o.n # 0
  BY <1>1, <1>3, <1>4, <1>8, GoOnStep
<1>9. QED BY <1>4, <1>5, <1>6, <1>7, <1>8

LEMMA ReadExactFilledTurn ==
  ASSUME ReaderInv, ReadExactFilled
  PROVE  ReaderInv' /\ Stream!Next
<1>1. /\ call.op = "read_exact" /\ call.got \in Nat /\ call.got = call.want
      /\ Good(rd) /\ peeked = 0 /\ call.got = call.had - rd.limit
  BY DEF ReadExactFilled, ReaderInv, StackInv, CallInv
<1>2. Return("ok", call.got) /\ rd' = rd /\ peeked' = peeked
  BY DEF ReadExactFilled
<1>3. ReaderInv'
  BY <1>1, <1>2, ReturnStep
<1>4. Stream!HandOutNothing
  BY <1>2, NothingStep DEF ReadExactFilled
<1>5. QED BY <1>3, <1>4 DEF Stream!Next

LEMMA ReadToEndTurn ==
  ASSUME ReaderInv, ReadToEnd
  PROVE  ReaderInv' /\ Stream!Next
<1>1. call.op = "read_to_end" /\ call.got \in Nat
  BY DEF ReadToEnd, ReaderInv, CallInv
<1>2. PICK room \in Lengths \ {0} : \E o \in TakeRead(rd, room) :
        /\ Reading(o)
        /\ IF Retried(o.kind) THEN GoOn(call.got)
           ELSE IF o.kind # "ok" \/ o.n = 0 THEN Return(o.kind, call.got)
           ELSE GoOn(call.got + o.n)
  BY DEF ReadToEnd
<1>3. room \in Nat /\ room # 0
  BY ReadersAssumption DEF U64
<1>4. PICK o \in TakeRead(rd, room) :
        /\ Reading(o)
        /\ IF Retried(o.kind) THEN GoOn(call.got)
           ELSE IF o.kind # "ok" \/ o.n = 0 THEN Return(o.kind, call.got)
           ELSE GoOn(call.got + o.n)
  BY <1>2
<1>5. /\ Stream!Next /\ Good(rd') /\ peeked' = 0 /\ o.n \in Nat
      /\ call.got + o.n = call.had - rd'.limit
      /\ o.kind # "ok" => o.n = 0
      /\ o.kind = "ok" /\ o.n = 0 => AtEnd'
      /\ o.kind \in {"ok", "interrupted", "other"}
  BY <1>1, <1>3, <1>4, Turned
<1>6. CASE Retried(o.kind)
  BY <1>1, <1>4, <1>5, <1>6, GoOnStep DEF Retried
<1>7. CASE ~Retried(o.kind) /\ (o.kind # "ok" \/ o.n = 0)
  BY <1>1, <1>4, <1>5, <1>7, ReturnStep
<1>8. CASE ~Retried(o.kind) /\ o.kind = "ok" /\ o.n # 0
  BY <1>1, <1>4, <1>5, <1>8, GoOnStep
<1>9. QED BY <1>5, <1>6, <1>7, <1>8

LEMMA NextByteTurn ==
  ASSUME ReaderInv, NextByte
  PROVE  ReaderInv' /\ Stream!Next
<1>1. call.op = "next" /\ call.got = 0
  BY DEF NextByte, ReaderInv, CallInv
<1>2. PICK o \in TakeRead(rd, 1) :
        /\ Reading(o)
        /\ IF Retried(o.kind) THEN GoOn(0) ELSE Return(o.kind, o.n)
  BY DEF NextByte
<1>3. /\ Stream!Next /\ Good(rd') /\ peeked' = 0 /\ o.n \in Nat
      /\ call.got + o.n = call.had - rd'.limit
      /\ o.kind # "ok" => o.n = 0
      /\ o.kind = "ok" /\ o.n = 0 => AtEnd'
      /\ o.kind \in {"ok", "interrupted", "other"}
  BY <1>1, <1>2, Turned
<1>4. CASE Retried(o.kind)
  BY <1>1, <1>2, <1>3, <1>4, GoOnStep DEF Retried
<1>5. CASE ~Retried(o.kind)
  BY <1>1, <1>2, <1>3, <1>5, ReturnStep
<1>6. QED BY <1>3, <1>4, <1>5

-----------------------------------------------------------------------------
(***************************************************************************)
(* The theorems                                                            *)
(***************************************************************************)
LEMMA InitReaders ==
  Init => ReaderInv /\ Stream!Init
<1> SUFFICES ASSUME Init PROVE ReaderInv /\ Stream!Init
  OBVIOUS
<1>1. PICK limit \in Limits :
        rd = [inner |-> 0, start |-> 0, pos |-> 0, cap |-> 0,
              done_first |-> FALSE, cursor |-> 0, limit |-> limit]
  BY DEF Init
<1>2. limit \in U64 /\ 0 \in U64
  BY ReadersAssumption, Constants DEF U64
<1>3. Good(rd)
  BY <1>1, <1>2, Constants DEF Good, ReaderState
<1>4. StackInv
  BY <1>3, NothingLent DEF StackInv, Init
<1>5. CallInv
  BY <1>2 DEF CallInv, Init, NoCall
<1>6. ResultInv
  BY DEF ResultInv, EndIsReal, EndReported, Init, NoResult
<1>7. Stream!Init
  <2>1. rd.inner - Remainder(rd) = 0 /\ rd.cursor = 0
    BY <1>1 DEF Remainder
  <2>2. rd.done_first = FALSE /\ rd.limit \in Stream!U64 /\ out = Stream!Nothing
    BY <1>1, <1>2 DEF Init, Stream!U64, U64, Stream!Nothing, Nothing
  <2>3. QED BY <2>1, <2>2 DEF Stream!Init
<1>8. QED BY <1>4, <1>5, <1>6, <1>7 DEF ReaderInv

\* Every step keeps the invariant, and is a step of the two streams.
LEMMA ReaderStep ==
  ASSUME ReaderInv, [Next]_vars
  PROVE  ReaderInv' /\ [Stream!Next]_(Stream!vars)
<1>1. CASE Next
  BY <1>1, PeekStep, ConsumeStep, SetLimitStep, RebuildStep, SeekFirstStep,
     SeekSecondStep, BeginStep, SecondReadExactStep, ReadTurn, ReadExactTurn,
     ReadExactFilledTurn, ReadToEndTurn, NextByteTurn
     DEF Next, Turn
<1>2. CASE UNCHANGED vars
  <2>1. rd' = rd /\ peeked' = peeked /\ call' = call /\ out' = out /\ result' = result
    BY <1>2 DEF vars
  <2>2. ReaderInv'
    BY <2>1 DEF ReaderInv, StackInv, Good, Avail, CursorFillBuf, Remainder, CallInv,
                ResultInv, EndIsReal, EndReported, AtEnd
  <2>3. UNCHANGED Stream!vars
    BY <2>1 DEF Stream!vars, Remainder
  <2>4. QED BY <2>2, <2>3
<1>3. QED BY <1>1, <1>2

\* What holds of the readers, their calls and the results, in every behaviour.
THEOREM ReaderInvariant == Spec => []ReaderInv
<1>1. Init => ReaderInv
  BY InitReaders
<1>2. ReaderInv /\ [Next]_vars => ReaderInv'
  BY ReaderStep
<1>3. QED BY <1>1, <1>2, PTL DEF Spec

LEMMA Typed == ReaderInv => TypeOK
<1> SUFFICES ASSUME ReaderInv PROVE TypeOK
  OBVIOUS
<1>1. Good(rd) /\ rd.limit \in Nat
  BY DEF ReaderInv, StackInv, Good, ReaderState, U64
<1>2. peeked \in 0..Available
  BY DEF ReaderInv, StackInv, Available, Avail
<1>3. call \in [op : Op \cup {"none"}, want : U64, got : Nat, had : U64]
  BY DEF ReaderInv, CallInv
<1>4. call.got <= call.had
  BY <1>1, <1>3 DEF ReaderInv, CallInv, NoCall, U64
<1>5. QED BY <1>1, <1>2, <1>3, <1>4 DEF TypeOK, Good, U64

\* BufReader's buffer holds what lies right before R's position, and what
\* fill_buf() lent can be consumed, whatever was read, sought and failed.
THEOREM ReadersTypeCorrect == Spec => []TypeOK
BY Typed, ReaderInvariant, PTL

\* The loops of Read account for every byte that left the adapters, also those
\* read before an interruption or an error.
THEOREM BytesAccounted == Spec => []EveryByteAccountedFor
<1>1. ReaderInv => EveryByteAccountedFor
  BY DEF ReaderInv, CallInv, ResultInv, EveryByteAccountedFor
<1>2. QED BY <1>1, ReaderInvariant, PTL

\* read_exact returns Ok exactly when it filled the buffer, and no call reports
\* the end of the stream before it.
THEOREM EndsAreReal == Spec => []EndIsReal
<1>1. ReaderInv => EndIsReal
  BY DEF ReaderInv, ResultInv
<1>2. QED BY <1>1, ReaderInvariant, PTL

\* Take over Chain over BufReader and Cursor implements two plain streams with a
\* budget: no byte is lost, repeated, reordered or invented.
THEOREM ByteStreamImplemented == Spec => ImplementsByteStream
<1>1. Init => Stream!Init
  BY InitReaders
<1>2. ReaderInv /\ [Next]_vars => [Stream!Next]_(Stream!vars)
  BY ReaderStep
<1>3. QED
  BY <1>1, <1>2, ReaderInvariant, PTL DEF Spec, ImplementsByteStream, Stream!Spec
===============================================================================
