------------------------------ MODULE ByteStream ------------------------------
(***************************************************************************)
(* What a client of core2's reader adapters may rely on, whatever they     *)
(* buffer: there are two streams of bytes, read one after the other; each  *)
(* byte that a call hands out is the next one of its stream, the second    *)
(* stream begins only at the end of the first, no more bytes are handed    *)
(* out than the budget allows, and a seek goes exactly where it says or    *)
(* nowhere.                                                                *)
(***************************************************************************)
EXTENDS Integers

CONSTANTS
  Size,    \* the lengths of the two streams
  Half     \* i64 is -Half .. Half - 1 and u64 is 0 .. 2 * Half - 1

VARIABLES
  at,         \* the position of the next byte of each stream
  switched,   \* the second stream has begun
  budget,     \* how many more bytes may be handed out
  out         \* what the last step handed out, or where it moved to

vars == <<at, switched, budget, out>>

U64 == 0..(2 * Half - 1)
I64 == (-Half)..(Half - 1)

\* SeekFrom
SeekFrom == [from : {"start"}, n : U64] \cup [from : {"end", "current"}, n : I64]

Nothing      == [kind |-> "nothing"]
Bytes(s, from, n) == [kind |-> "bytes", src |-> s, from |-> from, n |-> n]
MovedTo(s, p)     == [kind |-> "moved", src |-> s, to |-> p]

Target(s, how) ==
  CASE how.from = "start"   -> how.n
    [] how.from = "end"     -> Size[s] + how.n
    [] how.from = "current" -> at[s] + how.n

Init ==
  /\ at = <<0, 0>>
  /\ switched = FALSE
  /\ budget \in U64
  /\ out = Nothing

\* The second stream begins where the first one ends.
MaySwitch == switched' # switched => switched' /\ at[1] >= Size[1]

HandOut(s, n) ==
  /\ n \in 1..budget
  /\ at[s] + n <= Size[s]
  /\ MaySwitch
  /\ switched' = (s = 2)
  /\ out' = Bytes(s, at[s], n)
  /\ at' = [at EXCEPT ![s] = @ + n]
  /\ budget' = budget - n

\* The client reads from the second stream itself.
HandOutDirectly(n) ==
  /\ n \in U64 \ {0}
  /\ at[2] + n <= Size[2]
  /\ out' = Bytes(2, at[2], n)
  /\ at' = [at EXCEPT ![2] = @ + n]
  /\ UNCHANGED <<switched, budget>>

HandOutNothing ==
  /\ MaySwitch
  /\ out' = Nothing
  /\ UNCHANGED <<at, budget>>

\* Only the first stream, which is not in memory, may refuse a legal seek.
Seek(s, how) ==
  /\ \/ /\ Target(s, how) \in U64
        /\ at' = [at EXCEPT ![s] = Target(s, how)]
        /\ out' = MovedTo(s, Target(s, how))
     \/ /\ s = 1 \/ Target(s, how) \notin U64
        /\ UNCHANGED at
        /\ out' = Nothing
  /\ UNCHANGED <<switched, budget>>

SetBudget(n) ==
  /\ budget' = n
  /\ out' = Nothing
  /\ UNCHANGED <<at, switched>>

\* The client starts anew; what was read ahead of it is lost.
Restart(n) ==
  /\ budget' = n
  /\ switched' = FALSE
  /\ \E p \in {at[1]} \cup at[1]..Size[1] : at' = [at EXCEPT ![1] = p]
  /\ out' = Nothing

Next ==
  \/ \E s \in {1, 2}, n \in U64 : HandOut(s, n)
  \/ \E n \in U64 : HandOutDirectly(n)
  \/ HandOutNothing
  \/ \E s \in {1, 2}, how \in SeekFrom : Seek(s, how)
  \/ \E n \in U64 : SetBudget(n) \/ Restart(n)

Spec == Init /\ [][Next]_vars
===============================================================================
