------------------------------ MODULE Iterators ------------------------------
(***************************************************************************)
(* Rust's iterator chains, as far as the node's code uses them on lists.   *)
(* SelectSeq says the same; this form can be reasoned about.               *)
(***************************************************************************)
EXTENDS Naturals, Sequences

\* list.into_iter().filter(|x| x in S).collect()
Keep(list, S) ==
  LET kept[n \in 0..Len(list)] ==
        IF n = 0 THEN <<>>
        ELSE IF list[n] \in S THEN Append(kept[n - 1], list[n])
        ELSE kept[n - 1]
  IN  kept[Len(list)]
=============================================================================
