------------------------------ MODULE FifoSpec ------------------------------
(* What a refresh queue promises: first in, first out, at most Cap keys, and *)
(* a push fails only when there are that many.                               *)
EXTENDS Integers, Sequences

CONSTANTS Keys, Cap

VARIABLES
  q,     \* the keys queued, oldest first
  last   \* what the last call returned

Init == q = <<>> /\ last = "none"

Push(k) ==
  \/ /\ Len(q) < Cap
     /\ q' = Append(q, k)
     /\ last' = "pushed"
  \/ /\ Len(q) = Cap
     /\ last' = "full"
     /\ UNCHANGED q

Pop ==
  \/ /\ q # <<>>
     /\ last' = Head(q)
     /\ q' = Tail(q)
  \/ /\ q = <<>>
     /\ last' = "empty"
     /\ UNCHANGED q

Next == (\E k \in Keys : Push(k)) \/ Pop

Spec == Init /\ [][Next]_<<q, last>>
=============================================================================
