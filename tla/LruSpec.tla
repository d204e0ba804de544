------------------------------- MODULE LruSpec -------------------------------
(* The LRU list as the shard uses it: an order of keys that is used, dropped *)
(* from, popped at its end and emptied.                                      *)
EXTENDS LruOrder

CONSTANT Keys

VARIABLE list  \* the keys, most recently used first

Init == list = <<>>

Use(k) == list' = MoveToFront(list, k)
Drop(k) == list' = Unlink(list, k)
PopLast == list # <<>> /\ list' = Front(list)
Empty == list' = <<>>

Next ==
  \/ \E k \in Keys : Use(k) \/ Drop(k)
  \/ PopLast
  \/ Empty

Spec == Init /\ [][Next]_list
=============================================================================
