------------------------------ MODULE LruOrder ------------------------------
(***************************************************************************)
(* What the LRU list of src/db/storage/lru.rs promises: an order of keys   *)
(* without repetition, most recently used first.  The sharded map works    *)
(* with this order; LruList.tla shows that the pointers implement it.      *)
(***************************************************************************)
EXTENDS Integers, Sequences, SequencesExt

\* LRUList::remove: no key is twice in a list.
Unlink(list, k) ==
  IF Contains(list, k)
  THEN RemoveAt(list, CHOOSE i \in 1..Len(list) : list[i] = k)
  ELSE list

\* LRUList::move_to_front, and push_front, which does the same.
MoveToFront_Repeated(list, k) == Cons(k, list)
MoveToFront(list, k) == Cons(k, Unlink(list, k))
=============================================================================
