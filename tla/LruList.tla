------------------------------- MODULE LruList -------------------------------
(***************************************************************************)
(* The doubly-linked list of src/db/storage/lru.rs: boxed nodes linked by  *)
(* raw pointers, a head, a tail, and a hash map from keys to nodes.  The   *)
(* shard's write lock covers every method, so a method is one step.  An    *)
(* address that was freed may be handed out again, and what a freed or a   *)
(* new box holds besides what the code writes is left as it was.           *)
(***************************************************************************)
EXTENDS ShardKeys, Integers, Sequences, FiniteSets, SequencesExt

CONSTANTS
  Addrs,  \* addresses the allocator hands out
  Null    \* the null pointer

ASSUME ListConstants ==
  /\ IsFiniteSet(Keys) /\ Keys # {} /\ IsFiniteSet(Addrs)
  /\ Cardinality(Addrs) >= Cardinality(Keys)  \* Box::new never fails
  /\ Null \notin Addrs

VARIABLES
  links,  \* head, tail and the prev and next fields of the nodes
  keyAt,  \* the key field of the nodes
  nodes,  \* the hash map: key -> address
  heap    \* the boxes that are allocated

listVars == <<links, keyAt, nodes, heap>>

NoNodes == [k \in Keys |-> Null]

ListInit ==
  /\ links = [head |-> Null, tail |-> Null,
              prev |-> [a \in Addrs |-> Null], next |-> [a \in Addrs |-> Null]]
  /\ keyAt = [a \in Addrs |-> CHOOSE k \in Keys : TRUE]
  /\ nodes = NoNodes
  /\ heap = {}

-----------------------------------------------------------------------------
(* The two pointer helpers *)

\* A neighbour that is null is not written to.
RemoveNode_KeepTail(l, n) ==
  LET p == l.prev[n]  x == l.next[n] IN
  [l EXCEPT !.head = IF p = Null THEN x ELSE @,
            !.prev = [a \in Addrs |-> CASE a = n -> Null [] a = x -> p [] OTHER -> @[a]],
            !.next = [a \in Addrs |-> CASE a = n -> Null [] a = p -> x [] OTHER -> @[a]]]
RemoveNode(l, n) ==
  LET p == l.prev[n]  x == l.next[n] IN
  [head |-> IF p = Null THEN x ELSE l.head,
   tail |-> IF x = Null THEN p ELSE l.tail,
   prev |-> [a \in Addrs |-> CASE a = n -> Null [] a = x -> p [] OTHER -> l.prev[a]],
   next |-> [a \in Addrs |-> CASE a = n -> Null [] a = p -> x [] OTHER -> l.next[a]]]

PushNodeFront(l, n) ==
  [head |-> n,
   tail |-> IF l.head = Null THEN n ELSE l.tail,
   prev |-> [a \in Addrs |-> CASE a = n -> Null [] a = l.head -> n [] OTHER -> l.prev[a]],
   next |-> [l.next EXCEPT ![n] = l.head]]

-----------------------------------------------------------------------------
(* The methods.  remove and pop_tail of what is not there change nothing. *)

\* move_to_front of a key that has a node; push_front does the same.
Touch(k) ==
  /\ nodes[k] # Null
  /\ links' = PushNodeFront(RemoveNode(links, nodes[k]), nodes[k])
  /\ UNCHANGED <<keyAt, nodes, heap>>

\* push_front of a key that has none, move_to_front included.
PushFront(k) ==
  /\ nodes[k] = Null
  /\ \E a \in Addrs \ heap :
       /\ heap' = heap \cup {a}
       /\ keyAt' = [keyAt EXCEPT ![a] = k]
       /\ nodes' = [nodes EXCEPT ![k] = a]
       /\ links' = PushNodeFront(links, a)

RemoveKey(k) ==
  LET n == nodes[k] IN
  /\ n # Null
  /\ links' = RemoveNode(links, n)
  /\ nodes' = [nodes EXCEPT ![k] = Null]
  /\ heap' = heap \ {n}
  /\ UNCHANGED keyAt

\* The hash map forgets the key the tail node names.
Forgotten_Not(n) == nodes
Forgotten(n) == [nodes EXCEPT ![keyAt[n]] = Null]

PopTail ==
  LET n == links.tail IN
  /\ n # Null
  /\ links' = RemoveNode(links, n)
  /\ nodes' = Forgotten(n)
  /\ heap' = heap \ {n}
  /\ UNCHANGED keyAt

\* The nodes on the way from a start along one of the two links, up to the
\* null pointer.
Way(start, step) ==
  LET node[i \in 1..Cardinality(Addrs) + 1] ==
        IF i = 1 THEN start
        ELSE IF node[i - 1] = Null THEN Null ELSE step[node[i - 1]]
  IN  [i \in 1..Cardinality({j \in 1..Cardinality(Addrs) + 1 : node[j] # Null}) |-> node[i]]

Forward == Way(links.head, links.next)
Backward == Way(links.tail, links.prev)

\* Frees the nodes it meets on its way from the head; also Drop.
Clear ==
  /\ heap' = heap \ ToSet(Forward)
  /\ links' = [links EXCEPT !.head = Null, !.tail = Null]
  /\ nodes' = NoNodes
  /\ UNCHANGED keyAt

ListNext ==
  \/ \E k \in Keys : Touch(k) \/ PushFront(k) \/ RemoveKey(k)
  \/ PopTail
  \/ Clear

ListSpec == ListInit /\ [][ListNext]_listVars

-----------------------------------------------------------------------------
(* Properties *)

\* lru.rs: "all operations maintain list invariants".  The way back is the
\* way forth reversed, and its nodes are exactly the boxes allocated and
\* exactly the nodes of the hash map, each under its own key: no pointer
\* dangles, no box leaks, also when addresses are handed out again.
WellLinked ==
  /\ Backward = Reverse(Forward)
  /\ IsInjective(Forward)
  /\ ToSet(Forward) = heap
  /\ heap = {nodes[k] : k \in Keys} \ {Null}
  /\ \A k \in Keys : nodes[k] # Null => keyAt[nodes[k]] = k

\* The list is the order of keys that the sharded map reckons with.
Order == INSTANCE LruSpec WITH list <- [i \in 1..Len(Forward) |-> keyAt[Forward[i]]]
ImplementsOrder == Order!Spec

-----------------------------------------------------------------------------
(* What the proofs add to make the invariant inductive *)

Pointers == Addrs \cup {Null}

LinkRecords == [head : Pointers, tail : Pointers,
                prev : [Addrs -> Pointers], next : [Addrs -> Pointers]]

ListTypeOK ==
  /\ links \in LinkRecords
  /\ keyAt \in [Addrs -> Keys]
  /\ nodes \in [Keys -> Pointers]
  /\ heap \subseteq Addrs

\* The links go through the addresses of q, each once, and no others.
At(q, i) == IF i \in 1..Len(q) THEN q[i] ELSE Null
Linked(l, q) ==
  /\ IsInjective(q)
  /\ l.head = At(q, 1) /\ l.tail = At(q, Len(q))
  /\ \A i \in 1..Len(q) : l.prev[q[i]] = At(q, i - 1) /\ l.next[q[i]] = At(q, i + 1)

\* The hash map has a node for every box, under its key.
Indexed ==
  /\ heap = {nodes[k] : k \in Keys} \ {Null}
  /\ \A k \in Keys : nodes[k] # Null => keyAt[nodes[k]] = k

ListInv ==
  /\ ListTypeOK
  /\ Forward \in Seq(Addrs) /\ ToSet(Forward) = heap
  /\ Linked(links, Forward)
  /\ Indexed
=============================================================================
