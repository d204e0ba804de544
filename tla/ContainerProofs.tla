--------------------------- MODULE ContainerProofs ---------------------------
(***************************************************************************)
(* The two containers of a shard do what they promise, for any size.       *)
(*                                                                         *)
(* Part 1.  The pointer list of LruList.tla keeps its links whole, and     *)
(* implements the order of keys of LruSpec.tla, for any keys and any       *)
(* addresses.  The argument is about a sequence q that the links go        *)
(* through (Linked): the two pointer helpers turn it into <<n>> \o q and   *)
(* RemoveAt(q, i), and a walk along linked nodes yields q and its reverse  *)
(* and nothing else.                                                       *)
(*                                                                         *)
(* Part 2.  The circular buffer of RefreshQueue.tla implements the bounded *)
(* queue of FifoSpec.tla, and so does the one that the refresh cycle uses. *)
(***************************************************************************)
EXTENDS LruList, RefreshCycle, FiniteSetTheorems, SequenceTheorems, WellFoundedInduction, TLAPS

(***************************************************************************)
(* Part 1: the LRU list                                                    *)
(***************************************************************************)

\* Induction over the naturals for a set instead of a predicate.
LEMMA SetInduction ==
  ASSUME NEW B, 0 \in B, \A n \in Nat : n \in B => n + 1 \in B
  PROVE  \A n \in Nat : n \in B
<1> DEFINE T == Nat \ B
           R == OpToRel(<, Nat)
<1>1. IsWellFoundedOn(R, Nat)
  BY NatLessThanWellFounded
<1> SUFFICES ASSUME T # {} PROVE FALSE
  <2> HIDE DEF R
  <2> QED
    OBVIOUS
<1>2. PICK t \in T : \A u \in T : ~(<<u, t>> \in R)
  <2>1. T \subseteq Nat
    <3> HIDE DEF R
    <3> QED
      OBVIOUS
  <2> HIDE DEF R, T
  <2> QED
    BY <1>1, <2>1, WFMin
<1>3. \A u \in T : ~(u < t)
  <2>1. \A u \in T : u \in Nat /\ t \in Nat
    <3> HIDE DEF R
    <3> QED
      OBVIOUS
  <2> QED
    BY <1>2, <2>1 DEF OpToRel
<1> HIDE DEF R
<1>4. t \in Nat /\ t # 0 /\ t \notin B
  OBVIOUS
<1>5. t - 1 \in Nat /\ t - 1 < t /\ (t - 1) + 1 = t
  BY <1>4
<1>6. t - 1 \in B
  BY <1>3, <1>5
<1> QED
  BY <1>4, <1>5, <1>6

\* Dropping the i-th element.
LEMMA RemoveAtProps ==
  ASSUME NEW S, NEW q \in Seq(S), NEW i \in 1..Len(q)
  PROVE  /\ RemoveAt(q, i) \in Seq(S)
         /\ Len(RemoveAt(q, i)) = Len(q) - 1
         /\ \A j \in 1..(Len(q) - 1) :
              RemoveAt(q, i)[j] = IF j < i THEN q[j] ELSE q[j + 1]
<1> DEFINE a == SubSeq(q, 1, i - 1)
           b == SubSeq(q, i + 1, Len(q))
<1>1. /\ a \in Seq(S) /\ Len(a) = i - 1
      /\ \A j \in 1..(i - 1) : a[j] = q[j]
  BY SubSeqProperties
<1>2. /\ b \in Seq(S) /\ Len(b) = Len(q) - i
      /\ \A j \in 1..(Len(q) - i) : b[j] = q[i + j]
  BY SubSeqProperties
<1> HIDE DEF a, b
<1>3. Len(q) \in Nat /\ Len(a) \in Nat /\ Len(b) \in Nat
  BY <1>1, <1>2
<1>4. /\ a \o b \in Seq(S)
      /\ Len(a \o b) = Len(a) + Len(b)
      /\ \A j \in 1..(Len(a) + Len(b)) :
           (a \o b)[j] = IF j <= Len(a) THEN a[j] ELSE b[j - Len(a)]
  BY <1>1, <1>2, ConcatProperties
<1>5. ASSUME NEW j \in 1..(Len(q) - 1)
      PROVE  (a \o b)[j] = IF j < i THEN q[j] ELSE q[j + 1]
  <2>1. CASE j < i
    BY <2>1, <1>1, <1>2, <1>3, <1>4
  <2>2. CASE ~(j < i)
    <3>1. (a \o b)[j] = b[j - (i - 1)]
      BY <2>2, <1>1, <1>2, <1>3, <1>4
    <3>2. j - (i - 1) \in 1..(Len(q) - i)
      BY <2>2, <1>3
    <3>3. i + (j - (i - 1)) = j + 1
      BY <1>3
    <3> QED
      BY <3>1, <3>2, <3>3, <2>2, <1>2
  <2> QED
    BY <2>1, <2>2
<1>6. RemoveAt(q, i) = a \o b
  BY DEF RemoveAt, a, b
<1>7. Len(a) + Len(b) = Len(q) - 1
  BY <1>1, <1>2, <1>3
<1> QED
  BY <1>4, <1>5, <1>6, <1>7

-----------------------------------------------------------------------------
(* The way along the links *)

\* A sequence without repetition is no longer than there are addresses.
LEMMA PathLength ==
  ASSUME NEW q \in Seq(Addrs), IsInjective(q)
  PROVE  /\ Len(q) \in Nat /\ Cardinality(Addrs) \in Nat
         /\ Len(q) <= Cardinality(Addrs) /\ Cardinality(1..Len(q)) = Len(q)
<1>1. Len(q) \in Nat /\ q \in [1..Len(q) -> Addrs]
  OBVIOUS
<1>2. IsFiniteSet(1..Len(q)) /\ Cardinality(1..Len(q)) = Len(q)
  BY <1>1, FS_Interval
<1>3. q \in Injection(1..Len(q), Addrs)
  BY <1>1 DEF Injection
<1>4. Cardinality(1..Len(q)) <= Cardinality(Addrs)
  BY <1>3, ListConstants, FS_Injection
<1> QED
  BY <1>1, <1>2, <1>4, ListConstants, FS_CardinalityType

\* Positions of such a sequence can be told by what is there.
LEMMA AtProps ==
  ASSUME NEW q \in Seq(Addrs), IsInjective(q)
  PROVE  /\ \A i \in Int : At(q, i) = Null <=> i \notin 1..Len(q)
         /\ \A i \in Int : At(q, i) \in Pointers
         /\ \A i, j \in Int : At(q, i) = At(q, j) /\ At(q, i) # Null => i = j
<1>1. \A i \in 1..Len(q) : q[i] \in Addrs /\ q[i] # Null
  BY ListConstants
<1>2. \A i, j \in 1..Len(q) : q[i] = q[j] => i = j
  BY DEF IsInjective
<1> QED
  BY <1>1, <1>2 DEF At, Pointers

\* Links that lead through a sequence lead through nothing else.
LEMMA WayIs ==
  ASSUME NEW q \in Seq(Addrs), IsInjective(q), NEW start, NEW step,
         start = At(q, 1),
         \A i \in 1..Len(q) : step[q[i]] = At(q, i + 1)
  PROVE  Way(start, step) = q
<1> DEFINE N == Cardinality(Addrs)
           eq(g) == [i \in 1..N + 1 |->
                       IF i = 1 THEN start ELSE IF g[i - 1] = Null THEN Null ELSE step[g[i - 1]]]
           g0 == [i \in 1..N + 1 |-> At(q, i)]
           node == CHOOSE g : g = eq(g)
<1>1. Len(q) \in Nat /\ N \in Nat /\ Len(q) <= N
  BY PathLength
<1>2. g0 = eq(g0)
  <2> SUFFICES ASSUME NEW i \in 1..N + 1
               PROVE  g0[i] = eq(g0)[i]
    OBVIOUS
  <2>1. CASE i = 1
    BY <2>1
  <2>2. CASE i # 1
    <3>1. i - 1 \in 1..N + 1 /\ g0[i - 1] = At(q, i - 1) /\ i \in Int /\ i - 1 \in Int
      BY <1>1, <2>2
    <3>2. CASE i - 1 \in 1..Len(q)
      <4>1. At(q, i - 1) = q[i - 1] /\ At(q, i - 1) # Null
        BY <3>1, <3>2, AtProps DEF At
      <4>2. step[q[i - 1]] = At(q, i)
        <5>1. (i - 1) + 1 = i
          BY <3>1
        <5> QED
          BY <3>2, <5>1
      <4> QED
        BY <2>2, <3>1, <4>1, <4>2
    <3>3. CASE i - 1 \notin 1..Len(q)
      <4>1. At(q, i - 1) = Null /\ At(q, i) = Null
        BY <1>1, <2>2, <3>1, <3>3 DEF At
      <4> QED
        BY <2>2, <3>1, <4>1
    <3> QED
      BY <3>2, <3>3
  <2> QED
    BY <2>1, <2>2
<1>3. node = eq(node)
  <2>1. \E g : g = eq(g)
    BY <1>2
  <2> QED
    BY <2>1
<1> HIDE DEF node
<1>4. ASSUME NEW i \in 1..N + 1
      PROVE  node[i] = g0[i]
  <2> DEFINE B == {n \in Nat : n + 1 \in 1..N + 1 => node[n + 1] = g0[n + 1]}
  <2>1. 0 \in B
    <3>1. node[1] = start /\ g0[1] = start
      BY <1>1, <1>3
    <3> QED
      BY <3>1
  <2>2. ASSUME NEW n \in Nat, n \in B
        PROVE  n + 1 \in B
    <3> SUFFICES ASSUME (n + 1) + 1 \in 1..N + 1
                 PROVE  node[(n + 1) + 1] = g0[(n + 1) + 1]
      OBVIOUS
    <3> DEFINE j == (n + 1) + 1
    <3>1. j \in 1..N + 1 /\ j # 1 /\ j - 1 = n + 1 /\ n + 1 \in 1..N + 1
      BY <1>1
    <3> HIDE DEF j
    <3>2. node[j - 1] = g0[j - 1]
      BY <2>2, <3>1
    <3>3. node[j] = IF node[j - 1] = Null THEN Null ELSE step[node[j - 1]]
      BY <1>3, <3>1
    <3> HIDE DEF g0
    <3>4. g0[j] = IF g0[j - 1] = Null THEN Null ELSE step[g0[j - 1]]
      BY <1>2, <3>1
    <3>5. node[j] = g0[j]
      BY <3>2, <3>3, <3>4
    <3> QED
      BY <3>5 DEF j
  <2>3. \A n \in Nat : n \in B
    <3> HIDE DEF B
    <3> QED
      BY <2>1, <2>2, SetInduction
  <2>4. i - 1 \in Nat /\ (i - 1) + 1 = i
    BY <1>1
  <2>5. i - 1 \in B
    BY <2>3, <2>4
  <2> QED
    BY <2>4, <2>5
<1>5. {j \in 1..N + 1 : node[j] # Null} = 1..Len(q)
  <2>1. ASSUME NEW j \in 1..N + 1
        PROVE  node[j] # Null <=> j \in 1..Len(q)
    BY <1>4, AtProps
  <2>2. 1..Len(q) \subseteq 1..N + 1
    BY <1>1
  <2> QED
    BY <2>1, <2>2
<1>6. Cardinality(1..Len(q)) = Len(q)
  BY PathLength
<1>7. Way(start, step) = [i \in 1..Cardinality({j \in 1..N + 1 : node[j] # Null}) |-> node[i]]
  BY DEF Way, node
<1>8. \A i \in 1..Len(q) : i \in 1..N + 1 /\ node[i] = q[i]
  BY <1>1, <1>4 DEF At
<1>9. [i \in 1..Len(q) |-> node[i]] = q
  BY <1>8
<1> QED
  BY <1>5, <1>6, <1>7, <1>9

\* The two ways along well linked nodes.
LEMMA Ways ==
  ASSUME NEW l, NEW q \in Seq(Addrs), Linked(l, q)
  PROVE  /\ Way(l.head, l.next) = q
         /\ Way(l.tail, l.prev) = Reverse(q)
<1> DEFINE r == Reverse(q)
           n == Len(q)
<1>1. /\ IsInjective(q) /\ l.head = At(q, 1) /\ l.tail = At(q, n)
      /\ \A i \in 1..n : l.prev[q[i]] = At(q, i - 1) /\ l.next[q[i]] = At(q, i + 1)
  BY DEF Linked
<1>2. Way(l.head, l.next) = q
  BY <1>1, WayIs
<1>3. n \in Nat /\ \A i \in 1..n : q[i] \in Addrs
  OBVIOUS
<1>4. /\ r \in Seq(Addrs) /\ Len(r) = n /\ DOMAIN r = 1..n
      /\ \A i \in 1..n : r[i] = q[(n - i) + 1]
  <2>1. r = [i \in 1..n |-> q[(n - i) + 1]]
    BY DEF Reverse
  <2>2. \A i \in 1..n : (n - i) + 1 \in 1..n
    BY <1>3
  <2> QED
    BY <1>3, <2>1, <2>2
<1> HIDE DEF r, n
<1>5. IsInjective(r)
  <2> SUFFICES ASSUME NEW i \in 1..n, NEW j \in 1..n, r[i] = r[j]
               PROVE  i = j
    BY <1>4 DEF IsInjective
  <2>1. (n - i) + 1 \in 1..n /\ (n - j) + 1 \in 1..n
    BY <1>3
  <2>2. DOMAIN q = 1..n
    BY DEF n
  <2>3. (n - i) + 1 = (n - j) + 1
    BY <1>1, <1>4, <2>1, <2>2 DEF IsInjective
  <2> QED
    BY <1>3, <2>3
<1>6. \A i \in 0..n + 1 : At(r, i) = At(q, (n - i) + 1)
  <2> SUFFICES ASSUME NEW i \in 0..n + 1
               PROVE  At(r, i) = At(q, (n - i) + 1)
    OBVIOUS
  <2>1. i \in 1..n <=> (n - i) + 1 \in 1..n
    BY <1>3
  <2>2. Len(r) = n /\ Len(q) = n
    BY <1>4 DEF n
  <2> QED
    BY <1>4, <2>1, <2>2 DEF At
<1>7. l.tail = At(r, 1)
  <2>1. 1 \in 0..n + 1 /\ (n - 1) + 1 = n
    BY <1>3
  <2> QED
    BY <1>1, <1>6, <2>1
<1>8. ASSUME NEW i \in 1..n
      PROVE  l.prev[r[i]] = At(r, i + 1)
  <2>1. (n - i) + 1 \in 1..n /\ i + 1 \in 0..n + 1 /\ (n - (i + 1)) + 1 = ((n - i) + 1) - 1
    BY <1>3
  <2>2. l.prev[q[(n - i) + 1]] = At(q, ((n - i) + 1) - 1)
    BY <1>1, <2>1
  <2> QED
    BY <1>4, <1>6, <2>1, <2>2
<1>9. Way(l.tail, l.prev) = r
  BY <1>4, <1>5, <1>7, <1>8, WayIs
<1> QED
  BY <1>2, <1>9 DEF r

-----------------------------------------------------------------------------
(* The two pointer helpers *)

\* push_node_front puts a new address before the others.
LEMMA PushLinked ==
  ASSUME NEW l \in LinkRecords, NEW q \in Seq(Addrs), Linked(l, q),
         NEW a \in Addrs, a \notin ToSet(q)
  PROVE  /\ PushNodeFront(l, a) \in LinkRecords
         /\ <<a>> \o q \in Seq(Addrs)
         /\ Linked(PushNodeFront(l, a), <<a>> \o q)
         /\ ToSet(<<a>> \o q) = ToSet(q) \cup {a}
<1> DEFINE m == PushNodeFront(l, a)
           r == <<a>> \o q
           n == Len(q)
<1>1. /\ IsInjective(q) /\ l.head = At(q, 1) /\ l.tail = At(q, n)
      /\ \A i \in 1..n : l.prev[q[i]] = At(q, i - 1) /\ l.next[q[i]] = At(q, i + 1)
  BY DEF Linked
<1>2. /\ n \in Nat /\ \A i \in 1..n : q[i] \in Addrs /\ q[i] # a
      /\ DOMAIN q = 1..n
  BY DEF ToSet
<1>3. /\ r \in Seq(Addrs) /\ Len(r) = n + 1 /\ DOMAIN r = 1..n + 1
      /\ \A i \in 1..n + 1 : r[i] = IF i = 1 THEN a ELSE q[i - 1]
  BY <1>2
<1>4. /\ m.head = a
      /\ m.tail = IF l.head = Null THEN a ELSE l.tail
      /\ m.prev = [x \in Addrs |-> CASE x = a -> Null [] x = l.head -> a [] OTHER -> l.prev[x]]
      /\ m.next = [l.next EXCEPT ![a] = l.head]
  BY DEF PushNodeFront
<1>5. m \in LinkRecords
  BY DEF PushNodeFront, LinkRecords, Pointers
<1> HIDE DEF m, r, n
<1>6. l.prev \in [Addrs -> Pointers] /\ l.next \in [Addrs -> Pointers]
  BY DEF LinkRecords
<1>7. n = Len(q)
  BY DEF n
<1>8. /\ \A i \in Int : At(q, i) = Null <=> i \notin 1..n
      /\ \A i, j \in Int : At(q, i) = At(q, j) /\ At(q, i) # Null => i = j
  BY <1>1, <1>7, AtProps
<1>9. l.head # a
  BY <1>1, <1>2, <1>7, ListConstants DEF At
<1>10. \A x \in Addrs : m.prev[x] = IF x = a THEN Null ELSE IF x = l.head THEN a ELSE l.prev[x]
  BY <1>4, <1>9
<1>11. \A x \in Addrs : m.next[x] = IF x = a THEN l.head ELSE l.next[x]
  BY <1>4, <1>6
<1>12. \A i \in Int : At(r, i) = IF i = 1 THEN a ELSE At(q, i - 1)
  BY <1>2, <1>3, <1>7 DEF At
<1>13. IsInjective(r)
  <2>1. \A i, j \in 1..n : q[i] = q[j] => i = j
    BY <1>1, <1>2 DEF IsInjective
  <2> SUFFICES ASSUME NEW i \in 1..n + 1, NEW j \in 1..n + 1, r[i] = r[j]
               PROVE  i = j
    BY <1>3 DEF IsInjective
  <2>2. \A k \in 1..n + 1 : k # 1 => k - 1 \in 1..n
    BY <1>2
  <2> QED
    BY <1>2, <1>3, <2>1, <2>2
<1>14. m.head = At(r, 1) /\ m.tail = At(r, Len(r))
  <2>1. m.head = At(r, 1)
    BY <1>4, <1>12
  <2>2. CASE n = 0
    BY <1>1, <1>3, <1>4, <1>8, <1>12, <2>2
  <2>3. CASE n # 0
    <3>1. l.head # Null
      BY <1>1, <1>2, <1>8, <2>3
    <3>2. Len(r) \in Int /\ Len(r) # 1 /\ Len(r) - 1 = n
      BY <1>2, <1>3, <2>3
    <3> QED
      BY <1>1, <1>4, <1>12, <2>1, <3>1, <3>2
  <2> QED
    BY <2>1, <2>2, <2>3
<1>15. ASSUME NEW i \in 1..n + 1
       PROVE  m.prev[r[i]] = At(r, i - 1) /\ m.next[r[i]] = At(r, i + 1)
  <2>0. i \in Int /\ i - 1 \in Int /\ i + 1 \in Int
    BY <1>2
  <2>1. CASE i = 1
    <3>1. r[i] = a
      BY <1>3, <2>1
    <3>2. At(r, i - 1) = Null
      BY <1>8, <1>12, <2>1
    <3>3. At(r, i + 1) = At(q, 1)
      BY <1>12, <2>1
    <3> QED
      BY <1>1, <1>10, <1>11, <3>1, <3>2, <3>3
  <2>2. CASE i # 1
    <3> DEFINE j == i - 1
    <3>1. j \in 1..n /\ r[i] = q[j] /\ q[j] \in Addrs /\ q[j] # a
      BY <1>2, <1>3, <2>2
    <3>2. At(q, j) = q[j] /\ At(q, j) # Null
      BY <1>7, <1>8, <2>0, <3>1 DEF At
    <3>3. q[j] = l.head <=> j = 1
      BY <1>1, <1>8, <2>0, <3>2
    <3>4. m.prev[r[i]] = At(r, i - 1)
      <4>1. CASE j = 1
        BY <1>10, <1>12, <2>0, <3>1, <3>3, <4>1
      <4>2. CASE j # 1
        <5>1. m.prev[r[i]] = At(q, j - 1)
          BY <1>1, <1>10, <3>1, <3>3, <4>2
        <5>2. At(r, j) = At(q, j - 1)
          BY <1>12, <2>0, <4>2
        <5> QED
          BY <5>1, <5>2
      <4> QED
        BY <4>1, <4>2
    <3>5. m.next[r[i]] = At(r, i + 1)
      <4>1. m.next[r[i]] = At(q, j + 1)
        BY <1>1, <1>11, <3>1
      <4>2. At(r, i + 1) = At(q, (i + 1) - 1) /\ i + 1 # 1
        BY <1>12, <2>0, <2>2, <3>1
      <4>3. (i + 1) - 1 = j + 1
        BY <2>0
      <4> QED
        BY <4>1, <4>2, <4>3
    <3> QED
      BY <3>4, <3>5
  <2> QED
    BY <2>1, <2>2
<1>16. Linked(m, r)
  BY <1>3, <1>13, <1>14, <1>15 DEF Linked
<1>17. ToSet(r) = ToSet(q) \cup {a}
  <2>1. \A i \in 1..n : i + 1 \in 1..n + 1 /\ r[i + 1] = q[i]
    BY <1>2, <1>3
  <2>2. 1 \in 1..n + 1 /\ r[1] = a
    BY <1>2, <1>3
  <2>3. \A i \in 1..n + 1 : i # 1 => i - 1 \in 1..n
    BY <1>2
  <2>4. \A i \in 1..n + 1 : r[i] \in ToSet(q) \cup {a}
    BY <1>2, <1>3, <2>3 DEF ToSet
  <2>5. ToSet(r) \subseteq ToSet(q) \cup {a}
    BY <1>3, <2>4 DEF ToSet
  <2>6. ToSet(q) \subseteq ToSet(r)
    BY <1>2, <1>3, <2>1 DEF ToSet
  <2>7. a \in ToSet(r)
    BY <1>3, <2>2 DEF ToSet
  <2> QED
    BY <2>5, <2>6, <2>7
<1> QED
  BY <1>3, <1>5, <1>16, <1>17 DEF m, r

\* remove_node takes an address out and joins its neighbours.
LEMMA RemoveLinked ==
  ASSUME NEW l \in LinkRecords, NEW q \in Seq(Addrs), Linked(l, q), NEW i \in 1..Len(q)
  PROVE  /\ RemoveNode(l, q[i]) \in LinkRecords
         /\ RemoveAt(q, i) \in Seq(Addrs)
         /\ Linked(RemoveNode(l, q[i]), RemoveAt(q, i))
         /\ ToSet(RemoveAt(q, i)) = ToSet(q) \ {q[i]}
<1> DEFINE n == Len(q)
           a == q[i]
           p == l.prev[a]
           x == l.next[a]
           m == RemoveNode(l, a)
           r == RemoveAt(q, i)
<1>1. /\ IsInjective(q) /\ l.head = At(q, 1) /\ l.tail = At(q, n)
      /\ \A j \in 1..n : l.prev[q[j]] = At(q, j - 1) /\ l.next[q[j]] = At(q, j + 1)
  BY DEF Linked
<1>2. /\ n \in Nat /\ i \in 1..n /\ \A j \in 1..n : q[j] \in Addrs
      /\ DOMAIN q = 1..n /\ n = Len(q)
  OBVIOUS
<1>3. /\ r \in Seq(Addrs) /\ Len(r) = n - 1
      /\ \A j \in 1..n - 1 : r[j] = IF j < i THEN q[j] ELSE q[j + 1]
  BY RemoveAtProps
<1>4. /\ m.head = IF p = Null THEN x ELSE l.head
      /\ m.tail = IF x = Null THEN p ELSE l.tail
      /\ m.prev = [y \in Addrs |-> CASE y = a -> Null [] y = x -> p [] OTHER -> l.prev[y]]
      /\ m.next = [y \in Addrs |-> CASE y = a -> Null [] y = p -> x [] OTHER -> l.next[y]]
  BY DEF RemoveNode
<1>5. m \in LinkRecords
  BY <1>2 DEF RemoveNode, LinkRecords, Pointers
<1>6. p = At(q, i - 1) /\ x = At(q, i + 1) /\ a = q[i] /\ a \in Addrs
  BY <1>1, <1>2
<1> HIDE DEF m, r, n, p, x, a
<1>7. DOMAIN r = 1..n - 1 /\ i \in Int /\ n - 1 \in Nat
  BY <1>2, <1>3
<1>8. /\ \A j \in Int : At(q, j) = Null <=> j \notin 1..n
      /\ \A j, k \in Int : At(q, j) = At(q, k) /\ At(q, j) # Null => j = k
  BY <1>1, <1>2, AtProps
<1>9. At(q, i) = a /\ a # Null /\ a # p /\ a # x
  <2>1. At(q, i) = a /\ a # Null
    BY <1>2, <1>6, <1>7, <1>8 DEF At
  <2>2. i - 1 \in Int /\ i + 1 \in Int /\ i - 1 # i /\ i + 1 # i
    BY <1>7
  <2> QED
    BY <1>6, <1>7, <1>8, <2>1, <2>2
<1>10. \A y \in Addrs : m.prev[y] = IF y = a THEN Null ELSE IF y = x THEN p ELSE l.prev[y]
  BY <1>4, <1>9
<1>11. \A y \in Addrs : m.next[y] = IF y = a THEN Null ELSE IF y = p THEN x ELSE l.next[y]
  BY <1>4, <1>9
<1>12. \A j \in 0..n : At(r, j) = IF j < i THEN At(q, j) ELSE At(q, j + 1)
  BY <1>2, <1>3, <1>7 DEF At
<1>13. IsInjective(r)
  <2>1. \A j, k \in 1..n : q[j] = q[k] => j = k
    BY <1>1, <1>2 DEF IsInjective
  <2> SUFFICES ASSUME NEW j \in 1..n - 1, NEW k \in 1..n - 1, r[j] = r[k]
               PROVE  j = k
    BY <1>7 DEF IsInjective
  <2> DEFINE f(h) == IF h < i THEN h ELSE h + 1
  <2>2. /\ f(j) \in 1..n /\ f(k) \in 1..n
        /\ f(j) = f(k) => j = k
    BY <1>2
  <2>3. r[j] = q[f(j)] /\ r[k] = q[f(k)]
    BY <1>3
  <2> QED
    BY <2>1, <2>2, <2>3
<1>14. m.head = At(r, 1)
  <2>1. CASE i = 1
    <3>1. p = Null /\ x = At(q, 2)
      BY <1>6, <1>8, <2>1
    <3>2. At(r, 1) = At(q, 2)
      BY <1>2, <1>12, <2>1
    <3> QED
      BY <1>4, <3>1, <3>2
  <2>2. CASE i # 1
    <3>1. i - 1 \in 1..n /\ i - 1 \in Int
      BY <1>2, <2>2
    <3>2. p # Null
      BY <1>6, <1>8, <3>1
    <3>3. At(r, 1) = At(q, 1)
      BY <1>2, <1>12, <2>2
    <3> QED
      BY <1>1, <1>4, <3>2, <3>3
  <2> QED
    BY <2>1, <2>2
<1>15. m.tail = At(r, Len(r))
  <2>0. Len(r) = n - 1 /\ n - 1 \in 0..n /\ i + 1 \in Int /\ (n - 1) + 1 = n
    BY <1>2, <1>3, <1>7
  <2>1. CASE i = n
    <3>1. x = Null
      BY <1>2, <1>6, <1>8, <2>0, <2>1
    <3>2. At(r, n - 1) = At(q, n - 1)
      BY <1>2, <1>12, <2>0, <2>1
    <3> QED
      BY <1>4, <1>6, <2>0, <2>1, <3>1, <3>2
  <2>2. CASE i # n
    <3>0. i \in Int /\ n \in Int /\ 1 <= i /\ i < n
      <4>1. i \in Int /\ n \in Int /\ 1 <= i /\ i <= n
        BY <1>2, <1>7
      <4> QED
        BY <4>1, <2>2
    <3>1. i + 1 \in 1..n
      BY <3>0
    <3>2. x # Null
      BY <1>6, <1>8, <2>0, <3>1
    <3>3. ~(n - 1 < i)
      BY <3>0
    <3>4. At(r, n - 1) = At(q, n)
      BY <1>12, <2>0, <3>3
    <3> QED
      BY <1>1, <1>4, <2>0, <3>2, <3>4
  <2> QED
    BY <2>1, <2>2
<1>16. ASSUME NEW j \in 1..n - 1
       PROVE  m.prev[r[j]] = At(r, j - 1) /\ m.next[r[j]] = At(r, j + 1)
  <2> DEFINE k == IF j < i THEN j ELSE j + 1
  <2>1. /\ j \in Int /\ j - 1 \in 0..n /\ j + 1 \in 0..n /\ k \in 1..n /\ k # i
        /\ k - 1 \in Int /\ k + 1 \in Int /\ i - 1 \in Int /\ i + 1 \in Int
    BY <1>2
  <2>2. r[j] = q[k] /\ q[k] \in Addrs /\ At(q, k) = q[k] /\ q[k] # Null
    BY <1>2, <1>3, <1>8, <2>1 DEF At
  <2>3. q[k] # a
    BY <1>7, <1>8, <1>9, <2>1, <2>2
  <2>4. (q[k] = x <=> k = i + 1) /\ (q[k] = p <=> k = i - 1)
    BY <1>6, <1>8, <2>1, <2>2
  <2>5. l.prev[q[k]] = At(q, k - 1) /\ l.next[q[k]] = At(q, k + 1)
    BY <1>1, <2>1
  <2>6. m.prev[r[j]] = At(r, j - 1)
    <3>1. CASE k = i + 1
      <4>1. j = i
        BY <1>7, <2>1, <3>1
      <4>2. At(r, j - 1) = At(q, i - 1)
        BY <1>7, <1>12, <2>1, <4>1
      <4> QED
        BY <1>6, <1>10, <2>2, <2>3, <2>4, <3>1, <4>2
    <3>2. CASE k # i + 1
      <4>1. At(r, j - 1) = At(q, k - 1)
        <5>1. CASE j < i
          <6>1. j - 1 < i /\ k = j
            BY <1>7, <2>1, <5>1
          <6> QED
            BY <1>12, <2>1, <6>1
        <5>2. CASE ~(j < i)
          <6>1. ~(j - 1 < i) /\ (j - 1) + 1 = k - 1
            BY <1>7, <2>1, <3>2, <5>2
          <6> QED
            BY <1>12, <2>1, <6>1
        <5> QED
          BY <5>1, <5>2
      <4> QED
        BY <1>10, <2>2, <2>3, <2>4, <2>5, <3>2, <4>1
    <3> QED
      BY <3>1, <3>2
  <2>7. m.next[r[j]] = At(r, j + 1)
    <3>1. CASE k = i - 1
      <4>1. j + 1 = i /\ ~(j + 1 < i)
        BY <1>7, <2>1, <3>1
      <4>2. At(r, j + 1) = At(q, i + 1)
        BY <1>7, <1>12, <2>1, <4>1
      <4> QED
        BY <1>6, <1>11, <2>2, <2>3, <2>4, <3>1, <4>2
    <3>2. CASE k # i - 1
      <4>1. At(r, j + 1) = At(q, k + 1)
        <5>1. CASE j < i
          <6>1. j + 1 < i /\ k = j
            BY <1>7, <2>1, <3>2, <5>1
          <6> QED
            BY <1>12, <2>1, <6>1
        <5>2. CASE ~(j < i)
          <6>1. ~(j + 1 < i) /\ (j + 1) + 1 = k + 1
            BY <1>7, <2>1, <5>2
          <6> QED
            BY <1>12, <2>1, <6>1
        <5> QED
          BY <5>1, <5>2
      <4> QED
        BY <1>11, <2>2, <2>3, <2>4, <2>5, <3>2, <4>1
    <3> QED
      BY <3>1, <3>2
  <2> QED
    BY <2>6, <2>7
<1>17. Linked(m, r)
  BY <1>3, <1>13, <1>14, <1>15, <1>16 DEF Linked
<1>18. ToSet(r) = ToSet(q) \ {a}
  <2>1. \A j, k \in 1..n : q[j] = q[k] => j = k
    BY <1>1, <1>2 DEF IsInjective
  <2>2. ASSUME NEW j \in 1..n - 1
        PROVE  r[j] \in ToSet(q) /\ r[j] # a
    <3> DEFINE k == IF j < i THEN j ELSE j + 1
    <3>1. k \in 1..n /\ k # i
      BY <1>2, <1>7
    <3>2. r[j] = q[k]
      BY <1>3
    <3> HIDE DEF k
    <3>3. q[k] # a
      BY <1>2, <1>6, <2>1, <3>1
    <3> QED
      BY <1>2, <3>1, <3>2, <3>3 DEF ToSet
  <2>3. ASSUME NEW j \in 1..n, q[j] # a
        PROVE  q[j] \in ToSet(r)
    <3>1. CASE j < i
      <4>1. j \in 1..n - 1 /\ r[j] = q[j]
        BY <1>2, <1>3, <3>1
      <4> QED
        BY <1>7, <4>1 DEF ToSet
    <3>2. CASE ~(j < i)
      <4>1. j # i
        BY <1>6, <2>3
      <4>2. j - 1 \in 1..n - 1 /\ ~(j - 1 < i) /\ (j - 1) + 1 = j
        BY <1>2, <3>2, <4>1
      <4>3. r[j - 1] = q[j]
        BY <1>3, <4>2
      <4> QED
        BY <1>7, <4>2, <4>3 DEF ToSet
    <3> QED
      BY <3>1, <3>2
  <2> QED
    BY <1>2, <1>7, <2>2, <2>3 DEF ToSet
<1> QED
  BY <1>3, <1>5, <1>17, <1>18 DEF m, r, a

-----------------------------------------------------------------------------
(* The invariant *)

\* Links that lead through q are read as q from the head, and as its reverse
\* from the tail.
LEMMA NewWays ==
  ASSUME NEW q \in Seq(Addrs), Linked(links', q)
  PROVE  Forward' = q /\ Backward' = Reverse(q)
BY Ways DEF Forward, Backward

\* The empty list, as new and clear leave it.
LEMMA NoneLinked ==
  ASSUME NEW l, l.head = Null, l.tail = Null
  PROVE  <<>> \in Seq(Addrs) /\ ToSet(<<>>) = {} /\ Linked(l, <<>>)
<1>1. <<>> \in Seq(Addrs) /\ Len(<<>>) = 0 /\ DOMAIN <<>> = {} /\ 1..0 = {}
  OBVIOUS
<1>2. At(<<>>, 1) = Null /\ At(<<>>, 0) = Null
  BY <1>1 DEF At
<1> QED
  BY <1>1, <1>2 DEF Linked, ToSet, IsInjective

\* A node of the hash map is somewhere on the way, and no other key has it.
LEMMA NodePlace ==
  ASSUME ListInv, NEW k \in Keys, nodes[k] # Null
  PROVE  /\ nodes[k] \in heap /\ keyAt[nodes[k]] = k
         /\ \E i \in 1..Len(Forward) : Forward[i] = nodes[k]
         /\ \A h \in Keys : h # k => nodes[h] # nodes[k]
<1> DEFINE q == Forward
<1>1. q \in Seq(Addrs) /\ ToSet(q) = heap /\ Indexed
  BY DEF ListInv
<1> HIDE DEF q
<1>2. nodes[k] \in heap /\ keyAt[nodes[k]] = k
  BY <1>1 DEF Indexed
<1>3. \E i \in 1..Len(q) : q[i] = nodes[k]
  BY <1>1, <1>2 DEF ToSet
<1>4. \A h \in Keys : h # k => nodes[h] # nodes[k]
  BY <1>1, <1>2 DEF Indexed
<1> QED
  BY <1>2, <1>3, <1>4 DEF q

\* What Touch does to the way: the node goes to the front.
LEMMA TouchWay ==
  ASSUME ListInv, NEW k \in Keys, Touch(k), NEW i \in 1..Len(Forward), Forward[i] = nodes[k]
  PROVE  Forward' = <<nodes[k]>> \o RemoveAt(Forward, i) /\ ListInv'
<1> DEFINE q == Forward
           n == nodes[k]
           m == RemoveNode(links, n)
           r == RemoveAt(q, i)
<1>1. /\ q \in Seq(Addrs) /\ ToSet(q) = heap /\ Linked(links, q) /\ i \in 1..Len(q) /\ q[i] = n
      /\ links \in LinkRecords /\ heap \subseteq Addrs /\ ListTypeOK /\ Indexed
  BY DEF ListInv, ListTypeOK
<1>2. n \in heap /\ n \in Addrs
  BY <1>1, NodePlace DEF Touch
<1>3. links' = PushNodeFront(m, n) /\ keyAt' = keyAt /\ nodes' = nodes /\ heap' = heap
  BY DEF Touch
<1> HIDE DEF q, n
<1>4. m \in LinkRecords /\ r \in Seq(Addrs) /\ Linked(m, r) /\ ToSet(r) = ToSet(q) \ {n}
  BY <1>1, RemoveLinked
<1> HIDE DEF m, r
<1>5. /\ PushNodeFront(m, n) \in LinkRecords
      /\ <<n>> \o r \in Seq(Addrs) /\ Linked(PushNodeFront(m, n), <<n>> \o r)
      /\ ToSet(<<n>> \o r) = ToSet(r) \cup {n}
  BY <1>2, <1>4, PushLinked
<1>6. Forward' = <<n>> \o r
  BY <1>3, <1>5, NewWays
<1>7. ToSet(<<n>> \o r) = heap'
  BY <1>1, <1>2, <1>3, <1>4, <1>5
<1>8. ListTypeOK'
  BY <1>1, <1>3, <1>5 DEF ListTypeOK
<1>9. Indexed'
  BY <1>1, <1>3 DEF Indexed
<1>10. Linked(links', Forward') /\ Forward' \in Seq(Addrs) /\ ToSet(Forward') = heap'
  BY <1>3, <1>5, <1>6, <1>7
<1>11. ListInv'
  BY <1>8, <1>9, <1>10 DEF ListInv
<1> QED
  BY <1>6, <1>11 DEF q, n, r

\* What push_front of a new key does to the way, whatever address it is given.
LEMMA PushWay ==
  ASSUME ListInv, NEW k \in Keys, PushFront(k)
  PROVE  /\ ListInv'
         /\ \E a \in Addrs \ heap :
              keyAt' = [keyAt EXCEPT ![a] = k] /\ Forward' = <<a>> \o Forward
<1> DEFINE q == Forward
<1>1. /\ q \in Seq(Addrs) /\ ToSet(q) = heap /\ Linked(links, q)
      /\ links \in LinkRecords /\ heap \subseteq Addrs /\ ListTypeOK /\ Indexed
  BY DEF ListInv, ListTypeOK
<1>2. PICK a \in Addrs \ heap :
        /\ heap' = heap \cup {a} /\ keyAt' = [keyAt EXCEPT ![a] = k]
        /\ nodes' = [nodes EXCEPT ![k] = a] /\ links' = PushNodeFront(links, a)
  BY DEF PushFront
<1>3. nodes[k] = Null
  BY DEF PushFront
<1> HIDE DEF q
<1>4. /\ PushNodeFront(links, a) \in LinkRecords
      /\ <<a>> \o q \in Seq(Addrs) /\ Linked(PushNodeFront(links, a), <<a>> \o q)
      /\ ToSet(<<a>> \o q) = ToSet(q) \cup {a}
  BY <1>1, <1>2, PushLinked
<1>5. Forward' = <<a>> \o q
  BY <1>2, <1>4, NewWays
<1>6. ListTypeOK'
  BY <1>1, <1>2, <1>4 DEF ListTypeOK, Pointers
<1>7. Indexed'
  <2>1. /\ keyAt \in [Addrs -> Keys] /\ nodes \in [Keys -> Pointers] /\ a \in Addrs /\ a # Null
    BY <1>1, <1>2, ListConstants DEF ListTypeOK
  <2>2. heap = {nodes[h] : h \in Keys} \ {Null}
    BY <1>1 DEF Indexed
  <2>3. \A h \in Keys : nodes'[h] = IF h = k THEN a ELSE nodes[h]
    BY <1>2, <2>1
  <2>4. heap' = {nodes'[h] : h \in Keys} \ {Null}
    <3>1. heap' \subseteq {nodes'[h] : h \in Keys} \ {Null}
      BY <1>2, <1>3, <2>1, <2>2, <2>3
    <3>2. {nodes'[h] : h \in Keys} \ {Null} \subseteq heap'
      BY <1>2, <1>3, <2>1, <2>2, <2>3
    <3> QED
      BY <3>1, <3>2
  <2>5. ASSUME NEW h \in Keys, nodes'[h] # Null
        PROVE  keyAt'[nodes'[h]] = h
    <3>1. CASE h = k
      BY <1>2, <2>1, <2>3, <3>1
    <3>2. CASE h # k
      <4>1. nodes[h] \in heap /\ nodes[h] # a /\ nodes[h] \in Addrs /\ keyAt[nodes[h]] = h
        BY <1>1, <1>2, <2>2, <2>3, <2>5, <3>2 DEF Indexed
      <4> QED
        BY <1>2, <2>1, <2>3, <3>2, <4>1
    <3> QED
      BY <3>1, <3>2
  <2> QED
    BY <2>4, <2>5 DEF Indexed
<1>8. Linked(links', Forward') /\ Forward' \in Seq(Addrs) /\ ToSet(Forward') = heap'
  BY <1>1, <1>2, <1>4, <1>5
<1>9. ListInv'
  BY <1>6, <1>7, <1>8 DEF ListInv
<1> QED
  BY <1>2, <1>5, <1>9 DEF q

\* What taking the i-th node out does to the way: remove and pop_tail.
LEMMA RemoveWay ==
  ASSUME ListInv, NEW k \in Keys, NEW i \in 1..Len(Forward), Forward[i] = nodes[k],
         links' = RemoveNode(links, nodes[k]), nodes' = [nodes EXCEPT ![k] = Null],
         heap' = heap \ {nodes[k]}, keyAt' = keyAt
  PROVE  Forward' = RemoveAt(Forward, i) /\ ListInv'
<1> DEFINE q == Forward
           n == nodes[k]
           r == RemoveAt(q, i)
<1>1. /\ q \in Seq(Addrs) /\ ToSet(q) = heap /\ Linked(links, q) /\ i \in 1..Len(q) /\ q[i] = n
      /\ links \in LinkRecords /\ heap \subseteq Addrs /\ ListTypeOK /\ Indexed
  BY DEF ListInv, ListTypeOK
<1>2. links' = RemoveNode(links, n) /\ heap' = heap \ {n} /\ n = nodes[k]
  OBVIOUS
<1> HIDE DEF q, n
<1>3. n \in heap /\ n \in Addrs /\ n # Null
  BY <1>1, ListConstants DEF ToSet
<1>4. /\ RemoveNode(links, n) \in LinkRecords
      /\ r \in Seq(Addrs) /\ Linked(RemoveNode(links, n), r) /\ ToSet(r) = ToSet(q) \ {n}
  BY <1>1, RemoveLinked
<1> HIDE DEF r
<1>5. Forward' = r
  BY <1>2, <1>4, NewWays
<1>6. ListTypeOK'
  BY <1>1, <1>2, <1>4 DEF ListTypeOK, Pointers
<1>7. Indexed'
  <2>1. nodes \in [Keys -> Pointers] /\ Null \in Pointers
    BY <1>1 DEF ListTypeOK, Pointers
  <2>2. /\ heap = {nodes[h] : h \in Keys} \ {Null}
        /\ \A h \in Keys : nodes[h] # Null => keyAt[nodes[h]] = h
    BY <1>1 DEF Indexed
  <2>3. \A h \in Keys : nodes'[h] = IF h = k THEN Null ELSE nodes[h]
    BY <2>1
  <2>4. \A h \in Keys : h # k => nodes[h] # n
    BY <1>2, <1>3, <2>2
  <2>5. heap' \subseteq {nodes'[h] : h \in Keys} \ {Null}
    BY <1>2, <2>2, <2>3
  <2>6. {nodes'[h] : h \in Keys} \ {Null} \subseteq heap'
    BY <1>2, <2>2, <2>3, <2>4
  <2>7. heap' = {nodes'[h] : h \in Keys} \ {Null}
    BY <2>5, <2>6
  <2>8. \A h \in Keys : nodes'[h] # Null => keyAt'[nodes'[h]] = h
    BY <2>2, <2>3
  <2> QED
    BY <2>7, <2>8 DEF Indexed
<1>8. Linked(links', Forward') /\ Forward' \in Seq(Addrs) /\ ToSet(Forward') = heap'
  BY <1>1, <1>2, <1>4, <1>5
<1>9. ListInv'
  BY <1>6, <1>7, <1>8 DEF ListInv
<1> QED
  BY <1>5, <1>9 DEF q, r

\* What pop_tail does: its node is the last of the way, and the key it names
\* is the one the hash map has it under.
LEMMA PopWay ==
  ASSUME ListInv, PopTail
  PROVE  /\ Len(Forward) \in 1..Len(Forward)
         /\ Forward' = RemoveAt(Forward, Len(Forward)) /\ keyAt' = keyAt /\ ListInv'
<1> DEFINE q == Forward
           n == links.tail
           k == keyAt[n]
<1>1. /\ q \in Seq(Addrs) /\ ToSet(q) = heap /\ Linked(links, q)
      /\ heap \subseteq Addrs /\ keyAt \in [Addrs -> Keys] /\ Indexed
  BY DEF ListInv, ListTypeOK
<1>2. /\ n # Null /\ links' = RemoveNode(links, n) /\ nodes' = [nodes EXCEPT ![k] = Null]
      /\ heap' = heap \ {n} /\ keyAt' = keyAt
  BY DEF PopTail, Forgotten
<1> HIDE DEF q, n
<1>3. Len(q) \in 1..Len(q) /\ q[Len(q)] = n /\ n \in Addrs /\ n \in heap
  <2>1. n = At(q, Len(q))
    BY <1>1 DEF Linked, n
  <2>2. Len(q) \in 1..Len(q) /\ n = q[Len(q)]
    BY <1>2, <2>1 DEF At
  <2> QED
    BY <1>1, <2>2 DEF ToSet
<1>4. k \in Keys /\ nodes[k] = n
  BY <1>1, <1>3 DEF Indexed
<1> HIDE DEF k
<1>5. Len(Forward) \in 1..Len(Forward) /\ Forward[Len(Forward)] = nodes[k]
  BY <1>3, <1>4 DEF q
<1>6. links' = RemoveNode(links, nodes[k]) /\ heap' = heap \ {nodes[k]}
  BY <1>2, <1>4
<1>7. Forward' = RemoveAt(Forward, Len(Forward)) /\ ListInv'
  BY <1>2, <1>4, <1>5, <1>6, RemoveWay
<1> QED
  BY <1>2, <1>5, <1>7

\* clear meets every node on its way, so that no box is left.
LEMMA ClearWay ==
  ASSUME ListInv, Clear
  PROVE  Forward' = <<>> /\ ListInv'
<1>1. /\ ToSet(Forward) = heap /\ links \in LinkRecords /\ ListTypeOK
  BY DEF ListInv, ListTypeOK
<1>2. /\ links' = [links EXCEPT !.head = Null, !.tail = Null]
      /\ heap' = {} /\ nodes' = NoNodes /\ keyAt' = keyAt
  BY <1>1 DEF Clear
<1>3. links' \in LinkRecords /\ links'.head = Null /\ links'.tail = Null
  BY <1>1, <1>2 DEF LinkRecords, Pointers
<1>4. <<>> \in Seq(Addrs) /\ ToSet(<<>>) = {} /\ Linked(links', <<>>)
  BY <1>3, NoneLinked
<1>5. Forward' = <<>>
  BY <1>4, NewWays
<1>6. ListTypeOK'
  BY <1>1, <1>2, <1>3 DEF ListTypeOK, NoNodes, Pointers
<1>7. Indexed'
  BY <1>2 DEF Indexed, NoNodes
<1>8. ListInv'
  BY <1>2, <1>4, <1>5, <1>6, <1>7 DEF ListInv
<1> QED
  BY <1>5, <1>8

\* A new list is empty.
LEMMA ListInitWay ==
  ASSUME ListInit
  PROVE  Forward = <<>> /\ ListInv
<1>1. links \in LinkRecords /\ links.head = Null /\ links.tail = Null
  BY DEF ListInit, LinkRecords, Pointers
<1>2. <<>> \in Seq(Addrs) /\ ToSet(<<>>) = {} /\ Linked(links, <<>>)
  BY <1>1, NoneLinked
<1>3. Forward = <<>>
  BY <1>2, Ways DEF Forward
<1>4. ListTypeOK
  <2>1. (CHOOSE k \in Keys : TRUE) \in Keys
    BY ListConstants
  <2> QED
    BY <1>1, <2>1 DEF ListInit, ListTypeOK, NoNodes, Pointers
<1>5. Indexed
  BY DEF ListInit, Indexed, NoNodes
<1>6. heap = {}
  BY DEF ListInit
<1>7. ListInv
  BY <1>2, <1>3, <1>4, <1>5, <1>6 DEF ListInv
<1> QED
  BY <1>3, <1>7

\* Every method preserves the invariant.
LEMMA ListInvStep ==
  ListInv /\ [ListNext]_listVars => ListInv'
<1> SUFFICES ASSUME ListInv, [ListNext]_listVars
             PROVE  ListInv'
  OBVIOUS
<1>1. ASSUME NEW k \in Keys, Touch(k)
      PROVE  ListInv'
  <2>1. PICK i \in 1..Len(Forward) : Forward[i] = nodes[k]
    BY <1>1, NodePlace DEF Touch
  <2> QED
    BY <1>1, <2>1, TouchWay
<1>2. ASSUME NEW k \in Keys, PushFront(k)
      PROVE  ListInv'
  BY <1>2, PushWay
<1>3. ASSUME NEW k \in Keys, RemoveKey(k)
      PROVE  ListInv'
  <2>1. PICK i \in 1..Len(Forward) : Forward[i] = nodes[k]
    BY <1>3, NodePlace DEF RemoveKey
  <2>2. /\ links' = RemoveNode(links, nodes[k]) /\ nodes' = [nodes EXCEPT ![k] = Null]
        /\ heap' = heap \ {nodes[k]} /\ keyAt' = keyAt
    BY <1>3 DEF RemoveKey
  <2> QED
    BY <2>1, <2>2, RemoveWay
<1>4. ASSUME PopTail
      PROVE  ListInv'
  BY <1>4, PopWay
<1>5. ASSUME Clear
      PROVE  ListInv'
  BY <1>5, ClearWay
<1>6. ASSUME UNCHANGED listVars
      PROVE  ListInv'
  BY <1>6 DEF listVars, ListInv, ListTypeOK, Indexed, Forward
<1> QED
  BY <1>1, <1>2, <1>3, <1>4, <1>5, <1>6 DEF ListNext

\* The links go through exactly the boxes that are allocated and indexed.
LEMMA ListInvariant == ListSpec => []ListInv
<1>1. ListInit => ListInv
  BY ListInitWay
<1> QED
  BY <1>1, ListInvStep, PTL DEF ListSpec

\* lru.rs: "all operations maintain list invariants".  For any number of keys
\* and addresses the way back is the way forth reversed, and what it meets is
\* what is allocated and what the hash map knows: no method leaves a pointer
\* to a freed box or a box that nothing points to.
THEOREM AlwaysWellLinked == ListSpec => []WellLinked
<1>1. ListInv => WellLinked
  <2> SUFFICES ASSUME ListInv
               PROVE  WellLinked
    OBVIOUS
  <2>1. /\ Forward \in Seq(Addrs) /\ ToSet(Forward) = heap /\ Linked(links, Forward) /\ Indexed
    BY DEF ListInv
  <2>2. Backward = Reverse(Forward)
    BY <2>1, Ways DEF Backward
  <2>3. IsInjective(Forward)
    BY <2>1 DEF Linked
  <2> QED
    BY <2>1, <2>2, <2>3 DEF WellLinked, Indexed
<1> QED
  BY <1>1, ListInvariant, PTL

-----------------------------------------------------------------------------
(* The list implements the order of keys *)

\* The keys of the nodes on a way.
KeysOf(f, q) == [i \in 1..Len(q) |-> f[q[i]]]

\* The keys of a way, element by element.
LEMMA KeysShape ==
  ASSUME NEW f \in [Addrs -> Keys], NEW q \in Seq(Addrs)
  PROVE  /\ KeysOf(f, q) \in Seq(Keys) /\ Len(KeysOf(f, q)) = Len(q)
         /\ \A i \in 1..Len(q) : KeysOf(f, q)[i] = f[q[i]]
<1>1. Len(q) \in Nat /\ \A i \in 1..Len(q) : q[i] \in Addrs
  OBVIOUS
<1> QED
  BY <1>1 DEF KeysOf

\* Two sequences that agree in their length and their elements are the same.
LEMMA SameSequence ==
  ASSUME NEW S, NEW s \in Seq(S), NEW t \in Seq(S), Len(s) = Len(t),
         \A i \in 1..Len(s) : s[i] = t[i]
  PROVE  s = t
OBVIOUS

\* Taking a node out of the way takes its key out of the order.
LEMMA KeysRemove ==
  ASSUME NEW f \in [Addrs -> Keys], NEW q \in Seq(Addrs), NEW i \in 1..Len(q)
  PROVE  /\ KeysOf(f, RemoveAt(q, i)) = RemoveAt(KeysOf(f, q), i)
         /\ RemoveAt(KeysOf(f, q), i) \in Seq(Keys)
<1> DEFINE r == RemoveAt(q, i)
           l == KeysOf(f, q)
           m == RemoveAt(l, i)
           h == KeysOf(f, r)
<1>1. /\ r \in Seq(Addrs) /\ Len(r) = Len(q) - 1
      /\ \A j \in 1..(Len(q) - 1) : r[j] = IF j < i THEN q[j] ELSE q[j + 1]
  BY RemoveAtProps
<1>2. l \in Seq(Keys) /\ Len(l) = Len(q) /\ \A j \in 1..Len(q) : l[j] = f[q[j]]
  BY KeysShape
<1> HIDE DEF l, r
<1>3. /\ m \in Seq(Keys) /\ Len(m) = Len(q) - 1
      /\ \A j \in 1..(Len(q) - 1) : m[j] = IF j < i THEN l[j] ELSE l[j + 1]
  BY <1>2, RemoveAtProps
<1>4. h \in Seq(Keys) /\ Len(h) = Len(r) /\ \A j \in 1..Len(r) : h[j] = f[r[j]]
  BY <1>1, KeysShape
<1> HIDE DEF m, h
<1>5. ASSUME NEW j \in 1..Len(h)
      PROVE  h[j] = m[j]
  <2>1. Len(q) \in Nat /\ j \in 1..(Len(q) - 1) /\ i \in Int
    BY <1>1, <1>4
  <2>2. CASE j < i
    <3>1. j \in 1..Len(q)
      BY <2>1
    <3> QED
      BY <1>1, <1>2, <1>3, <1>4, <2>1, <2>2, <3>1
  <2>3. CASE ~(j < i)
    <3>1. j + 1 \in 1..Len(q)
      BY <2>1
    <3>2. h[j] = f[r[j]] /\ r[j] = q[j + 1]
      BY <1>1, <1>4, <2>1, <2>3
    <3>3. m[j] = l[j + 1] /\ l[j + 1] = f[q[j + 1]]
      BY <1>2, <1>3, <2>1, <2>3, <3>1
    <3> QED
      BY <3>2, <3>3
  <2> QED
    BY <2>2, <2>3
<1>6. h = m
  BY <1>1, <1>3, <1>4, <1>5, SameSequence
<1> QED
  BY <1>3, <1>6 DEF h, m, l, r

\* A node before the way is a key before the order.
LEMMA KeysPush ==
  ASSUME NEW f \in [Addrs -> Keys], NEW q \in Seq(Addrs), NEW a \in Addrs
  PROVE  KeysOf(f, <<a>> \o q) = <<f[a]>> \o KeysOf(f, q)
<1> DEFINE r == <<a>> \o q
           l == KeysOf(f, q)
           m == <<f[a]>> \o l
           h == KeysOf(f, r)
<1>1. /\ r \in Seq(Addrs) /\ Len(r) = Len(q) + 1
      /\ \A j \in 1..Len(q) + 1 : r[j] = IF j = 1 THEN a ELSE q[j - 1]
  OBVIOUS
<1>2. l \in Seq(Keys) /\ Len(l) = Len(q) /\ \A j \in 1..Len(q) : l[j] = f[q[j]]
  BY KeysShape
<1> HIDE DEF l, r
<1>3. /\ m \in Seq(Keys) /\ Len(m) = Len(l) + 1
      /\ \A j \in 1..Len(l) + 1 : m[j] = IF j = 1 THEN f[a] ELSE l[j - 1]
  BY <1>2
<1>4. h \in Seq(Keys) /\ Len(h) = Len(r) /\ \A j \in 1..Len(r) : h[j] = f[r[j]]
  BY <1>1, KeysShape
<1> HIDE DEF m, h
<1>5. ASSUME NEW j \in 1..Len(h)
      PROVE  h[j] = m[j]
  <2>1. Len(q) \in Nat /\ j \in 1..Len(q) + 1 /\ (j # 1 => j - 1 \in 1..Len(q))
    BY <1>1, <1>4
  <2>2. h[j] = f[r[j]] /\ r[j] = IF j = 1 THEN a ELSE q[j - 1]
    BY <1>1, <1>4, <2>1
  <2>3. m[j] = IF j = 1 THEN f[a] ELSE l[j - 1]
    BY <1>2, <1>3, <2>1
  <2>4. j # 1 => l[j - 1] = f[q[j - 1]]
    BY <1>2, <2>1
  <2> QED
    BY <2>2, <2>3, <2>4
<1>6. h = m
  BY <1>1, <1>2, <1>3, <1>4, <1>5, SameSequence
<1> QED
  BY <1>6 DEF h, m, l, r

\* Unlinking a key that is once in an order takes out its place.
LEMMA UnlinkPlace ==
  ASSUME NEW l \in Seq(Keys), NEW i \in 1..Len(l),
         \A j \in 1..Len(l) : l[j] = l[i] => j = i
  PROVE  Order!Unlink(l, l[i]) = RemoveAt(l, i)
<1> DEFINE c == CHOOSE j \in 1..Len(l) : l[j] = l[i]
<1>1. c \in 1..Len(l) /\ l[c] = l[i]
  OBVIOUS
<1>2. c = i
  BY <1>1
<1> HIDE DEF c
<1>3. Order!Contains(l, l[i])
  BY DEF Order!Contains
<1>4. Order!Unlink(l, l[i]) = Order!RemoveAt(l, c)
  BY <1>3 DEF Order!Unlink, c
<1> QED
  BY <1>2, <1>4 DEF Order!RemoveAt, RemoveAt

\* Unlinking a key that is not there changes nothing.
LEMMA UnlinkNone ==
  ASSUME NEW l \in Seq(Keys), NEW k, \A i \in 1..Len(l) : l[i] # k
  PROVE  Order!Unlink(l, k) = l
BY DEF Order!Unlink, Order!Contains

\* Without the last place an order is its front.
LEMMA RemoveLast ==
  ASSUME NEW l \in Seq(Keys), Len(l) \in 1..Len(l)
  PROVE  RemoveAt(l, Len(l)) = Order!Front(l) /\ l # <<>>
<1> DEFINE s == RemoveAt(l, Len(l))
           t == SubSeq(l, 1, Len(l) - 1)
<1>1. /\ s \in Seq(Keys) /\ Len(s) = Len(l) - 1
      /\ \A j \in 1..(Len(l) - 1) : s[j] = IF j < Len(l) THEN l[j] ELSE l[j + 1]
  BY RemoveAtProps
<1>2. /\ t \in Seq(Keys) /\ Len(t) = Len(l) - 1
      /\ \A j \in 1..(Len(l) - 1) : t[j] = l[j]
  <2>1. \A j \in 1..(Len(l) - 1) : j \in 1..Len(l)
    OBVIOUS
  <2>2. t = [j \in 1..(Len(l) - 1) |-> l[j]]
    OBVIOUS
  <2>3. Len(l) - 1 \in Nat
    OBVIOUS
  <2> HIDE DEF t
  <2> QED
    BY <2>1, <2>2, <2>3
<1> HIDE DEF s, t
<1>3. \A j \in 1..Len(s) : s[j] = t[j]
  BY <1>1, <1>2
<1>4. s = t
  BY <1>1, <1>2, <1>3, SameSequence
<1>5. l # <<>>
  OBVIOUS
<1> QED
  BY <1>4, <1>5 DEF s, t, Order!Front

\* No two nodes of the way have the same key.
LEMMA KeysOnce ==
  ASSUME ListInv, NEW i \in 1..Len(Forward), NEW j \in 1..Len(Forward),
         keyAt[Forward[i]] = keyAt[Forward[j]]
  PROVE  i = j
<1> DEFINE q == Forward
<1>1. q \in Seq(Addrs) /\ ToSet(q) = heap /\ Indexed /\ IsInjective(q)
  BY DEF ListInv, Linked
<1>2. i \in 1..Len(q) /\ j \in 1..Len(q) /\ keyAt[q[i]] = keyAt[q[j]] /\ DOMAIN q = 1..Len(q)
  BY <1>1
<1> HIDE DEF q
<1>3. q[i] \in heap /\ q[j] \in heap
  BY <1>1, <1>2 DEF ToSet
<1>4. q[i] = q[j]
  BY <1>2, <1>3, <1>1 DEF Indexed
<1> QED
  BY <1>1, <1>2, <1>4 DEF IsInjective

\* A key that is in no node of the hash map is not in the order.
LEMMA KeysAbsent ==
  ASSUME ListInv, NEW k \in Keys, nodes[k] = Null, NEW i \in 1..Len(Forward)
  PROVE  keyAt[Forward[i]] # k
<1> DEFINE q == Forward
<1>1. q \in Seq(Addrs) /\ ToSet(q) = heap /\ Indexed
  BY DEF ListInv
<1>2. i \in 1..Len(q) /\ DOMAIN q = 1..Len(q)
  BY <1>1
<1> HIDE DEF q
<1>3. q[i] \in heap
  BY <1>1, <1>2 DEF ToSet
<1>4. keyAt[q[i]] # k
  BY <1>1, <1>3 DEF Indexed
<1> QED
  BY <1>4 DEF q

\* The order of keys before and after a step, and the abstract step between.
LEMMA OrderStep ==
  ASSUME ListInv, [ListNext]_listVars
  PROVE  [Order!Next]_(KeysOf(keyAt, Forward))
<1> DEFINE q == Forward
           l == KeysOf(keyAt, q)
<1>1. /\ q \in Seq(Addrs) /\ keyAt \in [Addrs -> Keys] /\ heap \subseteq Addrs /\ ToSet(q) = heap
  BY DEF ListInv, ListTypeOK
<1>2. l \in Seq(Keys) /\ Len(l) = Len(q) /\ \A j \in 1..Len(q) : l[j] = keyAt[q[j]]
  BY <1>1, KeysShape
<1>3. \A i, j \in 1..Len(l) : l[i] = l[j] => i = j
  BY <1>2, KeysOnce
<1>4. l' = KeysOf(keyAt', Forward')
  BY DEF KeysOf
<1>n. Order!Next <=>
        \/ \E k \in Keys : l' = Order!MoveToFront(l, k) \/ l' = Order!Unlink(l, k)
        \/ l # <<>> /\ l' = Order!Front(l)
        \/ l' = <<>>
  BY DEF Order!Next, Order!Use, Order!Drop, Order!PopLast, Order!Empty, KeysOf
<1>5. ASSUME NEW k \in Keys, Touch(k)
      PROVE  l' = Order!MoveToFront(l, k)
  <2>1. PICK i \in 1..Len(q) : q[i] = nodes[k]
    BY <1>5, NodePlace DEF Touch
  <2>2. nodes[k] \in Addrs /\ keyAt[nodes[k]] = k
    BY <1>1, <1>5, NodePlace DEF Touch
  <2>3. Forward' = <<nodes[k]>> \o RemoveAt(q, i) /\ keyAt' = keyAt
    BY <1>5, <2>1, TouchWay DEF Touch
  <2> HIDE DEF q
  <2>4. l' = <<k>> \o KeysOf(keyAt, RemoveAt(q, i))
    BY <1>1, <1>4, <2>2, <2>3, RemoveAtProps, KeysPush
  <2>5. KeysOf(keyAt, RemoveAt(q, i)) = RemoveAt(l, i)
    BY <1>1, KeysRemove
  <2> HIDE DEF l
  <2>6. l[i] = k /\ i \in 1..Len(l)
    BY <1>2, <2>1, <2>2
  <2>7. Order!Unlink(l, k) = RemoveAt(l, i)
    BY <1>2, <1>3, <2>6, UnlinkPlace
  <2> QED
    BY <2>4, <2>5, <2>7 DEF Order!MoveToFront, Order!Cons
<1>6. ASSUME NEW k \in Keys, PushFront(k)
      PROVE  l' = Order!MoveToFront(l, k)
  <2>1. PICK a \in Addrs \ heap :
          keyAt' = [keyAt EXCEPT ![a] = k] /\ Forward' = <<a>> \o q
    BY <1>6, PushWay
  <2>2. \A i \in 1..Len(l) : l[i] # k
    BY <1>2, <1>6, KeysAbsent DEF PushFront
  <2> HIDE DEF q
  <2>3. /\ keyAt' \in [Addrs -> Keys] /\ keyAt'[a] = k
        /\ \A b \in Addrs : b # a => keyAt'[b] = keyAt[b]
    BY <1>1, <2>1
  <2>4. l' = <<k>> \o KeysOf(keyAt', q)
    BY <1>1, <1>4, <2>1, <2>3, KeysPush
  <2>5. \A i \in 1..Len(q) : q[i] \in Addrs /\ q[i] # a
    BY <1>1, <2>1 DEF ToSet
  <2>6. KeysOf(keyAt', q) = l
    BY <2>3, <2>5 DEF KeysOf
  <2> HIDE DEF l
  <2>7. Order!Unlink(l, k) = l
    BY <1>2, <2>2, UnlinkNone
  <2> QED
    BY <2>4, <2>6, <2>7 DEF Order!MoveToFront, Order!Cons
<1>7. ASSUME NEW k \in Keys, RemoveKey(k)
      PROVE  l' = Order!Unlink(l, k)
  <2>1. PICK i \in 1..Len(q) : q[i] = nodes[k]
    BY <1>7, NodePlace DEF RemoveKey
  <2>2. keyAt[nodes[k]] = k
    BY <1>7, NodePlace DEF RemoveKey
  <2>3. /\ links' = RemoveNode(links, nodes[k]) /\ nodes' = [nodes EXCEPT ![k] = Null]
        /\ heap' = heap \ {nodes[k]} /\ keyAt' = keyAt
    BY <1>7 DEF RemoveKey
  <2>4. Forward' = RemoveAt(q, i)
    BY <2>1, <2>3, RemoveWay
  <2> HIDE DEF q
  <2>5. l' = KeysOf(keyAt, RemoveAt(q, i))
    BY <1>4, <2>3, <2>4
  <2>6. KeysOf(keyAt, RemoveAt(q, i)) = RemoveAt(l, i)
    BY <1>1, KeysRemove
  <2> HIDE DEF l
  <2>7. l[i] = k /\ i \in 1..Len(l)
    BY <1>2, <2>1, <2>2
  <2>8. Order!Unlink(l, k) = RemoveAt(l, i)
    BY <1>2, <1>3, <2>7, UnlinkPlace
  <2> QED
    BY <2>5, <2>6, <2>8
<1>8. ASSUME PopTail
      PROVE  l # <<>> /\ l' = Order!Front(l)
  <2>1. Len(q) \in 1..Len(q) /\ Forward' = RemoveAt(q, Len(q)) /\ keyAt' = keyAt
    BY <1>8, PopWay
  <2> HIDE DEF q
  <2>2. l' = KeysOf(keyAt, RemoveAt(q, Len(q)))
    BY <1>4, <2>1
  <2>3. KeysOf(keyAt, RemoveAt(q, Len(q))) = RemoveAt(l, Len(q))
    BY <1>1, <2>1, KeysRemove
  <2> HIDE DEF l
  <2>4. RemoveAt(l, Len(l)) = Order!Front(l) /\ l # <<>>
    BY <1>2, <2>1, RemoveLast
  <2> QED
    BY <1>2, <2>2, <2>3, <2>4
<1>9. ASSUME Clear
      PROVE  l' = <<>>
  <2>1. Forward' = <<>>
    BY <1>9, ClearWay
  <2> QED
    BY <1>4, <2>1 DEF KeysOf
<1>10. ASSUME UNCHANGED listVars
       PROVE  l' = l
  BY <1>10 DEF listVars, Forward, KeysOf
<1> QED
  BY <1>n, <1>5, <1>6, <1>7, <1>8, <1>9, <1>10 DEF ListNext

\* The pointers of lru.rs implement the order of keys that the sharded map
\* reckons with: every method moves, drops, pops or empties that order, and
\* nothing else, for any number of keys and addresses.
THEOREM ListImplementsOrder == ListSpec => ImplementsOrder
<1>1. ListInit => Order!Init
  BY ListInitWay DEF Order!Init
<1>2. ListInv /\ [ListNext]_listVars => [Order!Next]_([i \in 1..Len(Forward) |-> keyAt[Forward[i]]])
  BY OrderStep DEF KeysOf
<1> QED
  BY <1>1, <1>2, ListInvariant, PTL DEF ListSpec, ImplementsOrder, Order!Spec

(***************************************************************************)
(* Part 2: the refresh queue                                               *)
(***************************************************************************)

\* The remainder of the next slot, without the division.
LEMMA SuccWraps ==
  \A i \in Slots : Succ(i) = IF i + 1 = Size THEN 0 ELSE i + 1
BY QueueConstants, SMTT(30) DEF Succ, Slots

\* An initial buffer is empty.
LEMMA QueueStarts == QueueInit => QueueTypeOK /\ Fifo!Init
<1> SUFFICES ASSUME QueueInit
             PROVE  QueueTypeOK /\ Fifo!Init
  OBVIOUS
<1>1. QueueTypeOK
  BY QueueConstants DEF QueueInit, QueueTypeOK, Slots
<1>2. Content = <<>>
  BY DEF QueueInit, Content, Held
<1> QED
  BY <1>1, <1>2 DEF QueueInit, Fifo!Init

\* The slots in use.
LEMMA ContentShape ==
  ASSUME QueueTypeOK
  PROVE  /\ Held \in 0..(Size - 1)
         /\ Content \in Seq(Keys)
         /\ Len(Content) = Held
         /\ \A i \in 1..Held : SlotOf(i) \in Slots /\ SlotOf(i) # head
<1>1. Held \in 0..(Size - 1)
  BY QueueConstants DEF QueueTypeOK, Held, Slots
<1>2. \A i \in 1..Held : SlotOf(i) \in Slots /\ SlotOf(i) # head
  BY QueueConstants DEF QueueTypeOK, Held, Slots, SlotOf
<1>3. \A i \in 1..Held : buf[SlotOf(i)] \in Keys
  BY <1>2 DEF QueueTypeOK
<1> QED
  BY <1>1, <1>2, <1>3 DEF Content

\* A push is a push of the queue.
LEMMA PushStep ==
  ASSUME QueueTypeOK, NEW k \in Keys, TryPush(k)
  PROVE  QueueTypeOK' /\ Fifo!Push(k)
<1>1. head \in Slots /\ tail \in Slots /\ Succ(head) \in Slots
  BY SuccWraps, QueueConstants DEF QueueTypeOK, Slots
<1>2. QueueTypeOK'
  BY <1>1 DEF QueueTypeOK, TryPush
<1>3. CASE Full(head)
  <2>1. Held = Size - 1
    BY <1>1, <1>3, SuccWraps, QueueConstants DEF Held, Full, Slots
  <2>2. Content' = Content
    BY <1>3 DEF TryPush, Content, Held, SlotOf
  <2> QED
    BY <1>2, <1>3, <2>1, <2>2, ContentShape DEF TryPush, Fifo!Push
<1>4. CASE ~Full(head)
  <2>1. Held < Size - 1
    BY <1>1, <1>4, SuccWraps, QueueConstants DEF Held, Full, Slots
  <2>2. head' = Succ(head) /\ tail' = tail /\ buf' = [buf EXCEPT ![head] = k] /\ last' = "pushed"
    BY <1>4 DEF TryPush
  <2>3. Held' = Held + 1
    BY <1>1, <1>4, <2>2, SuccWraps, QueueConstants DEF Held, Full, Slots
  <2>4. \A i \in 1..Held : SlotOf(i)' = SlotOf(i)
    BY <2>2 DEF SlotOf
  <2>5. \A i \in Int : i = Held + 1 => SlotOf(i)' = head
    BY <1>1, <2>1, <2>2, QueueConstants DEF SlotOf, Held, Slots
  <2>6. \A i \in 1..Held : buf'[SlotOf(i)'] = buf[SlotOf(i)]
    BY <2>2, <2>4, ContentShape DEF QueueTypeOK
  <2>7. \A i \in Int : i = Held + 1 => buf'[SlotOf(i)'] = k
    BY <1>1, <2>2, <2>5 DEF QueueTypeOK
  <2>8. Content' = Append(Content, k)
    <3>1. Held \in Nat /\ Len(Content) = Held /\ Content \in Seq(Keys)
      BY ContentShape
    <3>2. Content' = [i \in 1..(Held + 1) |-> buf'[SlotOf(i)']]
      BY <2>3 DEF Content
    <3>3. \A i \in 1..Held : Content[i] = buf[SlotOf(i)] /\ Content[i] \in Keys
      BY <3>1, ElementOfSeq DEF Content
    <3>4. \A i \in 1..(Held + 1) :
            buf'[SlotOf(i)'] = IF i <= Held THEN Content[i] ELSE k
      BY <2>6, <2>7, <3>1, <3>3
    <3>5. Content' \in Seq(Keys) /\ Len(Content') = Held + 1
      BY <3>1, <3>2, <3>3, <3>4
    <3>6. /\ Append(Content, k) \in Seq(Keys) /\ Len(Append(Content, k)) = Held + 1
          /\ \A i \in 1..(Held + 1) :
               Append(Content, k)[i] = IF i <= Held THEN Content[i] ELSE k
      BY <3>1, AppendProperties
    <3>7. \A i \in 1..(Held + 1) : Content'[i] = Append(Content, k)[i]
      BY <3>2, <3>4, <3>6
    <3> QED
      BY <3>5, <3>6, <3>7, SeqEqual
  <2> QED
    BY <1>2, <2>1, <2>2, <2>8, ContentShape DEF Fifo!Push
<1> QED
  BY <1>2, <1>3, <1>4

\* A pop is a pop of the queue.
LEMMA PopStep ==
  ASSUME QueueTypeOK, TryPop
  PROVE  QueueTypeOK' /\ Fifo!Pop
<1>1. head \in Slots /\ tail \in Slots /\ Succ(tail) \in Slots
  BY SuccWraps, QueueConstants DEF QueueTypeOK, Slots
<1>2. QueueTypeOK'
  BY <1>1 DEF QueueTypeOK, TryPop
<1>3. CASE head = tail
  <2>1. Content = <<>>
    BY <1>1, <1>3 DEF Content, Held, Slots
  <2>2. Content' = Content
    BY <1>3 DEF TryPop, Content, Held, SlotOf
  <2> QED
    BY <1>2, <1>3, <2>1, <2>2 DEF TryPop, Fifo!Pop
<1>4. CASE head # tail
  <2>1. Held \in 1..(Size - 1)
    BY <1>1, <1>4, QueueConstants DEF Held, Slots
  <2>2. head' = head /\ tail' = Succ(tail) /\ buf' = buf /\ last' = buf[tail]
    BY <1>4 DEF TryPop
  <2>3. Held' = Held - 1
    BY <1>1, <1>4, <2>2, SuccWraps, QueueConstants DEF Held, Slots
  <2>4. \A i \in 1..(Held - 1) : SlotOf(i)' = SlotOf(i + 1)
    BY <1>1, <2>1, <2>2, SuccWraps, QueueConstants DEF SlotOf, Slots
  <2>5. SlotOf(1) = tail
    BY <1>1, QueueConstants DEF SlotOf, Slots
  <2>6. Content # <<>> /\ Head(Content) = buf[tail]
    BY <2>1, <2>5, ContentShape DEF Content
  <2>7. Content' = Tail(Content)
    <3>1. Held \in Nat /\ Len(Content) = Held /\ Content \in Seq(Keys)
      BY ContentShape
    <3>2. Content' = [i \in 1..(Held - 1) |-> buf[SlotOf(i)']]
      BY <2>2, <2>3 DEF Content
    <3>3. \A i \in 1..(Held - 1) : Content[i + 1] = buf[SlotOf(i + 1)]
      BY <3>1 DEF Content
    <3>4. /\ Tail(Content) \in Seq(Keys) /\ Len(Tail(Content)) = Held - 1
          /\ \A i \in 1..(Held - 1) : Tail(Content)[i] = Content[i + 1]
      BY <2>6, <3>1, HeadTailProperties
    <3>5. \A i \in 1..(Held - 1) : Content'[i] = Tail(Content)[i]
      BY <2>4, <3>2, <3>3, <3>4
    <3>6. \A i \in 1..(Held - 1) : Tail(Content)[i] \in Keys
      BY <3>4, ElementOfSeq
    <3>7. Content' \in Seq(Keys) /\ Len(Content') = Held - 1
      <4>1. Held - 1 \in Nat
        BY <2>1, QueueConstants
      <4>2. \A i \in 1..(Held - 1) : buf[SlotOf(i)'] \in Keys
        BY <3>2, <3>5, <3>6
      <4> QED
        BY <3>2, <4>1, <4>2
    <3> QED
      BY <3>4, <3>5, <3>7, SeqEqual
  <2> QED
    BY <1>2, <2>2, <2>6, <2>7 DEF Fifo!Pop
<1> QED
  BY <1>2, <1>3, <1>4

\* The circular buffer of queue.rs is a first-in first-out queue of Size - 1
\* keys, for every size and every set of keys.
THEOREM RingImplementsFifo == QueueSpec => ImplementsFifo
<1>1. QueueTypeOK /\ [QueueNext]_queueVars => QueueTypeOK' /\ [Fifo!Next]_<<Content, last>>
  <2> SUFFICES ASSUME QueueTypeOK, [QueueNext]_queueVars
               PROVE  QueueTypeOK' /\ [Fifo!Next]_<<Content, last>>
    OBVIOUS
  <2>1. CASE UNCHANGED queueVars
    BY <2>1 DEF queueVars, QueueTypeOK, Content, Held, SlotOf
  <2>2. CASE QueueNext
    BY <2>2, PushStep, PopStep DEF QueueNext, Fifo!Next
  <2> QED
    BY <2>1, <2>2
<1> QED
  BY <1>1, QueueStarts, PTL DEF QueueSpec, ImplementsFifo, Fifo!Spec

-----------------------------------------------------------------------------
(* The refresh cycle *)

Task == [key : Keys, own : BOOLEAN]
Job == [at : {"got", "fetch"}, key : Keys, own : BOOLEAN]

CycleTypeOK ==
  /\ age \in [Keys -> 0..MaxAge]
  /\ flag \in [Keys -> BOOLEAN]
  /\ cached \subseteq Keys
  /\ tasks \in Seq(Task) /\ Len(tasks) <= TaskCap
  /\ worker \in [Workers -> {Idle} \cup Job]
  /\ remove \in BOOLEAN

LEMMA TypeView == TypeOK <=> QueueTypeOK /\ CycleTypeOK
BY DEF TypeOK, CycleTypeOK, Task, Job

LEMMA OrphanedTypes ==
  ASSUME NEW k
  PROVE  /\ \A t \in Task : Orphaned(t, k) \in Task
         /\ \A j \in {Idle} \cup Job : Orphaned(j, k) \in {Idle} \cup Job
<1>1. \A t \in Task : Orphaned(t, k) \in Task
  BY DEF Orphaned, Task
<1>2. \A j \in Job : Orphaned(j, k) \in Job
  BY DEF Orphaned, Job
<1>3. Orphaned(Idle, k) = Idle
  BY DEF Orphaned, Idle
<1> QED
  BY <1>1, <1>2, <1>3

\* A key that leaves the shard leaves its tasks in their places.
LEMMA ForgetTypes ==
  ASSUME CycleTypeOK, NEW k \in Keys, Forget(k)
  PROVE  /\ cached' \subseteq Keys /\ age' \in [Keys -> 0..MaxAge] /\ flag' \in [Keys -> BOOLEAN]
         /\ tasks' \in Seq(Task) /\ Len(tasks') <= TaskCap
<1>1. /\ cached' = cached \ {k} /\ age' = [age EXCEPT ![k] = 0] /\ flag' = [flag EXCEPT ![k] = FALSE]
      /\ tasks' = [i \in DOMAIN tasks |-> Orphaned(tasks[i], k)]
  BY DEF Forget
<1>2. 0 \in 0..MaxAge
  BY RefreshConstants
<1>3. cached' \subseteq Keys /\ age' \in [Keys -> 0..MaxAge] /\ flag' \in [Keys -> BOOLEAN]
  BY <1>1, <1>2 DEF CycleTypeOK
<1>4. tasks \in Seq(Task) /\ Len(tasks) \in Nat /\ DOMAIN tasks = 1..Len(tasks) /\ Len(tasks) <= TaskCap
  BY LenProperties DEF CycleTypeOK
<1>5. \A i \in 1..Len(tasks) : Orphaned(tasks[i], k) \in Task
  BY <1>4, ElementOfSeq, OrphanedTypes
<1>6. tasks' \in [1..Len(tasks) -> Task]
  BY <1>1, <1>4, <1>5
<1>7. tasks' \in Seq(Task) /\ Len(tasks') = Len(tasks)
  <2>1. tasks' \in Seq(Task)
    BY <1>4, <1>6, SeqDef
  <2>2. DOMAIN tasks' = 1..Len(tasks) /\ DOMAIN tasks' = 1..Len(tasks') /\ Len(tasks') \in Nat
    BY <1>6, <2>1, LenProperties
  <2> QED
    BY <1>4, <2>1, <2>2
<1> QED
  BY <1>3, <1>4, <1>7

LEMMA TickTypes == ASSUME CycleTypeOK, Tick PROVE CycleTypeOK' /\ UNCHANGED queueVars
<1>1. /\ age' = [k \in Keys |-> IF k \in cached /\ age[k] < MaxAge THEN age[k] + 1 ELSE age[k]]
      /\ flag' = flag /\ cached' = cached /\ tasks' = tasks /\ worker' = worker /\ remove' = remove
      /\ UNCHANGED queueVars
  BY DEF Tick
<1>2. \A k \in Keys : age[k] \in 0..MaxAge /\ (age[k] < MaxAge => age[k] + 1 \in 0..MaxAge)
  <2>1. MaxAge \in Nat
    BY RefreshConstants
  <2>2. age \in [Keys -> 0..MaxAge]
    BY DEF CycleTypeOK
  <2>3. \A n \in 0..MaxAge : n < MaxAge => n + 1 \in 0..MaxAge
    BY <2>1
  <2> QED
    BY <2>2, <2>3
<1>3. age' \in [Keys -> 0..MaxAge]
  BY <1>1, <1>2
<1> QED
  BY <1>1, <1>3 DEF CycleTypeOK

\* Hits, sets, evictions and invalidations.
LEMMA TrafficTypes ==
  ASSUME CycleTypeOK, NEW k \in Keys, Hit(k) \/ Set(k) \/ Evict(k) \/ Invalidate(k)
  PROVE  CycleTypeOK' /\ (TryPush(k) \/ UNCHANGED queueVars)
<1>1. CASE Hit(k)
  <2>1. /\ TryPush(k) /\ flag' = [flag EXCEPT ![k] = ~Full(head)]
        /\ age' = age /\ cached' = cached /\ tasks' = tasks /\ worker' = worker /\ remove' = remove
    BY <1>1 DEF Hit
  <2>2. flag' \in [Keys -> BOOLEAN]
    BY <2>1 DEF CycleTypeOK, Full
  <2> QED
    BY <2>1, <2>2 DEF CycleTypeOK
<1>2. CASE Set(k)
  <2>1. /\ cached' = cached \cup {k} /\ age' = [age EXCEPT ![k] = 0] /\ flag' = [flag EXCEPT ![k] = FALSE]
        /\ tasks' = tasks /\ worker' = worker /\ remove' = remove /\ UNCHANGED queueVars
    BY <1>2 DEF Set
  <2>2. 0 \in 0..MaxAge
    BY RefreshConstants
  <2> QED
    BY <2>1, <2>2 DEF CycleTypeOK
<1>3. CASE Evict(k)
  <2>1. /\ Forget(k) /\ worker' = [w \in Workers |-> Orphaned(worker[w], k)]
        /\ remove' = remove /\ UNCHANGED queueVars
    BY <1>3 DEF Evict
  <2>2. worker' \in [Workers -> {Idle} \cup Job]
    BY <2>1, OrphanedTypes DEF CycleTypeOK
  <2> QED
    BY <2>1, <2>2, ForgetTypes DEF CycleTypeOK
<1>4. CASE InvalidateMark(k)
  <2>1. /\ age' = [age EXCEPT ![k] = RuleTtl[k]] /\ flag' = flag /\ cached' = cached
        /\ tasks' = tasks /\ worker' = worker /\ remove' = remove /\ UNCHANGED queueVars
    BY <1>4 DEF InvalidateMark
  <2>2. RuleTtl[k] \in 0..MaxAge
    BY RefreshConstants
  <2> QED
    BY <2>1, <2>2 DEF CycleTypeOK
<1> QED
  BY <1>1, <1>2, <1>3, <1>4 DEF Invalidate, InvalidateRemove

\* A queued key is one of the keys, and an entry is offered only if the
\* channel has room for it.
LEMMA ProvideTypes ==
  ASSUME QueueTypeOK, CycleTypeOK, NEW scan \in Keys \cup {NoKey}, Provide(scan)
  PROVE  CycleTypeOK' /\ TryPop
<1>1. /\ TryPop /\ flag' = (IF Outdated THEN [flag EXCEPT ![buf[tail]] = FALSE] ELSE flag)
      /\ tasks' = Offered(IF Due THEN buf[tail] ELSE scan)
      /\ age' = age /\ cached' = cached /\ worker' = worker /\ remove' = remove
  BY DEF Provide
<1>2. flag' \in [Keys -> BOOLEAN]
  BY <1>1 DEF CycleTypeOK
<1>3. PICK k : k = IF Due THEN buf[tail] ELSE scan
  OBVIOUS
<1>4. k # NoKey => k \in Keys
  BY <1>3 DEF QueueTypeOK
<1>5. tasks \in Seq(Task) /\ Len(tasks) \in Nat /\ Len(tasks) <= TaskCap /\ TaskCap \in Nat
  BY LenProperties, RefreshConstants DEF CycleTypeOK
<1>6. CASE k # NoKey /\ HasRoom
  <2>1. [key |-> k, own |-> TRUE] \in Task
    BY <1>4, <1>6 DEF Task
  <2>2. tasks' = Append(tasks, [key |-> k, own |-> TRUE]) /\ Len(tasks) < TaskCap
    BY <1>1, <1>3, <1>6 DEF Offered, HasRoom
  <2>3. tasks' \in Seq(Task) /\ Len(tasks') = Len(tasks) + 1
    BY <1>5, <2>1, <2>2, AppendProperties
  <2>4. Len(tasks') <= TaskCap
    BY <1>5, <2>2, <2>3
  <2> QED
    BY <1>1, <1>2, <2>3, <2>4 DEF CycleTypeOK
<1>7. CASE ~(k # NoKey /\ HasRoom)
  BY <1>1, <1>2, <1>3, <1>7 DEF CycleTypeOK, Offered
<1> QED
  BY <1>6, <1>7

\* The steps of a worker.
LEMMA WorkerTypes ==
  ASSUME CycleTypeOK, NEW w \in Workers, Worker(w)
  PROVE  CycleTypeOK' /\ UNCHANGED queueVars
<1>1. worker \in [Workers -> {Idle} \cup Job] /\ Idle.at = "idle"
  BY DEF CycleTypeOK, Idle
<1>2. worker[w].at # "idle" => worker[w] \in Job
  BY <1>1
<1>3. CASE Receive(w)
  <2>1. /\ tasks # <<>> /\ tasks' = Tail(tasks)
        /\ worker' = [worker EXCEPT ![w] = [at |-> "got", key |-> Head(tasks).key, own |-> Head(tasks).own]]
        /\ age' = age /\ flag' = flag /\ cached' = cached /\ remove' = remove /\ UNCHANGED queueVars
    BY <1>3 DEF Receive
  <2>2. tasks \in Seq(Task) /\ Len(tasks) \in Nat /\ Len(tasks) <= TaskCap /\ TaskCap \in Nat
    BY LenProperties, RefreshConstants DEF CycleTypeOK
  <2>3. Head(tasks) \in Task /\ tasks' \in Seq(Task) /\ Len(tasks') = Len(tasks) - 1
    BY <2>1, <2>2, HeadTailProperties
  <2>4. [at |-> "got", key |-> Head(tasks).key, own |-> Head(tasks).own] \in Job
    BY <2>3 DEF Job, Task
  <2>5. worker' \in [Workers -> {Idle} \cup Job]
    BY <1>1, <2>1, <2>4
  <2>6. Len(tasks') <= TaskCap
    BY <2>2, <2>3
  <2> QED
    BY <2>1, <2>3, <2>5, <2>6 DEF CycleTypeOK
<1>4. CASE OnTtlRemove(w)
  <2>1. /\ worker[w].at = "got" /\ Forget(worker[w].key) /\ remove' = remove /\ UNCHANGED queueVars
        /\ worker' = [v \in Workers |-> IF v = w THEN Idle ELSE Orphaned(worker[v], worker[w].key)]
    BY <1>4 DEF OnTtlRemove
  <2>2. PICK k \in Keys : k = worker[w].key
    BY <1>2, <2>1 DEF Job
  <2>3. worker' \in [Workers -> {Idle} \cup Job]
    BY <1>1, <2>1, <2>2, OrphanedTypes
  <2>4. Forget(k)
    BY <2>1, <2>2
  <2> QED
    BY <2>1, <2>3, <2>4, ForgetTypes DEF CycleTypeOK
<1>5. CASE OnTtlFetch(w)
  <2>1. /\ worker[w].at = "got" /\ worker' = [worker EXCEPT ![w].at = "fetch"] /\ UNCHANGED queueVars
        /\ age' = age /\ flag' = flag /\ cached' = cached /\ tasks' = tasks /\ remove' = remove
    BY <1>5 DEF OnTtlFetch
  <2>2. [worker[w] EXCEPT !.at = "fetch"] \in Job
    BY <1>2, <2>1 DEF Job
  <2>3. worker' \in [Workers -> {Idle} \cup Job]
    BY <1>1, <2>1, <2>2
  <2> QED
    BY <2>1, <2>3 DEF CycleTypeOK
<1>6. CASE \E ok \in BOOLEAN : Refreshed(w, ok)
  <2>1. PICK ok \in BOOLEAN : Refreshed(w, ok)
    BY <1>6
  <2>2. /\ worker[w].at = "fetch" /\ worker' = [worker EXCEPT ![w] = Idle] /\ UNCHANGED queueVars
        /\ cached' = cached /\ tasks' = tasks /\ remove' = remove
        /\ age' = age \/ age' = [age EXCEPT ![worker[w].key] = 0]
        /\ flag' = flag \/ flag' = [flag EXCEPT ![worker[w].key] = FALSE]
    BY <2>1 DEF Refreshed
  <2>3. 0 \in 0..MaxAge
    BY RefreshConstants
  <2>4. age' \in [Keys -> 0..MaxAge]
    BY <2>2, <2>3 DEF CycleTypeOK
  <2>5. flag' \in [Keys -> BOOLEAN]
    BY <2>2 DEF CycleTypeOK
  <2>6. worker' \in [Workers -> {Idle} \cup Job]
    BY <1>1, <2>2
  <2> QED
    BY <2>2, <2>4, <2>5, <2>6 DEF CycleTypeOK
<1> QED
  BY <1>3, <1>4, <1>5, <1>6 DEF Worker

LEMMA CycleInit == Init => TypeOK
<1> SUFFICES ASSUME Init PROVE TypeOK
  OBVIOUS
<1>1. QueueTypeOK
  BY QueueStarts DEF Init
<1>2. tasks = <<>> /\ <<>> \in Seq(Task) /\ Len(<<>>) = 0 /\ 0 \in 0..MaxAge /\ 0 <= TaskCap
  BY RefreshConstants DEF Init
<1>3. CycleTypeOK
  BY <1>2 DEF Init, CycleTypeOK
<1> QED
  BY <1>1, <1>3, TypeView

\* A step of the cycle keeps the types and is a step of the queue or none.
LEMMA CycleStep ==
  TypeOK /\ [Next]_vars => TypeOK' /\ [QueueNext]_queueVars
<1> SUFFICES ASSUME TypeOK, [Next]_vars PROVE TypeOK' /\ [QueueNext]_queueVars
  OBVIOUS
<1>0. QueueTypeOK /\ CycleTypeOK
  BY TypeView
<1>1. CycleTypeOK' /\ [QueueNext]_queueVars
  <2>1. CASE Tick
    BY <1>0, <2>1, TickTypes
  <2>2. CASE \E k \in Keys : Hit(k) \/ Set(k) \/ Evict(k) \/ Invalidate(k)
    BY <1>0, <2>2, TrafficTypes DEF QueueNext
  <2>3. CASE \E scan \in Keys \cup {NoKey} : Provide(scan)
    BY <1>0, <2>3, ProvideTypes DEF QueueNext
  <2>4. CASE \E w \in Workers : Worker(w)
    BY <1>0, <2>4, WorkerTypes
  <2>5. CASE \E v \in BOOLEAN : SetPolicy(v)
    BY <1>0, <2>5 DEF SetPolicy, CycleTypeOK
  <2>6. CASE UNCHANGED vars
    BY <1>0, <2>6 DEF vars, cycleVars, CycleTypeOK
  <2> QED
    BY <2>1, <2>2, <2>3, <2>4, <2>5, <2>6 DEF Next
<1>2. QueueTypeOK'
  <2>1. CASE QueueNext
    BY <1>0, <2>1, PushStep, PopStep DEF QueueNext
  <2>2. CASE UNCHANGED queueVars
    BY <1>0, <2>2 DEF queueVars, QueueTypeOK
  <2> QED
    BY <1>1, <2>1, <2>2
<1> QED
  BY <1>1, <1>2 DEF TypeOK, CycleTypeOK, Task, Job

\* In the refresh cycle, too: the indices of the queue stay inside its buffer,
\* ages within their bound and the task channel within its capacity, and a
\* worker at work has a key.
THEOREM RefreshCycleTypes == Spec => []TypeOK
<1>1. Init => TypeOK
  BY CycleInit
<1>2. TypeOK /\ [Next]_vars => TypeOK'
  BY CycleStep
<1> QED
  BY <1>1, <1>2, PTL DEF Spec

\* Whatever hits, provider, workers and operator do, the queue between them
\* hands the keys out first in, first out.
THEOREM CycleKeepsFifo == Spec => ImplementsFifo
<1>1. Init => QueueInit
  BY DEF Init
<1>2. TypeOK /\ [Next]_vars => [QueueNext]_queueVars
  BY CycleStep
<1>3. Spec => QueueSpec
  BY <1>1, <1>2, RefreshCycleTypes, PTL DEF Spec, QueueSpec
<1> QED
  BY <1>3, RingImplementsFifo
=============================================================================
