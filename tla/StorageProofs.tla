---------------------------- MODULE StorageProofs ----------------------------
(***************************************************************************)
(* Proofs about the sharded map and the storage on top of it, for any      *)
(* number of threads, keys, shards and entries.  The first part is about   *)
(* the map by itself.  The second shows that the storage uses the map as   *)
(* the map allows; so what is proved of the map holds of the storage.      *)
(* The third follows the byte counters while payloads change in place.     *)
(***************************************************************************)
EXTENDS Storage, FiniteSetTheorems, SequenceTheorems, WellFoundedInduction, TLAPS

(***************************************************************************)
(* Part 1: the sharded map                                                 *)
(***************************************************************************)

USE DEF Listing

-----------------------------------------------------------------------------
(* Sequences: what removing a key from an LRU list leaves *)

\* Dropping the i-th element.
LEMMA RemoveAtProps ==
  ASSUME NEW S, NEW q \in Seq(S), NEW i \in 1..Len(q)
  PROVE  /\ RemoveAt(q, i) \in Seq(S)
         /\ Len(RemoveAt(q, i)) = Len(q) - 1
         /\ \A j \in 1..(Len(q) - 1) :
              RemoveAt(q, i)[j] = IF j < i THEN q[j] ELSE q[j + 1]
<1> DEFINE a == SubSeq(q, 1, i - 1)
           b == SubSeq(q, i + 1, Len(q))
<1>1. /\ a \in Seq(S) /\ Len(a) = i - 1
      /\ \A j \in 1..(i - 1) : a[j] = q[j]
  BY SubSeqProperties
<1>2. /\ b \in Seq(S) /\ Len(b) = Len(q) - i
      /\ \A j \in 1..(Len(q) - i) : b[j] = q[i + j]
  BY SubSeqProperties
<1> HIDE DEF a, b
<1>3. Len(q) \in Nat /\ Len(a) \in Nat /\ Len(b) \in Nat
  BY <1>1, <1>2
<1>4. /\ a \o b \in Seq(S)
      /\ Len(a \o b) = Len(a) + Len(b)
      /\ \A j \in 1..(Len(a) + Len(b)) :
           (a \o b)[j] = IF j <= Len(a) THEN a[j] ELSE b[j - Len(a)]
  BY <1>1, <1>2, ConcatProperties
<1>5. ASSUME NEW j \in 1..(Len(q) - 1)
      PROVE  (a \o b)[j] = IF j < i THEN q[j] ELSE q[j + 1]
  <2>1. CASE j < i
    BY <2>1, <1>1, <1>2, <1>3, <1>4
  <2>2. CASE ~(j < i)
    <3>1. (a \o b)[j] = b[j - (i - 1)]
      BY <2>2, <1>1, <1>2, <1>3, <1>4
    <3>2. j - (i - 1) \in 1..(Len(q) - i)
      BY <2>2, <1>3
    <3>3. i + (j - (i - 1)) = j + 1
      BY <1>3
    <3> QED
      BY <3>1, <3>2, <3>3, <2>2, <1>2
  <2> QED
    BY <2>1, <2>2
<1>6. RemoveAt(q, i) = a \o b
  BY DEF RemoveAt, a, b
<1>7. Len(a) + Len(b) = Len(q) - 1
  BY <1>1, <1>2, <1>3
<1> QED
  BY <1>4, <1>5, <1>6, <1>7

\* Unlinking drops the key and keeps the rest, in lists without repetition.
LEMMA UnlinkProps ==
  ASSUME NEW S, NEW q \in Seq(S), NEW e
  PROVE  /\ Unlink(q, e) \in Seq(S)
         /\ IsInjective(q) => /\ ToSet(Unlink(q, e)) = ToSet(q) \ {e}
                              /\ IsInjective(Unlink(q, e))
<1>1. CASE \E i \in 1..Len(q) : q[i] = e
  <2> DEFINE m == CHOOSE i \in 1..Len(q) : q[i] = e
             r == RemoveAt(q, m)
  <2>1. m \in 1..Len(q) /\ q[m] = e
    BY <1>1
  <2>2. Unlink(q, e) = r
    BY <1>1 DEF Unlink, Contains
  <2> HIDE DEF m
  <2>3. /\ r \in Seq(S)
        /\ Len(r) = Len(q) - 1
        /\ \A j \in 1..(Len(q) - 1) : r[j] = IF j < m THEN q[j] ELSE q[j + 1]
    BY <2>1, RemoveAtProps
  <2> HIDE DEF r
  <2>4. DOMAIN r = 1..(Len(q) - 1) /\ DOMAIN q = 1..Len(q)
    BY <2>3
  <2>5. ASSUME IsInjective(q)
        PROVE  IsInjective(r) /\ ToSet(r) = ToSet(q) \ {e}
    <3>1. \A x, y \in 1..Len(q) : q[x] = q[y] => x = y
      BY <2>4, <2>5 DEF IsInjective
    <3>2. IsInjective(r)
      <4> SUFFICES ASSUME NEW x \in 1..(Len(q) - 1), NEW y \in 1..(Len(q) - 1),
                          r[x] = r[y]
                   PROVE  x = y
        BY <2>4 DEF IsInjective
      <4> QED
        BY <2>1, <2>3, <3>1
    <3>3. ToSet(r) \subseteq ToSet(q) \ {e}
      BY <2>1, <2>3, <2>4, <3>1 DEF ToSet
    <3>4. ASSUME NEW x \in 1..Len(q), q[x] # e
          PROVE  q[x] \in ToSet(r)
      <4>1. CASE x < m
        BY <4>1, <2>1, <2>3, <2>4 DEF ToSet
      <4>2. CASE x > m
        <5>1. x - 1 \in 1..(Len(q) - 1) /\ r[x - 1] = q[x]
          BY <4>2, <2>1, <2>3
        <5> QED
          BY <5>1, <2>4 DEF ToSet
      <4> QED
        BY <4>1, <4>2, <3>4, <2>1
    <3> QED
      BY <3>2, <3>3, <3>4, <2>4 DEF ToSet
  <2> QED
    BY <2>2, <2>3, <2>5
<1>2. CASE ~ \E i \in 1..Len(q) : q[i] = e
  <2>1. Unlink(q, e) = q
    BY <1>2 DEF Unlink, Contains
  <2>2. e \notin ToSet(q)
    BY <1>2 DEF ToSet
  <2> QED
    BY <2>1, <2>2
<1> QED
  BY <1>1, <1>2

\* Moving a key to the front adds it and repeats nothing.
LEMMA MoveToFrontProps ==
  ASSUME NEW S, NEW q \in Seq(S), NEW k \in S
  PROVE  /\ MoveToFront(q, k) \in Seq(S)
         /\ IsInjective(q) => /\ ToSet(MoveToFront(q, k)) = ToSet(q) \cup {k}
                              /\ IsInjective(MoveToFront(q, k))
<1> DEFINE r == Unlink(q, k)
           f == <<k>> \o r
<1>1. /\ r \in Seq(S)
      /\ IsInjective(q) => ToSet(r) = ToSet(q) \ {k} /\ IsInjective(r)
  BY UnlinkProps
<1> HIDE DEF r
<1>2. /\ f \in Seq(S)
      /\ Len(f) = Len(r) + 1
      /\ \A i \in 1..(Len(r) + 1) : f[i] = IF i = 1 THEN k ELSE r[i - 1]
  BY <1>1
<1>3. DOMAIN f = 1..(Len(r) + 1) /\ DOMAIN r = 1..Len(r) /\ Len(r) \in Nat
  BY <1>1, <1>2
<1> HIDE DEF f
<1>4. ToSet(f) = ToSet(r) \cup {k}
  <2>1. \A i \in 1..Len(r) : f[i + 1] = r[i] /\ i + 1 \in 1..(Len(r) + 1)
    BY <1>2, <1>3
  <2>2. f[1] = k /\ 1 \in DOMAIN f
    BY <1>2, <1>3
  <2> QED
    BY <1>2, <1>3, <2>1, <2>2 DEF ToSet
<1>5. ASSUME IsInjective(q)
      PROVE  IsInjective(f)
  <2>1. k \notin ToSet(r) /\ IsInjective(r)
    BY <1>1, <1>5
  <2>2. ASSUME NEW x \in 1..(Len(r) + 1), NEW y \in 1..(Len(r) + 1),
               x # 1, y # 1, f[x] = f[y]
        PROVE  x = y
    <3>1. x - 1 \in 1..Len(r) /\ y - 1 \in 1..Len(r)
      BY <2>2, <1>3
    <3>2. r[x - 1] = r[y - 1]
      BY <2>2, <1>2
    <3>3. x - 1 = y - 1
      BY <3>1, <3>2, <2>1, <1>3 DEF IsInjective
    <3> QED
      BY <3>3, <1>3
  <2>3. ASSUME NEW x \in 1..(Len(r) + 1), x # 1
        PROVE  f[x] # k
    <3>1. x - 1 \in DOMAIN r /\ f[x] = r[x - 1]
      BY <2>3, <1>2, <1>3
    <3> QED
      BY <3>1, <2>1 DEF ToSet
  <2>4. f[1] = k
    BY <1>2, <1>3
  <2> QED
    BY <2>2, <2>3, <2>4, <1>3 DEF IsInjective
<1>6. MoveToFront(q, k) = f
  BY DEF MoveToFront, Cons, f, r
<1> QED
  BY <1>1, <1>2, <1>4, <1>5, <1>6

\* Popping the tail loses the tail only.
LEMMA FrontProps ==
  ASSUME NEW S, NEW q \in Seq(S), q # <<>>
  PROVE  /\ Front(q) \in Seq(S)
         /\ Last(q) \in S
         /\ Last(q) \in ToSet(q)
         /\ IsInjective(q) => /\ ToSet(q) \ {Last(q)} \subseteq ToSet(Front(q))
                              /\ ToSet(Front(q)) \subseteq ToSet(q)
                              /\ IsInjective(Front(q))
<1> DEFINE f == SubSeq(q, 1, Len(q) - 1)
<1>1. Len(q) \in Nat /\ Len(q) >= 1 /\ DOMAIN q = 1..Len(q)
  <2>1. Len(q) \in Nat /\ DOMAIN q = 1..Len(q)
    OBVIOUS
  <2>2. Len(q) # 0
    BY EmptySeq
  <2> QED
    BY <2>1, <2>2
<1>2. /\ f \in Seq(S) /\ Len(f) = Len(q) - 1
      /\ \A j \in 1..(Len(q) - 1) : f[j] = q[j]
  BY <1>1, SubSeqProperties
<1>3. Front(q) = f
  BY DEF Front
<1> HIDE DEF f
<1>4. DOMAIN f = 1..(Len(q) - 1)
  BY <1>2
<1>5. Last(q) = q[Len(q)] /\ Len(q) \in 1..Len(q)
  BY <1>1 DEF Last
<1>6. Last(q) \in S /\ Last(q) \in ToSet(q)
  BY <1>1, <1>5 DEF ToSet
<1>7. ToSet(f) \subseteq ToSet(q)
  BY <1>1, <1>2, <1>4 DEF ToSet
<1>8. ToSet(q) \ {Last(q)} \subseteq ToSet(f)
  <2> SUFFICES ASSUME NEW i \in 1..Len(q), q[i] # q[Len(q)]
               PROVE  q[i] \in ToSet(f)
    BY <1>1, <1>5 DEF ToSet
  <2>1. i \in 1..(Len(q) - 1)
    BY <1>1
  <2> QED
    BY <2>1, <1>2, <1>4 DEF ToSet
<1>9. IsInjective(q) => IsInjective(f)
  BY <1>1, <1>2, <1>4 DEF IsInjective
<1> QED
  BY <1>2, <1>3, <1>6, <1>7, <1>8, <1>9

-----------------------------------------------------------------------------
(* The ledger: Due and Owed as sums of what the single threads owe *)

Up(p)  == {c \in Slots : c[2] <= p[c[1]]}
Pos(n) == IF n > 0 THEN n ELSE 0
Minus(p) == [t \in Threads |-> -p[t]]

\* A thread that owes n entries has n slots.
LEMMA ColumnCard ==
  ASSUME NEW t, NEW n \in Nat
  PROVE  /\ IsFiniteSet({t} \X (1..n))
         /\ Cardinality({t} \X (1..n)) = n
<1>1. IsFiniteSet({t}) /\ Cardinality({t}) = 1
  BY FS_Singleton
<1>2. IsFiniteSet(1..n) /\ Cardinality(1..n) = n
  BY FS_Interval
<1>3. /\ IsFiniteSet({t} \X (1..n))
      /\ Cardinality({t} \X (1..n)) = Cardinality({t}) * Cardinality(1..n)
  BY <1>1, <1>2, FS_Product
<1> QED
  BY <1>1, <1>2, <1>3

\* The number of slots moves by what one thread's debt moves.
LEMMA UpChange ==
  ASSUME NEW p \in [Threads -> Int], NEW q \in [Threads -> Int], NEW t \in Threads,
         \A u \in Threads \ {t} : q[u] = p[u],
         p[t] <= Cardinality(Keys), q[t] <= Cardinality(Keys)
  PROVE  /\ Cardinality(Up(p)) \in Nat
         /\ Cardinality(Up(q)) = Cardinality(Up(p)) + Pos(q[t]) - Pos(p[t])
<1> DEFINE N == Cardinality(Keys)
           Others == {c \in Slots : c[1] # t /\ c[2] <= p[c[1]]}
           Col(n) == {t} \X (1..n)
<1>1. N \in Nat
  BY MapConstants, FS_CardinalityType
<1>2. IsFiniteSet(Slots)
  <2>1. IsFiniteSet(1..N)
    BY <1>1, FS_Interval
  <2> QED
    BY <2>1, MapConstants, FS_Product DEF Slots
<1>3. IsFiniteSet(Others)
  BY <1>2, FS_Subset
<1>4. ASSUME NEW r \in [Threads -> Int], r[t] <= N,
             \A u \in Threads \ {t} : r[u] = p[u]
      PROVE  Cardinality(Up(r)) = Cardinality(Others) + Pos(r[t])
  <2>1. Pos(r[t]) \in Nat /\ Pos(r[t]) <= N
    BY <1>1, <1>4 DEF Pos
  <2>2. Up(r) = Others \cup Col(Pos(r[t]))
    <3>1. ASSUME NEW c \in Slots, c[1] = t
          PROVE  c \in Up(r) <=> c \in Col(Pos(r[t]))
      <4>1. c = <<c[1], c[2]>> /\ c[2] \in 1..N
        BY DEF Slots
      <4>2. c[2] <= r[t] <=> c[2] \in 1..Pos(r[t])
        BY <1>1, <4>1 DEF Pos
      <4> QED
        BY <3>1, <4>1, <4>2 DEF Up
    <3>2. ASSUME NEW c \in Slots, c[1] # t
          PROVE  c \in Up(r) <=> c \in Others
      <4>1. c[1] \in Threads
        BY DEF Slots
      <4> QED
        BY <3>2, <4>1, <1>4 DEF Up
    <3>3. Up(r) \subseteq Slots /\ Others \subseteq Slots
      BY DEF Up
    <3>4. Col(Pos(r[t])) \subseteq Slots
      BY <1>1, <2>1 DEF Slots
    <3>5. \A c \in Col(Pos(r[t])) : c[1] = t
      OBVIOUS
    <3>6. \A c \in Others : c[1] # t
      OBVIOUS
    <3> HIDE DEF Others, Col
    <3> QED
      BY <3>1, <3>2, <3>3, <3>4, <3>5, <3>6
  <2>3. IsFiniteSet(Col(Pos(r[t]))) /\ Cardinality(Col(Pos(r[t]))) = Pos(r[t])
    BY <2>1, ColumnCard
  <2>4. Others \cap Col(Pos(r[t])) = {}
    OBVIOUS
  <2>5. Cardinality(Others) \in Nat
    BY <1>3, FS_CardinalityType
  <2> HIDE DEF Others, Col
  <2>6. Cardinality(Others \cup Col(Pos(r[t])))
          = Cardinality(Others) + Cardinality(Col(Pos(r[t]))) - Cardinality({})
    BY <1>3, <2>3, <2>4, FS_Union
  <2>7. Cardinality({}) = 0
    BY FS_EmptySet
  <2> QED
    BY <2>1, <2>2, <2>3, <2>5, <2>6, <2>7
<1>5. Cardinality(Others) \in Nat
  BY <1>3, FS_CardinalityType
<1> HIDE DEF Others
<1>6. Cardinality(Up(p)) = Cardinality(Others) + Pos(p[t])
  BY <1>4
<1>7. Cardinality(Up(q)) = Cardinality(Others) + Pos(q[t])
  BY <1>4
<1> QED
  BY <1>1, <1>5, <1>6, <1>7 DEF Pos

\* What every thread has still to tell Map.len.
Debt == [t \in Threads |-> Pending(t)]

\* Due and Owed are the slots up to what the threads owe.
LEMMA DueOwed ==
  ASSUME Debt \in [Threads -> Int]
  PROVE  Due = Up(Debt) /\ Owed = Up(Minus(Debt))
<1>1. \A c \in Slots : c[1] \in Threads
  BY DEF Slots
<1>2. \A c \in Slots : Debt[c[1]] = Pending(c[1]) /\ Minus(Debt)[c[1]] = -Pending(c[1])
  BY <1>1 DEF Debt, Minus
<1> QED
  BY <1>2 DEF Due, Owed, Up

\* The same of the next state.
LEMMA DueOwedNext ==
  ASSUME Debt' \in [Threads -> Int]
  PROVE  Due' = Up(Debt') /\ Owed' = Up(Minus(Debt'))
<1>1. \A c \in Slots : c[1] \in Threads
  BY DEF Slots
<1>2. \A c \in Slots : (Debt')[c[1]] = Pending(c[1])' /\ Minus(Debt')[c[1]] = -Pending(c[1])'
  BY <1>1 DEF Debt, Minus
<1> QED
  BY <1>2 DEF Due, Owed, Up, Slots

\* A step that moves the debt of one thread moves the ledger by as much.
LEMMA LedgerStep ==
  ASSUME NEW t \in Threads,
         Debt \in [Threads -> Int], Debt' \in [Threads -> Int],
         \A u \in Threads \ {t} : (Debt')[u] = Debt[u],
         Debt[t] \in -Cardinality(Keys)..Cardinality(Keys),
         (Debt')[t] \in -Cardinality(Keys)..Cardinality(Keys)
  PROVE  /\ Cardinality(Owed) \in Nat /\ Cardinality(Due) \in Nat
         /\ Cardinality(Owed)' - Cardinality(Due)'
              = Cardinality(Owed) - Cardinality(Due) - ((Debt')[t] - Debt[t])
<1> DEFINE p == Debt  q == Debt'  mp == Minus(Debt)  mq == Minus(Debt')
<1>1. Cardinality(Keys) \in Nat
  BY MapConstants, FS_CardinalityType
<1>2. /\ mp \in [Threads -> Int] /\ mq \in [Threads -> Int]
      /\ \A u \in Threads : mp[u] = -p[u] /\ mq[u] = -q[u]
  BY DEF Minus
<1>3. Due = Up(p) /\ Owed = Up(mp)
  BY DueOwed
<1>4. Due' = Up(q) /\ Owed' = Up(mq)
  BY DueOwedNext
<1> HIDE DEF p, q, mp, mq
<1>5. /\ p \in [Threads -> Int] /\ q \in [Threads -> Int]
      /\ \A u \in Threads \ {t} : q[u] = p[u]
      /\ p[t] \in Int /\ q[t] \in Int
      /\ p[t] <= Cardinality(Keys) /\ q[t] <= Cardinality(Keys)
      /\ -p[t] <= Cardinality(Keys) /\ -q[t] <= Cardinality(Keys)
  BY <1>1 DEF p, q
<1>6. /\ Cardinality(Up(p)) \in Nat
      /\ Cardinality(Up(q)) = Cardinality(Up(p)) + Pos(q[t]) - Pos(p[t])
  BY <1>5, UpChange
<1>7. /\ \A u \in Threads \ {t} : mq[u] = mp[u]
      /\ mp[t] <= Cardinality(Keys) /\ mq[t] <= Cardinality(Keys)
  BY <1>2, <1>5
<1>8. /\ Cardinality(Up(mp)) \in Nat
      /\ Cardinality(Up(mq)) = Cardinality(Up(mp)) + Pos(mq[t]) - Pos(mp[t])
  BY <1>2, <1>7, UpChange
<1>9. \A n \in Int : Pos(-n) - Pos(n) = -n /\ Pos(n) \in Nat /\ Pos(-n) \in Nat
  BY DEF Pos
<1>10. mq[t] = -q[t] /\ mp[t] = -p[t]
  BY <1>2
<1>11. Cardinality(Up(mq)) - Cardinality(Up(q))
         = Cardinality(Up(mp)) - Cardinality(Up(p)) - (q[t] - p[t])
  BY <1>5, <1>6, <1>8, <1>9, <1>10
<1> QED
  BY <1>3, <1>4, <1>6, <1>8, <1>11 DEF p, q

-----------------------------------------------------------------------------
(* Types and locals *)

\* There is at least one key, and finitely many.
LEMMA KeysCard == Cardinality(Keys) \in Nat \ {0}
<1>1. Cardinality(Keys) \in Nat
  BY MapConstants, FS_CardinalityType
<1>2. Cardinality(Keys) # 0
  BY MapConstants, FS_EmptySet
<1> QED
  BY <1>1, <1>2

\* The LRU lists after a use and after a drop are lists of keys again.
LEMMA ListTypes ==
  ASSUME lru \in [Shards -> Seq(Keys)], NEW k \in Keys
  PROVE  Used(k) \in [Shards -> Seq(Keys)] /\ Dropped(k) \in [Shards -> Seq(Keys)]
<1>1. ShardOf[k] \in Shards /\ lru[ShardOf[k]] \in Seq(Keys)
  BY MapConstants
<1>2. /\ MoveToFront(lru[ShardOf[k]], k) \in Seq(Keys)
      /\ Unlink(lru[ShardOf[k]], k) \in Seq(Keys)
  BY <1>1, MoveToFrontProps, UnlinkProps
<1> QED
  BY <1>1, <1>2 DEF Used, Dropped

\* Taking a key out of its shard keeps the types.
LEMMA RemoveType ==
  ASSUME TypeOK, NEW t \in Threads, NEW k \in Keys, items[k] # NoEntry,
         RemoveUnlocked(t, k)
  PROVE  /\ items' \in [Keys -> Entries \cup {NoEntry}]
         /\ \A x \in Present' : KeyOf[items'[x]] = x
         /\ lru' \in [Shards -> Seq(Keys)]
         /\ slen' \in [Shards -> Int]
         /\ smem' \in [Shards -> Int]
         /\ dmem' \in [Threads -> Int]
         /\ dlen' \in [Threads -> Int]
<1>1. ShardOf[k] \in Shards
  BY MapConstants
<1>2. WeightOf(items[k]) \in Int
  <2>1. payload[items[k]] \in Payloads
    BY DEF TypeOK
  <2> QED
    BY <2>1, MapConstants DEF WeightOf
<1>3. lru' \in [Shards -> Seq(Keys)]
  BY ListTypes DEF TypeOK, RemoveUnlocked
<1>4. items' \in [Keys -> Entries \cup {NoEntry}] /\ \A x \in Present' : KeyOf[items'[x]] = x
  BY DEF TypeOK, RemoveUnlocked, Present
<1>5. /\ slen' \in [Shards -> Int] /\ smem' \in [Shards -> Int]
      /\ dmem' \in [Threads -> Int] /\ dlen' \in [Threads -> Int]
  <2> DEFINE w == WeightOf(items[k])
  <2>1. /\ smem' = [smem EXCEPT ![ShardOf[k]] = @ - w]
        /\ slen' = [slen EXCEPT ![ShardOf[k]] = @ - 1]
        /\ dmem' = [dmem EXCEPT ![t] = -w]
        /\ dlen' = [dlen EXCEPT ![t] = -1]
    BY DEF RemoveUnlocked
  <2>2. w \in Int
    BY <1>2
  <2>3. /\ slen \in [Shards -> Int] /\ smem \in [Shards -> Int]
        /\ dmem \in [Threads -> Int] /\ dlen \in [Threads -> Int]
    BY DEF TypeOK
  <2> HIDE DEF w
  <2> QED
    BY <1>1, <2>1, <2>2, <2>3
<1> QED
  BY <1>3, <1>4, <1>5

\* The placeholder of a victim is a key.
LEMMA AnyKeyType == AnyKey \in Keys
BY MapConstants DEF AnyKey

\* Shards are the numbers below NumShards, which clear counts up to.
LEMMA ShardRange ==
  /\ 0 \in 0..NumShards
  /\ \A k \in Keys : ShardOf[k] \in Shards /\ ShardOf[k] \in 0..NumShards
  /\ \A s \in Shards : s \in 0..NumShards /\ s + 1 \in 0..NumShards
BY MapConstants DEF Shards

\* A thread outside the eviction loop has well-typed loop locals.
LEMMA NoLoopType == NoLoop \in [limit : Int, left : 0..Backoff, freed : Int]
<1>1. 0 \in 0..Backoff
  BY MapConstants
<1> QED
  BY <1>1 DEF NoLoop

\* A used-up attempt leaves a loop within its backoff.
LEMMA AttemptedType ==
  ASSUME NEW t \in Threads, Attempted(t), loop[t].left # 0,
         loop \in [Threads -> [limit : Int, left : 0..Backoff, freed : Int]]
  PROVE  loop' \in [Threads -> [limit : Int, left : 0..Backoff, freed : Int]]
<1>1. Backoff \in Nat
  BY MapConstants
<1>2. loop[t].left - 1 \in 0..Backoff
  BY <1>1
<1> QED
  BY <1>2 DEF Attempted

\* A thread that moves on is at a location again; one that tells a global
\* counter what it owes leaves two integers.
LEMMA GotoType ==
  ASSUME TypeOK, NEW t \in Threads, NEW from, NEW to \in Locations, Goto(t, from, to)
  PROVE  pc' \in [Threads -> Locations]
BY DEF TypeOK, Goto

LEMMA MemTold ==
  ASSUME TypeOK, NEW t \in Threads, AddGlobalMem(t)
  PROVE  mem' \in Int /\ dmem' \in [Threads -> Int]
<1>1. mem \in Int /\ dmem \in [Threads -> Int]
  BY DEF TypeOK
<1> QED
  BY <1>1 DEF AddGlobalMem

LEMMA LenTold ==
  ASSUME TypeOK, NEW t \in Threads, AddGlobalLen(t)
  PROVE  len' \in Int /\ dlen' \in [Threads -> Int]
<1>1. len \in Int /\ dlen \in [Threads -> Int]
  BY DEF TypeOK
<1> QED
  BY <1>1 DEF AddGlobalLen

\* A step keeps the types.
LEMMA TypeStep ==
  ASSUME TypeOK, LocalsOK, [Next]_mapVars
  PROVE  TypeOK'
<1>1. ASSUME NEW t \in Threads, NEW e \in Entries, SetShard(t, e)
      PROVE  TypeOK'
  <2> DEFINE k == KeyOf[e]
             s == ShardOf[k]
             bytes == BytesDelta(e)
             count == CountDelta(k)
  <2>1. k \in Keys /\ s \in Shards
    BY MapConstants
  <2>2. lru' \in [Shards -> Seq(Keys)]
    BY <1>1, <2>1, ListTypes DEF SetShard, TypeOK
  <2>3. bytes \in Int /\ count \in Int
    <3>1. \A x \in Entries : WeightOf(x) \in Int
      BY MapConstants DEF WeightOf, TypeOK
    <3>2. items[k] \in Entries \cup {NoEntry}
      BY <2>1 DEF TypeOK
    <3> QED
      BY <3>1, <3>2 DEF BytesDelta, CountDelta
  <2>4. /\ items' = [items EXCEPT ![k] = e]
        /\ slen' = [slen EXCEPT ![s] = @ + count]
        /\ smem' = [smem EXCEPT ![s] = @ + bytes]
        /\ dmem' = [dmem EXCEPT ![t] = bytes]
        /\ dlen' = [dlen EXCEPT ![t] = count]
        /\ pc' = [pc EXCEPT ![t] = "set_mem"]
        /\ UNCHANGED <<lock, globalVars, closed, mode, payload, at, victim, loop>>
    BY <1>1 DEF SetShard, Goto, Free
  <2>5. \A x \in Present' : KeyOf[items'[x]] = x
    BY <2>1, <2>4 DEF Present, TypeOK
  <2> HIDE DEF count, bytes, s
  <2>6. /\ items' \in [Keys -> Entries \cup {NoEntry}]
        /\ slen' \in [Shards -> Int] /\ smem' \in [Shards -> Int]
        /\ dmem' \in [Threads -> Int] /\ dlen' \in [Threads -> Int]
        /\ pc' \in [Threads -> Locations]
    <3>1. "set_mem" \in Locations
      BY DEF Locations
    <3>2. pc' \in [Threads -> Locations]
      BY <2>4, <3>1 DEF TypeOK
    <3>3. items' \in [Keys -> Entries \cup {NoEntry}]
      BY <2>1, <2>4 DEF TypeOK
    <3>4. slen' \in [Shards -> Int] /\ smem' \in [Shards -> Int]
      BY <2>1, <2>3, <2>4 DEF TypeOK
    <3>5. dmem' \in [Threads -> Int] /\ dlen' \in [Threads -> Int]
      BY <2>3, <2>4 DEF TypeOK
    <3> QED
      BY <3>2, <3>3, <3>4, <3>5
  <2> QED
    BY <2>2, <2>4, <2>5, <2>6 DEF TypeOK, globalVars
<1>2. ASSUME NEW t \in Threads, SetMem(t)
      PROVE  TypeOK'
  <2>1. pc' \in [Threads -> Locations]
    <3>1. "set_len" \in Locations
      BY DEF Locations
    <3> QED
      BY <1>2, <3>1, GotoType DEF SetMem
  <2>2. mem' \in Int /\ dmem' \in [Threads -> Int]
    BY <1>2, MemTold DEF SetMem
  <2>3. UNCHANGED <<items, lru, slen, smem, lock, len, closed, mode, payload, at, victim, dlen, loop>>
    BY <1>2 DEF SetMem, shardVars
  <2> QED
    BY <2>1, <2>2, <2>3 DEF TypeOK, Present
<1>3. ASSUME NEW t \in Threads, SetLen(t)
      PROVE  TypeOK'
  <2>1. pc' \in [Threads -> Locations]
    <3>1. "idle" \in Locations
      BY DEF Locations
    <3> QED
      BY <1>3, <3>1, GotoType DEF SetLen
  <2>2. len' \in Int /\ dlen' \in [Threads -> Int]
    BY <1>3, LenTold DEF SetLen
  <2>3. UNCHANGED <<items, lru, slen, smem, lock, mem, closed, mode, payload, at, victim, dmem, loop>>
    BY <1>3 DEF SetLen, shardVars
  <2> QED
    BY <2>1, <2>2, <2>3 DEF TypeOK, Present
<1>4. ASSUME NEW t \in Threads, RemoveLen(t)
      PROVE  TypeOK'
  <2>1. pc' \in [Threads -> Locations]
    <3>1. "rm_mem" \in Locations
      BY DEF Locations
    <3> QED
      BY <1>4, <3>1, GotoType DEF RemoveLen
  <2>2. len' \in Int /\ dlen' \in [Threads -> Int]
    BY <1>4, LenTold DEF RemoveLen
  <2>3. UNCHANGED <<items, lru, slen, smem, lock, mem, closed, mode, payload, at, victim, dmem, loop>>
    BY <1>4 DEF RemoveLen, shardVars
  <2> QED
    BY <2>1, <2>2, <2>3 DEF TypeOK, Present
<1>5. ASSUME NEW t \in Threads, RemoveMem(t)
      PROVE  TypeOK'
  <2>1. pc' \in [Threads -> Locations]
    <3>1. "idle" \in Locations
      BY DEF Locations
    <3> QED
      BY <1>5, <3>1, GotoType DEF RemoveMem
  <2>2. mem' \in Int /\ dmem' \in [Threads -> Int]
    BY <1>5, MemTold DEF RemoveMem
  <2>3. UNCHANGED <<items, lru, slen, smem, lock, len, closed, mode, payload, at, victim, dlen, loop>>
    BY <1>5 DEF RemoveMem, shardVars
  <2> QED
    BY <2>1, <2>2, <2>3 DEF TypeOK, Present
<1>6. ASSUME NEW t \in Threads, NEW k \in Keys, NEW d \in Deltas, AddMem(t, k, d)
      PROVE  TypeOK'
  <2>1. /\ pc' \in [Threads -> Locations]
        /\ mem' \in Int
        /\ at' \in [Threads -> 0..NumShards]
        /\ dmem' \in [Threads -> Int]
    <3>1. ShardOf[k] \in 0..NumShards /\ d \in Int
      BY MapConstants, ShardRange
    <3> QED
      BY <1>6, <3>1 DEF TypeOK, AddMem, Goto, Locations
  <2>2. UNCHANGED <<items, lru, slen, smem, lock, len, closed, mode, payload, victim, dlen, loop>>
    BY <1>6 DEF AddMem, shardVars, globalVars
  <2> QED
    BY <2>1, <2>2 DEF TypeOK, Present
<1>7. ASSUME NEW t \in Threads, AddShardMem(t)
      PROVE  TypeOK'
  <2>1. /\ pc' \in [Threads -> Locations]
        /\ smem' \in [Shards -> Int]
        /\ at' \in [Threads -> 0..NumShards]
        /\ dmem' \in [Threads -> Int]
    <3>1. at[t] \in Shards /\ 0 \in 0..NumShards
      BY <1>7, ShardRange DEF AddShardMem, Goto, LocalsOK, LocalOK
    <3>2. smem[at[t]] \in Int /\ dmem[t] \in Int
      BY <3>1 DEF TypeOK
    <3> QED
      BY <1>7, <3>1, <3>2 DEF TypeOK, AddShardMem, Goto, Locations
  <2>2. UNCHANGED <<items, lru, slen, lock, len, mem, closed, mode, payload, victim, dlen, loop>>
    BY <1>7 DEF AddShardMem, shardVars, globalVars
  <2> QED
    BY <2>1, <2>2 DEF TypeOK, Present
<1>8. ASSUME NEW t \in Threads, NEW limit \in Limits, EvictBegin(t, limit)
      PROVE  TypeOK'
  <2>1. /\ pc' \in [Threads -> Locations]
        /\ loop' \in [Threads -> [limit : Int, left : 0..Backoff, freed : Int]]
    <3>1. "ev_check" \in Locations
      BY DEF Locations
    <3>2. pc' \in [Threads -> Locations]
      BY <1>8, <3>1, GotoType DEF EvictBegin
    <3> DEFINE new == [limit |-> limit, left |-> Backoff, freed |-> 0]
    <3>3. new \in [limit : Int, left : 0..Backoff, freed : Int]
      BY MapConstants
    <3>4. loop' = [loop EXCEPT ![t] = new]
      BY <1>8 DEF EvictBegin
    <3>5. loop \in [Threads -> [limit : Int, left : 0..Backoff, freed : Int]]
      BY DEF TypeOK
    <3> HIDE DEF new
    <3> QED
      BY <3>2, <3>3, <3>4, <3>5
  <2>2. UNCHANGED <<items, lru, slen, smem, lock, len, mem, closed, mode, payload, at, victim, dmem, dlen>>
    BY <1>8 DEF EvictBegin, shardVars, globalVars
  <2> QED
    BY <2>1, <2>2 DEF TypeOK, Present
<1>9. ASSUME NEW t \in Threads, EvictStop(t)
      PROVE  TypeOK'
  <2>1. pc' \in [Threads -> Locations]
    <3>1. "idle" \in Locations
      BY DEF Locations
    <3> QED
      BY <1>9, <3>1, GotoType DEF EvictStop
  <2>2. loop' \in [Threads -> [limit : Int, left : 0..Backoff, freed : Int]]
    <3>1. loop \in [Threads -> [limit : Int, left : 0..Backoff, freed : Int]]
      BY DEF TypeOK
    <3>2. loop' = [loop EXCEPT ![t] = NoLoop]
      BY <1>9 DEF EvictStop
    <3> QED
      BY <3>1, <3>2, NoLoopType
  <2>3. UNCHANGED <<items, lru, slen, smem, lock, len, mem, closed, mode, payload, at, victim, dmem, dlen>>
    BY <1>9 DEF EvictStop, shardVars, globalVars
  <2> QED
    BY <2>1, <2>2, <2>3 DEF TypeOK, Present
<1>10. ASSUME NEW t \in Threads, NEW s \in Shards, EvictNextShard(t, s)
      PROVE  TypeOK'
  <2>0. pc' \in [Threads -> Locations] /\ at' \in [Threads -> 0..NumShards]
    <3>1. s \in 0..NumShards /\ "ev_pop" \in Locations
      BY ShardRange DEF Locations
    <3>2. pc \in [Threads -> Locations] /\ at \in [Threads -> 0..NumShards]
      BY DEF TypeOK
    <3>3. CASE slen[s] = 0
      BY <1>10, <3>2, <3>3 DEF EvictNextShard
    <3>4. CASE slen[s] # 0
      <4>1. pc' = [pc EXCEPT ![t] = "ev_pop"] /\ at' = [at EXCEPT ![t] = s]
        BY <1>10, <3>4 DEF EvictNextShard, Goto
      <4> QED
        BY <4>1, <3>1, <3>2
    <3> QED
      BY <3>3, <3>4
  <2>1. loop' \in [Threads -> [limit : Int, left : 0..Backoff, freed : Int]]
    BY <1>10, AttemptedType DEF EvictNextShard, MayStop, TypeOK
  <2>2. UNCHANGED <<items, lru, slen, smem, lock, len, mem, closed, mode, payload, victim, dmem, dlen>>
    BY <1>10 DEF EvictNextShard, shardVars, globalVars
  <2> QED
    BY <2>0, <2>1, <2>2 DEF TypeOK, Present
<1>11. ASSUME NEW t \in Threads, NEW k \in Keys, EvictPick(t, k)
      PROVE  TypeOK'
  <2>1. pc' \in [Threads -> Locations]
    <3>1. "ev_lock" \in Locations
      BY DEF Locations
    <3> QED
      BY <1>11, <3>1, GotoType DEF EvictPick
  <2>2. victim' \in [Threads -> Keys]
    BY <1>11 DEF EvictPick, TypeOK
  <2>3. UNCHANGED <<items, lru, slen, smem, lock, len, mem, closed, mode, payload, at, dmem, dlen, loop>>
    BY <1>11 DEF EvictPick, shardVars, globalVars
  <2> QED
    BY <2>1, <2>2, <2>3 DEF TypeOK, Present
<1>12. ASSUME NEW t \in Threads, EvictPickNone(t)
      PROVE  TypeOK'
  <2>1. loop' \in [Threads -> [limit : Int, left : 0..Backoff, freed : Int]]
    BY <1>12, AttemptedType DEF EvictPickNone, MayStop, TypeOK
  <2>2. UNCHANGED <<items, lru, slen, smem, lock, len, mem, closed, mode, payload, pc, at, victim, dmem, dlen>>
    BY <1>12 DEF EvictPickNone, shardVars, globalVars
  <2> QED
    BY <2>1, <2>2 DEF TypeOK, Present
<1>13. ASSUME NEW t \in Threads, EvictMissed(t)
      PROVE  TypeOK'
  <2>0. pc' \in [Threads -> Locations] /\ victim' \in [Threads -> Keys]
    BY <1>13, AnyKeyType DEF TypeOK, EvictMissed, Goto, Locations
  <2>1. loop' \in [Threads -> [limit : Int, left : 0..Backoff, freed : Int]]
    BY <1>13, AttemptedType DEF EvictMissed, Goto, LocalsOK, LocalOK, TypeOK
  <2>2. UNCHANGED <<items, lru, slen, smem, lock, len, mem, closed, mode, payload, at, dmem, dlen>>
    BY <1>13 DEF EvictMissed, shardVars, globalVars
  <2> QED
    BY <2>0, <2>1, <2>2 DEF TypeOK, Present
<1>14. ASSUME NEW t \in Threads, EvictMem(t)
      PROVE  TypeOK'
  <2>0. pc' \in [Threads -> Locations] /\ mem' \in Int /\ dmem' \in [Threads -> Int]
    <3>1. "ev_len" \in Locations
      BY DEF Locations
    <3> QED
      BY <1>14, <3>1, GotoType, MemTold DEF EvictMem
  <2>1. loop' \in [Threads -> [limit : Int, left : 0..Backoff, freed : Int]]
    <3> DEFINE freed == loop[t].freed - dmem[t]
    <3>1. loop[t].freed \in Int /\ dmem[t] \in Int
      BY DEF TypeOK
    <3>2. freed \in Int /\ loop' = [loop EXCEPT ![t].freed = freed]
      BY <1>14, <3>1 DEF EvictMem
    <3> HIDE DEF freed
    <3>3. loop \in [Threads -> [limit : Int, left : 0..Backoff, freed : Int]]
      BY DEF TypeOK
    <3> QED
      BY <3>2, <3>3
  <2>2. UNCHANGED <<items, lru, slen, smem, lock, len, closed, mode, payload, at, victim, dlen>>
    BY <1>14 DEF EvictMem, shardVars, globalVars
  <2> QED
    BY <2>0, <2>1, <2>2 DEF TypeOK, Present
<1>15. ASSUME NEW t \in Threads, EvictLen(t)
      PROVE  TypeOK'
  <2>0. pc' \in [Threads -> Locations] /\ len' \in Int /\ dlen' \in [Threads -> Int]
    <3>1. "ev_check" \in Locations
      BY DEF Locations
    <3> QED
      BY <1>15, <3>1, GotoType, LenTold DEF EvictLen
  <2>1. loop' \in [Threads -> [limit : Int, left : 0..Backoff, freed : Int]]
    BY <1>15, AttemptedType DEF EvictLen, Goto, LocalsOK, LocalOK, TypeOK
  <2>2. UNCHANGED <<items, lru, slen, smem, lock, mem, closed, mode, payload, at, victim, dmem>>
    BY <1>15 DEF EvictLen, shardVars, globalVars
  <2> QED
    BY <2>0, <2>1, <2>2 DEF TypeOK, Present
<1>16. ASSUME NEW t \in Threads, ClearBegin(t)
      PROVE  TypeOK'
  <2>1. pc' \in [Threads -> Locations]
    <3>1. "clr_next" \in Locations
      BY DEF Locations
    <3> QED
      BY <1>16, <3>1, GotoType DEF ClearBegin
  <2>2. UNCHANGED <<items, lru, slen, smem, lock, len, mem, closed, mode, payload, at, victim, dmem, dlen, loop>>
    BY <1>16 DEF ClearBegin, shardVars, globalVars
  <2> QED
    BY <2>1, <2>2 DEF TypeOK, Present
<1>17. ASSUME NEW t \in Threads, ClearDone(t)
      PROVE  TypeOK'
  <2>1. /\ pc' \in [Threads -> Locations]
        /\ at' \in [Threads -> 0..NumShards]
    <3>1. "idle" \in Locations
      BY DEF Locations
    <3>2. pc' \in [Threads -> Locations]
      BY <1>17, <3>1, GotoType DEF ClearDone
    <3>3. 0 \in 0..NumShards
      BY MapConstants
    <3>4. at \in [Threads -> 0..NumShards] /\ at' = [at EXCEPT ![t] = 0]
      BY <1>17 DEF TypeOK, ClearDone
    <3> QED
      BY <3>2, <3>3, <3>4
  <2>2. UNCHANGED <<items, lru, slen, smem, lock, len, mem, closed, mode, payload, victim, dmem, dlen, loop>>
    BY <1>17 DEF ClearDone, shardVars, globalVars
  <2> QED
    BY <2>1, <2>2 DEF TypeOK, Present
<1>18. ASSUME NEW t \in Threads, ClearLock(t)
      PROVE  TypeOK'
  <2>1. /\ pc' \in [Threads -> Locations]
        /\ lock' \in [Shards -> Threads \cup {NoThread}]
        /\ dmem' \in [Threads -> Int]
        /\ dlen' \in [Threads -> Int]
    <3>1. smem[at[t]] \in Int /\ slen[at[t]] \in Int
      BY <1>18 DEF ClearLock, TypeOK
    <3>2. "clr_zero" \in Locations
      BY DEF Locations
    <3>3. /\ pc' = [pc EXCEPT ![t] = "clr_zero"]
          /\ lock' = [lock EXCEPT ![at[t]] = t]
          /\ dmem' = [dmem EXCEPT ![t] = -smem[at[t]]]
          /\ dlen' = [dlen EXCEPT ![t] = -slen[at[t]]]
      BY <1>18 DEF ClearLock, Goto
    <3>4. /\ pc \in [Threads -> Locations] /\ lock \in [Shards -> Threads \cup {NoThread}]
          /\ dmem \in [Threads -> Int] /\ dlen \in [Threads -> Int]
      BY DEF TypeOK
    <3>5. pc' \in [Threads -> Locations]
      BY <3>2, <3>3, <3>4
    <3>6. lock' \in [Shards -> Threads \cup {NoThread}]
      BY <3>3, <3>4
    <3>7. dmem' \in [Threads -> Int]
      BY <3>1, <3>3, <3>4
    <3>8. dlen' \in [Threads -> Int]
      BY <3>1, <3>3, <3>4
    <3> QED
      BY <3>5, <3>6, <3>7, <3>8
  <2>2. UNCHANGED <<items, lru, slen, smem, len, mem, closed, mode, payload, at, victim, loop>>
    BY <1>18 DEF ClearLock, shardVars, globalVars
  <2> QED
    BY <2>1, <2>2 DEF TypeOK, Present
<1>19. ASSUME NEW t \in Threads, ClearZero(t)
      PROVE  TypeOK'
  <2>0. /\ items \in [Keys -> Entries \cup {NoEntry}] /\ lru \in [Shards -> Seq(Keys)]
        /\ items' = [k \in Keys |-> IF ShardOf[k] = at[t] THEN NoEntry ELSE items[k]]
        /\ lru' = [lru EXCEPT ![at[t]] = <<>>]
    BY <1>19 DEF ClearZero, TypeOK
  <2>1. /\ pc' \in [Threads -> Locations] /\ lock' \in [Shards -> Threads \cup {NoThread}]
        /\ slen' \in [Shards -> Int] /\ smem' \in [Shards -> Int]
    <3>1. "clr_mem" \in Locations
      BY DEF Locations
    <3>2. pc' = [pc EXCEPT ![t] = "clr_mem"]
      BY <1>19 DEF ClearZero, Goto
    <3>3. pc' \in [Threads -> Locations]
      BY <3>1, <3>2 DEF TypeOK
    <3>4. lock' \in [Shards -> Threads \cup {NoThread}]
      BY <1>19 DEF ClearZero, TypeOK
    <3>5. slen' \in [Shards -> Int] /\ smem' \in [Shards -> Int]
      <4>1. slen \in [Shards -> Int] /\ smem \in [Shards -> Int]
        BY DEF TypeOK
      <4>2. slen' = [slen EXCEPT ![at[t]] = 0] /\ smem' = [smem EXCEPT ![at[t]] = 0]
        BY <1>19 DEF ClearZero
      <4>3. at[t] \in Shards
        BY <1>19 DEF ClearZero, Goto, LocalsOK, LocalOK
      <4> QED
        BY <4>1, <4>2, <4>3 DEF Shards
    <3> QED
      BY <3>3, <3>4, <3>5
  <2>2. lru' \in [Shards -> Seq(Keys)]
    <3>1. <<>> \in Seq(Keys)
      OBVIOUS
    <3> QED
      BY <2>0, <3>1
  <2>3. /\ items' \in [Keys -> Entries \cup {NoEntry}]
        /\ \A k \in Keys : items'[k] # NoEntry => items'[k] = items[k]
    BY <2>0
  <2>4. \A k \in Present' : KeyOf[items'[k]] = k
    BY <2>3 DEF TypeOK, Present
  <2>5. UNCHANGED <<len, mem, closed, mode, payload, at, victim, dmem, dlen, loop>>
    BY <1>19 DEF ClearZero, globalVars
  <2> QED
    BY <2>1, <2>2, <2>3, <2>4, <2>5 DEF TypeOK
<1>20. ASSUME NEW t \in Threads, ClearMem(t)
      PROVE  TypeOK'
  <2>1. pc' \in [Threads -> Locations]
    <3>1. "clr_len" \in Locations
      BY DEF Locations
    <3> QED
      BY <1>20, <3>1, GotoType DEF ClearMem
  <2>2. mem' \in Int /\ dmem' \in [Threads -> Int]
    BY <1>20, MemTold DEF ClearMem
  <2>3. UNCHANGED <<items, lru, slen, smem, lock, len, closed, mode, payload, at, victim, dlen, loop>>
    BY <1>20 DEF ClearMem, shardVars
  <2> QED
    BY <2>1, <2>2, <2>3 DEF TypeOK, Present
<1>21. ASSUME NEW t \in Threads, ClearLen(t)
      PROVE  TypeOK'
  <2>1. /\ pc' \in [Threads -> Locations]
        /\ len' \in Int
        /\ at' \in [Threads -> 0..NumShards]
        /\ dlen' \in [Threads -> Int]
    <3>1. at[t] + 1 \in 0..NumShards
      BY <1>21, ShardRange DEF ClearLen, Goto, LocalsOK, LocalOK
    <3> QED
      <4>1. "clr_next" \in Locations
        BY DEF Locations
      <4>2. pc' \in [Threads -> Locations]
        BY <1>21, <4>1, GotoType DEF ClearLen
      <4>3. len' \in Int /\ dlen' \in [Threads -> Int]
        BY <1>21, LenTold DEF ClearLen
      <4>4. at \in [Threads -> 0..NumShards] /\ at' = [at EXCEPT ![t] = at[t] + 1]
        BY <1>21 DEF TypeOK, ClearLen
      <4> QED
        BY <4>2, <4>3, <4>4, <3>1
  <2>2. UNCHANGED <<items, lru, slen, smem, lock, mem, closed, mode, payload, victim, dmem, loop>>
    BY <1>21 DEF ClearLen, shardVars, globalVars
  <2> QED
    BY <2>1, <2>2 DEF TypeOK, Present
<1>22. ASSUME NEW t \in Threads, NEW k \in Keys, RemoveShard(t, k)
      PROVE  TypeOK'
  <2>1. items[k] # NoEntry /\ RemoveUnlocked(t, k)
    BY <1>22 DEF RemoveShard
  <2> QED
    BY <1>22, <2>1, RemoveType DEF RemoveShard, TypeOK, Goto, Locations, globalVars
<1>23. ASSUME NEW t \in Threads, EvictRemove(t)
      PROVE  TypeOK'
  <2>1. victim[t] \in Keys /\ items[victim[t]] # NoEntry /\ RemoveUnlocked(t, victim[t])
    BY <1>23 DEF EvictRemove, TypeOK
  <2> QED
    BY <1>23, <2>1, RemoveType, AnyKeyType DEF EvictRemove, TypeOK, Goto, Locations, globalVars
<1>24. ASSUME NEW t \in Threads, EvictPop(t)
      PROVE  TypeOK'
  <2> DEFINE s == at[t]
  <2>1. s \in Shards /\ lru[s] \in Seq(Keys)
    BY <1>24 DEF EvictPop, LocalsOK, LocalOK, TypeOK
  <2>2. CASE lru[s] # <<>> /\ items[Last(lru[s])] # NoEntry
    <3>1. Last(lru[s]) \in Keys
      BY <2>1, <2>2, FrontProps
    <3>2. RemoveUnlocked(t, Last(lru[s]))
      BY <1>24, <2>2 DEF EvictPop
    <3>3. /\ items' \in [Keys -> Entries \cup {NoEntry}]
          /\ \A x \in Present' : KeyOf[items'[x]] = x
          /\ lru' \in [Shards -> Seq(Keys)]
          /\ slen' \in [Shards -> Int] /\ smem' \in [Shards -> Int]
          /\ dmem' \in [Threads -> Int] /\ dlen' \in [Threads -> Int]
      BY <2>2, <3>1, <3>2, RemoveType
    <3>4. pc' = [pc EXCEPT ![t] = "ev_mem"] /\ at' = [at EXCEPT ![t] = 0]
      BY <1>24, <2>2 DEF EvictPop, Goto
    <3>5. UNCHANGED <<lock, len, mem, closed, mode, payload, victim, loop>>
      BY <1>24, <2>2 DEF EvictPop, globalVars
    <3>6. pc' \in [Threads -> Locations] /\ at' \in [Threads -> 0..NumShards]
      BY <3>4, ShardRange DEF TypeOK, Locations
    <3> QED
      BY <3>3, <3>5, <3>6 DEF TypeOK
  <2>3. CASE ~(lru[s] # <<>> /\ items[Last(lru[s])] # NoEntry)
    <3>1. lru' \in [Shards -> Seq(Keys)]
      <4>1. lru[s] # <<>> => Front(lru[s]) \in Seq(Keys)
        BY <2>1, FrontProps
      <4>2. lru' = IF lru[s] = <<>> THEN lru ELSE [lru EXCEPT ![s] = Front(@)]
        BY <1>24, <2>3 DEF EvictPop
      <4> QED
        BY <2>1, <4>1, <4>2 DEF TypeOK
    <3>2. pc' = [pc EXCEPT ![t] = "ev_check"] /\ at' = [at EXCEPT ![t] = 0] /\ Attempted(t)
      BY <1>24, <2>3 DEF EvictPop, Goto
    <3>3. UNCHANGED <<items, slen, smem, dmem, dlen, lock, len, mem, closed, mode, payload, victim>>
      BY <1>24, <2>3 DEF EvictPop, globalVars
    <3>4. pc' \in [Threads -> Locations] /\ at' \in [Threads -> 0..NumShards]
      BY <3>2, ShardRange DEF TypeOK, Locations
    <3>5. loop' \in [Threads -> [limit : Int, left : 0..Backoff, freed : Int]]
      BY <1>24, <3>2, AttemptedType DEF EvictPop, LocalsOK, LocalOK, TypeOK
    <3> QED
      BY <3>1, <3>3, <3>4, <3>5 DEF TypeOK, Present
  <2> QED
    BY <2>2, <2>3
<1>25. ASSUME NEW k \in Keys, TouchLru(k)
      PROVE  TypeOK'
  BY <1>25, ListTypes DEF TouchLru, TypeOK, Present, globalVars, localVars
<1>26. ASSUME NEW e \in Mutable, NEW p \in Payloads, StorePayload(e, p)
      PROVE  TypeOK'
  BY <1>26 DEF StorePayload, TypeOK, Present, shardVars, globalVars, localVars
<1>27. CASE Close
  BY <1>27 DEF Close, TypeOK, Present, shardVars, globalVars, localVars
<1>28. CASE UNCHANGED mapVars
  BY <1>28 DEF mapVars, TypeOK, Present, shardVars, globalVars, localVars
<1> QED
  BY <1>1, <1>2, <1>3, <1>4, <1>5, <1>6, <1>7, <1>8, <1>9, <1>10, <1>11, <1>12, <1>13, <1>14, <1>15, <1>16, <1>17, <1>18, <1>19, <1>20, <1>21, <1>22, <1>23, <1>24, <1>25, <1>26, <1>27, <1>28 DEF Next, Begin, Continue

-----------------------------------------------------------------------------
(* One thread moves at a time *)

\* What thread t's step leaves to another thread.
Keeps(t, u) ==
  /\ pc'[u] = pc[u] /\ at'[u] = at[u] /\ dlen'[u] = dlen[u] /\ loop'[u] = loop[u]
  /\ pc[u] = "clr_zero" => slen'[at[u]] = slen[at[u]]

\* The entries of a shard are finitely many, at most one per key.
LEMMA ShardCard ==
  ASSUME NEW s
  PROVE  IsFiniteSet(PresentIn(s)) /\ Cardinality(PresentIn(s)) \in 0..Cardinality(Keys)
<1>1. PresentIn(s) \subseteq Keys
  BY DEF PresentIn, Present
<1>2. IsFiniteSet(PresentIn(s)) /\ Cardinality(PresentIn(s)) <= Cardinality(Keys)
  BY <1>1, MapConstants, FS_Subset
<1> QED
  BY <1>2, FS_CardinalityType, KeysCard

\* An LRU list holds keys of its own shard.
LEMMA TailInShard ==
  ASSUME TypeOK, LruCoversItems, Listing, NEW s \in Shards, lru[s] # <<>>
  PROVE  Last(lru[s]) \in Keys /\ ShardOf[Last(lru[s])] = s
<1>1. lru[s] \in Seq(Keys)
  BY DEF TypeOK
<1>2. Last(lru[s]) \in Keys /\ Last(lru[s]) \in ToSet(lru[s])
  BY <1>1, FrontProps
<1> QED
  BY <1>2 DEF LruCoversItems

\* A step of a thread keeps what the other threads rely on, leaves its own
\* locals in order and keeps the locks with the threads inside clear.
LEMMA OwnStep ==
  ASSUME TypeOK, LockHeldInClear, LocalsOK, ShardLenExact, LruCoversItems,
         NEW t \in Threads, Begin(t) \/ Continue(t)
  PROVE  /\ \A u \in Threads \ {t} : Keeps(t, u)
         /\ LocalOK(t)'
         /\ LockHeldInClear'
<1>0. /\ pc \in [Threads -> Locations] /\ at \in [Threads -> 0..NumShards]
      /\ dlen \in [Threads -> Int] /\ dmem \in [Threads -> Int]
      /\ lock \in [Shards -> Threads \cup {NoThread}] /\ slen \in [Shards -> Int]
      /\ loop \in [Threads -> [limit : Int, left : 0..Backoff, freed : Int]]
      /\ NoThread \notin Threads
  BY MapConstants DEF TypeOK
<1>a. LocalOK(t)
  BY DEF LocalsOK
<1>b. \A u \in Threads \ {t} : pc[u] = "clr_zero" => lock[at[u]] = u /\ at[u] \in Shards
  BY DEF LocalsOK, LocalOK, LockHeldInClear
<1> DEFINE Goal == /\ \A u \in Threads \ {t} : Keeps(t, u)
                   /\ LocalOK(t)'
                   /\ LockHeldInClear'
<1>1. ASSUME SetMem(t)
      PROVE  Goal
  <2>1. \A u \in Threads \ {t} : Keeps(t, u)
    BY <1>1, <1>0 DEF SetMem, Goto, shardVars, AddGlobalMem, Keeps
  <2>2. LocalOK(t)'
    BY <1>1, <1>0, <1>a DEF SetMem, Goto, shardVars, AddGlobalMem, LocalOK
  <2>3. LockHeldInClear'
    BY <1>1, <1>0 DEF SetMem, Goto, shardVars, AddGlobalMem, LockHeldInClear
  <2> QED
    BY <2>1, <2>2, <2>3
<1>2. ASSUME SetLen(t)
      PROVE  Goal
  <2>1. \A u \in Threads \ {t} : Keeps(t, u)
    BY <1>2, <1>0 DEF SetLen, Goto, shardVars, AddGlobalLen, Keeps
  <2>2. LocalOK(t)'
    BY <1>2, <1>0, <1>a DEF SetLen, Goto, shardVars, AddGlobalLen, LocalOK
  <2>3. LockHeldInClear'
    BY <1>2, <1>0 DEF SetLen, Goto, shardVars, AddGlobalLen, LockHeldInClear
  <2> QED
    BY <2>1, <2>2, <2>3
<1>3. ASSUME RemoveLen(t)
      PROVE  Goal
  <2>1. \A u \in Threads \ {t} : Keeps(t, u)
    BY <1>3, <1>0 DEF RemoveLen, Goto, shardVars, AddGlobalLen, Keeps
  <2>2. LocalOK(t)'
    BY <1>3, <1>0, <1>a DEF RemoveLen, Goto, shardVars, AddGlobalLen, LocalOK
  <2>3. LockHeldInClear'
    BY <1>3, <1>0 DEF RemoveLen, Goto, shardVars, AddGlobalLen, LockHeldInClear
  <2> QED
    BY <2>1, <2>2, <2>3
<1>4. ASSUME RemoveMem(t)
      PROVE  Goal
  <2>1. \A u \in Threads \ {t} : Keeps(t, u)
    BY <1>4, <1>0 DEF RemoveMem, Goto, shardVars, AddGlobalMem, Keeps
  <2>2. LocalOK(t)'
    BY <1>4, <1>0, <1>a DEF RemoveMem, Goto, shardVars, AddGlobalMem, LocalOK
  <2>3. LockHeldInClear'
    BY <1>4, <1>0 DEF RemoveMem, Goto, shardVars, AddGlobalMem, LockHeldInClear
  <2> QED
    BY <2>1, <2>2, <2>3
<1>5. ASSUME NEW k \in Keys, NEW d \in Deltas, AddMem(t, k, d)
      PROVE  Goal
  <2>1. \A u \in Threads \ {t} : Keeps(t, u)
    BY <1>5, <1>0, ShardRange DEF AddMem, Goto, shardVars, Keeps
  <2>2. LocalOK(t)'
    BY <1>5, <1>0, ShardRange, <1>a DEF AddMem, Goto, shardVars, LocalOK
  <2>3. LockHeldInClear'
    BY <1>5, <1>0, ShardRange DEF AddMem, Goto, shardVars, LockHeldInClear
  <2> QED
    BY <2>1, <2>2, <2>3
<1>6. ASSUME AddShardMem(t)
      PROVE  Goal
  <2>1. \A u \in Threads \ {t} : Keeps(t, u)
    BY <1>6, <1>0 DEF AddShardMem, Goto, shardVars, Keeps
  <2>2. LocalOK(t)'
    BY <1>6, <1>0, <1>a DEF AddShardMem, Goto, shardVars, LocalOK
  <2>3. LockHeldInClear'
    BY <1>6, <1>0 DEF AddShardMem, Goto, shardVars, LockHeldInClear
  <2> QED
    BY <2>1, <2>2, <2>3
<1>7. ASSUME NEW limit \in Limits, EvictBegin(t, limit)
      PROVE  Goal
  <2>1. \A u \in Threads \ {t} : Keeps(t, u)
    BY <1>7, <1>0 DEF EvictBegin, Goto, shardVars, Keeps
  <2>2. LocalOK(t)'
    BY <1>7, <1>0, <1>a DEF EvictBegin, Goto, shardVars, LocalOK
  <2>3. LockHeldInClear'
    BY <1>7, <1>0 DEF EvictBegin, Goto, shardVars, LockHeldInClear
  <2> QED
    BY <2>1, <2>2, <2>3
<1>8. ASSUME EvictStop(t)
      PROVE  Goal
  <2>1. \A u \in Threads \ {t} : Keeps(t, u)
    BY <1>8, <1>0 DEF EvictStop, Goto, shardVars, Keeps
  <2>2. LocalOK(t)'
    BY <1>8, <1>0, <1>a DEF EvictStop, Goto, shardVars, LocalOK
  <2>3. LockHeldInClear'
    BY <1>8, <1>0 DEF EvictStop, Goto, shardVars, LockHeldInClear
  <2> QED
    BY <2>1, <2>2, <2>3
<1>9. ASSUME NEW s \in Shards, EvictNextShard(t, s)
      PROVE  Goal
  <2>1. \A u \in Threads \ {t} : Keeps(t, u)
    BY <1>9, <1>0 DEF EvictNextShard, Goto, shardVars, Keeps, Attempted
  <2>2. LocalOK(t)'
    BY <1>9, <1>0, <1>a DEF EvictNextShard, Goto, shardVars, LocalOK, MayStop, Attempted
  <2>3. LockHeldInClear'
    BY <1>9, <1>0 DEF EvictNextShard, Goto, shardVars, LockHeldInClear
  <2> QED
    BY <2>1, <2>2, <2>3
<1>10. ASSUME NEW k \in Keys, EvictPick(t, k)
      PROVE  Goal
  <2>1. \A u \in Threads \ {t} : Keeps(t, u)
    BY <1>10, <1>0 DEF EvictPick, Goto, shardVars, Keeps, Attempted
  <2>2. LocalOK(t)'
    BY <1>10, <1>0, <1>a DEF EvictPick, Goto, shardVars, LocalOK, MayStop, Attempted
  <2>3. LockHeldInClear'
    BY <1>10, <1>0 DEF EvictPick, Goto, shardVars, LockHeldInClear
  <2> QED
    BY <2>1, <2>2, <2>3
<1>11. ASSUME EvictPickNone(t)
      PROVE  Goal
  <2>1. \A u \in Threads \ {t} : Keeps(t, u)
    BY <1>11, <1>0 DEF EvictPickNone, Goto, shardVars, Keeps, Attempted
  <2>2. LocalOK(t)'
    BY <1>11, <1>0, <1>a DEF EvictPickNone, Goto, shardVars, LocalOK, MayStop, Attempted
  <2>3. LockHeldInClear'
    BY <1>11, <1>0 DEF EvictPickNone, Goto, shardVars, LockHeldInClear
  <2> QED
    BY <2>1, <2>2, <2>3
<1>12. ASSUME EvictMissed(t)
      PROVE  Goal
  <2>1. \A u \in Threads \ {t} : Keeps(t, u)
    BY <1>12, <1>0 DEF EvictMissed, Goto, shardVars, Attempted, Keeps
  <2>2. LocalOK(t)'
    BY <1>12, <1>0, <1>a DEF EvictMissed, Goto, shardVars, Attempted, LocalOK
  <2>3. LockHeldInClear'
    BY <1>12, <1>0 DEF EvictMissed, Goto, shardVars, Attempted, LockHeldInClear
  <2> QED
    BY <2>1, <2>2, <2>3
<1>13. ASSUME EvictMem(t)
      PROVE  Goal
  <2>1. \A u \in Threads \ {t} : Keeps(t, u)
    BY <1>13, <1>0 DEF EvictMem, Goto, shardVars, AddGlobalMem, Keeps
  <2>2. LocalOK(t)'
    BY <1>13, <1>0, <1>a DEF EvictMem, Goto, shardVars, AddGlobalMem, LocalOK
  <2>3. LockHeldInClear'
    BY <1>13, <1>0 DEF EvictMem, Goto, shardVars, AddGlobalMem, LockHeldInClear
  <2> QED
    BY <2>1, <2>2, <2>3
<1>14. ASSUME EvictLen(t)
      PROVE  Goal
  <2>1. \A u \in Threads \ {t} : Keeps(t, u)
    BY <1>14, <1>0 DEF EvictLen, Goto, shardVars, Attempted, AddGlobalLen, Keeps
  <2>2. LocalOK(t)'
    BY <1>14, <1>0, <1>a DEF EvictLen, Goto, shardVars, Attempted, AddGlobalLen, LocalOK
  <2>3. LockHeldInClear'
    BY <1>14, <1>0 DEF EvictLen, Goto, shardVars, Attempted, AddGlobalLen, LockHeldInClear
  <2> QED
    BY <2>1, <2>2, <2>3
<1>15. ASSUME ClearBegin(t)
      PROVE  Goal
  <2>1. \A u \in Threads \ {t} : Keeps(t, u)
    BY <1>15, <1>0 DEF ClearBegin, Goto, shardVars, Keeps
  <2>2. LocalOK(t)'
    BY <1>15, <1>0, <1>a DEF ClearBegin, Goto, shardVars, LocalOK
  <2>3. LockHeldInClear'
    BY <1>15, <1>0 DEF ClearBegin, Goto, shardVars, LockHeldInClear
  <2> QED
    BY <2>1, <2>2, <2>3
<1>16. ASSUME ClearDone(t)
      PROVE  Goal
  <2>1. \A u \in Threads \ {t} : Keeps(t, u)
    BY <1>16, <1>0 DEF ClearDone, Goto, shardVars, Keeps
  <2>2. LocalOK(t)'
    BY <1>16, <1>0, <1>a DEF ClearDone, Goto, shardVars, LocalOK
  <2>3. LockHeldInClear'
    BY <1>16, <1>0 DEF ClearDone, Goto, shardVars, LockHeldInClear
  <2> QED
    BY <2>1, <2>2, <2>3
<1>17. ASSUME ClearMem(t)
      PROVE  Goal
  <2>1. \A u \in Threads \ {t} : Keeps(t, u)
    BY <1>17, <1>0 DEF ClearMem, Goto, shardVars, AddGlobalMem, Keeps
  <2>2. LocalOK(t)'
    BY <1>17, <1>0, <1>a DEF ClearMem, Goto, shardVars, AddGlobalMem, LocalOK
  <2>3. LockHeldInClear'
    BY <1>17, <1>0 DEF ClearMem, Goto, shardVars, AddGlobalMem, LockHeldInClear
  <2> QED
    BY <2>1, <2>2, <2>3
<1>18. ASSUME ClearLen(t)
      PROVE  Goal
  <2>1. \A u \in Threads \ {t} : Keeps(t, u)
    BY <1>18, <1>0 DEF ClearLen, Goto, shardVars, AddGlobalLen, Keeps
  <2>2. LocalOK(t)'
    BY <1>18, <1>0, <1>a DEF ClearLen, Goto, shardVars, AddGlobalLen, LocalOK
  <2>3. LockHeldInClear'
    BY <1>18, <1>0 DEF ClearLen, Goto, shardVars, AddGlobalLen, LockHeldInClear
  <2> QED
    BY <2>1, <2>2, <2>3
<1>19. ASSUME NEW e \in Entries, SetShard(t, e)
      PROVE  Goal
  <2> DEFINE s == ShardOf[KeyOf[e]]
             count == CountDelta(KeyOf[e])
  <2>1. /\ lock[s] = NoThread /\ slen' = [slen EXCEPT ![s] = @ + count]
        /\ pc[t] = "idle" /\ pc' = [pc EXCEPT ![t] = "set_mem"]
        /\ dlen' = [dlen EXCEPT ![t] = count]
        /\ UNCHANGED <<at, lock, loop>>
    BY <1>19 DEF SetShard, Goto, Free
  <2>2. count \in {0, 1}
    BY DEF CountDelta
  <2> HIDE DEF s, count
  <2>3. \A u \in Threads \ {t} : Keeps(t, u)
    BY <1>0, <1>b, <2>1 DEF Keeps
  <2>4. LocalOK(t)'
    BY <1>0, <2>1, <2>2 DEF LocalOK
  <2>5. LockHeldInClear'
    BY <1>0, <2>1 DEF LockHeldInClear
  <2> QED
    BY <2>3, <2>4, <2>5
<1>20. ASSUME NEW k \in Keys, RemoveShard(t, k)
      PROVE  Goal
  <2>1. /\ lock[ShardOf[k]] = NoThread /\ slen' = [slen EXCEPT ![ShardOf[k]] = @ - 1]
        /\ pc[t] = "idle" /\ pc' = [pc EXCEPT ![t] = "rm_len"]
        /\ dlen' = [dlen EXCEPT ![t] = -1]
        /\ UNCHANGED <<at, lock, loop>>
    BY <1>20 DEF RemoveShard, Goto, Free, RemoveUnlocked
  <2>2. \A u \in Threads \ {t} : Keeps(t, u)
    BY <1>0, <1>b, <2>1 DEF Keeps
  <2>3. LocalOK(t)'
    BY <1>0, <1>a, <2>1 DEF LocalOK
  <2>4. LockHeldInClear'
    BY <1>0, <2>1 DEF LockHeldInClear
  <2> QED
    BY <2>2, <2>3, <2>4
<1>21. ASSUME EvictRemove(t)
      PROVE  Goal
  <2> DEFINE k == victim[t]
  <2>1. /\ lock[ShardOf[k]] = NoThread /\ slen' = [slen EXCEPT ![ShardOf[k]] = @ - 1]
        /\ pc[t] = "ev_lock" /\ pc' = [pc EXCEPT ![t] = "ev_mem"]
        /\ dlen' = [dlen EXCEPT ![t] = -1]
        /\ UNCHANGED <<at, lock, loop>>
    BY <1>21 DEF EvictRemove, Goto, Free, RemoveUnlocked
  <2>2. \A u \in Threads \ {t} : Keeps(t, u)
    BY <1>0, <1>b, <2>1 DEF Keeps
  <2>3. LocalOK(t)'
    BY <1>0, <1>a, <2>1 DEF LocalOK
  <2>4. LockHeldInClear'
    BY <1>0, <2>1 DEF LockHeldInClear
  <2> QED
    BY <2>2, <2>3, <2>4
<1>22. ASSUME EvictPop(t)
      PROVE  Goal
  <2> DEFINE s == at[t]
             k == Last(lru[s])
  <2>1. pc[t] = "ev_pop" /\ s \in Shards /\ lock[s] = NoThread /\ Listing
    BY <1>22, <1>a DEF EvictPop, Free, LocalOK
  <2>2. CASE lru[s] # <<>> /\ items[k] # NoEntry
    <3>0. ShardOf[k] = s
      BY <2>1, <2>2, TailInShard
    <3>1. /\ lock[ShardOf[k]] = NoThread /\ slen' = [slen EXCEPT ![ShardOf[k]] = @ - 1]
          /\ pc[t] = "ev_pop" /\ pc' = [pc EXCEPT ![t] = "ev_mem"]
          /\ dlen' = [dlen EXCEPT ![t] = -1]
          /\ at' = [at EXCEPT ![t] = 0] /\ UNCHANGED <<lock, loop>>
      BY <1>22, <2>1, <2>2, <3>0 DEF EvictPop, Goto, RemoveUnlocked
    <3>2. \A u \in Threads \ {t} : Keeps(t, u)
      BY <1>0, <1>b, <3>1 DEF Keeps
    <3>3. LocalOK(t)'
      BY <1>0, <1>a, <3>1 DEF LocalOK
    <3>4. LockHeldInClear'
      BY <1>0, <3>1 DEF LockHeldInClear
    <3> QED
      BY <3>2, <3>3, <3>4
  <2>3. CASE ~(lru[s] # <<>> /\ items[k] # NoEntry)
    <3>1. /\ pc' = [pc EXCEPT ![t] = "ev_check"] /\ at' = [at EXCEPT ![t] = 0]
          /\ UNCHANGED <<slen, dlen, lock>> /\ Attempted(t)
      BY <1>22, <2>3 DEF EvictPop, Goto
    <3>2. \A u \in Threads \ {t} : Keeps(t, u)
      BY <1>0, <3>1 DEF Keeps, Attempted
    <3>3. LocalOK(t)'
      BY <1>0, <1>a, <2>1, <3>1 DEF LocalOK
    <3>4. LockHeldInClear'
      BY <1>0, <2>1, <3>1 DEF LockHeldInClear
    <3> QED
      BY <3>2, <3>3, <3>4
  <2> QED
    BY <2>2, <2>3
<1>23. ASSUME ClearLock(t)
      PROVE  Goal
  <2> DEFINE s == at[t]
  <2>1. /\ s \in Shards /\ lock[s] = NoThread
        /\ pc[t] = "clr_next" /\ pc' = [pc EXCEPT ![t] = "clr_zero"]
        /\ lock' = [lock EXCEPT ![s] = t]
        /\ dlen' = [dlen EXCEPT ![t] = -slen[s]]
        /\ UNCHANGED <<slen, at, loop>>
    BY <1>23 DEF ClearLock, Goto, Free
  <2>2. \A u \in Threads \ {t} : Keeps(t, u)
    BY <1>0, <2>1 DEF Keeps
  <2>3. LocalOK(t)'
    BY <1>0, <1>a, <2>1 DEF LocalOK
  <2>4. LockHeldInClear'
    BY <1>0, <2>1 DEF LockHeldInClear
  <2> QED
    BY <2>2, <2>3, <2>4
<1>24. ASSUME ClearZero(t)
      PROVE  Goal
  <2> DEFINE s == at[t]
  <2>1. /\ pc[t] = "clr_zero" /\ pc' = [pc EXCEPT ![t] = "clr_mem"]
        /\ lock' = [lock EXCEPT ![s] = NoThread]
        /\ slen' = [slen EXCEPT ![s] = 0]
        /\ UNCHANGED <<dlen, at, loop>>
    BY <1>24 DEF ClearZero, Goto
  <2>2. s \in Shards /\ lock[s] = t /\ dlen[t] = -slen[s]
    BY <1>a, <2>1 DEF LocalOK, LockHeldInClear
  <2>3. \A u \in Threads \ {t} : Keeps(t, u)
    <3>1. \A u \in Threads \ {t} : pc[u] = "clr_zero" => at[u] # s
      BY <2>2, <1>b
    <3> QED
      BY <1>0, <2>1, <3>1 DEF Keeps
  <2>4. slen[s] \in 0..Cardinality(Keys)
    BY <2>2, ShardCard DEF ShardLenExact
  <2>5. LocalOK(t)'
    BY <1>0, <2>1, <2>2, <2>4, KeysCard DEF LocalOK
  <2>6. LockHeldInClear'
    BY <1>0, <2>1, <2>2 DEF LockHeldInClear
  <2> QED
    BY <2>3, <2>5, <2>6
<1> QED
  BY <1>1, <1>2, <1>3, <1>4, <1>5, <1>6, <1>7, <1>8, <1>9, <1>10, <1>11, <1>12, <1>13, <1>14, <1>15, <1>16, <1>17, <1>18, <1>19, <1>20, <1>21, <1>22, <1>23, <1>24 DEF Begin, Continue

-----------------------------------------------------------------------------
(* The shapes of a step, as far as the entry counters are concerned *)

\* Nothing that is counted changes.
Still == UNCHANGED <<items, slen, len>> /\ \A u \in Threads : Pending(u)' = Pending(u)

\* Thread t takes key k out of its shard.
Taken(t, k) ==
  /\ items[k] # NoEntry
  /\ items' = [items EXCEPT ![k] = NoEntry]
  /\ slen' = [slen EXCEPT ![ShardOf[k]] = @ - 1]
  /\ len' = len
  /\ Pending(t) = 0 /\ Pending(t)' = -1

\* Thread t tells Map.len what it owes it.
Paid(t) ==
  /\ UNCHANGED <<items, slen>>
  /\ len' = len + Pending(t)
  /\ Pending(t)' = 0

\* A step of a call changes the debts of its own thread only, and the debts
\* that count by exactly what the map's counter or contents move.
LEMMA StepShape ==
  ASSUME TypeOK, LockHeldInClear, LocalsOK, ShardLenExact, LruCoversItems,
         NEW t \in Threads, Begin(t) \/ Continue(t)
  PROVE  \/ Still
         \/ \E e \in Entries : SetShard(t, e)
         \/ \E k \in Keys : Taken(t, k)
         \/ ClearZero(t)
         \/ Paid(t)
<1>0. /\ pc \in [Threads -> Locations] /\ dlen \in [Threads -> Int] /\ len \in Int
      /\ slen \in [Shards -> Int]
  BY DEF TypeOK
<1>a. LocalOK(t)
  BY DEF LocalsOK
<1>b. \A u \in Threads \ {t} : Pending(u)' = Pending(u)
  BY OwnStep DEF Keeps, Pending
<1>1. ASSUME Pending(t)' = Pending(t), UNCHANGED <<items, slen, len>>
      PROVE  Still
  BY <1>1, <1>b DEF Still
<1>2. ASSUME SetMem(t)
      PROVE  Still
  <2>1. Pending(t)' = Pending(t)
    BY <1>2, <1>0, <1>a DEF SetMem, Goto, shardVars, globalVars, AddGlobalMem, Pending, LocalOK
  <2> QED
    BY <1>2, <1>1, <2>1 DEF SetMem, shardVars, globalVars
<1>3. ASSUME RemoveMem(t)
      PROVE  Still
  <2>1. Pending(t)' = Pending(t)
    BY <1>3, <1>0, <1>a DEF RemoveMem, Goto, shardVars, globalVars, AddGlobalMem, Pending, LocalOK
  <2> QED
    BY <1>3, <1>1, <2>1 DEF RemoveMem, shardVars, globalVars
<1>4. ASSUME NEW k \in Keys, NEW d \in Deltas, AddMem(t, k, d)
      PROVE  Still
  <2>1. Pending(t)' = Pending(t)
    BY <1>4, <1>0, <1>a DEF AddMem, Goto, shardVars, globalVars, Pending, LocalOK
  <2> QED
    BY <1>4, <1>1, <2>1 DEF AddMem, shardVars, globalVars
<1>5. ASSUME AddShardMem(t)
      PROVE  Still
  <2>1. Pending(t)' = Pending(t)
    BY <1>5, <1>0, <1>a DEF AddShardMem, Goto, shardVars, globalVars, Pending, LocalOK
  <2> QED
    BY <1>5, <1>1, <2>1 DEF AddShardMem, shardVars, globalVars
<1>6. ASSUME NEW limit \in Limits, EvictBegin(t, limit)
      PROVE  Still
  <2>1. Pending(t)' = Pending(t)
    BY <1>6, <1>0, <1>a DEF EvictBegin, Goto, shardVars, globalVars, Pending, LocalOK
  <2> QED
    BY <1>6, <1>1, <2>1 DEF EvictBegin, shardVars, globalVars
<1>7. ASSUME EvictStop(t)
      PROVE  Still
  <2>1. Pending(t)' = Pending(t)
    BY <1>7, <1>0, <1>a DEF EvictStop, Goto, shardVars, globalVars, Pending, LocalOK
  <2> QED
    BY <1>7, <1>1, <2>1 DEF EvictStop, shardVars, globalVars
<1>8. ASSUME NEW s \in Shards, EvictNextShard(t, s)
      PROVE  Still
  <2>1. Pending(t)' = Pending(t)
    BY <1>8, <1>0, <1>a DEF EvictNextShard, Goto, shardVars, globalVars, Pending, LocalOK
  <2> QED
    BY <1>8, <1>1, <2>1 DEF EvictNextShard, shardVars, globalVars
<1>9. ASSUME NEW k \in Keys, EvictPick(t, k)
      PROVE  Still
  <2>1. Pending(t)' = Pending(t)
    BY <1>9, <1>0, <1>a DEF EvictPick, Goto, shardVars, globalVars, Pending, LocalOK
  <2> QED
    BY <1>9, <1>1, <2>1 DEF EvictPick, shardVars, globalVars
<1>10. ASSUME EvictPickNone(t)
      PROVE  Still
  <2>1. Pending(t)' = Pending(t)
    BY <1>10, <1>0, <1>a DEF EvictPickNone, Goto, shardVars, globalVars, Pending, LocalOK
  <2> QED
    BY <1>10, <1>1, <2>1 DEF EvictPickNone, shardVars, globalVars
<1>11. ASSUME EvictMissed(t)
      PROVE  Still
  <2>1. Pending(t)' = Pending(t)
    BY <1>11, <1>0, <1>a DEF EvictMissed, Goto, shardVars, globalVars, Pending, LocalOK
  <2> QED
    BY <1>11, <1>1, <2>1 DEF EvictMissed, shardVars, globalVars
<1>12. ASSUME EvictMem(t)
      PROVE  Still
  <2>1. Pending(t)' = Pending(t)
    BY <1>12, <1>0, <1>a DEF EvictMem, Goto, shardVars, globalVars, AddGlobalMem, Pending, LocalOK
  <2> QED
    BY <1>12, <1>1, <2>1 DEF EvictMem, shardVars, globalVars
<1>13. ASSUME ClearBegin(t)
      PROVE  Still
  <2>1. Pending(t)' = Pending(t)
    BY <1>13, <1>0, <1>a DEF ClearBegin, Goto, shardVars, globalVars, Pending, LocalOK
  <2> QED
    BY <1>13, <1>1, <2>1 DEF ClearBegin, shardVars, globalVars
<1>14. ASSUME ClearDone(t)
      PROVE  Still
  <2>1. Pending(t)' = Pending(t)
    BY <1>14, <1>0, <1>a DEF ClearDone, Goto, shardVars, globalVars, Pending, LocalOK
  <2> QED
    BY <1>14, <1>1, <2>1 DEF ClearDone, shardVars, globalVars
<1>15. ASSUME ClearLock(t)
      PROVE  Still
  <2>1. Pending(t)' = Pending(t)
    BY <1>15, <1>0, <1>a DEF ClearLock, Goto, Free, shardVars, globalVars, Pending, LocalOK
  <2> QED
    BY <1>15, <1>1, <2>1 DEF ClearLock, shardVars, globalVars
<1>16. ASSUME ClearMem(t)
      PROVE  Still
  <2>1. Pending(t)' = Pending(t)
    BY <1>16, <1>0, <1>a DEF ClearMem, Goto, shardVars, globalVars, AddGlobalMem, Pending, LocalOK
  <2> QED
    BY <1>16, <1>1, <2>1 DEF ClearMem, shardVars, globalVars
<1>30. CASE SetLen(t) \/ RemoveLen(t) \/ EvictLen(t) \/ ClearLen(t)
  <2>1. Paid(t)
    BY <1>30, <1>0
      DEF SetLen, RemoveLen, EvictLen, ClearLen, AddGlobalLen, Goto, Paid, Pending, shardVars
  <2> QED
    BY <2>1
<1>31. ASSUME NEW k \in Keys, RemoveShard(t, k)
       PROVE  Taken(t, k)
  BY <1>31, <1>0, <1>a
    DEF RemoveShard, RemoveUnlocked, Goto, LocalOK, Taken, Pending, globalVars
<1>32. CASE EvictRemove(t)
  <2>1. victim[t] \in Keys
    BY DEF TypeOK
  <2>2. Taken(t, victim[t])
    BY <1>32, <1>0, <1>a
      DEF EvictRemove, RemoveUnlocked, Goto, LocalOK, Taken, Pending, globalVars
  <2> QED
    BY <2>1, <2>2
<1>33. CASE EvictPop(t)
  <2> DEFINE k == Last(lru[at[t]])
  <2>1. pc[t] = "ev_pop" /\ at[t] \in Shards /\ Listing /\ dlen[t] = 0
    BY <1>33, <1>a DEF EvictPop, Free, LocalOK
  <2>2. CASE lru[at[t]] # <<>> /\ items[k] # NoEntry
    <3>1. k \in Keys
      BY <2>1, <2>2, TailInShard
    <3>2. /\ RemoveUnlocked(t, k) /\ pc' = [pc EXCEPT ![t] = "ev_mem"] /\ UNCHANGED len
      BY <1>33, <2>2 DEF EvictPop, Goto, globalVars
    <3> HIDE DEF k
    <3>3. Taken(t, k)
      BY <1>0, <2>1, <2>2, <3>2 DEF RemoveUnlocked, Taken, Pending
    <3> QED
      BY <3>1, <3>3
  <2>3. CASE ~(lru[at[t]] # <<>> /\ items[k] # NoEntry)
    <3>1. /\ pc' = [pc EXCEPT ![t] = "ev_check"]
          /\ UNCHANGED <<items, slen, dlen, len>>
      BY <1>33, <2>3 DEF EvictPop, Goto, globalVars
    <3>2. Pending(t)' = Pending(t)
      BY <1>0, <2>1, <3>1 DEF Pending
    <3> QED
      BY <1>1, <3>1, <3>2
  <2> QED
    BY <2>2, <2>3
<1> QED
  BY <1>2, <1>3, <1>4, <1>5, <1>6, <1>7, <1>8, <1>9, <1>10, <1>11, <1>12, <1>13, <1>14, <1>15, <1>16, <1>30, <1>31, <1>32, <1>33 DEF Begin, Continue

-----------------------------------------------------------------------------
(* The entry counters *)

\* The keys of the map after one is added ...
LEMMA AddedKey ==
  ASSUME TypeOK, NEW e \in Entries, items' = [items EXCEPT ![KeyOf[e]] = e]
  PROVE  /\ Present' = Present \cup {KeyOf[e]}
         /\ \A s : PresentIn(s)' = IF s = ShardOf[KeyOf[e]]
                                   THEN PresentIn(s) \cup {KeyOf[e]} ELSE PresentIn(s)
<1>1. e # NoEntry /\ KeyOf[e] \in Keys
  BY MapConstants
<1>2. items \in [Keys -> Entries \cup {NoEntry}]
  BY DEF TypeOK
<1>3. Present' = Present \cup {KeyOf[e]}
  BY <1>1, <1>2 DEF Present
<1> QED
  BY <1>3 DEF PresentIn

\* ... and after one is taken.
LEMMA TakenKey ==
  ASSUME TypeOK, NEW k \in Keys, items' = [items EXCEPT ![k] = NoEntry]
  PROVE  /\ Present' = Present \ {k}
         /\ \A s : PresentIn(s)' = IF s = ShardOf[k]
                                   THEN PresentIn(s) \ {k} ELSE PresentIn(s)
<1>1. items \in [Keys -> Entries \cup {NoEntry}]
  BY DEF TypeOK
<1>2. Present' = Present \ {k}
  BY <1>1 DEF Present
<1> QED
  BY <1>2 DEF PresentIn

\* The map holds finitely many entries.
LEMMA PresentCard == IsFiniteSet(Present) /\ Cardinality(Present) \in Nat
<1>1. IsFiniteSet(Present)
  BY MapConstants, FS_Subset DEF Present
<1> QED
  BY <1>1, FS_CardinalityType

\* The entry counter of a shard follows its hash map.
LEMMA ShardLenStep ==
  ASSUME TypeOK, LockHeldInClear, LocalsOK, ShardLenExact, LruCoversItems,
         NEW t \in Threads, Begin(t) \/ Continue(t)
  PROVE  ShardLenExact'
<1>0. slen \in [Shards -> Int]
  BY DEF TypeOK
<1>1. ASSUME UNCHANGED <<items, slen>>
      PROVE  ShardLenExact'
  BY <1>1 DEF ShardLenExact, PresentIn, Present
<1>2. ASSUME NEW e \in Entries, SetShard(t, e)
      PROVE  ShardLenExact'
  <2> DEFINE k == KeyOf[e]
             count == CountDelta(k)
  <2>1. /\ items' = [items EXCEPT ![k] = e]
        /\ slen' = [slen EXCEPT ![ShardOf[k]] = @ + count]
    BY <1>2 DEF SetShard
  <2>2. k \in Keys /\ ShardOf[k] \in Shards
    BY MapConstants
  <2>3. k \in PresentIn(ShardOf[k]) <=> items[k] # NoEntry
    BY <2>2 DEF PresentIn, Present
  <2>4. Cardinality(PresentIn(ShardOf[k]) \cup {k})
          = Cardinality(PresentIn(ShardOf[k])) + count
    <3> DEFINE P == PresentIn(ShardOf[k])
    <3>1. IsFiniteSet(P) /\ Cardinality(P) \in Nat
      BY ShardCard, KeysCard
    <3>2. Cardinality(P \cup {k}) = IF k \in P THEN Cardinality(P) ELSE Cardinality(P) + 1
      BY <3>1, FS_AddElement
    <3> QED
      BY <2>3, <3>1, <3>2 DEF CountDelta
  <2>5. \A s \in Shards : PresentIn(s)' = IF s = ShardOf[k]
                                 THEN PresentIn(s) \cup {k} ELSE PresentIn(s)
    BY <2>1, AddedKey
  <2> HIDE DEF count, k
  <2>6. ASSUME NEW s \in Shards
        PROVE  slen'[s] = Cardinality(PresentIn(s)')
    BY <1>0, <2>1, <2>2, <2>4, <2>5 DEF ShardLenExact
  <2> QED
    BY <2>6 DEF ShardLenExact
<1>3. ASSUME NEW k \in Keys, Taken(t, k)
      PROVE  ShardLenExact'
  <2>1. ShardOf[k] \in Shards /\ k \in PresentIn(ShardOf[k])
    BY <1>3, MapConstants DEF Taken, PresentIn, Present
  <2>2. Cardinality(PresentIn(ShardOf[k]) \ {k}) = Cardinality(PresentIn(ShardOf[k])) - 1
    BY <2>1, ShardCard, FS_RemoveElement
  <2>3. \A s \in Shards : PresentIn(s)' = IF s = ShardOf[k]
                                 THEN PresentIn(s) \ {k} ELSE PresentIn(s)
    BY <1>3, TakenKey DEF Taken
  <2>4. slen' = [slen EXCEPT ![ShardOf[k]] = @ - 1]
    BY <1>3 DEF Taken
  <2>5. ASSUME NEW s \in Shards
        PROVE  slen'[s] = Cardinality(PresentIn(s)')
    BY <1>0, <2>1, <2>2, <2>3, <2>4 DEF ShardLenExact
  <2> QED
    BY <2>5 DEF ShardLenExact
<1>4. CASE ClearZero(t)
  <2>1. /\ items' = [k \in Keys |-> IF ShardOf[k] = at[t] THEN NoEntry ELSE items[k]]
        /\ slen' = [slen EXCEPT ![at[t]] = 0]
    BY <1>4 DEF ClearZero
  <2>2. \A s \in Shards : PresentIn(s)' = IF s = at[t] THEN {} ELSE PresentIn(s)
    BY <2>1 DEF PresentIn, Present
  <2>3. Cardinality({}) = 0
    BY FS_EmptySet
  <2>4. ASSUME NEW s \in Shards
        PROVE  slen'[s] = Cardinality(PresentIn(s)')
    BY <1>0, <2>1, <2>2, <2>3 DEF ShardLenExact
  <2> QED
    BY <2>4 DEF ShardLenExact
<1> QED
  BY <1>1, <1>2, <1>3, <1>4, StepShape DEF Still, Paid

\* The debts of the threads are small enough for the ledger.
LEMMA DebtType ==
  ASSUME TypeOK, LocalsOK, ShardLenExact
  PROVE  /\ Debt \in [Threads -> Int]
         /\ \A t \in Threads : Debt[t] \in -Cardinality(Keys)..Cardinality(Keys)
<1>1. \A t \in Threads : Pending(t) \in Int
  BY DEF Pending, TypeOK
<1>2. ASSUME NEW t \in Threads
      PROVE  Pending(t) \in -Cardinality(Keys)..Cardinality(Keys)
  <2>1. pc[t] \in Locations /\ dlen[t] \in Int /\ LocalOK(t)
    BY DEF TypeOK, LocalsOK
  <2> QED
    BY <2>1, KeysCard DEF Pending, LocalOK, Locations
<1> QED
  BY <1>1, <1>2 DEF Debt

\* The same of the next state.
LEMMA DebtTypeNext ==
  ASSUME TypeOK', LocalsOK', ShardLenExact'
  PROVE  /\ Debt' \in [Threads -> Int]
         /\ \A t \in Threads : (Debt')[t] \in -Cardinality(Keys)..Cardinality(Keys)
<1>1. \A t \in Threads : Pending(t)' \in Int
  BY DEF Pending, TypeOK
<1>2. ASSUME NEW t \in Threads
      PROVE  Pending(t)' \in -Cardinality(Keys)..Cardinality(Keys)
  <2>1. pc'[t] \in Locations /\ dlen'[t] \in Int /\ LocalOK(t)'
    BY DEF TypeOK, LocalsOK
  <2> QED
    BY <2>1, KeysCard DEF Pending, LocalOK, Locations
<1> QED
  BY <1>1, <1>2 DEF Debt

\* The slots of the ledger are finitely many.
LEMMA SlotsCard ==
  /\ \A p : Cardinality(Up(p)) \in Nat
  /\ Cardinality(Due)' \in Nat
  /\ Cardinality(Owed)' \in Nat
<1>1. IsFiniteSet(Slots)
  <2>1. IsFiniteSet(1..Cardinality(Keys))
    BY KeysCard, FS_Interval
  <2> QED
    BY <2>1, MapConstants, FS_Product DEF Slots
<1>2. \A S : S \subseteq Slots => Cardinality(S) \in Nat
  BY <1>1, FS_Subset, FS_CardinalityType
<1>3. Due' \subseteq Slots /\ Owed' \subseteq Slots
  BY DEF Due, Owed, Slots
<1> QED
  BY <1>2, <1>3 DEF Up

\* Map.len follows the shards.
LEMMA LenStep ==
  ASSUME TypeOK, LockHeldInClear, LocalsOK, ShardLenExact, LruCoversItems, LenExact,
         TypeOK', LocalsOK', ShardLenExact',
         NEW t \in Threads, Begin(t) \/ Continue(t)
  PROVE  LenExact'
<1>1. /\ Debt \in [Threads -> Int]
      /\ \A u \in Threads : Debt[u] \in -Cardinality(Keys)..Cardinality(Keys)
  BY DebtType
<1>2. /\ Debt' \in [Threads -> Int]
      /\ \A u \in Threads : (Debt')[u] \in -Cardinality(Keys)..Cardinality(Keys)
  BY DebtTypeNext
<1>3. \A u \in Threads : Debt[u] = Pending(u) /\ (Debt')[u] = Pending(u)'
  BY DEF Debt
<1>4. \A u \in Threads \ {t} : (Debt')[u] = Debt[u]
  BY <1>3, OwnStep DEF Keeps, Pending
<1>5. /\ Cardinality(Owed) \in Nat /\ Cardinality(Due) \in Nat
      /\ Cardinality(Owed)' - Cardinality(Due)'
           = Cardinality(Owed) - Cardinality(Due) - (Pending(t)' - Pending(t))
  BY <1>1, <1>2, <1>3, <1>4, LedgerStep
<1>6. Pending(t) \in Int /\ Pending(t)' \in Int /\ len \in Int
  BY <1>1, <1>2, <1>3, KeysCard DEF TypeOK
<1>7. Cardinality(Present) \in Nat /\ IsFiniteSet(Present)
  BY PresentCard
<1>8. Cardinality(Owed)' \in Nat /\ Cardinality(Due)' \in Nat
  BY SlotsCard
<1>9. ASSUME len' - len = Cardinality(Present') - Cardinality(Present) - (Pending(t)' - Pending(t)),
             len' \in Int, Cardinality(Present') \in Int
      PROVE  LenExact'
  BY <1>5, <1>6, <1>7, <1>8, <1>9 DEF LenExact
<1>10. CASE Still
  BY <1>6, <1>7, <1>9, <1>10 DEF Still, Present
<1>11. CASE Paid(t)
  BY <1>6, <1>7, <1>9, <1>11 DEF Paid, Present
<1>12. ASSUME NEW k \in Keys, Taken(t, k)
       PROVE  LenExact'
  <2>1. k \in Present /\ Present' = Present \ {k}
    BY <1>12, TakenKey DEF Taken, Present
  <2>2. Cardinality(Present') = Cardinality(Present) - 1
    BY <1>7, <2>1, FS_RemoveElement
  <2> QED
    BY <1>6, <1>7, <1>9, <1>12, <2>2 DEF Taken
<1>13. ASSUME NEW e \in Entries, SetShard(t, e)
       PROVE  LenExact'
  <2> DEFINE k == KeyOf[e]
             count == CountDelta(k)
  <2>1. /\ items' = [items EXCEPT ![k] = e] /\ len' = len
        /\ pc[t] = "idle" /\ pc' = [pc EXCEPT ![t] = "set_mem"]
        /\ dlen' = [dlen EXCEPT ![t] = count]
    BY <1>13 DEF SetShard, Goto, Free, globalVars
  <2>2. k \in Keys
    BY MapConstants
  <2>3. Present' = Present \cup {k} /\ (k \in Present <=> items[k] # NoEntry)
    BY <2>1, <2>2, AddedKey DEF Present
  <2>4. Cardinality(Present') = Cardinality(Present) + count
    <3>1. Cardinality(Present \cup {k})
            = IF k \in Present THEN Cardinality(Present) ELSE Cardinality(Present) + 1
      BY <1>7, FS_AddElement
    <3> QED
      BY <1>7, <2>3, <3>1 DEF CountDelta
  <2>5. Pending(t) = 0 /\ Pending(t)' = count
    BY <2>1 DEF Pending, LocalsOK, LocalOK, TypeOK
  <2>6. count \in {0, 1}
    BY DEF CountDelta
  <2> HIDE DEF count
  <2> QED
    BY <1>6, <1>7, <1>9, <2>1, <2>4, <2>5, <2>6
<1>14. CASE ClearZero(t)
  <2>1. /\ items' = [k \in Keys |-> IF ShardOf[k] = at[t] THEN NoEntry ELSE items[k]]
        /\ pc[t] = "clr_zero" /\ pc' = [pc EXCEPT ![t] = "clr_mem"]
        /\ len' = len /\ dlen' = dlen
    BY <1>14 DEF ClearZero, Goto, globalVars
  <2>2. Present' = Present \ PresentIn(at[t])
    BY <2>1 DEF Present, PresentIn
  <2>3. Present \cap PresentIn(at[t]) = PresentIn(at[t])
    BY DEF PresentIn
  <2>4. Cardinality(Present') = Cardinality(Present) - Cardinality(PresentIn(at[t]))
    <3>1. Cardinality(Present \ PresentIn(at[t]))
            = Cardinality(Present) - Cardinality(Present \cap PresentIn(at[t]))
      BY <1>7, FS_Difference
    <3> QED
      BY <2>2, <2>3, <3>1
  <2>5. at[t] \in Shards /\ dlen[t] = -slen[at[t]]
    BY <2>1 DEF LocalsOK, LocalOK
  <2>6. Pending(t) = 0 /\ Pending(t)' = dlen[t]
    BY <2>1 DEF Pending, TypeOK
  <2>7. slen[at[t]] = Cardinality(PresentIn(at[t])) /\ Cardinality(PresentIn(at[t])) \in Nat
    BY <2>5, ShardCard, KeysCard DEF ShardLenExact
  <2> QED
    BY <1>6, <1>7, <1>9, <2>1, <2>4, <2>5, <2>6, <2>7
<1> QED
  BY <1>10, <1>11, <1>12, <1>13, <1>14, StepShape

-----------------------------------------------------------------------------
(* The LRU lists *)

\* A list after a use covers the key used and all it covered before ...
LEMMA UsedCovers ==
  ASSUME TypeOK, LruCoversItems, NEW k \in Keys, lru' = Used(k), mode' = mode,
         \A s \in Shards : PresentIn(s)' \subseteq
                             IF s = ShardOf[k] THEN PresentIn(s) \cup {k} ELSE PresentIn(s)
  PROVE  LruCoversItems'
<1> SUFFICES ASSUME Listing, NEW s \in Shards
             PROVE  /\ PresentIn(s)' \subseteq ToSet(lru'[s])
                    /\ \A x \in ToSet(lru'[s]) : ShardOf[x] = s
                    /\ IsInjective(lru'[s])
  BY DEF LruCoversItems
<1>1. /\ lru[s] \in Seq(Keys) /\ lru \in [Shards -> Seq(Keys)]
      /\ PresentIn(s) \subseteq ToSet(lru[s])
      /\ \A x \in ToSet(lru[s]) : ShardOf[x] = s
      /\ IsInjective(lru[s])
  BY DEF TypeOK, LruCoversItems
<1>2. CASE s = ShardOf[k]
  <2>1. lru'[s] = MoveToFront(lru[s], k)
    BY <1>1, <1>2 DEF Used
  <2>2. ToSet(lru'[s]) = ToSet(lru[s]) \cup {k} /\ IsInjective(lru'[s])
    BY <1>1, <2>1, MoveToFrontProps
  <2>3. PresentIn(s)' \subseteq PresentIn(s) \cup {k}
    BY <1>2
  <2> QED
    BY <1>1, <1>2, <2>2, <2>3
<1>3. CASE s # ShardOf[k]
  <2>1. lru'[s] = lru[s]
    BY <1>1, <1>3 DEF Used
  <2>2. PresentIn(s)' \subseteq PresentIn(s)
    BY <1>3
  <2> QED
    BY <1>1, <2>1, <2>2
<1> QED
  BY <1>2, <1>3

\* ... and a list after a drop covers all but the key dropped.
LEMMA DroppedCovers ==
  ASSUME TypeOK, LruCoversItems, NEW k \in Keys, lru' = Dropped(k), mode' = mode,
         items' = [items EXCEPT ![k] = NoEntry]
  PROVE  LruCoversItems'
<1>0. \A s : PresentIn(s)' = IF s = ShardOf[k] THEN PresentIn(s) \ {k} ELSE PresentIn(s)
  BY TakenKey
<1> SUFFICES ASSUME Listing, NEW s \in Shards
             PROVE  /\ PresentIn(s)' \subseteq ToSet(lru'[s])
                    /\ \A x \in ToSet(lru'[s]) : ShardOf[x] = s
                    /\ IsInjective(lru'[s])
  BY DEF LruCoversItems
<1>1. /\ lru[s] \in Seq(Keys) /\ lru \in [Shards -> Seq(Keys)]
      /\ PresentIn(s) \subseteq ToSet(lru[s])
      /\ \A x \in ToSet(lru[s]) : ShardOf[x] = s
      /\ IsInjective(lru[s])
  BY DEF TypeOK, LruCoversItems
<1>2. CASE s = ShardOf[k]
  <2>1. lru'[s] = Unlink(lru[s], k)
    BY <1>1, <1>2 DEF Dropped
  <2>2. ToSet(lru'[s]) = ToSet(lru[s]) \ {k} /\ IsInjective(lru'[s])
    BY <1>1, <2>1, UnlinkProps
  <2>3. PresentIn(s)' = PresentIn(s) \ {k}
    BY <1>0, <1>2
  <2> QED
    BY <1>1, <2>2, <2>3
<1>3. CASE s # ShardOf[k]
  <2>1. lru'[s] = lru[s] /\ PresentIn(s)' = PresentIn(s)
    BY <1>0, <1>1, <1>3 DEF Dropped
  <2> QED
    BY <1>1, <2>1
<1> QED
  BY <1>2, <1>3

\* No step of a thread changes the mode.
LEMMA ModeStep ==
  ASSUME NEW t \in Threads, Begin(t) \/ Continue(t)
  PROVE  mode' = mode
BY DEF Begin, Continue, SetShard, RemoveShard, AddMem, EvictBegin, ClearBegin,
       SetMem, SetLen, RemoveLen, RemoveMem, AddShardMem, EvictStop, EvictNextShard,
       EvictPop, EvictPick, EvictPickNone, EvictRemove, EvictMissed, EvictMem, EvictLen,
       ClearDone, ClearLock, ClearZero, ClearMem, ClearLen

\* A step of a thread keeps every entry in the list of its shard.
LEMMA LruStep ==
  ASSUME TypeOK, LocalsOK, LruCoversItems,
         NEW t \in Threads, Begin(t) \/ Continue(t)
  PROVE  LruCoversItems'
<1>0. mode' = mode
  BY ModeStep
<1>1. ASSUME UNCHANGED <<items, lru>>
      PROVE  LruCoversItems'
  BY <1>0, <1>1 DEF LruCoversItems, PresentIn, Present
<1>2. ASSUME NEW e \in Entries, SetShard(t, e)
      PROVE  LruCoversItems'
  <2>1. KeyOf[e] \in Keys /\ lru' = Used(KeyOf[e]) /\ items' = [items EXCEPT ![KeyOf[e]] = e]
    BY <1>2, MapConstants DEF SetShard
  <2>2. \A s : PresentIn(s)' = IF s = ShardOf[KeyOf[e]]
                               THEN PresentIn(s) \cup {KeyOf[e]} ELSE PresentIn(s)
    BY <2>1, AddedKey
  <2> QED
    BY <1>0, <2>1, <2>2, UsedCovers
<1>3. ASSUME NEW k \in Keys, RemoveUnlocked(t, k)
      PROVE  LruCoversItems'
  BY <1>0, <1>3, DroppedCovers DEF RemoveUnlocked
<1>4. CASE EvictPop(t)
  <2> DEFINE s == at[t]
  <2>1. s \in Shards /\ Listing /\ lru[s] \in Seq(Keys) /\ lru \in [Shards -> Seq(Keys)]
    BY <1>4 DEF EvictPop, LocalsOK, LocalOK, TypeOK
  <2>2. CASE lru[s] # <<>> /\ items[Last(lru[s])] # NoEntry
    <3>1. Last(lru[s]) \in Keys
      BY <2>1, <2>2, TailInShard
    <3>2. RemoveUnlocked(t, Last(lru[s]))
      BY <1>4, <2>2 DEF EvictPop
    <3> QED
      BY <1>3, <3>1, <3>2
  <2>3. CASE lru[s] = <<>>
    BY <1>1, <1>4, <2>3 DEF EvictPop
  <2>4. CASE lru[s] # <<>> /\ items[Last(lru[s])] = NoEntry
    <3>1. items' = items /\ lru' = [lru EXCEPT ![s] = Front(@)]
      BY <1>4, <2>4 DEF EvictPop
    <3> SUFFICES ASSUME NEW x \in Shards
                 PROVE  /\ PresentIn(x) \subseteq ToSet(lru'[x])
                        /\ \A k \in ToSet(lru'[x]) : ShardOf[k] = x
                        /\ IsInjective(lru'[x])
      BY <3>1 DEF LruCoversItems, PresentIn, Present
    <3>2. /\ PresentIn(x) \subseteq ToSet(lru[x])
          /\ \A k \in ToSet(lru[x]) : ShardOf[k] = x
          /\ IsInjective(lru[x])
      BY <2>1 DEF LruCoversItems
    <3>3. CASE x # s
      <4>1. lru'[x] = lru[x]
        BY <2>1, <3>1, <3>3
      <4> QED
        BY <3>2, <4>1
    <3>4. CASE x = s
      <4>1. lru'[x] = Front(lru[x])
        BY <2>1, <3>1, <3>4
      <4>2. /\ ToSet(lru[x]) \ {Last(lru[x])} \subseteq ToSet(lru'[x])
            /\ ToSet(lru'[x]) \subseteq ToSet(lru[x])
            /\ IsInjective(lru'[x])
        BY <2>1, <2>4, <3>2, <3>4, <4>1, FrontProps
      <4>3. Last(lru[x]) \notin PresentIn(x)
        BY <2>4, <3>4 DEF PresentIn, Present
      <4> QED
        BY <3>2, <4>2, <4>3
    <3> QED
      BY <3>3, <3>4
  <2> QED
    BY <2>2, <2>3, <2>4
<1>5. CASE ClearZero(t)
  <2>1. /\ items' = [k \in Keys |-> IF ShardOf[k] = at[t] THEN NoEntry ELSE items[k]]
        /\ lru' = [lru EXCEPT ![at[t]] = <<>>]
    BY <1>5 DEF ClearZero
  <2>2. \A s \in Shards : PresentIn(s)' = IF s = at[t] THEN {} ELSE PresentIn(s)
    BY <2>1 DEF PresentIn, Present
  <2>3. ToSet(<<>>) = {} /\ IsInjective(<<>>)
    BY DEF ToSet, IsInjective
  <2>4. ASSUME Listing, NEW s \in Shards
        PROVE  /\ PresentIn(s)' \subseteq ToSet(lru'[s])
               /\ \A k \in ToSet(lru'[s]) : ShardOf[k] = s
               /\ IsInjective(lru'[s])
    <3>1. /\ PresentIn(s) \subseteq ToSet(lru[s])
          /\ \A k \in ToSet(lru[s]) : ShardOf[k] = s
          /\ IsInjective(lru[s])
      BY <2>4 DEF LruCoversItems
    <3>2. lru'[s] = IF s = at[t] THEN <<>> ELSE lru[s]
      BY <2>1 DEF TypeOK
    <3>3. CASE s = at[t]
      BY <2>2, <2>3, <3>2, <3>3
    <3>4. CASE s # at[t]
      BY <2>2, <3>1, <3>2, <3>4
    <3> QED
      BY <3>3, <3>4
  <2> QED
    BY <1>0, <2>4 DEF LruCoversItems
<1>6. ASSUME NEW k \in Keys, RemoveShard(t, k)
      PROVE  LruCoversItems'
  BY <1>3, <1>6 DEF RemoveShard
<1>7. CASE EvictRemove(t)
  BY <1>3, <1>7 DEF EvictRemove, TypeOK
<1>8. ASSUME SetMem(t)
      PROVE  UNCHANGED <<items, lru>>
  BY <1>8 DEF SetMem, shardVars
<1>9. ASSUME SetLen(t)
      PROVE  UNCHANGED <<items, lru>>
  BY <1>9 DEF SetLen, shardVars
<1>10. ASSUME RemoveLen(t)
      PROVE  UNCHANGED <<items, lru>>
  BY <1>10 DEF RemoveLen, shardVars
<1>11. ASSUME RemoveMem(t)
      PROVE  UNCHANGED <<items, lru>>
  BY <1>11 DEF RemoveMem, shardVars
<1>12. ASSUME NEW k \in Keys, NEW d \in Deltas, AddMem(t, k, d)
      PROVE  UNCHANGED <<items, lru>>
  BY <1>12 DEF AddMem, shardVars
<1>13. ASSUME AddShardMem(t)
      PROVE  UNCHANGED <<items, lru>>
  BY <1>13 DEF AddShardMem, shardVars
<1>14. ASSUME NEW limit \in Limits, EvictBegin(t, limit)
      PROVE  UNCHANGED <<items, lru>>
  BY <1>14 DEF EvictBegin, shardVars
<1>15. ASSUME EvictStop(t)
      PROVE  UNCHANGED <<items, lru>>
  BY <1>15 DEF EvictStop, shardVars
<1>16. ASSUME NEW s \in Shards, EvictNextShard(t, s)
      PROVE  UNCHANGED <<items, lru>>
  BY <1>16 DEF EvictNextShard, shardVars
<1>17. ASSUME NEW k \in Keys, EvictPick(t, k)
      PROVE  UNCHANGED <<items, lru>>
  BY <1>17 DEF EvictPick, shardVars
<1>18. ASSUME EvictPickNone(t)
      PROVE  UNCHANGED <<items, lru>>
  BY <1>18 DEF EvictPickNone, shardVars
<1>19. ASSUME EvictMissed(t)
      PROVE  UNCHANGED <<items, lru>>
  BY <1>19 DEF EvictMissed, shardVars
<1>20. ASSUME EvictMem(t)
      PROVE  UNCHANGED <<items, lru>>
  BY <1>20 DEF EvictMem, shardVars
<1>21. ASSUME EvictLen(t)
      PROVE  UNCHANGED <<items, lru>>
  BY <1>21 DEF EvictLen, shardVars
<1>22. ASSUME ClearBegin(t)
      PROVE  UNCHANGED <<items, lru>>
  BY <1>22 DEF ClearBegin, shardVars
<1>23. ASSUME ClearDone(t)
      PROVE  UNCHANGED <<items, lru>>
  BY <1>23 DEF ClearDone, shardVars
<1>24. ASSUME ClearLock(t)
      PROVE  UNCHANGED <<items, lru>>
  BY <1>24 DEF ClearLock, shardVars
<1>25. ASSUME ClearMem(t)
      PROVE  UNCHANGED <<items, lru>>
  BY <1>25 DEF ClearMem, shardVars
<1>26. ASSUME ClearLen(t)
      PROVE  UNCHANGED <<items, lru>>
  BY <1>26 DEF ClearLen, shardVars
<1> QED
  BY <1>1, <1>2, <1>4, <1>5, <1>6, <1>7, <1>8, <1>9, <1>10, <1>11, <1>12, <1>13, <1>14, <1>15, <1>16, <1>17, <1>18, <1>19, <1>20, <1>21, <1>22, <1>23, <1>24, <1>25, <1>26 DEF Begin, Continue

-----------------------------------------------------------------------------
(* Theorems *)

\* The empty map satisfies the inductive invariant.
LEMMA InitInv == Init => IndInv
<1> SUFFICES ASSUME Init
             PROVE  IndInv
  OBVIOUS
<1>1. Present = {} /\ \A s : PresentIn(s) = {}
  BY DEF Init, Present, PresentIn
<1>2. TypeOK
  <2>1. "idle" \in Locations /\ 0 \in 0..NumShards /\ <<>> \in Seq(Keys)
    BY ShardRange DEF Locations
  <2>2. NoLoop \in [limit : Int, left : 0..Backoff, freed : Int]
    BY NoLoopType
  <2>3. payload \in [Entries -> Payloads]
    BY MapConstants DEF Init
  <2>4. /\ items \in [Keys -> Entries \cup {NoEntry}]
        /\ lru \in [Shards -> Seq(Keys)]
        /\ slen \in [Shards -> Int] /\ smem \in [Shards -> Int]
        /\ lock \in [Shards -> Threads \cup {NoThread}]
        /\ len \in Int /\ mem \in Int
    BY <2>1 DEF Init
  <2>5. /\ pc \in [Threads -> Locations]
        /\ at \in [Threads -> 0..NumShards]
        /\ victim \in [Threads -> Keys]
        /\ dmem \in [Threads -> Int] /\ dlen \in [Threads -> Int]
        /\ loop \in [Threads -> [limit : Int, left : 0..Backoff, freed : Int]]
    BY <2>1, <2>2, AnyKeyType DEF Init
  <2>6. closed \in BOOLEAN /\ mode \in Modes
    BY DEF Init
  <2>7. \A k \in Present : KeyOf[items[k]] = k
    BY <1>1
  <2> QED
    BY <2>3, <2>4, <2>5, <2>6, <2>7 DEF TypeOK
<1>3. LockHeldInClear
  BY MapConstants DEF Init, LockHeldInClear
<1>4. LocalsOK
  BY DEF Init, LocalsOK, LocalOK
<1>5. Cardinality({}) = 0
  BY FS_EmptySet
<1>6. ShardLenExact
  BY <1>1, <1>5 DEF Init, ShardLenExact
<1>7. LruCoversItems
  <2>1. ToSet(<<>>) = {} /\ IsInjective(<<>>)
    BY DEF ToSet, IsInjective
  <2>2. \A s \in Shards : lru[s] = <<>>
    BY DEF Init
  <2> QED
    BY <1>1, <2>1, <2>2 DEF LruCoversItems
<1>8. LenExact
  <2>1. \A c \in Slots : c[1] \in Threads /\ c[2] \in Nat /\ c[2] > 0
    BY KeysCard DEF Slots
  <2>2. \A t \in Threads : Pending(t) = 0
    BY DEF Init, Pending
  <2>3. Due = {} /\ Owed = {}
    BY <2>1, <2>2 DEF Due, Owed
  <2> QED
    BY <1>1, <1>5, <2>3 DEF Init, LenExact
<1> QED
  BY <1>2, <1>3, <1>4, <1>6, <1>7, <1>8 DEF IndInv

\* Steps that belong to no call in flight: a touch, a stored payload, close.
LEMMA IdleStep ==
  ASSUME IndInv, TypeOK', UNCHANGED <<items, slen, lock, len, mode, pc, at, dlen, loop>>,
         LruCoversItems'
  PROVE  IndInv'
<1>1. LockHeldInClear' /\ LocalsOK' /\ ShardLenExact' /\ LenExact'
  BY DEF IndInv, LockHeldInClear, LocalsOK, LocalOK, ShardLenExact, LenExact,
         PresentIn, Present, Due, Owed, Slots, Pending
<1> QED
  BY <1>1 DEF IndInv

\* Every step of the map preserves the inductive invariant.
LEMMA InvStep == IndInv /\ [Next]_mapVars => IndInv'
<1> SUFFICES ASSUME IndInv, [Next]_mapVars
             PROVE  IndInv'
  OBVIOUS
<1> USE DEF IndInv
<1>1. TypeOK'
  BY TypeStep
<1>2. ASSUME NEW t \in Threads, Begin(t) \/ Continue(t)
      PROVE  IndInv'
  <2>1. /\ \A u \in Threads \ {t} : Keeps(t, u)
        /\ LocalOK(t)'
        /\ LockHeldInClear'
    BY <1>2, OwnStep
  <2>2. LocalsOK'
    <3>1. ASSUME NEW u \in Threads \ {t}
          PROVE  LocalOK(u)'
      <4>1. LocalOK(u) /\ Keeps(t, u)
        BY <2>1 DEF LocalsOK
      <4> QED
        BY <1>2, <4>1, ModeStep DEF LocalOK, Keeps
    <3> QED
      BY <2>1, <3>1 DEF LocalsOK
  <2>3. ShardLenExact'
    BY <1>2, ShardLenStep
  <2>4. LruCoversItems'
    BY <1>2, LruStep
  <2>5. LenExact'
    BY <1>1, <1>2, <2>2, <2>3, LenStep
  <2> QED
    BY <1>1, <2>1, <2>2, <2>3, <2>4, <2>5
<1>3. ASSUME NEW k \in Keys, TouchLru(k)
      PROVE  IndInv'
  <2>1. LruCoversItems'
    <3>1. lru' = Used(k) /\ items' = items /\ mode' = mode
      BY <1>3 DEF TouchLru
    <3>2. \A s \in Shards : PresentIn(s)' = PresentIn(s)
      BY <3>1 DEF PresentIn, Present
    <3> QED
      BY <3>1, <3>2, UsedCovers
  <2>2. UNCHANGED <<items, slen, lock, len, mode, pc, at, dlen, loop>>
    BY <1>3 DEF TouchLru, globalVars, localVars
  <2> QED
    BY <1>1, <2>1, <2>2, IdleStep
<1>4. ASSUME UNCHANGED <<items, lru, slen, lock, len, mode, pc, at, dlen, loop>>
      PROVE  IndInv'
  <2>1. LruCoversItems'
    BY <1>4 DEF LruCoversItems, PresentIn, Present
  <2> QED
    BY <1>1, <1>4, <2>1, IdleStep
<1>5. ASSUME NEW e \in Mutable, NEW p \in Payloads, StorePayload(e, p)
      PROVE  IndInv'
  BY <1>4, <1>5 DEF StorePayload, shardVars, globalVars, localVars
<1>6. CASE Close
  BY <1>4, <1>6 DEF Close, shardVars, globalVars, localVars
<1>7. CASE UNCHANGED mapVars
  BY <1>4, <1>7 DEF mapVars, shardVars, globalVars, localVars
<1> QED
  BY <1>2, <1>3, <1>5, <1>6, <1>7 DEF Next

\* The inductive invariant holds in every behaviour of the map: types, the
\* lock of a shard with the thread inside Shard::clear, the debts of the
\* calls in flight, the counters and the LRU lists.
THEOREM MapInvariant == Spec => []IndInv
<1> QED
  BY InitInv, InvStep, PTL DEF Spec

\* The map's state stays well typed in every behaviour of map.rs, shard.rs and
\* eviction.rs, for any number of threads, keys, shards and entries.
THEOREM MapTypes == Spec => []TypeOK
<1>1. IndInv => TypeOK
  BY DEF IndInv
<1> QED
  BY <1>1, MapInvariant, PTL

\* Shard.len always is the number of entries in the shard's hash map.
THEOREM ShardLenAlwaysExact == Spec => []ShardLenExact
<1>1. IndInv => ShardLenExact
  BY DEF IndInv
<1> QED
  BY <1>1, MapInvariant, PTL

\* Map.len is exact up to the calls in flight, whatever interleaving of set,
\* remove, clear and eviction.
THEOREM LenAlwaysExact == Spec => []LenExact
<1>1. IndInv => LenExact
  BY DEF IndInv
<1> QED
  BY <1>1, MapInvariant, PTL

\* In listing mode no entry is ever out of the reach of the evictor.
THEOREM LruAlwaysCovers == Spec => []LruCoversItems
<1>1. IndInv => LruCoversItems
  BY DEF IndInv
<1> QED
  BY <1>1, MapInvariant, PTL

-----------------------------------------------------------------------------
(* Sums over finite sets.  Induction here is on a set of naturals instead   *)
(* of a predicate: its complement would have a least element.               *)

\* Induction over the naturals for a set instead of a predicate.
LEMMA SetInduction ==
  ASSUME NEW B, 0 \in B, \A n \in Nat : n \in B => n + 1 \in B
  PROVE  \A n \in Nat : n \in B
<1> DEFINE T == Nat \ B
           R == OpToRel(<, Nat)
<1>1. IsWellFoundedOn(R, Nat)
  BY NatLessThanWellFounded
<1> SUFFICES ASSUME T # {} PROVE FALSE
  <2> HIDE DEF R
  <2> QED
    OBVIOUS
<1>2. PICK t \in T : \A u \in T : ~(<<u, t>> \in R)
  <2>1. T \subseteq Nat
    <3> HIDE DEF R
    <3> QED
      OBVIOUS
  <2> HIDE DEF R, T
  <2> QED
    BY <1>1, <2>1, WFMin
<1>3. \A u \in T : ~(u < t)
  <2>1. \A u \in T : u \in Nat /\ t \in Nat
    <3> HIDE DEF R
    <3> QED
      OBVIOUS
  <2> QED
    BY <1>2, <2>1 DEF OpToRel
<1> HIDE DEF R
<1>4. t \in Nat /\ t # 0 /\ t \notin B
  OBVIOUS
<1>5. t - 1 \in Nat /\ t - 1 < t /\ (t - 1) + 1 = t
  BY <1>4
<1>6. t - 1 \in B
  BY <1>3, <1>5
<1> QED
  BY <1>4, <1>5, <1>6

Pick(s) == CHOOSE x \in s : TRUE

\* The function that SumFunctionOnSet iterates.
Iter(f, S) ==
  CHOOSE g : g = [s \in SUBSET S |-> IF s = {} THEN 0 ELSE f[Pick(s)] + g[s \ {Pick(s)}]]

\* The sum of a set is the value of that function there.
LEMMA SumIter ==
  ASSUME NEW f, NEW S
  PROVE  SumFunctionOnSet(f, S) = Iter(f, S)[S]
BY DEF SumFunctionOnSet, FoldFunctionOnSet, MapThenFoldSet, Iter, Pick

\* The fold picks an element.
LEMMA PickIn == ASSUME NEW s, s # {} PROVE Pick(s) \in s
BY DEF Pick

\* What is one element smaller.
LEMMA Smaller ==
  ASSUME NEW S, IsFiniteSet(S), NEW s \in SUBSET S, NEW x \in s, NEW n \in Nat, Cardinality(s) <= n + 1
  PROVE  s \ {x} \in SUBSET S /\ Cardinality(s \ {x}) <= n
<1>1. IsFiniteSet(s)
  BY FS_Subset
<1>2. Cardinality(s \ {x}) = Cardinality(s) - 1 /\ Cardinality(s) \in Nat
  BY <1>1, FS_RemoveElement, FS_CardinalityType
<1> QED
  BY <1>2

\* Finiteness and size of a part of a finite set.
LEMMA CardNat ==
  ASSUME NEW S, IsFiniteSet(S), NEW s \in SUBSET S
  PROVE  IsFiniteSet(s) /\ Cardinality(s) \in Nat /\ Cardinality(S) \in Nat
         /\ Cardinality(s) <= Cardinality(S) /\ (Cardinality(s) <= 0 => s = {})
<1>1. IsFiniteSet(s) /\ Cardinality(s) \in Nat /\ Cardinality(S) \in Nat /\ Cardinality(s) <= Cardinality(S)
  BY FS_Subset, FS_CardinalityType
<1>2. ASSUME Cardinality(s) <= 0 PROVE s = {}
  BY <1>1, <1>2, FS_EmptySet
<1> QED
  BY <1>1, <1>2

\* It exists: one that is right for sets of up to n elements makes one that is
\* right for sets of n + 1.
LEMMA IterExists ==
  ASSUME NEW S, IsFiniteSet(S), NEW f
  PROVE  Iter(f, S) = [s \in SUBSET S |-> IF s = {} THEN 0 ELSE f[Pick(s)] + Iter(f, S)[s \ {Pick(s)}]]
<1> DEFINE eq(g, s) == IF s = {} THEN 0 ELSE f[Pick(s)] + g[s \ {Pick(s)}]
           Right(g, n) == \A s \in SUBSET S : Cardinality(s) <= n => g[s] = eq(g, s)
           B == {n \in Nat : \E g : g = [s \in SUBSET S |-> g[s]] /\ Right(g, n)}
<1>1. 0 \in B
  <2> DEFINE g == [s \in SUBSET S |-> 0]
  <2>1. \A s \in SUBSET S : Cardinality(s) <= 0 => g[s] = eq(g, s)
    BY CardNat
  <2>2. g = [s \in SUBSET S |-> g[s]]
    OBVIOUS
  <2> HIDE DEF g
  <2>3. Right(g, 0)
    BY <2>1
  <2> QED
    BY <2>2, <2>3
<1>2. ASSUME NEW n \in Nat, n \in B PROVE n + 1 \in B
  <2>1. PICK g : g = [s \in SUBSET S |-> g[s]] /\ Right(g, n)
    BY <1>2
  <2> DEFINE h == [s \in SUBSET S |-> eq(g, s)]
  <2>2. ASSUME NEW s \in SUBSET S, Cardinality(s) <= n + 1 PROVE h[s] = eq(h, s)
    <3>1. CASE s = {}
      BY <3>1
    <3>2. CASE s # {}
      <4>1. Pick(s) \in s
        BY <3>2, PickIn
      <4>2. s \ {Pick(s)} \in SUBSET S /\ Cardinality(s \ {Pick(s)}) <= n
        BY <2>2, <4>1, Smaller
      <4>3. g[s \ {Pick(s)}] = eq(g, s \ {Pick(s)})
        BY <2>1, <4>2
      <4>4. h[s \ {Pick(s)}] = g[s \ {Pick(s)}]
        BY <4>2, <4>3
      <4> QED
        BY <3>2, <4>4
    <3> QED
      BY <3>1, <3>2
  <2>3. h = [s \in SUBSET S |-> h[s]]
    OBVIOUS
  <2> HIDE DEF h
  <2>4. Right(h, n + 1)
    BY <2>2
  <2>5. n + 1 \in Nat
    OBVIOUS
  <2> QED
    BY <2>3, <2>4, <2>5
<1>3. \A n \in Nat : n \in B
  <2> HIDE DEF B
  <2> QED
    BY <1>1, <1>2, SetInduction
<1>4. Cardinality(S) \in Nat
  BY FS_CardinalityType
<1>5. PICK g : g = [s \in SUBSET S |-> g[s]] /\ Right(g, Cardinality(S))
  BY <1>3, <1>4
<1>6. \A s \in SUBSET S : g[s] = eq(g, s)
  BY <1>5, CardNat
<1>7. g = [s \in SUBSET S |-> IF s = {} THEN 0 ELSE f[Pick(s)] + g[s \ {Pick(s)}]]
  <2>1. g = [s \in SUBSET S |-> eq(g, s)]
    BY <1>5, <1>6
  <2> QED
    BY <2>1
<1> QED
  BY <1>7 DEF Iter

\* One step of it.
LEMMA IterStep ==
  ASSUME NEW S, IsFiniteSet(S), NEW f, NEW s \in SUBSET S
  PROVE  Iter(f, S)[s] = IF s = {} THEN 0 ELSE f[Pick(s)] + Iter(f, S)[s \ {Pick(s)}]
<1> DEFINE g == Iter(f, S)
<1>1. g = [r \in SUBSET S |-> IF r = {} THEN 0 ELSE f[Pick(r)] + g[r \ {Pick(r)}]]
  BY IterExists
<1> HIDE DEF g
<1>2. g[s] = IF s = {} THEN 0 ELSE f[Pick(s)] + g[s \ {Pick(s)}]
  BY <1>1
<1> QED
  BY <1>2 DEF g

\* The sum of a set depends on the values at its elements alone.
LEMMA IterLocal ==
  ASSUME NEW S, IsFiniteSet(S), NEW U \in SUBSET S, NEW f, NEW g, \A x \in U : f[x] = g[x]
  PROVE  \A s \in SUBSET U : Iter(f, S)[s] = Iter(g, U)[s]
<1> DEFINE B == {n \in Nat : \A s \in SUBSET U : Cardinality(s) <= n => Iter(f, S)[s] = Iter(g, U)[s]}
<1>0. IsFiniteSet(U)
  BY CardNat
<1>1. 0 \in B
  <2>1. ASSUME NEW s \in SUBSET U, Cardinality(s) <= 0 PROVE Iter(f, S)[s] = Iter(g, U)[s]
    <3>1. s = {} /\ s \in SUBSET S
      BY <1>0, <2>1, CardNat
    <3> QED
      BY <1>0, <3>1, IterStep
  <2> QED
    BY <2>1
<1>2. ASSUME NEW n \in Nat, n \in B PROVE n + 1 \in B
  <2>1. ASSUME NEW s \in SUBSET U, Cardinality(s) <= n + 1 PROVE Iter(f, S)[s] = Iter(g, U)[s]
    <3>1. CASE s = {}
      <4>1. s \in SUBSET S
        OBVIOUS
      <4> QED
        BY <1>0, <3>1, <4>1, IterStep
    <3>2. CASE s # {}
      <4>1. Pick(s) \in s /\ s \in SUBSET S
        BY <3>2, PickIn
      <4>2. s \ {Pick(s)} \in SUBSET U /\ Cardinality(s \ {Pick(s)}) <= n
        BY <1>0, <2>1, <4>1, Smaller
      <4>3. Iter(f, S)[s \ {Pick(s)}] = Iter(g, U)[s \ {Pick(s)}]
        BY <1>2, <4>2
      <4>4. f[Pick(s)] = g[Pick(s)]
        BY <4>1
      <4>5. Iter(f, S)[s] = f[Pick(s)] + Iter(f, S)[s \ {Pick(s)}]
        BY <3>2, <4>1, IterStep
      <4>6. Iter(g, U)[s] = g[Pick(s)] + Iter(g, U)[s \ {Pick(s)}]
        BY <1>0, <3>2, IterStep
      <4> QED
        BY <4>3, <4>4, <4>5, <4>6
    <3> QED
      BY <3>1, <3>2
  <2> QED
    BY <2>1
<1>3. \A n \in Nat : n \in B
  <2> HIDE DEF B
  <2> QED
    BY <1>1, <1>2, SetInduction
<1> SUFFICES ASSUME NEW s \in SUBSET U PROVE Iter(f, S)[s] = Iter(g, U)[s]
  OBVIOUS
<1>4. Cardinality(s) \in Nat /\ Cardinality(s) <= Cardinality(s)
  BY <1>0, CardNat
<1> QED
  BY <1>3, <1>4

\* Sums agree when the values at the elements do.
LEMMA SumSame ==
  ASSUME NEW S, IsFiniteSet(S), NEW f, NEW g, \A x \in S : f[x] = g[x]
  PROVE  SumFunctionOnSet(f, S) = SumFunctionOnSet(g, S)
<1>1. S \in SUBSET S
  OBVIOUS
<1>2. Iter(f, S)[S] = Iter(g, S)[S]
  BY <1>1, IterLocal, ZenonT(60)
<1> QED
  BY <1>2, SumIter

\* An empty sum is zero.
LEMMA SumEmpty == ASSUME NEW f PROVE SumFunctionOnSet(f, {}) = 0
BY SumIter, IterStep, FS_EmptySet

\* One element less, the one that the fold picks.
LEMMA SumRec ==
  ASSUME NEW S, IsFiniteSet(S), S # {}, NEW f
  PROVE  SumFunctionOnSet(f, S) = f[Pick(S)] + SumFunctionOnSet(f, S \ {Pick(S)})
<1> DEFINE U == S \ {Pick(S)}
<1>1. U \in SUBSET S
  OBVIOUS
<1>2. Iter(f, S)[S] = f[Pick(S)] + Iter(f, S)[U]
  BY IterStep
<1>3. Iter(f, S)[U] = Iter(f, U)[U]
  <2> HIDE DEF U
  <2> QED
    BY <1>1, IterLocal
<1> QED
  BY <1>2, <1>3, SumIter

\* A sum of integers is an integer.
LEMMA SumInt ==
  ASSUME NEW S, IsFiniteSet(S), NEW f, \A x \in S : f[x] \in Int
  PROVE  SumFunctionOnSet(f, S) \in Int
<1> DEFINE B == {n \in Nat : \A s \in SUBSET S : Cardinality(s) <= n => SumFunctionOnSet(f, s) \in Int}
<1>1. 0 \in B
  <2>1. ASSUME NEW s \in SUBSET S, Cardinality(s) <= 0 PROVE SumFunctionOnSet(f, s) \in Int
    <3>1. s = {}
      BY <2>1, CardNat
    <3>2. SumFunctionOnSet(f, {}) \in Int
      BY SumEmpty
    <3> QED
      BY <3>1, <3>2
  <2> QED
    BY <2>1
<1>2. ASSUME NEW n \in Nat, n \in B PROVE n + 1 \in B
  <2>1. ASSUME NEW s \in SUBSET S, Cardinality(s) <= n + 1 PROVE SumFunctionOnSet(f, s) \in Int
    <3>1. CASE s = {}
      <4>1. SumFunctionOnSet(f, {}) \in Int
        BY SumEmpty
      <4> QED
        BY <3>1, <4>1
    <3>2. CASE s # {}
      <4>1. Pick(s) \in s /\ IsFiniteSet(s)
        BY <3>2, PickIn, CardNat
      <4>2. s \ {Pick(s)} \in SUBSET S /\ Cardinality(s \ {Pick(s)}) <= n
        BY <2>1, <4>1, Smaller
      <4>3. SumFunctionOnSet(f, s \ {Pick(s)}) \in Int /\ f[Pick(s)] \in Int
        BY <1>2, <4>1, <4>2
      <4>4. SumFunctionOnSet(f, s) = f[Pick(s)] + SumFunctionOnSet(f, s \ {Pick(s)})
        BY <3>2, <4>1, SumRec
      <4> QED
        BY <4>3, <4>4
    <3> QED
      BY <3>1, <3>2
  <2> QED
    BY <2>1
<1>3. \A n \in Nat : n \in B
  <2> HIDE DEF B
  <2> QED
    BY <1>1, <1>2, SetInduction
<1>4. Cardinality(S) \in Nat /\ S \in SUBSET S
  BY FS_CardinalityType
<1>5. Cardinality(S) <= Cardinality(S)
  BY <1>4
<1> QED
  BY <1>3, <1>4, <1>5

\* A sum of zeros is zero.
LEMMA SumZero ==
  ASSUME NEW S, IsFiniteSet(S), NEW f, \A x \in S : f[x] = 0
  PROVE  SumFunctionOnSet(f, S) = 0
<1> DEFINE B == {n \in Nat : \A s \in SUBSET S : Cardinality(s) <= n => SumFunctionOnSet(f, s) = 0}
<1>1. 0 \in B
  <2>1. ASSUME NEW s \in SUBSET S, Cardinality(s) <= 0 PROVE SumFunctionOnSet(f, s) = 0
    <3>1. s = {}
      BY <2>1, CardNat
    <3> QED
      BY <3>1, SumEmpty
  <2> QED
    BY <2>1
<1>2. ASSUME NEW n \in Nat, n \in B PROVE n + 1 \in B
  <2>1. ASSUME NEW s \in SUBSET S, Cardinality(s) <= n + 1 PROVE SumFunctionOnSet(f, s) = 0
    <3>1. CASE s = {}
      BY <3>1, SumEmpty
    <3>2. CASE s # {}
      <4>1. Pick(s) \in s /\ IsFiniteSet(s)
        BY <3>2, PickIn, CardNat
      <4>2. s \ {Pick(s)} \in SUBSET S /\ Cardinality(s \ {Pick(s)}) <= n
        BY <2>1, <4>1, Smaller
      <4>3. SumFunctionOnSet(f, s \ {Pick(s)}) = 0 /\ f[Pick(s)] = 0
        BY <1>2, <4>1, <4>2
      <4>4. SumFunctionOnSet(f, s) = f[Pick(s)] + SumFunctionOnSet(f, s \ {Pick(s)})
        BY <3>2, <4>1, SumRec
      <4> QED
        BY <4>3, <4>4
    <3> QED
      BY <3>1, <3>2
  <2> QED
    BY <2>1
<1>3. \A n \in Nat : n \in B
  <2> HIDE DEF B
  <2> QED
    BY <1>1, <1>2, SetInduction
<1>4. Cardinality(S) \in Nat /\ S \in SUBSET S
  BY FS_CardinalityType
<1>5. Cardinality(S) <= Cardinality(S)
  BY <1>4
<1> QED
  BY <1>3, <1>4, <1>5

\* One element less, whichever.
LEMMA SumTake ==
  ASSUME NEW S, IsFiniteSet(S), NEW f, \A x \in S : f[x] \in Int, NEW y \in S
  PROVE  SumFunctionOnSet(f, S) = f[y] + SumFunctionOnSet(f, S \ {y})
<1> DEFINE sum(s) == SumFunctionOnSet(f, s)
           B == {n \in Nat : \A s \in SUBSET S : Cardinality(s) <= n => \A x \in s : sum(s) = f[x] + sum(s \ {x})}
<1>1. 0 \in B
  <2>1. ASSUME NEW s \in SUBSET S, Cardinality(s) <= 0 PROVE s = {}
    BY <2>1, CardNat
  <2> QED
    BY <2>1
<1>2. ASSUME NEW n \in Nat, n \in B PROVE n + 1 \in B
  <2>1. ASSUME NEW s \in SUBSET S, Cardinality(s) <= n + 1, NEW x \in s PROVE sum(s) = f[x] + sum(s \ {x})
    <3> DEFINE p == Pick(s)
    <3>1. p \in s /\ IsFiniteSet(s) /\ s # {}
      BY PickIn, CardNat
    <3>2. sum(s) = f[p] + sum(s \ {p})
      BY <3>1, SumRec
    <3>3. CASE p = x
      BY <3>2, <3>3
    <3>4. CASE p # x
      <4>1. /\ s \ {p} \in SUBSET S /\ Cardinality(s \ {p}) <= n
            /\ s \ {x} \in SUBSET S /\ Cardinality(s \ {x}) <= n
        BY <2>1, <3>1, Smaller
      <4>2. sum(s \ {p}) = f[x] + sum((s \ {p}) \ {x})
        BY <1>2, <3>4, <4>1
      <4>3. sum(s \ {x}) = f[p] + sum((s \ {x}) \ {p})
        BY <1>2, <3>1, <3>4, <4>1
      <4>4. (s \ {p}) \ {x} = (s \ {x}) \ {p}
        OBVIOUS
      <4>5. sum((s \ {x}) \ {p}) \in Int
        <5>1. IsFiniteSet((s \ {x}) \ {p}) /\ \A z \in (s \ {x}) \ {p} : f[z] \in Int
          BY <3>1, FS_RemoveElement
        <5> QED
          BY <5>1, SumInt
      <4>6. f[x] \in Int /\ f[p] \in Int
        BY <3>1
      <4> HIDE DEF sum, p
      <4>7. sum(s) = f[p] + (f[x] + sum((s \ {x}) \ {p}))
        BY <3>2, <4>2, <4>4
      <4> QED
        BY <4>3, <4>5, <4>6, <4>7
    <3> QED
      BY <3>3, <3>4
  <2> HIDE DEF sum
  <2>2. n + 1 \in Nat
    OBVIOUS
  <2> QED
    BY <2>1, <2>2
<1>3. \A n \in Nat : n \in B
  <2> HIDE DEF B
  <2> QED
    BY <1>1, <1>2, SetInduction
<1>4. Cardinality(S) \in Nat /\ S \in SUBSET S
  BY FS_CardinalityType
<1>5. Cardinality(S) <= Cardinality(S)
  BY <1>4
<1> QED
  BY <1>3, <1>4, <1>5

\* A set's sum is the sum of a part and of the rest.
LEMMA SumSplit ==
  ASSUME NEW S, IsFiniteSet(S), NEW f, \A x \in S : f[x] \in Int, NEW T \in SUBSET S
  PROVE  SumFunctionOnSet(f, S) = SumFunctionOnSet(f, T) + SumFunctionOnSet(f, S \ T)
<1> DEFINE sum(s) == SumFunctionOnSet(f, s)
           B == {n \in Nat : \A s \in SUBSET T : Cardinality(s) <= n =>
                               sum(S) = sum(s) + sum(S \ s)}
<1>0. IsFiniteSet(T)
  BY CardNat
<1>a. ASSUME NEW s \in SUBSET S
      PROVE  sum(s) \in Int
  <2>1. IsFiniteSet(s) /\ \A x \in s : f[x] \in Int
    BY CardNat
  <2> QED
    BY <2>1, SumInt
<1>1. 0 \in B
  <2>1. ASSUME NEW s \in SUBSET T, Cardinality(s) <= 0
        PROVE  sum(S) = sum(s) + sum(S \ s)
    <3>1. s = {} /\ S \ s = S
      BY <1>0, <2>1, CardNat
    <3>2. sum({}) = 0
      BY SumEmpty
    <3>3. sum(S) \in Int
      BY <1>a
    <3> HIDE DEF sum
    <3> QED
      BY <3>1, <3>2, <3>3
  <2> HIDE DEF sum
  <2> QED
    BY <2>1
<1>2. ASSUME NEW n \in Nat, n \in B
      PROVE  n + 1 \in B
  <2>1. ASSUME NEW s \in SUBSET T, Cardinality(s) <= n + 1
        PROVE  sum(S) = sum(s) + sum(S \ s)
    <3>1. CASE s = {}
      <4>1. sum({}) = 0
        BY SumEmpty
      <4>2. sum(S) \in Int
        BY <1>a
      <4>3. S \ s = S
        BY <3>1
      <4> HIDE DEF sum
      <4> QED
        BY <3>1, <4>1, <4>2, <4>3
    <3>2. CASE s # {}
      <4> DEFINE p == Pick(s)
                 r == s \ {p}
      <4>1. p \in s /\ p \in S
        BY <3>2, PickIn
      <4>2. r \in SUBSET T /\ Cardinality(r) <= n
        BY <1>0, <2>1, <4>1, Smaller
      <4>3. sum(S) = sum(r) + sum(S \ r)
        BY <1>2, <4>2
      <4>4. sum(s) = f[p] + sum(r)
        <5>1. IsFiniteSet(s) /\ \A x \in s : f[x] \in Int
          BY <1>0, CardNat
        <5> QED
          BY <4>1, <5>1, SumTake
      <4>5. sum(S \ r) = f[p] + sum((S \ r) \ {p})
        <5>1. S \ r \in SUBSET S /\ p \in S \ r
          BY <4>1
        <5>2. IsFiniteSet(S \ r) /\ \A x \in S \ r : f[x] \in Int
          BY <5>1, CardNat
        <5> QED
          BY <5>1, <5>2, SumTake
      <4>6. (S \ r) \ {p} = S \ s
        BY <4>1
      <4>7. sum(r) \in Int /\ sum(S \ s) \in Int /\ f[p] \in Int
        <5>1. r \in SUBSET S /\ S \ s \in SUBSET S
          OBVIOUS
        <5> QED
          BY <5>1, <4>1, <1>a
      <4> HIDE DEF sum, p, r
      <4>8. sum(S) = sum(r) + (f[p] + sum(S \ s))
        BY <4>3, <4>5, <4>6
      <4> QED
        BY <4>4, <4>7, <4>8
    <3> QED
      BY <3>1, <3>2
  <2> HIDE DEF sum
  <2>2. n + 1 \in Nat
    OBVIOUS
  <2> QED
    BY <2>1, <2>2
<1>3. \A n \in Nat : n \in B
  <2> HIDE DEF B
  <2> QED
    BY <1>1, <1>2, SetInduction
<1>4. Cardinality(T) \in Nat /\ T \in SUBSET T
  BY <1>0, FS_CardinalityType
<1>5. Cardinality(T) <= Cardinality(T)
  BY <1>4
<1> QED
  BY <1>3, <1>4, <1>5

\* A change of one value changes the sum by as much.
LEMMA SumPoint ==
  ASSUME NEW S, IsFiniteSet(S), NEW y \in S, NEW f, NEW g,
         \A x \in S : f[x] \in Int /\ g[x] \in Int,
         \A x \in S \ {y} : g[x] = f[x]
  PROVE  /\ SumFunctionOnSet(f, S) \in Int
         /\ SumFunctionOnSet(g, S) = SumFunctionOnSet(f, S) + g[y] - f[y]
<1> DEFINE sf == SumFunctionOnSet(f, S \ {y})
           sg == SumFunctionOnSet(g, S \ {y})
<1>1. IsFiniteSet(S \ {y})
  BY FS_Subset
<1>2. sf = sg
  BY <1>1, SumSame
<1>3. sf \in Int
  BY <1>1, SumInt
<1>4. SumFunctionOnSet(f, S) = f[y] + sf
  BY SumTake
<1>5. SumFunctionOnSet(g, S) = g[y] + sg
  BY SumTake
<1>6. f[y] \in Int /\ g[y] \in Int
  OBVIOUS
<1> HIDE DEF sf, sg
<1> QED
  BY <1>2, <1>3, <1>4, <1>5, <1>6

-----------------------------------------------------------------------------
(* The byte counters *)

\* What the keys of S weigh under the hash maps it.
Bytes(it, S) == SumFunctionOnSet([k \in S |-> Weight[InitPayload[it[k]]]], S)

\* Sums of weights: they are integers, depend on the entries of the keys summed
\* only, and can be taken apart.
LEMMA BytesProps ==
  ASSUME NEW it, NEW S \in SUBSET Keys, \A k \in S : it[k] \in Entries
  PROVE  /\ Bytes(it, S) \in Int
         /\ \A k \in S : Bytes(it, S) = Weight[InitPayload[it[k]]] + Bytes(it, S \ {k})
         /\ \A T \in SUBSET S : /\ Bytes(it, T) \in Int
                                /\ Bytes(it, S) = Bytes(it, T) + Bytes(it, S \ T)
<1> DEFINE f == [k \in S |-> Weight[InitPayload[it[k]]]]
<1>1. IsFiniteSet(S)
  BY MapConstants, FS_Subset
<1>2. \A k \in S : f[k] = Weight[InitPayload[it[k]]] /\ f[k] \in Int
  BY MapConstants
<1>3. ASSUME NEW T \in SUBSET S
      PROVE  IsFiniteSet(T) /\ Bytes(it, T) = SumFunctionOnSet(f, T)
  <2>1. IsFiniteSet(T)
    BY <1>1, FS_Subset
  <2>2. \A k \in T : [x \in T |-> Weight[InitPayload[it[x]]]][k] = f[k]
    OBVIOUS
  <2> HIDE DEF f
  <2> QED
    BY <2>1, <2>2, SumSame DEF Bytes
<1> HIDE DEF f
<1>4. ASSUME NEW T \in SUBSET S
      PROVE  Bytes(it, T) \in Int
  <2>1. \A k \in T : f[k] \in Int
    BY <1>2
  <2> QED
    BY <1>3, <2>1, SumInt
<1>5. ASSUME NEW k \in S
      PROVE  Bytes(it, S) = Weight[InitPayload[it[k]]] + Bytes(it, S \ {k})
  <2>1. S \in SUBSET S /\ S \ {k} \in SUBSET S
    OBVIOUS
  <2>2. SumFunctionOnSet(f, S) = f[k] + SumFunctionOnSet(f, S \ {k})
    BY <1>1, <1>2, SumTake
  <2> QED
    BY <1>2, <1>3, <2>1, <2>2
<1>6. ASSUME NEW T \in SUBSET S
      PROVE  Bytes(it, S) = Bytes(it, T) + Bytes(it, S \ T)
  <2>1. S \in SUBSET S /\ S \ T \in SUBSET S
    OBVIOUS
  <2>2. SumFunctionOnSet(f, S) = SumFunctionOnSet(f, T) + SumFunctionOnSet(f, S \ T)
    BY <1>1, <1>2, SumSplit
  <2> QED
    BY <1>3, <2>1, <2>2
<1> QED
  BY <1>4, <1>5, <1>6

\* The weight of one key apart from the rest.
LEMMA BytesTake ==
  ASSUME NEW it, NEW S \in SUBSET Keys, \A k \in S : it[k] \in Entries, NEW k \in S
  PROVE  Bytes(it, S) = Weight[InitPayload[it[k]]] + Bytes(it, S \ {k})
<1>1. \A x \in S : Bytes(it, S) = Weight[InitPayload[it[x]]] + Bytes(it, S \ {x})
  BY BytesProps
<1> QED
  BY <1>1

\* Hash maps that agree on the keys summed weigh the same.
LEMMA BytesSame ==
  ASSUME NEW it, NEW jt, NEW S \in SUBSET Keys, \A k \in S : it[k] = jt[k]
  PROVE  Bytes(it, S) = Bytes(jt, S)
<1> DEFINE f == [k \in S |-> Weight[InitPayload[it[k]]]]
           g == [k \in S |-> Weight[InitPayload[jt[k]]]]
<1>1. f = g
  OBVIOUS
<1> QED
  BY <1>1 DEF Bytes

\* What every thread has still to tell Map.mem.
BytesDebt == [t \in Threads |-> PendingBytes(t)]

\* How a step of a thread may move the byte counters: what it adds to Map.mem
\* it no longer owes; or a set, a removal or a clear changes a shard and leaves
\* the thread with exactly that debt.
BytesKept(t) ==
  /\ UNCHANGED <<items, smem>>
  /\ mem' + PendingBytes(t)' = mem + PendingBytes(t)
BytesSet(t, e) ==
  /\ items' = [items EXCEPT ![KeyOf[e]] = e]
  /\ smem' = [smem EXCEPT ![ShardOf[KeyOf[e]]] = @ + BytesDelta(e)]
  /\ mem' = mem
  /\ PendingBytes(t) = 0 /\ PendingBytes(t)' = BytesDelta(e)
BytesTaken(t, k) ==
  /\ items[k] # NoEntry
  /\ items' = [items EXCEPT ![k] = NoEntry]
  /\ smem' = [smem EXCEPT ![ShardOf[k]] = @ - WeightOf(items[k])]
  /\ mem' = mem
  /\ PendingBytes(t) = 0 /\ PendingBytes(t)' = -WeightOf(items[k])
BytesCleared(t) ==
  /\ at[t] \in Shards
  /\ items' = [k \in Keys |-> IF ShardOf[k] = at[t] THEN NoEntry ELSE items[k]]
  /\ smem' = [smem EXCEPT ![at[t]] = 0]
  /\ mem' = mem
  /\ PendingBytes(t) = 0 /\ PendingBytes(t)' = -smem[at[t]]
BytesMove(t) ==
  \/ BytesKept(t)
  \/ \E e \in Entries : BytesSet(t, e)
  \/ \E k \in Keys : BytesTaken(t, k)
  \/ BytesCleared(t)

\* What a step of thread t leaves alone of thread u.
KeepsBytes(t, u) ==
  /\ pc'[u] = pc[u] /\ dmem'[u] = dmem[u] /\ at'[u] = at[u]
  /\ pc[u] = "clr_zero" => smem'[at[u]] = smem[at[u]]

\* A removal under a free lock does not touch a shard that is being cleared.
LEMMA RemoveBytes ==
  ASSUME TypeOK, LockHeldInClear, LocalsOK, NEW t \in Threads, BytesOK(t), NEW k \in Keys,
         pc[t] \in {"idle", "ev_pop", "ev_lock"},
         Free(ShardOf[k]), items[k] # NoEntry, RemoveUnlocked(t, k),
         mem' = mem, at' \in [Threads -> 0..NumShards],
         \A u \in Threads \ {t} : at'[u] = at[u],
         \E l \in {"rm_len", "ev_mem"} : pc' = [pc EXCEPT ![t] = l]
  PROVE  /\ BytesTaken(t, k)
         /\ BytesOK(t)'
         /\ \A u \in Threads \ {t} : KeepsBytes(t, u)
<1>0. /\ pc \in [Threads -> Locations] /\ dmem \in [Threads -> Int]
      /\ smem \in [Shards -> Int]
  BY DEF TypeOK
<1>1. PICK l \in {"rm_len", "ev_mem"} : pc' = [pc EXCEPT ![t] = l]
  OBVIOUS
<1>2. pc'[t] = l /\ \A u \in Threads \ {t} : pc'[u] = pc[u]
  BY <1>0, <1>1
<1>3. /\ items' = [items EXCEPT ![k] = NoEntry]
      /\ smem' = [smem EXCEPT ![ShardOf[k]] = @ - WeightOf(items[k])]
      /\ dmem' = [dmem EXCEPT ![t] = -WeightOf(items[k])]
  BY DEF RemoveUnlocked
<1>4. /\ dmem'[t] = -WeightOf(items[k])
      /\ \A u \in Threads \ {t} : dmem'[u] = dmem[u]
  BY <1>0, <1>3
<1>5. PendingBytes(t) = 0 /\ PendingBytes(t)' = -WeightOf(items[k])
  BY <1>2, <1>4 DEF PendingBytes, BytesOK
<1>6. BytesTaken(t, k)
  BY <1>3, <1>5 DEF BytesTaken
<1>7. BytesOK(t)'
  BY <1>1, <1>2 DEF BytesOK
<1>8. ASSUME NEW u \in Threads \ {t}, pc[u] = "clr_zero"
      PROVE  smem'[at[u]] = smem[at[u]]
  <2>1. at[u] \in Shards /\ lock[at[u]] = u
    BY <1>8 DEF LocalsOK, LocalOK, LockHeldInClear
  <2>2. at[u] # ShardOf[k]
    BY <2>1, MapConstants DEF Free
  <2> QED
    BY <1>0, <1>3, <2>1, <2>2
<1> QED
  BY <1>2, <1>4, <1>6, <1>7, <1>8 DEF KeepsBytes

\* Every step of a thread moves the byte counters in one of the four ways,
\* leaves its own debt in order and what the other threads rely on alone.
LEMMA BytesShape ==
  ASSUME TypeOK, LockHeldInClear, LocalsOK, LruCoversItems, WeightsFixed,
         \A u \in Threads : BytesOK(u), NEW t \in Threads, Begin(t) \/ Continue(t)
  PROVE  BytesMove(t) /\ BytesOK(t)' /\ \A u \in Threads \ {t} : KeepsBytes(t, u)
<1> DEFINE Goal == BytesMove(t) /\ BytesOK(t)' /\ \A u \in Threads \ {t} : KeepsBytes(t, u)
<1>0. /\ pc \in [Threads -> Locations] /\ at \in [Threads -> 0..NumShards]
      /\ dmem \in [Threads -> Int] /\ mem \in Int
      /\ smem \in [Shards -> Int] /\ items \in [Keys -> Entries \cup {NoEntry}]
      /\ BytesOK(t)
  BY DEF TypeOK
<1>1. ASSUME UNCHANGED <<items, smem, mem, dmem>>,
             pc[t] \notin {"set_mem", "rm_mem", "ev_mem", "clr_zero", "clr_mem"},
             pc'[t] \notin {"clr_zero", "clr_mem"},
             pc[t] = "rm_len" => pc'[t] = "rm_mem",
             \A u \in Threads \ {t} : pc'[u] = pc[u] /\ at'[u] = at[u]
      PROVE  Goal
  <2>1. BytesKept(t)
    BY <1>1 DEF BytesKept, PendingBytes
  <2>2. BytesOK(t)'
    BY <1>0, <1>1 DEF BytesOK
  <2>3. \A u \in Threads \ {t} : KeepsBytes(t, u)
    BY <1>1 DEF KeepsBytes
  <2> QED
    BY <2>1, <2>2, <2>3 DEF BytesMove
<1>2. ASSUME AddGlobalMem(t), UNCHANGED <<items, smem, at>>,
             pc[t] # "clr_zero",
             \E l \in {"set_len", "idle", "ev_len", "clr_len"} : pc' = [pc EXCEPT ![t] = l]
      PROVE  Goal
  <2>1. PICK l \in {"set_len", "idle", "ev_len", "clr_len"} : pc' = [pc EXCEPT ![t] = l]
    BY <1>2
  <2>2. pc'[t] = l /\ \A u \in Threads \ {t} : pc'[u] = pc[u]
    BY <1>0, <2>1
  <2>3. mem' = mem + dmem[t] /\ dmem'[t] = 0 /\ \A u \in Threads \ {t} : dmem'[u] = dmem[u]
    BY <1>0, <1>2 DEF AddGlobalMem
  <2>4. BytesKept(t)
    BY <1>0, <1>2, <2>2, <2>3 DEF BytesKept, PendingBytes
  <2>5. BytesOK(t)'
    BY <2>2, <2>3 DEF BytesOK
  <2>6. \A u \in Threads \ {t} : KeepsBytes(t, u)
    BY <1>2, <2>2, <2>3 DEF KeepsBytes
  <2> QED
    BY <2>4, <2>5, <2>6 DEF BytesMove
<1>3. ASSUME NEW k \in Keys, BytesTaken(t, k)
      PROVE  BytesMove(t)
  BY <1>3 DEF BytesMove
<1>4. ASSUME SetLen(t)
      PROVE  Goal
  BY <1>0, <1>1, <1>4 DEF SetLen, Goto, AddGlobalLen, shardVars, globalVars
<1>5. ASSUME RemoveLen(t)
      PROVE  Goal
  BY <1>0, <1>1, <1>5 DEF RemoveLen, Goto, AddGlobalLen, shardVars, globalVars
<1>6. ASSUME NEW limit \in Limits, EvictBegin(t, limit)
      PROVE  Goal
  BY <1>0, <1>1, <1>6 DEF EvictBegin, Goto, shardVars, globalVars
<1>7. ASSUME EvictStop(t)
      PROVE  Goal
  BY <1>0, <1>1, <1>7 DEF EvictStop, Goto, shardVars, globalVars
<1>8. ASSUME NEW s \in Shards, EvictNextShard(t, s)
      PROVE  Goal
  BY <1>0, <1>1, <1>8 DEF EvictNextShard, Goto, shardVars, globalVars
<1>9. ASSUME NEW k \in Keys, EvictPick(t, k)
      PROVE  Goal
  BY <1>0, <1>1, <1>9 DEF EvictPick, Goto, shardVars, globalVars
<1>10. ASSUME EvictPickNone(t)
      PROVE  Goal
  BY <1>0, <1>1, <1>10 DEF EvictPickNone, Goto, shardVars, globalVars
<1>11. ASSUME EvictMissed(t)
      PROVE  Goal
  BY <1>0, <1>1, <1>11 DEF EvictMissed, Goto, shardVars, globalVars
<1>12. ASSUME EvictLen(t)
      PROVE  Goal
  BY <1>0, <1>1, <1>12 DEF EvictLen, Goto, AddGlobalLen, shardVars, globalVars
<1>13. ASSUME ClearBegin(t)
      PROVE  Goal
  BY <1>0, <1>1, <1>13 DEF ClearBegin, Goto, shardVars, globalVars
<1>14. ASSUME ClearDone(t)
      PROVE  Goal
  BY <1>0, <1>1, <1>14 DEF ClearDone, Goto, shardVars, globalVars
<1>15. ASSUME ClearLen(t)
      PROVE  Goal
  BY <1>0, <1>1, <1>15 DEF ClearLen, Goto, AddGlobalLen, shardVars, globalVars
<1>16. ASSUME SetMem(t)
      PROVE  Goal
  BY <1>2, <1>16 DEF SetMem, Goto, shardVars
<1>17. ASSUME RemoveMem(t)
      PROVE  Goal
  BY <1>2, <1>17 DEF RemoveMem, Goto, shardVars
<1>18. ASSUME EvictMem(t)
      PROVE  Goal
  BY <1>2, <1>18 DEF EvictMem, Goto, shardVars
<1>19. ASSUME ClearMem(t)
      PROVE  Goal
  BY <1>2, <1>19 DEF ClearMem, Goto, shardVars
<1>20. ASSUME NEW k \in Keys, NEW d \in Deltas, AddMem(t, k, d)
      PROVE  Goal
  <2>1. d = 0
    BY DEF WeightsFixed
  <2>2. pc[t] = "idle" /\ dmem[t] = 0
    BY <1>0, <1>20 DEF AddMem, Goto, BytesOK
  <2>3. UNCHANGED <<items, smem, mem, dmem>>
    BY <1>0, <1>20, <2>1, <2>2 DEF AddMem, shardVars
  <2> QED
    BY <1>0, <1>1, <1>20, <2>2, <2>3 DEF AddMem, Goto
<1>21. ASSUME AddShardMem(t)
      PROVE  Goal
  <2>1. pc[t] = "add_shard" /\ dmem[t] = 0
    BY <1>0, <1>21 DEF AddShardMem, Goto, BytesOK
  <2>2. at[t] \in Shards
    BY <2>1 DEF LocalsOK, LocalOK
  <2>3. UNCHANGED <<items, smem, mem, dmem>>
    BY <1>0, <1>21, <2>1, <2>2 DEF AddShardMem, globalVars
  <2> QED
    BY <1>0, <1>1, <1>21, <2>1, <2>3 DEF AddShardMem, Goto
<1>22. ASSUME NEW e \in Entries, SetShard(t, e)
      PROVE  Goal
  <2> DEFINE k == KeyOf[e]
             b == BytesDelta(e)
  <2>1. /\ pc[t] = "idle" /\ pc' = [pc EXCEPT ![t] = "set_mem"]
        /\ items' = [items EXCEPT ![k] = e]
        /\ smem' = [smem EXCEPT ![ShardOf[k]] = @ + b]
        /\ dmem' = [dmem EXCEPT ![t] = b]
        /\ mem' = mem /\ at' = at /\ lock[ShardOf[k]] = NoThread
    BY <1>22 DEF SetShard, Goto, globalVars, Free
  <2> HIDE DEF b
  <2>2. /\ pc'[t] = "set_mem" /\ dmem'[t] = b
        /\ \A u \in Threads \ {t} : pc'[u] = pc[u] /\ dmem'[u] = dmem[u]
    BY <1>0, <2>1
  <2>3. PendingBytes(t) = 0 /\ PendingBytes(t)' = b
    BY <1>0, <2>1, <2>2 DEF PendingBytes, BytesOK
  <2>4. BytesSet(t, e)
    BY <2>1, <2>3 DEF BytesSet, b
  <2>5. BytesOK(t)'
    BY <2>2 DEF BytesOK
  <2>6. ASSUME NEW u \in Threads \ {t}, pc[u] = "clr_zero"
        PROVE  smem'[at[u]] = smem[at[u]]
    <3>1. at[u] \in Shards /\ lock[at[u]] = u
      BY <2>6 DEF LocalsOK, LocalOK, LockHeldInClear
    <3>2. at[u] # ShardOf[k]
      BY <2>1, <3>1, MapConstants
    <3> QED
      BY <1>0, <2>1, <3>1, <3>2
  <2>7. \A u \in Threads \ {t} : KeepsBytes(t, u)
    BY <2>1, <2>2, <2>6 DEF KeepsBytes
  <2> QED
    BY <2>4, <2>5, <2>7 DEF BytesMove
<1>23. ASSUME NEW k \in Keys, RemoveShard(t, k)
      PROVE  Goal
  <2>1. /\ pc[t] = "idle" /\ pc' = [pc EXCEPT ![t] = "rm_len"]
        /\ Free(ShardOf[k]) /\ items[k] # NoEntry /\ RemoveUnlocked(t, k)
        /\ mem' = mem /\ at' = at
    BY <1>23 DEF RemoveShard, Goto, globalVars
  <2> QED
    BY <1>0, <1>3, <2>1, RemoveBytes
<1>24. ASSUME EvictRemove(t)
      PROVE  Goal
  <2> DEFINE k == victim[t]
  <2>1. /\ pc[t] = "ev_lock" /\ pc' = [pc EXCEPT ![t] = "ev_mem"]
        /\ Free(ShardOf[k]) /\ items[k] # NoEntry /\ RemoveUnlocked(t, k)
        /\ mem' = mem /\ at' = at
    BY <1>24 DEF EvictRemove, Goto, globalVars
  <2>2. k \in Keys
    BY DEF TypeOK
  <2> HIDE DEF k
  <2> QED
    BY <1>0, <1>3, <2>1, <2>2, RemoveBytes
<1>25. ASSUME EvictPop(t)
      PROVE  Goal
  <2> DEFINE k == Last(lru[at[t]])
  <2>1. /\ pc[t] = "ev_pop" /\ Free(at[t])
        /\ at' = [at EXCEPT ![t] = 0] /\ mem' = mem
    BY <1>25 DEF EvictPop, globalVars
  <2>2. /\ \A u \in Threads \ {t} : at'[u] = at[u]
        /\ at' \in [Threads -> 0..NumShards]
    BY <1>0, <2>1, ShardRange
  <2>3. CASE lru[at[t]] # <<>> /\ items[k] # NoEntry
    <3>1. k \in Keys /\ ShardOf[k] = at[t]
      <4>1. at[t] \in Shards /\ Listing
        BY <2>1 DEF LocalsOK, LocalOK
      <4> QED
        BY <2>3, <4>1, TailInShard
    <3>2. RemoveUnlocked(t, k) /\ pc' = [pc EXCEPT ![t] = "ev_mem"]
      BY <1>25, <2>3 DEF EvictPop, Goto
    <3>3. items[k] # NoEntry
      BY <2>3
    <3> HIDE DEF k
    <3> QED
      BY <1>0, <1>3, <2>1, <2>2, <3>1, <3>2, <3>3, RemoveBytes
  <2>4. CASE ~(lru[at[t]] # <<>> /\ items[k] # NoEntry)
    <3>1. /\ pc' = [pc EXCEPT ![t] = "ev_check"]
          /\ UNCHANGED <<items, smem, dmem>>
      BY <1>25, <2>4 DEF EvictPop, Goto
    <3> QED
      BY <1>0, <1>1, <2>1, <2>2, <3>1
  <2> QED
    BY <2>3, <2>4
<1>26. ASSUME ClearLock(t)
      PROVE  Goal
  <2>1. /\ pc[t] = "clr_next" /\ pc' = [pc EXCEPT ![t] = "clr_zero"]
        /\ dmem' = [dmem EXCEPT ![t] = -smem[at[t]]]
        /\ UNCHANGED <<items, smem, mem, at>>
    BY <1>26 DEF ClearLock, Goto, globalVars
  <2>2. /\ pc'[t] = "clr_zero" /\ dmem'[t] = -smem[at[t]]
        /\ \A u \in Threads \ {t} : pc'[u] = pc[u] /\ dmem'[u] = dmem[u]
    BY <1>0, <2>1
  <2>3. PendingBytes(t) = 0 /\ PendingBytes(t)' = 0
    BY <1>0, <2>1, <2>2 DEF PendingBytes, BytesOK
  <2>4. BytesKept(t)
    BY <2>1, <2>3 DEF BytesKept
  <2>5. BytesOK(t)' /\ \A u \in Threads \ {t} : KeepsBytes(t, u)
    BY <2>1, <2>2 DEF BytesOK, KeepsBytes
  <2> QED
    BY <2>4, <2>5 DEF BytesMove
<1>27. ASSUME ClearZero(t)
      PROVE  Goal
  <2>1. /\ pc[t] = "clr_zero" /\ pc' = [pc EXCEPT ![t] = "clr_mem"]
        /\ items' = [k \in Keys |-> IF ShardOf[k] = at[t] THEN NoEntry ELSE items[k]]
        /\ smem' = [smem EXCEPT ![at[t]] = 0]
        /\ UNCHANGED <<mem, at, dmem>>
    BY <1>27 DEF ClearZero, Goto, globalVars
  <2>2. pc'[t] = "clr_mem" /\ \A u \in Threads \ {t} : pc'[u] = pc[u]
    BY <1>0, <2>1
  <2>3. PendingBytes(t) = 0 /\ PendingBytes(t)' = -smem[at[t]]
    BY <1>0, <2>1, <2>2 DEF PendingBytes, BytesOK
  <2>4. at[t] \in Shards /\ lock[at[t]] = t
    BY <2>1 DEF LocalsOK, LocalOK, LockHeldInClear
  <2>5. BytesCleared(t)
    BY <2>1, <2>3, <2>4 DEF BytesCleared
  <2>6. BytesOK(t)'
    BY <2>2 DEF BytesOK
  <2>7. ASSUME NEW u \in Threads \ {t}, pc[u] = "clr_zero"
        PROVE  smem'[at[u]] = smem[at[u]]
    <3>1. at[u] \in Shards /\ lock[at[u]] = u
      BY <2>7 DEF LocalsOK, LocalOK, LockHeldInClear
    <3> QED
      BY <1>0, <2>1, <2>4, <3>1
  <2>8. \A u \in Threads \ {t} : KeepsBytes(t, u)
    BY <2>1, <2>2, <2>7 DEF KeepsBytes
  <2> QED
    BY <2>5, <2>6, <2>8 DEF BytesMove
<1> QED
  BY <1>4, <1>5, <1>6, <1>7, <1>8, <1>9, <1>10, <1>11, <1>12, <1>13, <1>14, <1>15,
     <1>16, <1>17, <1>18, <1>19, <1>20, <1>21, <1>22, <1>23, <1>24, <1>25, <1>26, <1>27 DEF Begin, Continue

\* With weights that stay, a sum over keys of the map is the sum of what the
\* entries weighed when they were built ...
LEMMA BytesOfIs ==
  ASSUME TypeOK, WeightsStay, NEW S \in SUBSET Present
  PROVE  BytesOf(S) = Bytes(items, S)
<1> DEFINE f == [k \in S |-> WeightOf(items[k])]
           g == [k \in S |-> Weight[InitPayload[items[k]]]]
<1>1. \A k \in S : items[k] \in Entries
  BY DEF TypeOK, Present
<1>2. f = g
  BY <1>1 DEF WeightsStay
<1> QED
  BY <1>2 DEF BytesOf, Bytes

\* ... also in the next state.
LEMMA BytesOfNext ==
  ASSUME TypeOK', WeightsStay'
  PROVE  /\ BytesOf(Present)' = Bytes(items', Present')
         /\ \A s \in Shards : BytesOf(PresentIn(s))' = Bytes(items', PresentIn(s)')
<1> DEFINE f(S) == [k \in S |-> WeightOf(items[k])']
           g(S) == [k \in S |-> Weight[InitPayload[items'[k]]]]
<1>1. \A k \in Present' : items'[k] \in Entries
  BY DEF TypeOK, Present
<1>2. ASSUME NEW S \in SUBSET Present'
      PROVE  f(S) = g(S)
  BY <1>1, <1>2 DEF WeightsStay, WeightOf
<1>3. BytesOf(Present)' = SumFunctionOnSet(f(Present'), Present')
  BY DEF BytesOf, WeightOf
<1>4. \A s \in Shards : BytesOf(PresentIn(s))' = SumFunctionOnSet(f(PresentIn(s)'), PresentIn(s)')
  BY DEF BytesOf, WeightOf
<1>5. \A s \in Shards : PresentIn(s)' \in SUBSET Present'
  BY DEF PresentIn
<1>6. ASSUME NEW S \in SUBSET Present'
      PROVE  Bytes(items', S) = SumFunctionOnSet(f(S), S)
  BY <1>2, <1>6 DEF Bytes
<1> QED
  BY <1>3, <1>4, <1>5, <1>6

\* A set replaces what the key weighs, or adds it.
LEMMA SetBytes ==
  ASSUME TypeOK, NEW e \in Entries, items' = [items EXCEPT ![KeyOf[e]] = e],
         WeightsStay, NEW S \in SUBSET Present
  PROVE  /\ BytesDelta(e) \in Int
         /\ KeyOf[e] \notin S => Bytes(items', S) = Bytes(items, S)
         /\ (KeyOf[e] \in S <=> KeyOf[e] \in Present) =>
              Bytes(items', S \cup {KeyOf[e]}) = Bytes(items, S) + BytesDelta(e)
<1> DEFINE k == KeyOf[e]
           R == S \ {k}
<1>1. k \in Keys /\ items \in [Keys -> Entries \cup {NoEntry}] /\ e # NoEntry
  BY MapConstants DEF TypeOK
<1>2. S \in SUBSET Keys /\ \A x \in S : items[x] \in Entries
  BY <1>1 DEF Present
<1>3. items'[k] = e /\ \A x \in R : items'[x] = items[x]
  BY <1>1, <1>2
<1>4. Bytes(items', R) = Bytes(items, R)
  <2>1. R \in SUBSET Keys
    BY <1>2
  <2> HIDE DEF R
  <2> QED
    BY <1>3, <2>1, BytesSame
<1>5. Bytes(items, R) \in Int
  <2>1. R \in SUBSET Keys /\ \A x \in R : items[x] \in Entries
    BY <1>2
  <2> HIDE DEF R
  <2> QED
    BY <2>1, BytesProps
<1>6. Bytes(items', S \cup {k}) = Weight[InitPayload[e]] + Bytes(items', R)
  <2> DEFINE U == S \cup {k}
             it == items'
  <2>1. U \in SUBSET Keys /\ k \in U /\ \A x \in U : items'[x] \in Entries
    BY <1>1, <1>2, <1>3
  <2>2. U \ {k} = R
    OBVIOUS
  <2>3. U \in SUBSET Keys /\ k \in U /\ \A x \in U : it[x] \in Entries
    BY <2>1
  <2> HIDE DEF U, R, it, k
  <2>4. Bytes(it, U) = Weight[InitPayload[it[k]]] + Bytes(it, U \ {k})
    BY <2>3, BytesTake
  <2> QED
    BY <1>3, <2>2, <2>4 DEF U, it
<1>7. Weight[InitPayload[e]] \in Int /\ WeightOf(e) = Weight[InitPayload[e]]
  BY MapConstants DEF WeightsStay
<1>8. CASE items[k] # NoEntry
  <2>1. items[k] \in Entries /\ k \in Present
    BY <1>1, <1>8 DEF Present
  <2>2. /\ Weight[InitPayload[items[k]]] \in Int
        /\ WeightOf(items[k]) = Weight[InitPayload[items[k]]]
    BY <2>1, MapConstants DEF WeightsStay
  <2>3. BytesDelta(e) = Weight[InitPayload[e]] - Weight[InitPayload[items[k]]]
    BY <1>7, <1>8, <2>2 DEF BytesDelta
  <2>4. k \in S => Bytes(items, S) = Weight[InitPayload[items[k]]] + Bytes(items, R)
    <3> SUFFICES ASSUME k \in S
                 PROVE  Bytes(items, S) = Weight[InitPayload[items[k]]] + Bytes(items, R)
      OBVIOUS
    <3> HIDE DEF k
    <3> QED
      BY <1>2, BytesTake
  <2>5. k \notin S => R = S
    OBVIOUS
  <2> HIDE DEF R, k
  <2>6. KeyOf[e] = k
    BY DEF k
  <2> QED
    BY <1>4, <1>5, <1>6, <1>7, <2>1, <2>2, <2>3, <2>4, <2>5, <2>6
<1>9. CASE items[k] = NoEntry
  <2>1. k \notin Present /\ k \notin S /\ R = S
    BY <1>9 DEF Present
  <2>2. BytesDelta(e) = Weight[InitPayload[e]]
    BY <1>7, <1>9 DEF BytesDelta
  <2> HIDE DEF R, k
  <2>3. KeyOf[e] = k
    BY DEF k
  <2> QED
    BY <1>4, <1>5, <1>6, <1>7, <2>1, <2>2, <2>3
<1> QED
  BY <1>8, <1>9

\* A removal takes away what the key weighed.
LEMMA TakeBytes ==
  ASSUME TypeOK, NEW k \in Keys, items[k] # NoEntry, items' = [items EXCEPT ![k] = NoEntry],
         WeightsStay, NEW S \in SUBSET Present
  PROVE  /\ WeightOf(items[k]) \in Int
         /\ Bytes(items', S \ {k}) = Bytes(items, S \ {k})
         /\ k \in S => Bytes(items', S \ {k}) = Bytes(items, S) - WeightOf(items[k])
<1> DEFINE R == S \ {k}
<1>1. items \in [Keys -> Entries \cup {NoEntry}]
  BY DEF TypeOK
<1>2. S \in SUBSET Keys /\ \A x \in S : items[x] \in Entries
  BY <1>1 DEF Present
<1>3. /\ items[k] \in Entries
      /\ WeightOf(items[k]) = Weight[InitPayload[items[k]]]
      /\ WeightOf(items[k]) \in Int
  BY <1>1, MapConstants DEF WeightsStay
<1>4. R \in SUBSET Keys /\ \A x \in R : items[x] \in Entries /\ items'[x] = items[x]
  BY <1>1, <1>2
<1>5. k \in S => Bytes(items, S) = Weight[InitPayload[items[k]]] + Bytes(items, R)
  <2> SUFFICES ASSUME k \in S
               PROVE  Bytes(items, S) = Weight[InitPayload[items[k]]] + Bytes(items, R)
    OBVIOUS
  <2> QED
    BY <1>2, BytesTake
<1> HIDE DEF R
<1>6. Bytes(items', R) = Bytes(items, R)
  BY <1>4, BytesSame
<1>7. Bytes(items, R) \in Int
  BY <1>4, BytesProps
<1>8. k \in S => Bytes(items', R) = Bytes(items, S) - WeightOf(items[k])
  BY <1>3, <1>5, <1>6, <1>7
<1> QED
  BY <1>3, <1>6, <1>8 DEF R

\* The debts of the threads, before and after a step of one of them.
LEMMA DebtSum ==
  ASSUME TypeOK, TypeOK', NEW t \in Threads, \A u \in Threads \ {t} : KeepsBytes(t, u)
  PROVE  /\ SumFunctionOnSet(BytesDebt, Threads) \in Int
         /\ PendingBytes(t) \in Int /\ PendingBytes(t)' \in Int
         /\ SumFunctionOnSet(BytesDebt', Threads)
              = SumFunctionOnSet(BytesDebt, Threads) + PendingBytes(t)' - PendingBytes(t)
<1> DEFINE f == BytesDebt
           g == BytesDebt'
<1>1. \A u \in Threads : f[u] = PendingBytes(u) /\ g[u] = PendingBytes(u)'
  BY DEF BytesDebt
<1>2. \A u \in Threads : PendingBytes(u) \in Int /\ PendingBytes(u)' \in Int
  BY DEF PendingBytes, TypeOK
<1>3. \A u \in Threads \ {t} : PendingBytes(u)' = PendingBytes(u)
  BY DEF PendingBytes, KeepsBytes
<1>4. IsFiniteSet(Threads)
  BY MapConstants
<1> HIDE DEF f, g
<1>5. /\ SumFunctionOnSet(f, Threads) \in Int
      /\ SumFunctionOnSet(g, Threads) = SumFunctionOnSet(f, Threads) + g[t] - f[t]
  <2>1. /\ \A x \in Threads : f[x] \in Int /\ g[x] \in Int
        /\ \A x \in Threads \ {t} : g[x] = f[x]
    BY <1>1, <1>2, <1>3
  <2> QED
    BY <1>4, <2>1, SumPoint
<1> QED
  BY <1>1, <1>2, <1>5 DEF f, g

\* The keys of the map without those of one shard.
LEMMA ClearedKeys ==
  ASSUME TypeOK, NEW s \in Shards,
         items' = [k \in Keys |-> IF ShardOf[k] = s THEN NoEntry ELSE items[k]]
  PROVE  /\ Present' = Present \ PresentIn(s)
         /\ \A r \in Shards : PresentIn(r)' = IF r = s THEN {} ELSE PresentIn(r)
BY DEF Present, PresentIn

\* Whichever way a step moves the byte counters, they stay exact.
LEMMA MemStep ==
  ASSUME TypeOK, TypeOK', WeightsFixed, WeightsStay, WeightsStay', MemExact,
         NEW t \in Threads, BytesMove(t), \A u \in Threads \ {t} : KeepsBytes(t, u)
  PROVE  MemExact'
<1> DEFINE D == SumFunctionOnSet(BytesDebt, Threads)
           E == SumFunctionOnSet(BytesDebt', Threads)
           Goal == /\ \A s \in Shards : smem'[s] = Bytes(items', PresentIn(s)')
                   /\ mem' + E = Bytes(items', Present')
<1>0. smem \in [Shards -> Int] /\ mem \in Int /\ items \in [Keys -> Entries \cup {NoEntry}]
  BY DEF TypeOK
<1>1. /\ \A s \in Shards : smem[s] = Bytes(items, PresentIn(s))
      /\ mem + D = Bytes(items, Present)
  <2>1. /\ \A s \in Shards : smem[s] = BytesOf(PresentIn(s))
        /\ mem + D = BytesOf(Present)
    BY DEF MemExact, BytesDebt
  <2>2. \A s \in Shards : PresentIn(s) \in SUBSET Present
    BY DEF PresentIn
  <2>3. BytesOf(Present) = Bytes(items, Present)
    BY BytesOfIs
  <2>4. \A s \in Shards : BytesOf(PresentIn(s)) = Bytes(items, PresentIn(s))
    BY <2>2, BytesOfIs
  <2> HIDE DEF D
  <2> QED
    BY <2>1, <2>3, <2>4
<1>2. D \in Int /\ PendingBytes(t) \in Int /\ PendingBytes(t)' \in Int
      /\ E = D + PendingBytes(t)' - PendingBytes(t)
  BY DebtSum
<1>3. SUFFICES Goal
  <2>1. /\ BytesOf(Present)' = Bytes(items', Present')
        /\ \A s \in Shards : BytesOf(PresentIn(s))' = Bytes(items', PresentIn(s)')
    BY BytesOfNext
  <2>2. E = SumFunctionOnSet([u \in Threads |-> PendingBytes(u)], Threads)'
    BY DEF BytesDebt
  <2> HIDE DEF E
  <2> QED
    BY <2>1, <2>2 DEF MemExact
<1> HIDE DEF D, E
<1>4. CASE BytesKept(t)
  <2>1. /\ items' = items /\ smem' = smem
        /\ mem' + PendingBytes(t)' = mem + PendingBytes(t)
    BY <1>4 DEF BytesKept
  <2>2. Present' = Present /\ \A s \in Shards : PresentIn(s)' = PresentIn(s)
    BY <2>1 DEF Present, PresentIn
  <2>3. mem' \in Int
    BY DEF TypeOK
  <2>4. mem' + E = mem + D
    BY <1>0, <1>2, <2>1, <2>3
  <2> QED
    BY <1>1, <2>1, <2>2, <2>4
<1>5. ASSUME NEW e \in Entries, BytesSet(t, e)
      PROVE  Goal
  <2> DEFINE k == KeyOf[e]
             b == BytesDelta(e)
  <2>1. /\ items' = [items EXCEPT ![k] = e]
        /\ smem' = [smem EXCEPT ![ShardOf[k]] = @ + b]
        /\ mem' = mem /\ PendingBytes(t) = 0 /\ PendingBytes(t)' = b
    BY <1>5 DEF BytesSet
  <2>2. k \in Keys /\ ShardOf[k] \in Shards
    BY MapConstants
  <2>3. /\ Present' = Present \cup {k}
        /\ \A s : PresentIn(s)' = IF s = ShardOf[k]
                                  THEN PresentIn(s) \cup {k} ELSE PresentIn(s)
    BY <2>1, AddedKey
  <2>4. ASSUME NEW S \in SUBSET Present
        PROVE  /\ b \in Int
               /\ k \notin S => Bytes(items', S) = Bytes(items, S)
               /\ (k \in S <=> k \in Present) =>
                    Bytes(items', S \cup {k}) = Bytes(items, S) + b
    BY <2>1, SetBytes
  <2>5. b \in Int /\ Bytes(items', Present \cup {k}) = Bytes(items, Present) + b
    BY <2>4
  <2>6. ASSUME NEW s \in Shards
        PROVE  smem'[s] = Bytes(items', PresentIn(s)')
    <3>1. PresentIn(s) \in SUBSET Present
      BY DEF PresentIn
    <3>2. s = ShardOf[k] => (k \in PresentIn(s) <=> k \in Present)
      BY DEF PresentIn
    <3>3. s # ShardOf[k] => k \notin PresentIn(s)
      BY DEF PresentIn
    <3>4. smem[s] = Bytes(items, PresentIn(s))
      BY <1>1
    <3> HIDE DEF k, b
    <3>5. CASE s = ShardOf[k]
      <4>1. Bytes(items', PresentIn(s) \cup {k}) = Bytes(items, PresentIn(s)) + b
        BY <2>4, <3>1, <3>2, <3>5
      <4>2. smem'[s] = smem[s] + b
        BY <1>0, <2>1, <3>5
      <4> QED
        BY <2>3, <3>4, <3>5, <4>1, <4>2
    <3>6. CASE s # ShardOf[k]
      <4>1. Bytes(items', PresentIn(s)) = Bytes(items, PresentIn(s))
        BY <2>4, <3>1, <3>3, <3>6
      <4>2. smem'[s] = smem[s]
        BY <1>0, <2>1, <3>6
      <4> QED
        BY <2>3, <3>4, <3>6, <4>1, <4>2
    <3> QED
      BY <3>5, <3>6
  <2> HIDE DEF k, b
  <2>7. mem' + E = (mem + D) + b
    BY <1>0, <1>2, <2>1, <2>5
  <2> QED
    BY <1>1, <2>3, <2>5, <2>6, <2>7
<1>6. ASSUME NEW k \in Keys, BytesTaken(t, k)
      PROVE  Goal
  <2> DEFINE b == WeightOf(items[k])
  <2>1. /\ items[k] # NoEntry /\ items' = [items EXCEPT ![k] = NoEntry]
        /\ smem' = [smem EXCEPT ![ShardOf[k]] = @ - b]
        /\ mem' = mem /\ PendingBytes(t) = 0 /\ PendingBytes(t)' = -b
    BY <1>6 DEF BytesTaken
  <2>2. ShardOf[k] \in Shards /\ k \in Present
    BY <2>1, MapConstants DEF Present
  <2>3. /\ Present' = Present \ {k}
        /\ \A s : PresentIn(s)' = IF s = ShardOf[k]
                                  THEN PresentIn(s) \ {k} ELSE PresentIn(s)
    BY <2>1, TakenKey
  <2>4. ASSUME NEW S \in SUBSET Present
        PROVE  /\ b \in Int
               /\ Bytes(items', S \ {k}) = Bytes(items, S \ {k})
               /\ k \in S => Bytes(items', S \ {k}) = Bytes(items, S) - b
    BY <2>1, TakeBytes
  <2>5. b \in Int /\ Bytes(items', Present \ {k}) = Bytes(items, Present) - b
    BY <2>2, <2>4
  <2>6. ASSUME NEW s \in Shards
        PROVE  smem'[s] = Bytes(items', PresentIn(s)')
    <3>1. PresentIn(s) \in SUBSET Present
      BY DEF PresentIn
    <3>2. s = ShardOf[k] => k \in PresentIn(s)
      BY <2>2 DEF PresentIn
    <3>3. s # ShardOf[k] => PresentIn(s) \ {k} = PresentIn(s)
      BY DEF PresentIn
    <3>4. smem[s] = Bytes(items, PresentIn(s))
      BY <1>1
    <3> HIDE DEF b
    <3>5. CASE s = ShardOf[k]
      <4>1. Bytes(items', PresentIn(s) \ {k}) = Bytes(items, PresentIn(s)) - b
        BY <2>4, <3>1, <3>2, <3>5
      <4>2. smem'[s] = smem[s] - b
        BY <1>0, <2>1, <3>5
      <4> QED
        BY <2>3, <3>4, <3>5, <4>1, <4>2
    <3>6. CASE s # ShardOf[k]
      <4>1. Bytes(items', PresentIn(s)) = Bytes(items, PresentIn(s))
        BY <2>4, <3>1, <3>3, <3>6
      <4>2. smem'[s] = smem[s]
        BY <1>0, <2>1, <3>6
      <4> QED
        BY <2>3, <3>4, <3>6, <4>1, <4>2
    <3> QED
      BY <3>5, <3>6
  <2> HIDE DEF b
  <2>7. mem' + E = (mem + D) - b
    BY <1>0, <1>2, <2>1, <2>5
  <2> QED
    BY <1>1, <2>3, <2>5, <2>6, <2>7
<1>7. CASE BytesCleared(t)
  <2> DEFINE s == at[t]
             P == PresentIn(s)
             Q == Present \ P
  <2>1. /\ s \in Shards
        /\ items' = [k \in Keys |-> IF ShardOf[k] = s THEN NoEntry ELSE items[k]]
        /\ smem' = [smem EXCEPT ![s] = 0]
        /\ mem' = mem /\ PendingBytes(t) = 0 /\ PendingBytes(t)' = -smem[s]
    BY <1>7 DEF BytesCleared
  <2>2. /\ Present' = Q
        /\ \A r \in Shards : PresentIn(r)' = IF r = s THEN {} ELSE PresentIn(r)
    BY <2>1, ClearedKeys
  <2>3. /\ Present \in SUBSET Keys /\ P \in SUBSET Present /\ Q \in SUBSET Keys
        /\ \A k \in Present : items[k] \in Entries
    BY <1>0 DEF Present, PresentIn
  <2>4. \A k \in Q : items'[k] = items[k]
    BY <1>0, <2>1 DEF Present, PresentIn
  <2>5. ASSUME NEW r \in Shards, r # s
        PROVE  PresentIn(r) \in SUBSET Keys /\ \A k \in PresentIn(r) : items'[k] = items[k]
    BY <1>0, <2>1, <2>5 DEF Present, PresentIn
  <2> HIDE DEF s, P, Q
  <2>6. /\ Bytes(items, P) \in Int /\ Bytes(items, Present) \in Int
        /\ Bytes(items, Present) = Bytes(items, P) + Bytes(items, Present \ P)
    BY <2>3, BytesProps
  <2>7. Bytes(items', Q) = Bytes(items, Q)
    BY <2>3, <2>4, BytesSame
  <2>8. Bytes(items, Q) \in Int
    <3>1. \A k \in Q : items[k] \in Entries
      BY <2>3 DEF Q
    <3> QED
      BY <2>3, <3>1, BytesProps
  <2>9. Bytes(items', {}) = 0
    BY SumEmpty DEF Bytes
  <2>10. ASSUME NEW r \in Shards
         PROVE  smem'[r] = Bytes(items', PresentIn(r)')
    <3>1. CASE r = s
      BY <1>0, <2>1, <2>2, <2>9, <3>1
    <3>2. CASE r # s
      <4>1. Bytes(items', PresentIn(r)) = Bytes(items, PresentIn(r))
        BY <2>5, <3>2, BytesSame
      <4>2. smem'[r] = smem[r] /\ PresentIn(r)' = PresentIn(r)
        BY <1>0, <2>1, <2>2, <3>2
      <4> QED
        BY <1>1, <4>1, <4>2
    <3> QED
      BY <3>1, <3>2
  <2>11. smem[s] = Bytes(items, P)
    BY <1>1, <2>1 DEF P
  <2>12. Bytes(items, Present) = smem[s] + Bytes(items, Q)
    BY <2>6, <2>11 DEF Q
  <2>13. smem[s] \in Int
    BY <1>0, <2>1
  <2>14. mem' + E = Bytes(items, Q)
    BY <1>0, <1>1, <1>2, <2>1, <2>8, <2>12, <2>13
  <2> QED
    BY <2>2, <2>7, <2>10, <2>14
<1> QED
  BY <1>4, <1>5, <1>6, <1>7 DEF BytesMove

\* The empty map owes nothing and weighs nothing.
LEMMA InitMem == Init => MemInv
<1> SUFFICES ASSUME Init
             PROVE  MemInv
  OBVIOUS
<1>1. Present = {} /\ \A s : PresentIn(s) = {}
  BY DEF Init, Present, PresentIn
<1>2. BytesOf({}) = 0
  BY SumEmpty DEF BytesOf
<1>3. \A t \in Threads : PendingBytes(t) = 0 /\ BytesOK(t)
  BY DEF Init, PendingBytes, BytesOK
<1>4. SumFunctionOnSet([t \in Threads |-> PendingBytes(t)], Threads) = 0
  <2> DEFINE f == [t \in Threads |-> PendingBytes(t)]
             B == {n \in Nat : \A s \in SUBSET Threads :
                                 Cardinality(s) <= n => SumFunctionOnSet(f, s) = 0}
  <2>0. IsFiniteSet(Threads) /\ \A t \in Threads : f[t] = 0
    BY <1>3, MapConstants
  <2> HIDE DEF f
  <2>1. 0 \in B
    <3>1. ASSUME NEW s \in SUBSET Threads, Cardinality(s) <= 0
          PROVE  SumFunctionOnSet(f, s) = 0
      <4>1. s = {}
        BY <2>0, <3>1, CardNat
      <4>2. SumFunctionOnSet(f, {}) = 0
        BY SumEmpty
      <4> QED
        BY <4>1, <4>2
    <3> QED
      BY <3>1
  <2>2. ASSUME NEW n \in Nat, n \in B
        PROVE  n + 1 \in B
    <3>1. ASSUME NEW s \in SUBSET Threads, Cardinality(s) <= n + 1
          PROVE  SumFunctionOnSet(f, s) = 0
      <4>1. CASE s = {}
        <5>1. SumFunctionOnSet(f, {}) = 0
          BY SumEmpty
        <5> QED
          BY <4>1, <5>1
      <4>2. CASE s # {}
        <5>1. Pick(s) \in s /\ IsFiniteSet(s)
          BY <2>0, <4>2, PickIn, CardNat
        <5>2. s \ {Pick(s)} \in SUBSET Threads /\ Cardinality(s \ {Pick(s)}) <= n
          BY <2>0, <3>1, <5>1, Smaller
        <5>3. SumFunctionOnSet(f, s \ {Pick(s)}) = 0 /\ f[Pick(s)] = 0
          BY <2>0, <2>2, <5>1, <5>2
        <5>4. SumFunctionOnSet(f, s) = f[Pick(s)] + SumFunctionOnSet(f, s \ {Pick(s)})
          BY <4>2, <5>1, SumRec
        <5> QED
          BY <5>3, <5>4
      <4> QED
        BY <4>1, <4>2
    <3>2. n + 1 \in Nat
      OBVIOUS
    <3> QED
      BY <3>1, <3>2
  <2>3. \A n \in Nat : n \in B
    <3> HIDE DEF B
    <3> QED
      BY <2>1, <2>2, SetInduction
  <2>4. Cardinality(Threads) \in Nat /\ Threads \in SUBSET Threads
    BY <2>0, FS_CardinalityType
  <2>5. Cardinality(Threads) <= Cardinality(Threads)
    BY <2>4
  <2>6. SumFunctionOnSet(f, Threads) = 0
    BY <2>3, <2>4, <2>5
  <2> QED
    BY <2>6 DEF f
<1>5. smem = [s \in Shards |-> 0] /\ mem = 0
  BY DEF Init
<1>6. MemExact
  BY <1>1, <1>2, <1>4, <1>5 DEF MemExact
<1>7. WeightsStay
  BY DEF Init, WeightsStay, WeightOf
<1> QED
  BY <1>3, <1>6, <1>7 DEF MemInv

\* A step that changes no byte counter, no debt and no weight.
LEMMA MemQuiet ==
  ASSUME MemInv, TypeOK, TypeOK', UNCHANGED <<items, smem, mem, pc, at, dmem>>,
         WeightsFixed => WeightsStay'
  PROVE  MemInv'
<1> SUFFICES ASSUME WeightsFixed
             PROVE  MemExact' /\ \A t \in Threads : BytesOK(t)'
  BY DEF MemInv, MemExact, WeightsFixed
<1>1. WeightsStay /\ WeightsStay' /\ MemExact /\ \A t \in Threads : BytesOK(t)
  BY DEF MemInv
<1>2. \A t \in Threads : BytesOK(t)'
  BY <1>1 DEF BytesOK
<1>3. Present' = Present /\ \A s \in Shards : PresentIn(s)' = PresentIn(s)
  BY DEF Present, PresentIn
<1>4. /\ BytesOf(Present)' = Bytes(items, Present)
      /\ \A s \in Shards : BytesOf(PresentIn(s))' = Bytes(items, PresentIn(s))
  <2>1. /\ BytesOf(Present)' = Bytes(items', Present')
        /\ \A s \in Shards : BytesOf(PresentIn(s))' = Bytes(items', PresentIn(s)')
    BY <1>1, BytesOfNext
  <2> QED
    BY <1>3, <2>1
<1>5. /\ BytesOf(Present) = Bytes(items, Present)
      /\ \A s \in Shards : BytesOf(PresentIn(s)) = Bytes(items, PresentIn(s))
  <2>1. \A s \in Shards : PresentIn(s) \in SUBSET Present
    BY DEF PresentIn
  <2>2. BytesOf(Present) = Bytes(items, Present)
    BY <1>1, BytesOfIs
  <2> QED
    BY <1>1, <2>1, <2>2, BytesOfIs
<1>6. BytesDebt' = BytesDebt
  BY DEF BytesDebt, PendingBytes
<1>7. /\ \A s \in Shards : smem[s] = BytesOf(PresentIn(s))
      /\ mem + SumFunctionOnSet(BytesDebt, Threads) = BytesOf(Present)
  BY <1>1 DEF MemExact, BytesDebt
<1>8. mem' + SumFunctionOnSet(BytesDebt', Threads) = BytesOf(Present)'
  BY <1>4, <1>5, <1>6, <1>7
<1>9. \A s \in Shards : smem'[s] = BytesOf(PresentIn(s))'
  BY <1>4, <1>5, <1>7
<1>10. MemExact'
  BY <1>8, <1>9 DEF MemExact, BytesDebt
<1> QED
  BY <1>2, <1>10

\* Every step of the map keeps the byte counters exact.
LEMMA MemInvStep == IndInv /\ IndInv' /\ MemInv /\ [Next]_mapVars => MemInv'
<1> SUFFICES ASSUME IndInv, IndInv', MemInv, [Next]_mapVars
             PROVE  MemInv'
  OBVIOUS
<1>0. /\ TypeOK /\ TypeOK' /\ LockHeldInClear /\ LocalsOK /\ LruCoversItems
  BY DEF IndInv
<1>1. ASSUME NEW t \in Threads, Begin(t) \/ Continue(t)
      PROVE  MemInv'
  <2> SUFFICES ASSUME WeightsFixed
               PROVE  MemExact' /\ WeightsStay' /\ \A u \in Threads : BytesOK(u)'
    BY DEF MemInv, MemExact, WeightsFixed
  <2>1. MemExact /\ WeightsStay /\ \A u \in Threads : BytesOK(u)
    BY DEF MemInv
  <2>2. BytesMove(t) /\ BytesOK(t)' /\ \A u \in Threads \ {t} : KeepsBytes(t, u)
    BY <1>0, <1>1, <2>1, BytesShape
  <2>3. payload' = payload
    BY <1>1 DEF Begin, Continue, SetShard, SetMem, SetLen, RemoveShard, RemoveLen,
       RemoveMem, AddMem, AddShardMem, EvictBegin, EvictStop, EvictNextShard, EvictPop,
       EvictPick, EvictPickNone, EvictRemove, EvictMissed, EvictMem, EvictLen,
       ClearBegin, ClearDone, ClearLock, ClearZero, ClearMem, ClearLen
  <2>4. WeightsStay'
    BY <2>1, <2>3 DEF WeightsStay, WeightOf
  <2>5. \A u \in Threads \ {t} : BytesOK(u)'
    BY <2>1, <2>2 DEF BytesOK, KeepsBytes
  <2>6. MemExact'
    BY <1>0, <2>1, <2>2, <2>4, MemStep
  <2> QED
    BY <2>2, <2>4, <2>5, <2>6
<1>2. ASSUME UNCHANGED <<items, smem, mem, pc, at, dmem, payload>>
      PROVE  MemInv'
  <2>1. WeightsFixed => WeightsStay'
    BY <1>2 DEF MemInv, WeightsStay, WeightOf
  <2> QED
    BY <1>0, <1>2, <2>1, MemQuiet
<1>3. ASSUME NEW k \in Keys, TouchLru(k)
      PROVE  MemInv'
  BY <1>2, <1>3 DEF TouchLru, globalVars, localVars
<1>4. ASSUME NEW e \in Mutable, NEW p \in Payloads, StorePayload(e, p)
      PROVE  MemInv'
  <2>1. /\ UNCHANGED <<items, smem, mem, pc, at, dmem>>
        /\ payload' = [payload EXCEPT ![e] = p]
    BY <1>4 DEF StorePayload, shardVars, globalVars, localVars
  <2>2. WeightsFixed => WeightsStay'
    <3> SUFFICES ASSUME WeightsFixed, NEW x \in Entries
                 PROVE  Weight[payload'[x]] = Weight[InitPayload[x]]
      BY DEF WeightsStay, WeightOf
    <3>1. Weight[payload[x]] = Weight[InitPayload[x]]
      BY DEF MemInv, WeightsStay, WeightOf
    <3>2. payload \in [Entries -> Payloads]
      BY <1>0 DEF TypeOK
    <3>3. CASE x = e
      BY <2>1, <3>2, <3>3 DEF WeightsFixed
    <3>4. CASE x # e
      BY <2>1, <3>1, <3>2, <3>4
    <3> QED
      BY <3>3, <3>4
  <2> QED
    BY <1>0, <2>1, <2>2, MemQuiet
<1>5. CASE Close
  BY <1>2, <1>5 DEF Close, shardVars, globalVars, localVars
<1>6. CASE UNCHANGED mapVars
  BY <1>2, <1>6 DEF mapVars, shardVars, globalVars, localVars
<1> QED
  BY <1>1, <1>3, <1>4, <1>5, <1>6 DEF Next

\* Shard.mem and Map.mem are exact up to the calls in flight, for every set of
\* weights, as long as no payload is replaced by one of another weight.
THEOREM MemAlwaysExact == Spec => []MemExact
<1>1. MemInv => MemExact
  BY DEF MemInv
<1> QED
  BY <1>1, InitMem, MemInvStep, MapInvariant, PTL DEF Spec

(***************************************************************************)
(* Part 2: the storage                                                     *)
(***************************************************************************)

HIDE DEF Listing


\* What the storage adds to the map's state that is not an op.
RestOK ==
  /\ stale \in [Entries -> BOOLEAN]
  /\ queued \in [Entries -> BOOLEAN]
  /\ rq \in [Shards -> Seq(Keys)]
  /\ \A s \in Shards : Len(rq[s]) <= QueueCap
  /\ used \subseteq Entries
  /\ calls \in 0..MaxCalls

\* The call of t becomes the record r, the others stay.
Becomes(t, r) == op' = [op EXCEPT ![t] = r]

\* The calls of the other threads keep their locals.
LEMMA OpsKeep ==
  ASSUME StorageTypeOK, NEW t \in Threads, NEW r, Becomes(t, r)
  PROVE  /\ DOMAIN op' = Threads
         /\ op'[t] = r
         /\ \A u \in Threads \ {t} : OpOK(u)'
<1>1. DOMAIN op' = Threads /\ op'[t] = r /\ \A u \in Threads \ {t} : op'[u] = op[u]
  BY DEF Becomes, StorageTypeOK
<1>2. \A u \in Threads \ {t} : OpOK(u)
  BY DEF StorageTypeOK
<1> QED
  BY <1>1, <1>2 DEF OpOK

\* Going on at another stage changes the stage only.
LEMMA ThenRecord ==
  ASSUME StorageTypeOK, NEW t \in Threads, NEW st \in Stages, Then(t, st)
  PROVE  /\ Becomes(t, [op[t] EXCEPT !.stage = st])
         /\ op'[t] = [op[t] EXCEPT !.stage = st]
         /\ op'[t] \in OpRecords
         /\ op'[t].stage = st /\ op'[t].cur = op[t].cur /\ op'[t].new = op[t].new
         /\ op'[t].bytes = op[t].bytes
<1>1. op[t] \in OpRecords /\ DOMAIN op = Threads
  BY DEF StorageTypeOK, OpOK
<1>2. Becomes(t, [op[t] EXCEPT !.stage = st])
  BY <1>1 DEF Then, Becomes
<1>3. op'[t] = [op[t] EXCEPT !.stage = st]
  BY <1>2, OpsKeep
<1> QED
  BY <1>1, <1>2, <1>3 DEF OpRecords

-----------------------------------------------------------------------------
(* Every step of the storage is a step of the map, or none *)

\* Whatever the storage does to the map is a call of the map or a step of one.
LEMMA MapStep ==
  ASSUME TypeOK, StorageTypeOK, [StorageNext]_storageVars
  PROVE  [Next]_mapVars
<1>a. /\ \A t \in Threads : op[t].stage \in Holding => Cur(t) \in Entries /\ CurKey(t) \in Keys
      /\ \A t \in Threads : op[t].stage \in Bringing => New(t) \in Entries
  BY MapConstants DEF StorageTypeOK, OpOK, Cur, New, CurKey
<1>b. Mutable = Entries /\ SoftLimit \in Limits /\ HardLimit \in Limits
  BY StorageConstants
<1>c. \A t \in Threads : Begin(t) \/ Continue(t) => Next
  BY DEF Next
<1>d. \A k \in Keys : TouchLru(k) => Next
  BY DEF Next
<1>e. \A e \in Entries, p \in Payloads : StorePayload(e, p) => Next
  BY <1>b DEF Next
<1>1. ASSUME NEW t \in Threads, NEW k \in Keys, NEW f \in Prints, Get(t, k, f)
      PROVE  UNCHANGED mapVars
  BY <1>1 DEF Get
<1>2. ASSUME NEW t \in Threads, NEW e \in Entries, Set(t, e)
      PROVE  UNCHANGED mapVars
  BY <1>2 DEF Set
<1>3. ASSUME NEW t \in Threads, Peek(t)
      PROVE  UNCHANGED mapVars
  BY <1>3 DEF Peek
<1>4. ASSUME NEW t \in Threads, TouchExpired(t)
      PROVE  UNCHANGED mapVars
  BY <1>4 DEF TouchExpired
<1>5. ASSUME NEW t \in Threads, TouchMark(t)
      PROVE  UNCHANGED mapVars
  BY <1>5 DEF TouchMark
<1>6. ASSUME NEW t \in Threads, TouchPush(t)
      PROVE  UNCHANGED mapVars
  BY <1>6 DEF TouchPush
<1>7. ASSUME NEW t \in Threads, TouchUnmark(t)
      PROVE  UNCHANGED mapVars
  BY <1>7 DEF TouchUnmark
<1>8. ASSUME NEW t \in Threads, SetCompare(t)
      PROVE  UNCHANGED mapVars
  BY <1>8 DEF SetCompare
<1>9. ASSUME NEW t \in Threads, SetAdmit(t)
      PROVE  UNCHANGED mapVars
  BY <1>9 DEF SetAdmit
<1>10. ASSUME NEW t \in Threads, UpdateWeigh(t)
      PROVE  UNCHANGED mapVars
  BY <1>10 DEF UpdateWeigh
<1>11. ASSUME NEW t \in Threads, UpdateFresh(t)
      PROVE  UNCHANGED mapVars
  BY <1>11 DEF UpdateFresh
<1>12. ASSUME NEW t \in Threads, NEW s \in Shards, PeekPop(t, s)
      PROVE  UNCHANGED mapVars
  BY <1>12 DEF PeekPop
<1>13. ASSUME NEW t \in Threads, PeekLookup(t)
      PROVE  UNCHANGED mapVars
  BY <1>13 DEF PeekLookup
<1>14. ASSUME NEW t \in Threads, PeekCheck(t)
      PROVE  UNCHANGED mapVars
  BY <1>14 DEF PeekCheck
<1>15. ASSUME NEW t \in Threads, PeekSample(t)
      PROVE  UNCHANGED mapVars
  BY <1>15 DEF PeekSample
<1>16. ASSUME NEW t \in Threads, TtlWeigh(t)
      PROVE  UNCHANGED mapVars
  BY <1>16 DEF TtlWeigh
<1>17. ASSUME NEW t \in Threads, RefreshFails(t)
      PROVE  UNCHANGED mapVars
  BY <1>17 DEF RefreshFails
<1>18. ASSUME NEW t \in Threads, RefreshFresh(t)
      PROVE  UNCHANGED mapVars
  BY <1>18 DEF RefreshFresh
<1>19. ASSUME NEW t \in Threads, RefreshUnqueue(t)
      PROVE  UNCHANGED mapVars
  BY <1>19 DEF RefreshUnqueue
<1>20. ASSUME NEW t \in Threads, MapWorks(t)
      PROVE  [Next]_mapVars
  BY <1>20, <1>c DEF MapWorks
<1>21. ASSUME NEW t \in Threads, TouchUse(t)
      PROVE  [Next]_mapVars
  <2>1. CurKey(t) \in Keys
    BY <1>21, <1>a DEF TouchUse, At, Holding
  <2> QED
    BY <1>21, <2>1, <1>d DEF TouchUse
<1>22. ASSUME NEW t \in Threads, UpdateUnqueue(t)
      PROVE  [Next]_mapVars
  <2>1. CurKey(t) \in Keys
    BY <1>22, <1>a DEF UpdateUnqueue, At, Holding
  <2> QED
    BY <1>22, <2>1, <1>d DEF UpdateUnqueue
<1>23. ASSUME NEW t \in Threads, UpdateSwap(t)
      PROVE  [Next]_mapVars
  <2>1. Cur(t) \in Entries /\ New(t) \in Entries
    BY <1>23, <1>a DEF UpdateSwap, At, Holding, Bringing
  <2>2. payload[New(t)] \in Payloads
    BY <2>1 DEF TypeOK
  <2> QED
    BY <1>23, <2>1, <2>2, <1>e DEF UpdateSwap
<1>24. ASSUME NEW t \in Threads, UpdateMem(t)
      PROVE  [Next]_mapVars
  <2>1. CurKey(t) \in Keys /\ op[t].bytes \in Deltas
    BY <1>24, <1>a DEF UpdateMem, At, Holding, StorageTypeOK, OpOK
  <2>2. AddMem(t, CurKey(t), op[t].bytes)
    BY <1>24 DEF UpdateMem, Settle
  <2> QED
    BY <2>1, <2>2, <1>c DEF Begin
<1>25. ASSUME NEW t \in Threads, SetEvict(t)
      PROVE  [Next]_mapVars
  BY <1>25, <1>b, <1>c DEF SetEvict, Begin
<1>26. ASSUME NEW t \in Threads, SetPut(t)
      PROVE  [Next]_mapVars
  <2>1. New(t) \in Entries
    BY <1>26, <1>a DEF SetPut, At, Bringing
  <2> QED
    BY <1>26, <2>1, <1>c DEF SetPut, Begin
<1>27. ASSUME NEW t \in Threads, NEW k \in Keys, StorageRemove(t, k)
      PROVE  [Next]_mapVars
  BY <1>27, <1>c DEF StorageRemove, Begin
<1>28. ASSUME NEW t \in Threads, Clear(t)
      PROVE  [Next]_mapVars
  BY <1>28, <1>c DEF Clear, Begin
<1>29. ASSUME NEW t \in Threads, SoftEvict(t)
      PROVE  [Next]_mapVars
  BY <1>29, <1>b, <1>c DEF SoftEvict, Begin
<1>30. ASSUME NEW t \in Threads, TtlRemove(t)
      PROVE  [Next]_mapVars
  <2>1. CurKey(t) \in Keys
    BY <1>30, <1>a DEF TtlRemove, At, Holding
  <2> QED
    BY <1>30, <2>1, <1>c DEF TtlRemove, Begin
<1>31. ASSUME NEW t \in Threads, RefreshStores(t)
      PROVE  [Next]_mapVars
  <2>1. Cur(t) \in Entries
    BY <1>31, <1>a DEF RefreshStores, At, Holding
  <2> QED
    BY <1>31, <2>1, <1>e DEF RefreshStores
<1>32. ASSUME NEW t \in Threads, TtlSettle(t)
      PROVE  [Next]_mapVars
  <2>1. Cur(t) \in Entries /\ CurKey(t) \in Keys /\ op[t].bytes \in Weights
    BY <1>32, <1>a DEF TtlSettle, At, Holding, StorageTypeOK, OpOK
  <2>2. payload[Cur(t)] \in Payloads
    BY <2>1 DEF TypeOK
  <2>3. PICK p \in Payloads : op[t].bytes = Weight[p]
    BY <2>1 DEF Weights
  <2>4. Grown(t) \in Deltas
    BY <2>2, <2>3, StorageConstants DEF Grown, WeightOf
  <2>5. UNCHANGED mapVars \/ AddMem(t, CurKey(t), Grown(t))
    BY <1>32 DEF TtlSettle, Settle
  <2> QED
    BY <2>1, <2>4, <2>5, <1>c DEF Begin
<1>33. ASSUME NEW e \in Entries, Expire(e)
      PROVE  [Next]_mapVars
  BY <1>33 DEF Expire
<1>34. ASSUME CloseStorage
      PROVE  [Next]_mapVars
  BY <1>34 DEF CloseStorage, Next
<1>35. ASSUME Rest \/ UNCHANGED storageVars
      PROVE  [Next]_mapVars
  BY <1>35 DEF Rest, storageVars
<1> QED
  BY <1>1, <1>2, <1>3, <1>4, <1>5, <1>6, <1>7, <1>8, <1>9, <1>10, <1>11, <1>12, <1>13, <1>14, <1>15, <1>16, <1>17, <1>18, <1>19, <1>20, <1>21, <1>22, <1>23, <1>24, <1>25, <1>26, <1>27, <1>28, <1>29, <1>30, <1>31, <1>32, <1>33, <1>34, <1>35 DEF StorageNext, StorageCall, StorageStep

-----------------------------------------------------------------------------
(* The locals of the storage calls *)

\* All storage calls are legal.
OpsOK == DOMAIN op = Threads /\ \A t \in Threads : OpOK(t)

\* A record that may be the state of a storage call.
Legal(r) ==
  /\ r \in OpRecords
  /\ r.stage \in Holding => r.cur \in Entries
  /\ r.stage \in Bringing => r.new \in Entries
  /\ r.stage \in {"swap", "add_mem"} => r.bytes \in Deltas
  /\ r.stage \in {"upstream", "refreshed", "settle", "reweigh"} => r.bytes \in Weights

\* A call may become any legal record.
LEMMA BecomesOK ==
  ASSUME StorageTypeOK, NEW t \in Threads, NEW r, Becomes(t, r), Legal(r)
  PROVE  OpsOK'
<1>1. DOMAIN op' = Threads /\ op'[t] = r /\ \A u \in Threads \ {t} : OpOK(u)'
  BY OpsKeep
<1>2. OpOK(t)'
  BY <1>1 DEF Legal, OpOK
<1> QED
  BY <1>1, <1>2 DEF OpsOK

\* The record of a thread outside any storage call.
LEMMA NoOpRecord ==
  /\ NoOp \in OpRecords
  /\ NoOp.stage = "none" /\ NoOp.cur = NoEntry /\ NoOp.new = NoEntry /\ NoOp.bytes = 0
  /\ NoOp.key \in Keys /\ NoOp.todo = {}
BY AnyKeyType DEF NoOp, OpRecords, Stages

\* Returning is always legal ...
LEMMA ReturnOK ==
  ASSUME StorageTypeOK, NEW t \in Threads, Return(t)
  PROVE  OpsOK'
<1>1. Legal(NoOp)
  BY NoOpRecord DEF Legal, Holding, Bringing
<1> QED
  BY <1>1, BecomesOK DEF Return, Becomes

\* ... and going on is, at a stage whose locals the call has.
LEMMA ThenOK ==
  ASSUME StorageTypeOK, NEW t \in Threads, NEW st \in Stages, Then(t, st),
         st \in Holding => op[t].cur \in Entries,
         st \in Bringing => op[t].new \in Entries,
         st \in {"swap", "add_mem"} => op[t].bytes \in Deltas,
         st \in {"upstream", "refreshed", "settle", "reweigh"} => op[t].bytes \in Weights
  PROVE  OpsOK'
<1> DEFINE r == [op[t] EXCEPT !.stage = st]
<1>1. Becomes(t, r) /\ r \in OpRecords /\ op'[t] = r
  BY ThenRecord
<1>2. r.stage = st /\ r.cur = op[t].cur /\ r.new = op[t].new /\ r.bytes = op[t].bytes
  BY <1>1, ThenRecord
<1>3. Legal(r)
  BY <1>1, <1>2 DEF Legal
<1> QED
  BY <1>1, <1>3, BecomesOK

\* A fresh record with an entry that was looked up.
LEMMA LookedUp ==
  ASSUME StorageTypeOK, NEW t \in Threads, NEW e \in Entries, NEW st \in Stages \ Bringing,
         st \notin {"add_mem", "upstream", "refreshed", "settle", "reweigh"},
         Becomes(t, [NoOp EXCEPT !.stage = st, !.cur = e])
  PROVE  OpsOK'
<1> DEFINE r == [NoOp EXCEPT !.stage = st, !.cur = e]
<1>1. r \in OpRecords /\ r.stage = st /\ r.cur = e
  BY NoOpRecord DEF OpRecords
<1>2. Legal(r)
  BY <1>1 DEF Legal, Bringing
<1> QED
  BY <1>2, BecomesOK

\* The scan of the queues goes on.
LEMMA NextQueueOK ==
  ASSUME StorageTypeOK, NEW t \in Threads, NEW todo \in SUBSET Shards, NextQueue(t, todo)
  PROVE  OpsOK'
<1> DEFINE r == [NoOp EXCEPT !.stage = "pop", !.todo = todo]
<1>1. r \in OpRecords /\ r.stage = "pop"
  BY NoOpRecord DEF OpRecords, Stages
<1>2. Legal(r)
  BY <1>1 DEF Legal, Holding, Bringing
<1> QED
  BY <1>2, BecomesOK DEF NextQueue, Becomes

\* A call in the middle goes on with another entry.
LEMMA StageCur ==
  ASSUME StorageTypeOK, NEW t \in Threads, NEW e \in Entries,
         NEW st \in {"check", "on_ttl"},
         op' = [op EXCEPT ![t].stage = st, ![t].cur = e]
  PROVE  OpsOK'
<1> DEFINE r == [op[t] EXCEPT !.stage = st, !.cur = e]
<1>1. op[t] \in OpRecords /\ DOMAIN op = Threads
  BY DEF StorageTypeOK, OpOK
<1>2. r \in OpRecords /\ r.stage = st /\ r.cur = e
  BY <1>1 DEF OpRecords, Stages
<1>3. Becomes(t, r)
  BY <1>1 DEF Becomes
<1>4. Legal(r)
  BY <1>2 DEF Legal, Bringing
<1> QED
  BY <1>3, <1>4, BecomesOK

\* A call in the middle goes on with a weight or a difference of weights.
LEMMA StageBytes ==
  ASSUME StorageTypeOK, NEW t \in Threads, NEW b \in Int,
         NEW st \in {"swap", "upstream"},
         op' = [op EXCEPT ![t].stage = st, ![t].bytes = b],
         op[t].cur \in Entries,
         st = "swap" => b \in Deltas /\ op[t].new \in Entries,
         st = "upstream" => b \in Weights
  PROVE  OpsOK'
<1> DEFINE r == [op[t] EXCEPT !.stage = st, !.bytes = b]
<1>1. op[t] \in OpRecords /\ DOMAIN op = Threads
  BY DEF StorageTypeOK, OpOK
<1>2. r \in OpRecords /\ r.stage = st /\ r.bytes = b /\ r.cur = op[t].cur /\ r.new = op[t].new
  BY <1>1 DEF OpRecords, Stages
<1>3. Becomes(t, r)
  BY <1>1 DEF Becomes
<1>4. Legal(r)
  BY <1>2 DEF Legal, Bringing
<1> QED
  BY <1>3, <1>4, BecomesOK

\* A step keeps the locals of all calls in order.
LEMMA OpStep ==
  ASSUME TypeOK, StorageTypeOK, [StorageNext]_storageVars
  PROVE  OpsOK'
<1>a. \A t \in Threads : OpOK(t)
  BY DEF StorageTypeOK
<1>b. ASSUME UNCHANGED op
      PROVE  OpsOK'
  BY <1>b DEF OpsOK, StorageTypeOK, OpOK
<1>c. \A k \in Keys : items[k] # NoEntry => items[k] \in Entries
  BY DEF TypeOK
<1>d. \A e \in Entries : WeightOf(e) \in Weights /\ WeightOf(e) \in Int
  BY MapConstants DEF TypeOK, WeightOf, Weights
<1>e. \A e, f \in Entries : WeightOf(e) - WeightOf(f) \in Deltas /\ WeightOf(e) - WeightOf(f) \in Int
  <2> SUFFICES ASSUME NEW e \in Entries, NEW f \in Entries
               PROVE  WeightOf(e) - WeightOf(f) \in Deltas /\ WeightOf(e) - WeightOf(f) \in Int
    OBVIOUS
  <2>1. payload[e] \in Payloads /\ payload[f] \in Payloads
    BY DEF TypeOK
  <2>2. Weight[payload[e]] - Weight[payload[f]] \in Deltas
    BY <2>1, StorageConstants
  <2>3. WeightOf(e) \in Int /\ WeightOf(f) \in Int
    BY <1>d
  <2> QED
    BY <2>2, <2>3 DEF WeightOf
<1>1. ASSUME NEW t \in Threads, NEW k \in Keys, NEW f \in Prints, Get(t, k, f)
      PROVE  OpsOK'
  <2>1. items[k] \in Entries
    BY <1>1, <1>c DEF Get
  <2>2. Becomes(t, [NoOp EXCEPT !.stage = "use", !.cur = items[k]])
    BY <1>1 DEF Get, Becomes
  <2>3. "use" \in Stages \ Bringing
    BY DEF Stages, Bringing
  <2> QED
    BY <2>1, <2>2, <2>3, LookedUp
<1>2. ASSUME NEW t \in Threads, NEW e \in Entries, Set(t, e)
      PROVE  OpsOK'
  <2> DEFINE old == items[KeyOf[e]]
             r1 == [NoOp EXCEPT !.stage = "compare", !.cur = old, !.new = e]
             r2 == [NoOp EXCEPT !.stage = "admit", !.new = e]
  <2>1. CASE SamePrint(old, e)
    <3>1. old \in Entries
      BY <2>1, <1>c, MapConstants DEF SamePrint
    <3>2. Becomes(t, r1)
      BY <1>2, <2>1 DEF Set, Becomes
    <3>3. r1 \in OpRecords /\ r1.stage = "compare" /\ r1.cur = old /\ r1.new = e
      BY <3>1, NoOpRecord DEF OpRecords, Stages
    <3>4. Legal(r1)
      BY <3>1, <3>3 DEF Legal
    <3> QED
      BY <3>2, <3>4, BecomesOK
  <2>2. CASE ~SamePrint(old, e)
    <3>1. Becomes(t, r2)
      BY <1>2, <2>2 DEF Set, Becomes
    <3>2. r2 \in OpRecords /\ r2.stage = "admit" /\ r2.new = e
      BY NoOpRecord DEF OpRecords, Stages
    <3>3. Legal(r2)
      BY <3>2 DEF Legal, Holding
    <3> QED
      BY <3>1, <3>3, BecomesOK
  <2> QED
    BY <2>1, <2>2
<1>3. ASSUME NEW t \in Threads, Peek(t)
      PROVE  OpsOK'
  BY <1>3, NextQueueOK DEF Peek, NextQueue
<1>4. ASSUME NEW t \in Threads, TouchUse(t)
      PROVE  OpsOK'
  <2>1. OpOK(t)
    BY <1>a
  <2> QED
    BY <1>4, <2>1, ThenOK, ReturnOK DEF TouchUse, At, OpOK, Stages, Holding, Bringing
<1>5. ASSUME NEW t \in Threads, TouchExpired(t)
      PROVE  OpsOK'
  <2>1. OpOK(t)
    BY <1>a
  <2> QED
    BY <1>5, <2>1, ThenOK, ReturnOK DEF TouchExpired, At, OpOK, Stages, Holding, Bringing
<1>6. ASSUME NEW t \in Threads, TouchMark(t)
      PROVE  OpsOK'
  <2>1. OpOK(t)
    BY <1>a
  <2> QED
    BY <1>6, <2>1, ThenOK, ReturnOK DEF TouchMark, At, OpOK, Stages, Holding, Bringing
<1>7. ASSUME NEW t \in Threads, TouchPush(t)
      PROVE  OpsOK'
  <2>1. OpOK(t)
    BY <1>a
  <2> QED
    BY <1>7, <2>1, ThenOK, ReturnOK DEF TouchPush, At, OpOK, Stages, Holding, Bringing
<1>8. ASSUME NEW t \in Threads, TouchUnmark(t)
      PROVE  OpsOK'
  <2>1. OpOK(t)
    BY <1>a
  <2> QED
    BY <1>8, <2>1, ThenOK, ReturnOK DEF TouchUnmark, At, OpOK, Stages, Holding, Bringing
<1>9. ASSUME NEW t \in Threads, SetCompare(t)
      PROVE  OpsOK'
  <2>1. OpOK(t)
    BY <1>a
  <2> QED
    BY <1>9, <2>1, ThenOK, ReturnOK DEF SetCompare, At, OpOK, Stages, Holding, Bringing
<1>10. ASSUME NEW t \in Threads, SetAdmit(t)
      PROVE  OpsOK'
  <2>1. OpOK(t)
    BY <1>a
  <2> QED
    BY <1>10, <2>1, ThenOK, ReturnOK DEF SetAdmit, At, OpOK, Stages, Holding, Bringing
<1>11. ASSUME NEW t \in Threads, SetEvict(t)
      PROVE  OpsOK'
  <2>1. OpOK(t)
    BY <1>a
  <2> QED
    BY <1>11, <2>1, ThenOK, ReturnOK DEF SetEvict, At, OpOK, Stages, Holding, Bringing
<1>12. ASSUME NEW t \in Threads, UpdateSwap(t)
      PROVE  OpsOK'
  <2>1. OpOK(t)
    BY <1>a
  <2> QED
    BY <1>12, <2>1, ThenOK, ReturnOK DEF UpdateSwap, At, OpOK, Stages, Holding, Bringing
<1>13. ASSUME NEW t \in Threads, UpdateMem(t)
      PROVE  OpsOK'
  <2>1. OpOK(t)
    BY <1>a
  <2> QED
    BY <1>13, <2>1, ThenOK, ReturnOK DEF UpdateMem, At, OpOK, Stages, Holding, Bringing
<1>14. ASSUME NEW t \in Threads, UpdateFresh(t)
      PROVE  OpsOK'
  <2>1. OpOK(t)
    BY <1>a
  <2> QED
    BY <1>14, <2>1, ThenOK, ReturnOK DEF UpdateFresh, At, OpOK, Stages, Holding, Bringing
<1>15. ASSUME NEW t \in Threads, RefreshStores(t)
      PROVE  OpsOK'
  <2>1. OpOK(t)
    BY <1>a
  <2> QED
    BY <1>15, <2>1, ThenOK, ReturnOK DEF RefreshStores, At, OpOK, Stages, Holding, Bringing
<1>16. ASSUME NEW t \in Threads, RefreshFresh(t)
      PROVE  OpsOK'
  <2>1. OpOK(t)
    BY <1>a
  <2> QED
    BY <1>16, <2>1, ThenOK, ReturnOK DEF RefreshFresh, At, OpOK, Stages, Holding, Bringing
<1>17. ASSUME NEW t \in Threads, RefreshUnqueue(t)
      PROVE  OpsOK'
  <2>1. OpOK(t)
    BY <1>a
  <2> QED
    BY <1>17, <2>1, ThenOK, ReturnOK DEF RefreshUnqueue, At, OpOK, Stages, Holding, Bringing
<1>18. ASSUME NEW t \in Threads, SetPut(t)
      PROVE  OpsOK'
  BY <1>18, ReturnOK DEF SetPut
<1>19. ASSUME NEW t \in Threads, UpdateUnqueue(t)
      PROVE  OpsOK'
  BY <1>19, ReturnOK DEF UpdateUnqueue
<1>20. ASSUME NEW t \in Threads, NEW k \in Keys, StorageRemove(t, k)
      PROVE  OpsOK'
  BY <1>20, ReturnOK DEF StorageRemove
<1>21. ASSUME NEW t \in Threads, Clear(t)
      PROVE  OpsOK'
  BY <1>21, ReturnOK DEF Clear
<1>22. ASSUME NEW t \in Threads, SoftEvict(t)
      PROVE  OpsOK'
  BY <1>22, ReturnOK DEF SoftEvict
<1>23. ASSUME NEW t \in Threads, TtlRemove(t)
      PROVE  OpsOK'
  BY <1>23, ReturnOK DEF TtlRemove
<1>24. ASSUME NEW t \in Threads, RefreshFails(t)
      PROVE  OpsOK'
  BY <1>24, ReturnOK DEF RefreshFails
<1>25. ASSUME NEW t \in Threads, TtlSettle(t)
      PROVE  OpsOK'
  BY <1>25, ReturnOK DEF TtlSettle
<1>26. ASSUME NEW t \in Threads, UpdateWeigh(t)
      PROVE  OpsOK'
  <2>1. Cur(t) \in Entries /\ New(t) \in Entries
    BY <1>26, <1>a DEF UpdateWeigh, At, OpOK, Holding, Bringing, Cur, New
  <2>2. WeightOf(New(t)) - WeightOf(Cur(t)) \in Deltas /\ WeightOf(New(t)) - WeightOf(Cur(t)) \in Int
    BY <2>1, <1>e
  <2>3. op' = [op EXCEPT ![t].stage = "swap", ![t].bytes = WeightOf(New(t)) - WeightOf(Cur(t))]
    BY <1>26 DEF UpdateWeigh
  <2> QED
    BY <2>1, <2>2, <2>3, StageBytes DEF Cur, New
<1>27. ASSUME NEW t \in Threads, TtlWeigh(t)
      PROVE  OpsOK'
  <2>1. Cur(t) \in Entries
    BY <1>27, <1>a DEF TtlWeigh, At, OpOK, Holding, Cur
  <2>2. WeightOf(Cur(t)) \in Weights /\ WeightOf(Cur(t)) \in Int
    BY <2>1, <1>d
  <2>3. op' = [op EXCEPT ![t].stage = "upstream", ![t].bytes = WeightOf(Cur(t))]
    BY <1>27 DEF TtlWeigh
  <2> QED
    BY <2>1, <2>2, <2>3, StageBytes DEF Cur
<1>28. ASSUME NEW t \in Threads, NEW s \in Shards, PeekPop(t, s)
      PROVE  OpsOK'
  <2> DEFINE todo == op[t].todo \ {s}
             r == [NoOp EXCEPT !.stage = "lookup", !.key = Head(rq[s]), !.todo = todo]
  <2>1. todo \in SUBSET Shards
    BY <1>a DEF OpOK, OpRecords
  <2>2. CASE rq[s] = <<>>
    BY <1>28, <2>1, <2>2, NextQueueOK DEF PeekPop
  <2>3. CASE rq[s] # <<>>
    <3>1. Head(rq[s]) \in Keys
      BY <2>3 DEF StorageTypeOK
    <3>2. Becomes(t, r)
      BY <1>28, <2>3 DEF PeekPop, Becomes
    <3>3. r \in OpRecords /\ r.stage = "lookup"
      BY <2>1, <3>1, NoOpRecord DEF OpRecords, Stages
    <3>4. Legal(r)
      BY <3>3 DEF Legal, Holding, Bringing
    <3> QED
      BY <3>2, <3>4, BecomesOK
  <2> QED
    BY <2>2, <2>3
<1>29. ASSUME NEW t \in Threads, PeekLookup(t)
      PROVE  OpsOK'
  <2>1. op[t].key \in Keys /\ op[t].todo \in SUBSET Shards
    BY <1>a DEF OpOK, OpRecords
  <2>2. CASE items[op[t].key] = NoEntry
    BY <1>29, <2>1, <2>2, NextQueueOK DEF PeekLookup
  <2>3. CASE items[op[t].key] # NoEntry
    <3>1. op' = [op EXCEPT ![t].stage = "check", ![t].cur = items[op[t].key]]
      BY <1>29, <2>3 DEF PeekLookup
    <3> QED
      BY <2>1, <2>3, <3>1, <1>c, StageCur
  <2> QED
    BY <2>2, <2>3
<1>30. ASSUME NEW t \in Threads, PeekCheck(t)
      PROVE  OpsOK'
  <2>1. op[t].cur \in Entries /\ op[t].todo \in SUBSET Shards /\ OpOK(t)
    BY <1>30, <1>a DEF PeekCheck, At, OpOK, OpRecords, Holding
  <2>2. Then(t, "on_ttl") \/ NextQueue(t, op[t].todo)
    BY <1>30 DEF PeekCheck
  <2> QED
    BY <2>1, <2>2, ThenOK, NextQueueOK DEF Stages, Bringing
<1>31. ASSUME NEW t \in Threads, PeekSample(t)
      PROVE  OpsOK'
  <2>1. CASE Return(t)
    BY <2>1, ReturnOK
  <2>2. ASSUME NEW k \in Present, op' = [op EXCEPT ![t].stage = "on_ttl", ![t].cur = items[k]]
        PROVE  OpsOK'
    <3>1. items[k] \in Entries
      BY <1>c DEF Present
    <3> QED
      BY <2>2, <3>1, StageCur
  <2> QED
    BY <1>31, <2>1, <2>2 DEF PeekSample
<1>32. ASSUME NEW t \in Threads, MapWorks(t)
      PROVE  OpsOK'
  BY <1>32, <1>b DEF MapWorks
<1>33. ASSUME NEW e \in Entries, Expire(e)
      PROVE  OpsOK'
  BY <1>33, <1>b DEF Expire
<1>34. ASSUME CloseStorage
      PROVE  OpsOK'
  BY <1>34, <1>b DEF CloseStorage
<1>35. ASSUME Rest \/ UNCHANGED storageVars
      PROVE  OpsOK'
  BY <1>35, <1>b DEF Rest, storageVars
<1> QED
  BY <1>1, <1>2, <1>3, <1>4, <1>5, <1>6, <1>7, <1>8, <1>9, <1>10, <1>11, <1>12, <1>13, <1>14, <1>15, <1>16, <1>17, <1>18, <1>19, <1>20, <1>21, <1>22, <1>23, <1>24, <1>25, <1>26, <1>27, <1>28, <1>29, <1>30, <1>31, <1>32, <1>33, <1>34, <1>35 DEF StorageNext, StorageCall, StorageStep

\* What else the storage keeps stays typed; the queues stay within capacity.
LEMMA RestStep ==
  ASSUME TypeOK, StorageTypeOK, [StorageNext]_storageVars
  PROVE  RestOK'
<1>a. RestOK /\ \A t \in Threads : OpOK(t)
  BY DEF StorageTypeOK, RestOK
<1>b. \A t \in Threads : op[t].stage \in Holding => Cur(t) \in Entries
  BY <1>a DEF OpOK, Cur
<1>1. ASSUME UNCHANGED <<rq, used>>,
             calls' \in 0..MaxCalls,
             NEW e \in Entries, NEW b \in BOOLEAN,
             stale' = stale \/ stale' = [stale EXCEPT ![e] = b],
             queued' = queued \/ queued' = [queued EXCEPT ![e] = b]
      PROVE  RestOK'
  BY <1>1, <1>a DEF RestOK
<1>2. ASSUME UNCHANGED <<stale, queued, rq, used>>, calls' \in 0..MaxCalls
      PROVE  RestOK'
  BY <1>2, <1>a DEF RestOK
<1>3. \A t \in Threads : Call(t) => calls' \in 0..MaxCalls
  BY <1>a, StorageConstants DEF Call, RestOK
<1>4. ASSUME UNCHANGED calls
      PROVE  calls' \in 0..MaxCalls
  BY <1>4, <1>a DEF RestOK
<1>5. ASSUME NEW t \in Threads,
             \/ \E k \in Keys, f \in Prints : Get(t, k, f)
             \/ \E k \in Keys : StorageRemove(t, k)
             \/ Clear(t) \/ SoftEvict(t) \/ Peek(t)
      PROVE  RestOK'
  <2>1. Call(t) /\ UNCHANGED <<stale, queued, rq, used>>
    BY <1>5 DEF Get, StorageRemove, Clear, SoftEvict, Peek, entryVars
  <2> QED
    BY <2>1, <1>2, <1>3
<1>6. ASSUME NEW t \in Threads, NEW e \in Entries, Set(t, e)
      PROVE  RestOK'
  BY <1>6, <1>3, <1>a DEF Set, entryVars, RestOK
<1>7. ASSUME NEW t \in Threads,
             \/ TouchUse(t) \/ TouchExpired(t) \/ SetCompare(t) \/ SetAdmit(t) \/ SetEvict(t)
             \/ UpdateWeigh(t) \/ UpdateSwap(t) \/ UpdateMem(t)
             \/ PeekLookup(t) \/ PeekSample(t) \/ TtlRemove(t) \/ TtlWeigh(t)
             \/ RefreshFails(t) \/ RefreshStores(t) \/ TtlSettle(t)
      PROVE  RestOK'
  BY <1>7, <1>2, <1>4
    DEF At, entryVars, TouchUse, TouchExpired, SetCompare, SetAdmit, SetEvict, UpdateWeigh,
        UpdateSwap, UpdateMem, PeekLookup, PeekSample, TtlRemove, TtlWeigh, RefreshFails,
        RefreshStores, TtlSettle
<1>8. ASSUME NEW t \in Threads,
             \/ TouchMark(t) \/ TouchUnmark(t) \/ UpdateFresh(t) \/ UpdateUnqueue(t)
             \/ PeekCheck(t) \/ RefreshFresh(t) \/ RefreshUnqueue(t)
      PROVE  RestOK'
  <2>1. Cur(t) \in Entries
    BY <1>8, <1>b
      DEF At, Holding, TouchMark, TouchUnmark, UpdateFresh, UpdateUnqueue, PeekCheck,
          RefreshFresh, RefreshUnqueue
  <2>2. UNCHANGED <<rq, used, calls>>
    BY <1>8
      DEF At, TouchMark, TouchUnmark, UpdateFresh, UpdateUnqueue, PeekCheck,
          RefreshFresh, RefreshUnqueue
  <2>3. /\ stale' = stale \/ stale' = [stale EXCEPT ![Cur(t)] = FALSE]
        /\ \/ queued' = queued
           \/ queued' = [queued EXCEPT ![Cur(t)] = FALSE]
           \/ queued' = [queued EXCEPT ![Cur(t)] = TRUE]
    BY <1>8
      DEF TouchMark, TouchUnmark, UpdateFresh, UpdateUnqueue, PeekCheck,
          RefreshFresh, RefreshUnqueue
  <2> QED
    BY <2>1, <2>2, <2>3, <1>a DEF RestOK
<1>9. ASSUME NEW t \in Threads, SetPut(t)
      PROVE  RestOK'
  <2>1. New(t) \in Entries
    BY <1>9, <1>a DEF SetPut, At, Bringing, New, OpOK
  <2> QED
    BY <1>9, <2>1, <1>a DEF SetPut, At, RestOK
<1>10. ASSUME NEW t \in Threads, TouchPush(t)
       PROVE  RestOK'
  <2>1. Cur(t) \in Entries
    BY <1>10, <1>b DEF TouchPush, At, Holding
  <2>2. CurKey(t) \in Keys /\ ShardOf[CurKey(t)] \in Shards
    BY <2>1, MapConstants DEF CurKey
  <2>3. UNCHANGED <<stale, queued, used, calls>>
    BY <1>10 DEF TouchPush, At
  <2>4. CASE rq' = rq
    BY <1>a, <2>3, <2>4 DEF RestOK
  <2>5. CASE /\ Len(rq[ShardOf[CurKey(t)]]) < QueueCap
             /\ rq' = [rq EXCEPT ![ShardOf[CurKey(t)]] = Append(@, CurKey(t))]
    <3> DEFINE s == ShardOf[CurKey(t)]
               q == Append(rq[s], CurKey(t))
    <3>1. rq \in [Shards -> Seq(Keys)] /\ rq[s] \in Seq(Keys)
      BY <1>a, <2>2 DEF RestOK
    <3>2. q \in Seq(Keys) /\ Len(q) = Len(rq[s]) + 1
      BY <2>2, <3>1
    <3>3. Len(q) <= QueueCap
      BY <2>5, <3>1, <3>2, StorageConstants
    <3>4. rq' = [rq EXCEPT ![s] = q]
      BY <2>5
    <3> HIDE DEF q
    <3>5. rq' \in [Shards -> Seq(Keys)] /\ \A x \in Shards : Len(rq'[x]) <= QueueCap
      BY <1>a, <2>2, <3>1, <3>2, <3>3, <3>4 DEF RestOK
    <3> QED
      BY <1>a, <2>3, <3>5 DEF RestOK
  <2> QED
    BY <1>10, <2>4, <2>5 DEF TouchPush, HasRoom
<1>11. ASSUME NEW t \in Threads, NEW s \in Shards, PeekPop(t, s)
       PROVE  RestOK'
  <2>1. UNCHANGED <<stale, queued, used, calls>>
    BY <1>11 DEF PeekPop, At
  <2>2. CASE rq[s] = <<>>
    BY <1>11, <1>a, <2>1, <2>2 DEF PeekPop, RestOK
  <2>3. CASE rq[s] # <<>>
    <3>1. rq \in [Shards -> Seq(Keys)] /\ rq[s] \in Seq(Keys) /\ Len(rq[s]) <= QueueCap
      BY <1>a DEF RestOK
    <3>2. Tail(rq[s]) \in Seq(Keys) /\ Len(Tail(rq[s])) = Len(rq[s]) - 1
      BY <2>3, <3>1
    <3>3. Len(Tail(rq[s])) <= QueueCap
      BY <3>1, <3>2, StorageConstants
    <3>4. rq' = [rq EXCEPT ![s] = Tail(@)]
      BY <1>11, <2>3 DEF PeekPop
    <3>5. rq' \in [Shards -> Seq(Keys)] /\ \A x \in Shards : Len(rq'[x]) <= QueueCap
      BY <1>a, <3>1, <3>2, <3>3, <3>4 DEF RestOK
    <3> QED
      BY <1>a, <2>1, <3>5 DEF RestOK
  <2> QED
    BY <2>2, <2>3
<1>12. ASSUME NEW e \in Entries, Expire(e)
       PROVE  RestOK'
  BY <1>12, <1>a DEF Expire, RestOK
<1>13. ASSUME NEW t \in Threads, MapWorks(t)
       PROVE  RestOK'
  BY <1>13, <1>2, <1>4 DEF MapWorks, entryVars
<1>14. CASE CloseStorage \/ Rest \/ UNCHANGED storageVars
  BY <1>14, <1>2, <1>4 DEF CloseStorage, Rest, storageVars, entryVars
<1> QED
  BY <1>5, <1>6, <1>7, <1>8, <1>9, <1>10, <1>11, <1>12, <1>13, <1>14
    DEF StorageNext, StorageCall, StorageStep

-----------------------------------------------------------------------------
(* Theorems *)

\* The empty storage satisfies the map's invariant and its own types.
LEMMA StorageInitOK == StorageInit => IndInv /\ StorageTypeOK
<1> SUFFICES ASSUME StorageInit
             PROVE  IndInv /\ StorageTypeOK
  OBVIOUS
<1>1. IndInv
  BY InitInv DEF StorageInit
<1>2. \A t \in Threads : OpOK(t)
  <2>1. \A t \in Threads : op[t] = NoOp
    BY DEF StorageInit
  <2> QED
    BY <2>1, NoOpRecord DEF OpOK, Holding, Bringing
<1>3. /\ stale \in [Entries -> BOOLEAN] /\ queued \in [Entries -> BOOLEAN]
      /\ used \subseteq Entries /\ calls \in 0..MaxCalls /\ DOMAIN op = Threads
  BY StorageConstants DEF StorageInit
<1>4. rq \in [Shards -> Seq(Keys)] /\ \A s \in Shards : Len(rq[s]) <= QueueCap
  BY StorageConstants DEF StorageInit
<1> QED
  BY <1>1, <1>2, <1>3, <1>4 DEF StorageTypeOK

\* Every step of the storage preserves both.
LEMMA StorageInvStep ==
  IndInv /\ StorageTypeOK /\ [StorageNext]_storageVars => IndInv' /\ StorageTypeOK'
<1> SUFFICES ASSUME IndInv, StorageTypeOK, [StorageNext]_storageVars
             PROVE  IndInv' /\ StorageTypeOK'
  OBVIOUS
<1>1. TypeOK
  BY DEF IndInv
<1>2. [Next]_mapVars
  BY <1>1, MapStep
<1>3. IndInv'
  BY <1>2, InvStep
<1>4. OpsOK' /\ RestOK'
  BY <1>1, OpStep, RestStep
<1> QED
  BY <1>3, <1>4 DEF OpsOK, RestOK, StorageTypeOK

\* The storage's own state stays well typed, and no refresh queue outgrows its
\* capacity, in every behaviour of storage.rs and refresh.rs.
THEOREM StorageTypes == StorageSpec => []StorageTypeOK
<1> QED
  BY StorageInitOK, StorageInvStep, PTL DEF StorageSpec

\* Every behaviour of storage.rs, seen through the map's variables, is a
\* behaviour of the map.
THEOREM StorageImplementsMap == StorageSpec => ImplementsMap
<1>1. StorageInit => Init
  BY DEF StorageInit
<1>2. IndInv /\ StorageTypeOK /\ [StorageNext]_storageVars => [Next]_mapVars
  BY MapStep DEF IndInv
<1> QED
  BY <1>1, <1>2, StorageInitOK, StorageInvStep, PTL DEF StorageSpec, Spec, ImplementsMap

\* So the entry counters are exact under the storage too.
THEOREM StorageLenExact == StorageSpec => []LenExact
<1> QED
  BY StorageImplementsMap, LenAlwaysExact, PTL DEF ImplementsMap

-----------------------------------------------------------------------------
(* Answers stay with their requests *)

\* The stages of an update that hold both the entry found and the new one.
Pairs == {"compare", "weigh", "swap"}

\* An update never pairs entries of two requests.
SameRequest == \A t \in Threads : op[t].stage \in Pairs => SamePrint(op[t].cur, op[t].new)

\* A call that becomes a record of another stage, or of a sound pair, keeps it.
LEMMA PairKept ==
  ASSUME StorageTypeOK, SameRequest, NEW t \in Threads, NEW r, Becomes(t, r),
         r.stage \in Pairs => SamePrint(r.cur, r.new)
  PROVE  SameRequest'
<1>1. op'[t] = r /\ \A u \in Threads \ {t} : op'[u] = op[u]
  BY DEF Becomes, StorageTypeOK
<1> QED
  BY <1>1 DEF SameRequest, SamePrint

\* Going on at a stage outside the pairs keeps it.
LEMMA PairLeft ==
  ASSUME StorageTypeOK, SameRequest, NEW t \in Threads, NEW st \in Stages \ Pairs, Then(t, st)
  PROVE  SameRequest'
<1>1. Becomes(t, [op[t] EXCEPT !.stage = st]) /\ op'[t].stage = st
      /\ op'[t] = [op[t] EXCEPT !.stage = st]
  BY ThenRecord
<1> QED
  BY <1>1, PairKept

\* Returning keeps it.
LEMMA PairReturned ==
  ASSUME StorageTypeOK, SameRequest, NEW t \in Threads, Return(t)
  PROVE  SameRequest'
<1>1. Becomes(t, NoOp) /\ NoOp.stage \notin Pairs
  BY NoOpRecord DEF Return, Becomes, Pairs
<1> QED
  BY <1>1, PairKept

\* Going on with the queues keeps it.
LEMMA PairNextQueue ==
  ASSUME StorageTypeOK, SameRequest, NEW t \in Threads, NEW todo, NextQueue(t, todo)
  PROVE  SameRequest'
<1> DEFINE r == [NoOp EXCEPT !.stage = "pop", !.todo = todo]
<1>1. Becomes(t, r)
  BY DEF NextQueue, Becomes
<1>2. r.stage = "pop"
  BY DEF NoOp
<1> QED
  BY <1>1, <1>2, PairKept DEF Pairs

\* A step of the storage keeps the pairs sound: only Set makes one, out of the
\* entry it found under the key and a new entry of the same request.
LEMMA PairStep ==
  ASSUME TypeOK, StorageTypeOK, SameRequest, [StorageNext]_storageVars
  PROVE  SameRequest'
<1>a. \A t \in Threads : op[t] \in OpRecords /\ DOMAIN op = Threads
  BY DEF StorageTypeOK, OpOK
<1>b. ASSUME UNCHANGED op
      PROVE  SameRequest'
  BY <1>b DEF SameRequest, SamePrint
<1>1. ASSUME NEW t \in Threads, NEW k \in Keys, NEW f \in Prints, Get(t, k, f)
      PROVE  SameRequest'
  <2> DEFINE r == [NoOp EXCEPT !.stage = "use", !.cur = items[k]]
  <2>1. Becomes(t, r) /\ r.stage = "use"
    BY <1>1 DEF Get, Becomes, NoOp
  <2> QED
    BY <2>1, PairKept DEF Pairs
<1>2. ASSUME NEW t \in Threads, NEW e \in Entries, Set(t, e)
      PROVE  SameRequest'
  <2> DEFINE old == items[KeyOf[e]]
             r1 == [NoOp EXCEPT !.stage = "compare", !.cur = old, !.new = e]
             r2 == [NoOp EXCEPT !.stage = "admit", !.new = e]
  <2>1. CASE SamePrint(old, e)
    <3>1. Becomes(t, r1) /\ r1.cur = old /\ r1.new = e
      BY <1>2, <2>1 DEF Set, Becomes, NoOp
    <3> QED
      BY <2>1, <3>1, PairKept
  <2>2. CASE ~SamePrint(old, e)
    <3>1. Becomes(t, r2) /\ r2.stage = "admit"
      BY <1>2, <2>2 DEF Set, Becomes, NoOp
    <3> QED
      BY <3>1, PairKept DEF Pairs
  <2> QED
    BY <2>1, <2>2
<1>3. ASSUME NEW t \in Threads, Peek(t)
      PROVE  SameRequest'
  BY <1>3, PairNextQueue DEF Peek, NextQueue
<1>4. ASSUME NEW t \in Threads,
             \/ \E k \in Keys : StorageRemove(t, k)
             \/ Clear(t) \/ SoftEvict(t) \/ SetPut(t) \/ UpdateUnqueue(t) \/ TouchUnmark(t)
             \/ TtlRemove(t) \/ RefreshFails(t) \/ TtlSettle(t)
      PROVE  SameRequest'
  <2>1. Return(t)
    BY <1>4 DEF StorageRemove, Clear, SoftEvict, SetPut, UpdateUnqueue, TouchUnmark,
                TtlRemove, RefreshFails, TtlSettle
  <2> QED
    BY <2>1, PairReturned
<1>5. ASSUME NEW t \in Threads,
             \/ TouchUse(t) \/ TouchExpired(t) \/ TouchMark(t) \/ TouchPush(t)
             \/ SetAdmit(t) \/ SetEvict(t) \/ UpdateSwap(t) \/ UpdateMem(t) \/ UpdateFresh(t)
             \/ RefreshStores(t) \/ RefreshFresh(t) \/ RefreshUnqueue(t)
      PROVE  SameRequest'
  <2>1. Return(t) \/ \E st \in Stages \ Pairs : Then(t, st)
    BY <1>5 DEF TouchUse, TouchExpired, TouchMark, TouchPush, SetAdmit, SetEvict, UpdateSwap,
                UpdateMem, UpdateFresh, RefreshStores, RefreshFresh, RefreshUnqueue,
                Stages, Pairs
  <2> QED
    BY <2>1, PairLeft, PairReturned
<1>6. ASSUME NEW t \in Threads, SetCompare(t)
      PROVE  SameRequest'
  <2>1. PICK st \in {"use", "weigh"} : Then(t, st)
    BY <1>6 DEF SetCompare
  <2>2. /\ Becomes(t, [op[t] EXCEPT !.stage = st]) /\ op'[t] = [op[t] EXCEPT !.stage = st]
        /\ op'[t].stage = st /\ op'[t].cur = op[t].cur /\ op'[t].new = op[t].new
    BY <2>1, ThenRecord DEF Stages
  <2>3. SamePrint(op[t].cur, op[t].new)
    BY <1>6 DEF SetCompare, At, SameRequest, Pairs
  <2> QED
    BY <2>2, <2>3, PairKept
<1>7. ASSUME NEW t \in Threads, UpdateWeigh(t)
      PROVE  SameRequest'
  <2> DEFINE r == [op[t] EXCEPT !.stage = "swap", !.bytes = WeightOf(New(t)) - WeightOf(Cur(t))]
  <2>1. Becomes(t, r) /\ r.cur = op[t].cur /\ r.new = op[t].new
    BY <1>7, <1>a DEF UpdateWeigh, Becomes, OpRecords
  <2>2. SamePrint(op[t].cur, op[t].new)
    BY <1>7 DEF UpdateWeigh, At, SameRequest, Pairs
  <2> QED
    BY <2>1, <2>2, PairKept
<1>8. ASSUME NEW t \in Threads, TtlWeigh(t)
      PROVE  SameRequest'
  <2> DEFINE r == [op[t] EXCEPT !.stage = "upstream", !.bytes = WeightOf(Cur(t))]
  <2>1. Becomes(t, r) /\ r.stage = "upstream"
    BY <1>8, <1>a DEF TtlWeigh, Becomes, OpRecords
  <2> QED
    BY <2>1, PairKept DEF Pairs
<1>9. ASSUME NEW t \in Threads, NEW s \in Shards, PeekPop(t, s)
      PROVE  SameRequest'
  <2> DEFINE todo == op[t].todo \ {s}
             r == [NoOp EXCEPT !.stage = "lookup", !.key = Head(rq[s]), !.todo = todo]
  <2>1. CASE rq[s] = <<>>
    BY <1>9, <2>1, PairNextQueue DEF PeekPop
  <2>2. CASE rq[s] # <<>>
    <3>1. Becomes(t, r) /\ r.stage = "lookup"
      BY <1>9, <2>2 DEF PeekPop, Becomes, NoOp
    <3> QED
      BY <3>1, PairKept DEF Pairs
  <2> QED
    BY <2>1, <2>2
<1>10. ASSUME NEW t \in Threads, NEW e, NEW st \in Stages \ Pairs,
              op' = [op EXCEPT ![t].stage = st, ![t].cur = e]
       PROVE  SameRequest'
  <2> DEFINE r == [op[t] EXCEPT !.stage = st, !.cur = e]
  <2>1. Becomes(t, r) /\ r.stage = st
    BY <1>10, <1>a DEF Becomes, OpRecords
  <2> QED
    BY <2>1, PairKept
<1>11. ASSUME NEW t \in Threads, PeekLookup(t)
       PROVE  SameRequest'
  <2>1. CASE items[op[t].key] = NoEntry
    BY <1>11, <2>1, PairNextQueue DEF PeekLookup
  <2>2. CASE items[op[t].key] # NoEntry
    <3>1. op' = [op EXCEPT ![t].stage = "check", ![t].cur = items[op[t].key]]
      BY <1>11, <2>2 DEF PeekLookup
    <3>2. "check" \in Stages \ Pairs
      BY DEF Stages, Pairs
    <3> QED
      BY <3>1, <3>2, <1>10
  <2> QED
    BY <2>1, <2>2
<1>12. ASSUME NEW t \in Threads, PeekCheck(t)
       PROVE  SameRequest'
  <2>1. Then(t, "on_ttl") \/ NextQueue(t, op[t].todo)
    BY <1>12 DEF PeekCheck
  <2>2. "on_ttl" \in Stages \ Pairs
    BY DEF Stages, Pairs
  <2> QED
    BY <2>1, <2>2, PairLeft, PairNextQueue
<1>13. ASSUME NEW t \in Threads, PeekSample(t)
       PROVE  SameRequest'
  <2>1. "on_ttl" \in Stages \ Pairs
    BY DEF Stages, Pairs
  <2> QED
    BY <1>13, <2>1, <1>10, PairReturned DEF PeekSample
<1>14. ASSUME NEW t \in Threads, MapWorks(t)
       PROVE  SameRequest'
  BY <1>14, <1>b DEF MapWorks
<1>15. ASSUME (\E e \in Entries : Expire(e)) \/ CloseStorage \/ Rest \/ UNCHANGED storageVars
       PROVE  SameRequest'
  BY <1>15, <1>b DEF Expire, CloseStorage, Rest, storageVars
<1> QED
  BY <1>1, <1>2, <1>3, <1>4, <1>5, <1>6, <1>7, <1>8, <1>9, <1>11, <1>12, <1>13, <1>14, <1>15
    DEF StorageNext, StorageCall, StorageStep

\* Payloads change only where update and refresh store one.
LEMMA PayloadStep ==
  ASSUME [StorageNext]_storageVars
  PROVE  \/ UNCHANGED payload
         \/ \E t \in Threads : UpdateSwap(t) \/ RefreshStores(t)
<1>1. ASSUME NEW t \in Threads, MapWorks(t)
      PROVE  UNCHANGED payload
  BY <1>1 DEF MapWorks, Continue, SetMem, SetLen, RemoveLen, RemoveMem, AddShardMem, EvictStop,
              EvictNextShard, EvictPop, EvictPick, EvictPickNone, EvictRemove, EvictMissed,
              EvictMem, EvictLen, ClearDone, ClearLock, ClearZero, ClearMem, ClearLen
<1>2. ASSUME NEW t \in Threads, StorageCall(t)
      PROVE  UNCHANGED payload
  BY <1>2 DEF StorageCall, Get, Set, StorageRemove, Clear, SoftEvict, Peek, RemoveShard,
              ClearBegin, EvictBegin, mapVars
<1>3. ASSUME NEW t \in Threads,
             \/ TouchUse(t) \/ TouchExpired(t) \/ TouchMark(t) \/ TouchPush(t) \/ TouchUnmark(t)
             \/ SetCompare(t) \/ SetAdmit(t) \/ SetEvict(t) \/ SetPut(t)
             \/ UpdateWeigh(t) \/ UpdateMem(t) \/ UpdateFresh(t) \/ UpdateUnqueue(t)
      PROVE  UNCHANGED payload
  BY <1>3 DEF TouchUse, TouchExpired, TouchMark, TouchPush, TouchUnmark, SetCompare, SetAdmit,
              SetEvict, SetPut, UpdateWeigh, UpdateMem, UpdateFresh, UpdateUnqueue,
              TouchLru, Settle, AddMem, EvictBegin, SetShard, mapVars
<1>4. ASSUME NEW t \in Threads,
             \/ \E s \in Shards : PeekPop(t, s)
             \/ PeekLookup(t) \/ PeekCheck(t) \/ PeekSample(t)
             \/ TtlRemove(t) \/ TtlWeigh(t) \/ RefreshFails(t)
             \/ RefreshFresh(t) \/ RefreshUnqueue(t) \/ TtlSettle(t)
      PROVE  UNCHANGED payload
  BY <1>4 DEF PeekPop, PeekLookup, PeekCheck, PeekSample, TtlRemove, TtlWeigh, RefreshFails,
              RefreshFresh, RefreshUnqueue, TtlSettle, Settle, AddMem, RemoveShard, mapVars
<1>5. ASSUME (\E e \in Entries : Expire(e)) \/ CloseStorage \/ Rest \/ UNCHANGED storageVars
      PROVE  UNCHANGED payload
  BY <1>5 DEF Expire, CloseStorage, Close, Rest, storageVars, mapVars
<1> QED
  BY <1>1, <1>2, <1>3, <1>4, <1>5 DEF StorageNext, StorageStep

\* A step keeps every answer with its request: an update stores the payload of
\* an entry of the same request, a refresh the answer to the entry's request.
LEMMA AnswersStep ==
  ASSUME TypeOK, StorageTypeOK, SameRequest, AnswersMatch, [StorageNext]_storageVars
  PROVE  AnswersMatch'
<1>1. CASE UNCHANGED payload
  BY <1>1 DEF AnswersMatch
<1>2. ASSUME NEW t \in Threads, UpdateSwap(t)
      PROVE  AnswersMatch'
  <2>1. op[t].cur \in Entries /\ op[t].new \in Entries
    BY <1>2 DEF UpdateSwap, At, StorageTypeOK, OpOK, Holding, Bringing
  <2>2. PrintOf[op[t].cur] = PrintOf[op[t].new]
    BY <1>2 DEF UpdateSwap, At, SameRequest, SamePrint, Pairs
  <2>3. payload' = [payload EXCEPT ![op[t].cur] = payload[op[t].new]]
    BY <1>2 DEF UpdateSwap, StorePayload, Cur, New
  <2> QED
    BY <2>1, <2>2, <2>3 DEF AnswersMatch, TypeOK
<1>3. ASSUME NEW t \in Threads, RefreshStores(t)
      PROVE  AnswersMatch'
  <2>1. PICK p \in Payloads : AnswerTo[p] = PrintOf[Cur(t)] /\ StorePayload(Cur(t), p)
    BY <1>3 DEF RefreshStores
  <2>2. payload' = [payload EXCEPT ![Cur(t)] = p]
    BY <2>1 DEF StorePayload
  <2> QED
    BY <2>1, <2>2 DEF AnswersMatch, TypeOK
<1> QED
  BY <1>1, <1>2, <1>3, PayloadStep

\* A hit never serves the response to another request, for any number of
\* threads and entries that share keys.
THEOREM AnswersAlwaysMatch == StorageSpec => []AnswersMatch
<1>1. StorageInit => SameRequest /\ AnswersMatch
  <2> SUFFICES ASSUME StorageInit
               PROVE  SameRequest /\ AnswersMatch
    OBVIOUS
  <2>1. SameRequest
    BY NoOpRecord DEF StorageInit, SameRequest, Pairs
  <2>2. AnswersMatch
    BY StorageConstants DEF StorageInit, Init, AnswersMatch
  <2> QED
    BY <2>1, <2>2
<1>2. /\ IndInv /\ StorageTypeOK /\ SameRequest /\ AnswersMatch /\ [StorageNext]_storageVars
      => SameRequest' /\ AnswersMatch'
  BY PairStep, AnswersStep DEF IndInv
<1> QED
  BY <1>1, <1>2, StorageInitOK, StorageInvStep, PTL DEF StorageSpec

(***************************************************************************)
(* Part 3: calls that take turns                                           *)
(***************************************************************************)

\* What every key weighs, nothing where the map holds none; the keys of a shard.
Load == [k \in Keys |-> IF items[k] = NoEntry THEN 0 ELSE WeightOf(items[k])]
KeysIn(s) == {k \in Keys : ShardOf[k] = s}

\* The bytes of the map are the sum of the loads over all keys.
LEMMA LoadBytes ==
  ASSUME TypeOK
  PROVE  /\ BytesOf(Present) = SumFunctionOnSet(Load, Keys)
         /\ \A s \in Shards : BytesOf(PresentIn(s)) = SumFunctionOnSet(Load, KeysIn(s))
<1>1. items \in [Keys -> Entries \cup {NoEntry}] /\ payload \in [Entries -> Payloads]
  BY DEF TypeOK
<1>2. \A k \in Keys : Load[k] \in Int
  BY <1>1, MapConstants DEF Load, WeightOf
<1>3. ASSUME NEW S \in SUBSET Keys, NEW P \in SUBSET S,
             \A k \in S : k \in P <=> items[k] # NoEntry
      PROVE  BytesOf(P) = SumFunctionOnSet(Load, S)
  <2>1. IsFiniteSet(S) /\ IsFiniteSet(P) /\ IsFiniteSet(S \ P)
    BY MapConstants, FS_Subset
  <2>2. SumFunctionOnSet(Load, S) = SumFunctionOnSet(Load, P) + SumFunctionOnSet(Load, S \ P)
    <3>1. \A k \in S : Load[k] \in Int
      BY <1>2
    <3> QED
      BY <2>1, <3>1, SumSplit
  <2>3. SumFunctionOnSet(Load, S \ P) = 0
    <3>1. \A k \in S \ P : Load[k] = 0
      BY <1>3 DEF Load
    <3> QED
      BY <2>1, <3>1, SumZero
  <2>4. SumFunctionOnSet(Load, P) = BytesOf(P)
    <3> DEFINE f == [k \in P |-> WeightOf(items[k])]
    <3>1. \A k \in P : Load[k] = f[k]
      BY <1>3 DEF Load
    <3> HIDE DEF f
    <3>2. SumFunctionOnSet(Load, P) = SumFunctionOnSet(f, P)
      BY <2>1, <3>1, SumSame
    <3> QED
      BY <3>2 DEF BytesOf, f
  <2>5. SumFunctionOnSet(Load, P) \in Int
    <3>1. \A k \in P : Load[k] \in Int
      BY <1>2
    <3> QED
      BY <2>1, <3>1, SumInt
  <2> QED
    BY <2>2, <2>3, <2>4, <2>5
<1>4. BytesOf(Present) = SumFunctionOnSet(Load, Keys)
  <2>1. Present \in SUBSET Keys /\ \A k \in Keys : k \in Present <=> items[k] # NoEntry
    BY DEF Present
  <2>2. Keys \in SUBSET Keys
    OBVIOUS
  <2> QED
    BY <1>3, <2>1, <2>2
<1>5. ASSUME NEW s \in Shards
      PROVE  BytesOf(PresentIn(s)) = SumFunctionOnSet(Load, KeysIn(s))
  <2>1. /\ KeysIn(s) \in SUBSET Keys /\ PresentIn(s) \in SUBSET KeysIn(s)
        /\ \A k \in KeysIn(s) : k \in PresentIn(s) <=> items[k] # NoEntry
    BY DEF Present, PresentIn, KeysIn
  <2> QED
    BY <1>3, <2>1
<1> QED
  BY <1>4, <1>5

\* Loads are integers.
LEMMA LoadType ==
  ASSUME TypeOK, TypeOK'
  PROVE  \A k \in Keys : Load[k] \in Int /\ Load'[k] \in Int
<1>1. /\ items \in [Keys -> Entries \cup {NoEntry}] /\ payload \in [Entries -> Payloads]
      /\ items' \in [Keys -> Entries \cup {NoEntry}] /\ payload' \in [Entries -> Payloads]
  BY DEF TypeOK
<1> QED
  BY <1>1, MapConstants DEF Load, WeightOf

\* The load of the key k grows by d, the others stay.
Reload(k, d) ==
  /\ Load'[k] = Load[k] + d
  /\ \A j \in Keys \ {k} : Load'[j] = Load[j]

\* A change of one load changes the total and the sum of its shard by as much.
LEMMA LoadPoint ==
  ASSUME TypeOK, TypeOK', NEW k \in Keys, NEW d \in Int, Reload(k, d)
  PROVE  /\ SumFunctionOnSet(Load', Keys) = SumFunctionOnSet(Load, Keys) + d
         /\ \A s \in Shards : SumFunctionOnSet(Load', KeysIn(s))
                = SumFunctionOnSet(Load, KeysIn(s)) + (IF s = ShardOf[k] THEN d ELSE 0)
<1> DEFINE f == Load
           g == Load'
<1>1. \A j \in Keys : f[j] \in Int /\ g[j] \in Int
  BY LoadType
<1>2. g[k] = f[k] + d /\ \A j \in Keys \ {k} : g[j] = f[j]
  BY DEF Reload
<1> HIDE DEF f, g
<1>3. ASSUME NEW S \in SUBSET Keys
      PROVE  /\ SumFunctionOnSet(f, S) \in Int
             /\ SumFunctionOnSet(g, S) = SumFunctionOnSet(f, S) + (IF k \in S THEN d ELSE 0)
  <2>1. IsFiniteSet(S)
    BY MapConstants, FS_Subset
  <2>2. SumFunctionOnSet(f, S) \in Int
    <3>1. \A x \in S : f[x] \in Int
      BY <1>1
    <3> QED
      BY <2>1, <3>1, SumInt
  <2>3. CASE k \in S
    <3>1. /\ \A x \in S : f[x] \in Int /\ g[x] \in Int
          /\ \A x \in S \ {k} : g[x] = f[x]
      BY <1>1, <1>2
    <3>2. SumFunctionOnSet(g, S) = SumFunctionOnSet(f, S) + g[k] - f[k]
      BY <2>1, <2>3, <3>1, SumPoint
    <3> QED
      BY <1>1, <1>2, <2>2, <2>3, <3>2
  <2>4. CASE k \notin S
    <3>1. \A x \in S : g[x] = f[x]
      BY <1>2, <2>4
    <3>2. SumFunctionOnSet(g, S) = SumFunctionOnSet(f, S)
      BY <2>1, <3>1, SumSame
    <3> QED
      BY <2>2, <2>4, <3>2
  <2> QED
    BY <2>2, <2>3, <2>4
<1>4. SumFunctionOnSet(g, Keys) = SumFunctionOnSet(f, Keys) + d
  <2>1. Keys \in SUBSET Keys
    OBVIOUS
  <2> QED
    BY <1>3, <2>1
<1>5. ASSUME NEW s \in Shards
      PROVE  SumFunctionOnSet(g, KeysIn(s))
               = SumFunctionOnSet(f, KeysIn(s)) + (IF s = ShardOf[k] THEN d ELSE 0)
  <2>1. KeysIn(s) \in SUBSET Keys /\ (k \in KeysIn(s) <=> s = ShardOf[k])
    BY DEF KeysIn
  <2> QED
    BY <1>3, <2>1
<1> QED
  BY <1>4, <1>5 DEF f, g

\* What a call of the map still owes Map.mem, and the byte counter of shard s.
MapOwes(t) == IF pc[t] \in {"clr_zero", "add_shard"} THEN 0 ELSE dmem[t]
ShardOwes(t, s) == IF pc[t] = "add_shard" /\ at[t] = s THEN dmem[t] ELSE 0

\* Where a thread in a call of the map owes nothing, and what clear has loaded.
DebtOK(t) ==
  /\ pc[t] = "clr_zero" => dmem[t] = -smem[at[t]]
  /\ pc[t] \notin {"set_mem", "rm_len", "rm_mem", "add_shard", "ev_mem", "clr_zero", "clr_mem"}
       => dmem[t] = 0

\* Both counters, together with what t owes them in the map, grow by d bytes
\* of the key k.
Transfer(t, k, d) ==
  /\ mem' + MapOwes(t)' = (mem + MapOwes(t)) + d
  /\ \A s \in Shards : smem'[s] + ShardOwes(t, s)'
                         = (smem[s] + ShardOwes(t, s)) + (IF s = ShardOf[k] THEN d ELSE 0)

\* Shard::clear empties a shard; the thread owes the bytes it has loaded.
Emptied(t) ==
  /\ pc[t] = "clr_zero" /\ at[t] \in Shards
  /\ items' = [k \in Keys |-> IF ShardOf[k] = at[t] THEN NoEntry ELSE items[k]]
  /\ smem' = [smem EXCEPT ![at[t]] = 0]
  /\ mem' = mem /\ payload' = payload
  /\ MapOwes(t) = 0 /\ MapOwes(t)' = -smem[at[t]]
  /\ \A s \in Shards : ShardOwes(t, s) = 0 /\ ShardOwes(t, s)' = 0

\* How a step inside the map moves the byte counters.
Moves(t) ==
  \/ \E k \in Keys, d \in Int : Transfer(t, k, d) /\ Reload(k, d)
  \/ Emptied(t)

\* Where no entry and no payload changes, no load does.
LEMMA SameLoad ==
  ASSUME TypeOK, TypeOK', UNCHANGED <<items, payload>>, NEW k \in Keys
  PROVE  Reload(k, 0)
<1>1. Load' = Load
  BY DEF Load, WeightOf
<1>2. \A j \in Keys : Load[j] \in Int
  BY LoadType
<1> QED
  BY <1>1, <1>2 DEF Reload

\* A step that leaves the counters and the thread's debt alone.
LEMMA QuietMove ==
  ASSUME TypeOK, TypeOK', NEW t \in Threads, DebtOK(t),
         UNCHANGED <<items, payload, smem, mem, dmem>>,
         pc[t] \notin {"set_mem", "rm_mem", "add_shard", "ev_mem", "clr_zero", "clr_mem"},
         pc'[t] \notin {"add_shard", "clr_zero", "clr_mem"},
         pc[t] = "rm_len" => pc'[t] = "rm_mem"
  PROVE  Moves(t) /\ DebtOK(t)'
<1>1. PICK k \in Keys : TRUE
  BY MapConstants
<1>2. Reload(k, 0)
  BY SameLoad
<1>3. /\ dmem[t] \in Int /\ mem \in Int /\ \A s \in Shards : smem[s] \in Int
  BY DEF TypeOK
<1>4. MapOwes(t)' = MapOwes(t) /\ MapOwes(t) \in Int
  BY <1>3 DEF MapOwes
<1>5. \A s \in Shards : ShardOwes(t, s)' = 0 /\ ShardOwes(t, s) = 0
  BY DEF ShardOwes
<1>6. Transfer(t, k, 0)
  <2>1. mem' + MapOwes(t)' = (mem + MapOwes(t)) + 0
    BY <1>3, <1>4
  <2>2. \A s \in Shards : smem'[s] + ShardOwes(t, s)'
                         = (smem[s] + ShardOwes(t, s)) + (IF s = ShardOf[k] THEN 0 ELSE 0)
    BY <1>3, <1>5
  <2> QED
    BY <2>1, <2>2 DEF Transfer
<1>7. DebtOK(t)'
  BY DEF DebtOK
<1> QED
  BY <1>2, <1>6, <1>7 DEF Moves

\* A fetch_add of the debt to Map.mem.
LEMMA PayMove ==
  ASSUME TypeOK, TypeOK', NEW t \in Threads, AddGlobalMem(t),
         UNCHANGED <<items, payload, smem>>,
         pc[t] \notin {"add_shard", "clr_zero"},
         NEW l \in {"set_len", "idle", "ev_len", "clr_len"}, pc' = [pc EXCEPT ![t] = l]
  PROVE  Moves(t) /\ DebtOK(t)'
<1>1. PICK k \in Keys : TRUE
  BY MapConstants
<1>2. Reload(k, 0)
  BY SameLoad
<1>3. /\ dmem \in [Threads -> Int] /\ mem \in Int /\ \A s \in Shards : smem[s] \in Int
      /\ pc \in [Threads -> Locations]
  BY DEF TypeOK
<1>4. pc'[t] = l /\ mem' = mem + dmem[t] /\ dmem'[t] = 0
  BY <1>3 DEF AddGlobalMem
<1>5. MapOwes(t)' = 0 /\ MapOwes(t) = dmem[t]
  BY <1>4 DEF MapOwes
<1>6. \A s \in Shards : ShardOwes(t, s)' = 0 /\ ShardOwes(t, s) = 0
  BY <1>4 DEF ShardOwes
<1>7. Transfer(t, k, 0)
  <2>1. mem' + MapOwes(t)' = (mem + MapOwes(t)) + 0
    BY <1>3, <1>4, <1>5
  <2>2. \A s \in Shards : smem'[s] + ShardOwes(t, s)'
                         = (smem[s] + ShardOwes(t, s)) + (IF s = ShardOf[k] THEN 0 ELSE 0)
    BY <1>3, <1>6
  <2> QED
    BY <2>1, <2>2 DEF Transfer
<1>8. DebtOK(t)'
  BY <1>4 DEF DebtOK
<1> QED
  BY <1>2, <1>7, <1>8 DEF Moves

\* One shard counter and the debt to Map.mem change together.
LEMMA OweMove ==
  ASSUME TypeOK, TypeOK', NEW t \in Threads, DebtOK(t), NEW k \in Keys, NEW d \in Int,
         pc[t] \in {"idle", "ev_pop", "ev_lock"},
         mem' = mem, smem' = [smem EXCEPT ![ShardOf[k]] = @ + d],
         dmem' = [dmem EXCEPT ![t] = d],
         NEW l \in {"set_mem", "rm_len", "ev_mem"}, pc' = [pc EXCEPT ![t] = l],
         Reload(k, d)
  PROVE  Moves(t) /\ DebtOK(t)'
<1>1. /\ dmem \in [Threads -> Int] /\ mem \in Int /\ smem \in [Shards -> Int]
      /\ pc \in [Threads -> Locations]
  BY DEF TypeOK
<1>2. pc'[t] = l /\ dmem'[t] = d /\ dmem[t] = 0
  BY <1>1 DEF DebtOK
<1>3. MapOwes(t)' = d /\ MapOwes(t) = 0
  BY <1>2 DEF MapOwes
<1>4. \A s \in Shards : ShardOwes(t, s)' = 0 /\ ShardOwes(t, s) = 0
  BY <1>2 DEF ShardOwes
<1>5. \A s \in Shards : smem'[s] = smem[s] + (IF s = ShardOf[k] THEN d ELSE 0) /\ smem[s] \in Int
  BY <1>1
<1>6. Transfer(t, k, d)
  <2>1. mem' + MapOwes(t)' = (mem + MapOwes(t)) + d
    BY <1>1, <1>3
  <2>2. \A s \in Shards : smem'[s] + ShardOwes(t, s)'
                         = (smem[s] + ShardOwes(t, s)) + (IF s = ShardOf[k] THEN d ELSE 0)
    BY <1>4, <1>5
  <2> QED
    BY <2>1, <2>2 DEF Transfer
<1>7. DebtOK(t)'
  BY <1>2 DEF DebtOK
<1> QED
  BY <1>6, <1>7 DEF Moves

\* Shard::set: the key's load becomes that of the new entry.
LEMMA SetMoves ==
  ASSUME TypeOK, TypeOK', NEW t \in Threads, DebtOK(t), NEW e \in Entries, SetShard(t, e)
  PROVE  Moves(t) /\ DebtOK(t)'
<1> DEFINE k == KeyOf[e]
           d == BytesDelta(e)
<1>1. /\ pc[t] = "idle" /\ pc' = [pc EXCEPT ![t] = "set_mem"]
      /\ items' = [items EXCEPT ![k] = e]
      /\ smem' = [smem EXCEPT ![ShardOf[k]] = @ + d]
      /\ dmem' = [dmem EXCEPT ![t] = d]
      /\ mem' = mem /\ payload' = payload
  BY DEF SetShard, Goto, globalVars
<1>2. /\ items \in [Keys -> Entries \cup {NoEntry}] /\ payload \in [Entries -> Payloads]
      /\ k \in Keys /\ e # NoEntry
  BY MapConstants DEF TypeOK
<1>3. \A x \in Entries : WeightOf(x) \in Int /\ WeightOf(x)' = WeightOf(x)
  BY <1>1, <1>2, MapConstants DEF WeightOf
<1>4. d = WeightOf(e) - Load[k] /\ Load[k] \in Int
  BY <1>2, <1>3 DEF BytesDelta, Load
<1>5. Load'[k] = WeightOf(e)
  BY <1>1, <1>2, <1>3 DEF Load
<1>6. \A j \in Keys \ {k} : Load'[j] = Load[j]
  BY <1>1, <1>2 DEF Load, WeightOf
<1> HIDE DEF d, k
<1>7. Reload(k, d) /\ d \in Int
  BY <1>2, <1>3, <1>4, <1>5, <1>6 DEF Reload
<1> QED
  BY <1>1, <1>2, <1>7, OweMove

\* Shard::remove_unlocked: the key's load becomes zero.
LEMMA RemoveMoves ==
  ASSUME TypeOK, TypeOK', NEW t \in Threads, DebtOK(t), NEW k \in Keys,
         pc[t] \in {"idle", "ev_pop", "ev_lock"}, items[k] # NoEntry,
         RemoveUnlocked(t, k), mem' = mem, payload' = payload,
         NEW l \in {"rm_len", "ev_mem"}, pc' = [pc EXCEPT ![t] = l]
  PROVE  Moves(t) /\ DebtOK(t)'
<1> DEFINE w == WeightOf(items[k])
           d == -w
<1>1. /\ items' = [items EXCEPT ![k] = NoEntry]
      /\ smem' = [smem EXCEPT ![ShardOf[k]] = @ - w]
      /\ dmem' = [dmem EXCEPT ![t] = d]
  BY DEF RemoveUnlocked
<1>2. /\ items \in [Keys -> Entries \cup {NoEntry}] /\ payload \in [Entries -> Payloads]
      /\ smem \in [Shards -> Int] /\ ShardOf[k] \in Shards
  BY MapConstants DEF TypeOK
<1>3. w \in Int /\ Load[k] = w
  BY <1>2, MapConstants DEF WeightOf, Load
<1>4. Load'[k] = 0 /\ \A j \in Keys \ {k} : Load'[j] = Load[j]
  BY <1>1, <1>2 DEF Load, WeightOf
<1> HIDE DEF w
<1>5. d \in Int /\ Reload(k, d)
  BY <1>3, <1>4 DEF Reload
<1>6. smem' = [smem EXCEPT ![ShardOf[k]] = @ + d]
  <2>1. smem[ShardOf[k]] - w = smem[ShardOf[k]] + d
    BY <1>2, <1>3
  <2> QED
    BY <1>1, <2>1
<1> HIDE DEF d
<1> QED
  BY <1>1, <1>5, <1>6, OweMove

\* Map::add_mem adds to Map.mem and owes the shard the same; nothing moves yet.
LEMMA AddMoves ==
  ASSUME TypeOK, TypeOK', NEW t \in Threads, DebtOK(t), NEW k \in Keys, NEW d \in Int,
         AddMem(t, k, d)
  PROVE  Transfer(t, k, d) /\ DebtOK(t)' /\ UNCHANGED <<items, payload>>
<1>1. /\ dmem \in [Threads -> Int] /\ mem \in Int /\ smem \in [Shards -> Int]
      /\ pc \in [Threads -> Locations] /\ at \in [Threads -> 0..NumShards]
  BY DEF TypeOK
<1>2. /\ pc[t] = "idle" /\ pc'[t] = "add_shard" /\ mem' = mem + d
      /\ at'[t] = ShardOf[k] /\ dmem'[t] = d /\ UNCHANGED <<items, payload, smem>>
  BY <1>1 DEF AddMem, Goto, shardVars
<1>3. dmem[t] = 0
  BY <1>2 DEF DebtOK
<1>4. MapOwes(t)' = 0 /\ MapOwes(t) = 0
  BY <1>2, <1>3 DEF MapOwes
<1>5. \A s \in Shards : /\ ShardOwes(t, s)' = (IF s = ShardOf[k] THEN d ELSE 0)
                        /\ ShardOwes(t, s) = 0
  BY <1>2 DEF ShardOwes
<1>6. Transfer(t, k, d)
  <2>1. mem' + MapOwes(t)' = (mem + MapOwes(t)) + d
    BY <1>1, <1>2, <1>4
  <2>2. \A s \in Shards : smem'[s] + ShardOwes(t, s)'
                         = (smem[s] + ShardOwes(t, s)) + (IF s = ShardOf[k] THEN d ELSE 0)
    BY <1>1, <1>2, <1>5
  <2> QED
    BY <2>1, <2>2 DEF Transfer
<1>7. DebtOK(t)'
  BY <1>2 DEF DebtOK
<1> QED
  BY <1>2, <1>6, <1>7

\* Every step inside a call of the map moves the byte counters soundly.
LEMMA ContinueMoves ==
  ASSUME TypeOK, TypeOK', LocalsOK, LruCoversItems, NEW t \in Threads, DebtOK(t), Continue(t)
  PROVE  Moves(t) /\ DebtOK(t)'
<1> DEFINE Goal == Moves(t) /\ DebtOK(t)'
<1>0. /\ pc \in [Threads -> Locations] /\ at \in [Threads -> 0..NumShards]
      /\ dmem \in [Threads -> Int] /\ mem \in Int
      /\ smem \in [Shards -> Int] /\ items \in [Keys -> Entries \cup {NoEntry}]
  BY DEF TypeOK
<1>1. ASSUME UNCHANGED <<items, payload, smem, mem, dmem>>,
             pc[t] \notin {"set_mem", "rm_mem", "add_shard", "ev_mem", "clr_zero", "clr_mem"},
             pc'[t] \notin {"add_shard", "clr_zero", "clr_mem"},
             pc[t] = "rm_len" => pc'[t] = "rm_mem"
      PROVE  Goal
  BY <1>1, QuietMove
<1>2. ASSUME AddGlobalMem(t), UNCHANGED <<items, payload, smem>>,
             pc[t] \notin {"add_shard", "clr_zero"},
             NEW l \in {"set_len", "idle", "ev_len", "clr_len"}, pc' = [pc EXCEPT ![t] = l]
      PROVE  Goal
  BY <1>2, PayMove
<1>3. ASSUME NEW k \in Keys, pc[t] \in {"ev_pop", "ev_lock"}, items[k] # NoEntry,
             RemoveUnlocked(t, k), mem' = mem, payload' = payload,
             pc' = [pc EXCEPT ![t] = "ev_mem"]
      PROVE  Goal
  BY <1>3, RemoveMoves
<1> HIDE DEF Goal
<1>4. ASSUME SetLen(t)
      PROVE  Goal
  BY <1>0, <1>1, <1>4 DEF SetLen, Goto, AddGlobalLen, shardVars, globalVars
<1>5. ASSUME RemoveLen(t)
      PROVE  Goal
  BY <1>0, <1>1, <1>5 DEF RemoveLen, Goto, AddGlobalLen, shardVars, globalVars
<1>6. ASSUME EvictStop(t)
      PROVE  Goal
  BY <1>0, <1>1, <1>6 DEF EvictStop, Goto, shardVars, globalVars
<1>7. ASSUME NEW s \in Shards, EvictNextShard(t, s)
      PROVE  Goal
  BY <1>0, <1>1, <1>7 DEF EvictNextShard, Goto, shardVars, globalVars
<1>8. ASSUME NEW k \in Keys, EvictPick(t, k)
      PROVE  Goal
  BY <1>0, <1>1, <1>8 DEF EvictPick, Goto, shardVars, globalVars
<1>9. ASSUME EvictPickNone(t)
      PROVE  Goal
  BY <1>0, <1>1, <1>9 DEF EvictPickNone, Goto, shardVars, globalVars
<1>10. ASSUME EvictMissed(t)
      PROVE  Goal
  BY <1>0, <1>1, <1>10 DEF EvictMissed, Goto, shardVars, globalVars
<1>11. ASSUME EvictLen(t)
      PROVE  Goal
  BY <1>0, <1>1, <1>11 DEF EvictLen, Goto, AddGlobalLen, shardVars, globalVars
<1>12. ASSUME ClearDone(t)
      PROVE  Goal
  BY <1>0, <1>1, <1>12 DEF ClearDone, Goto, shardVars, globalVars
<1>13. ASSUME ClearLen(t)
      PROVE  Goal
  BY <1>0, <1>1, <1>13 DEF ClearLen, Goto, AddGlobalLen, shardVars, globalVars
<1>14. ASSUME SetMem(t)
      PROVE  Goal
  BY <1>2, <1>14 DEF SetMem, Goto, shardVars
<1>15. ASSUME RemoveMem(t)
      PROVE  Goal
  BY <1>2, <1>15 DEF RemoveMem, Goto, shardVars
<1>16. ASSUME EvictMem(t)
      PROVE  Goal
  BY <1>2, <1>16 DEF EvictMem, Goto, shardVars
<1>17. ASSUME ClearMem(t)
      PROVE  Goal
  BY <1>2, <1>17 DEF ClearMem, Goto, shardVars
<1>18. ASSUME EvictRemove(t)
      PROVE  Goal
  <2>1. /\ pc[t] = "ev_lock" /\ pc' = [pc EXCEPT ![t] = "ev_mem"]
        /\ items[victim[t]] # NoEntry /\ RemoveUnlocked(t, victim[t])
        /\ mem' = mem /\ payload' = payload
    BY <1>18 DEF EvictRemove, Goto, globalVars
  <2>2. victim[t] \in Keys
    BY DEF TypeOK
  <2> QED
    BY <1>3, <2>1, <2>2
<1>19. ASSUME EvictPop(t)
      PROVE  Goal
  <2> DEFINE k == Last(lru[at[t]])
  <2>1. pc[t] = "ev_pop" /\ mem' = mem /\ payload' = payload
    BY <1>19 DEF EvictPop, globalVars
  <2>2. CASE lru[at[t]] # <<>> /\ items[k] # NoEntry
    <3>1. k \in Keys
      <4>1. at[t] \in Shards /\ Listing
        BY <2>1 DEF LocalsOK, LocalOK
      <4> QED
        BY <2>2, <4>1, TailInShard
    <3>2. RemoveUnlocked(t, k) /\ pc' = [pc EXCEPT ![t] = "ev_mem"] /\ items[k] # NoEntry
      BY <1>19, <2>2 DEF EvictPop, Goto
    <3> HIDE DEF k
    <3> QED
      BY <1>3, <2>1, <3>1, <3>2
  <2>3. CASE ~(lru[at[t]] # <<>> /\ items[k] # NoEntry)
    <3>1. pc' = [pc EXCEPT ![t] = "ev_check"] /\ UNCHANGED <<items, smem, dmem>>
      BY <1>19, <2>3 DEF EvictPop, Goto
    <3> QED
      BY <1>0, <1>1, <2>1, <3>1
  <2> QED
    BY <2>2, <2>3
<1>20. ASSUME ClearLock(t)
      PROVE  Goal
  <2>1. /\ pc[t] = "clr_next" /\ pc'[t] = "clr_zero" /\ at[t] \in Shards
        /\ dmem'[t] = -smem[at[t]]
        /\ UNCHANGED <<items, payload, smem, mem, at>>
    BY <1>0, <1>20 DEF ClearLock, Goto, globalVars
  <2>2. MapOwes(t) = 0 /\ MapOwes(t)' = 0
    BY <2>1 DEF MapOwes, DebtOK
  <2>3. \A s \in Shards : ShardOwes(t, s) = 0 /\ ShardOwes(t, s)' = 0
    BY <2>1 DEF ShardOwes
  <2>4. PICK k \in Keys : TRUE
    BY MapConstants
  <2>5. Reload(k, 0)
    BY <2>1, SameLoad
  <2>6. Transfer(t, k, 0)
    BY <1>0, <2>1, <2>2, <2>3 DEF Transfer
  <2>7. DebtOK(t)'
    BY <2>1 DEF DebtOK
  <2> QED
    BY <2>5, <2>6, <2>7 DEF Moves, Goal
<1>21. ASSUME ClearZero(t)
      PROVE  Goal
  <2>1. /\ pc[t] = "clr_zero" /\ pc'[t] = "clr_mem"
        /\ items' = [k \in Keys |-> IF ShardOf[k] = at[t] THEN NoEntry ELSE items[k]]
        /\ smem' = [smem EXCEPT ![at[t]] = 0]
        /\ UNCHANGED <<payload, mem, at, dmem>>
    BY <1>0, <1>21 DEF ClearZero, Goto, globalVars
  <2>2. at[t] \in Shards
    BY <2>1 DEF LocalsOK, LocalOK
  <2>3. MapOwes(t) = 0 /\ MapOwes(t)' = -smem[at[t]]
    BY <2>1 DEF MapOwes, DebtOK
  <2>4. \A s \in Shards : ShardOwes(t, s) = 0 /\ ShardOwes(t, s)' = 0
    BY <2>1 DEF ShardOwes
  <2>5. Emptied(t)
    BY <2>1, <2>2, <2>3, <2>4 DEF Emptied
  <2>6. DebtOK(t)'
    BY <2>1 DEF DebtOK
  <2> QED
    BY <2>5, <2>6 DEF Moves, Goal
<1>22. ASSUME AddShardMem(t)
      PROVE  Goal
  <2>1. /\ pc[t] = "add_shard" /\ pc'[t] = "idle" /\ dmem'[t] = 0
        /\ smem' = [smem EXCEPT ![at[t]] = @ + dmem[t]]
        /\ UNCHANGED <<items, payload, mem>>
    BY <1>0, <1>22 DEF AddShardMem, Goto, globalVars
  <2>2. MapOwes(t) = 0 /\ MapOwes(t)' = 0
    BY <2>1 DEF MapOwes
  <2>3. \A s \in Shards : /\ ShardOwes(t, s) = IF s = at[t] THEN dmem[t] ELSE 0
                          /\ ShardOwes(t, s)' = 0
    BY <2>1 DEF ShardOwes
  <2>4. \A s \in Shards : smem'[s] + ShardOwes(t, s)' = smem[s] + ShardOwes(t, s)
    BY <1>0, <2>1, <2>3
  <2>5. \A s \in Shards : smem[s] + ShardOwes(t, s) \in Int
    BY <1>0, <2>3
  <2>6. PICK k \in Keys : TRUE
    BY MapConstants
  <2>7. Reload(k, 0)
    BY <2>1, SameLoad
  <2>8. Transfer(t, k, 0)
    <3>1. mem' + MapOwes(t)' = (mem + MapOwes(t)) + 0
      BY <1>0, <2>1, <2>2
    <3>2. \A s \in Shards : smem'[s] + ShardOwes(t, s)'
                         = (smem[s] + ShardOwes(t, s)) + (IF s = ShardOf[k] THEN 0 ELSE 0)
      BY <2>4, <2>5
    <3> QED
      BY <3>1, <3>2 DEF Transfer
  <2>9. DebtOK(t)'
    BY <2>1 DEF DebtOK
  <2> QED
    BY <2>7, <2>8, <2>9 DEF Moves, Goal
<1> QED
  BY <1>4, <1>5, <1>6, <1>7, <1>8, <1>9, <1>10, <1>11, <1>12, <1>13, <1>14, <1>15,
     <1>16, <1>17, <1>18, <1>19, <1>20, <1>21, <1>22 DEF Continue, Goal

\* What a storage call that has stored a payload has still to tell both byte
\* counters: the difference it has computed, or will compute (Grown).
Owing == {"add_mem", "refreshed", "settle", "reweigh"}
Unsettled(t) ==
  IF op[t].stage \notin Owing THEN 0
  ELSE IF op[t].stage = "add_mem" THEN op[t].bytes ELSE Grown(t)
UnsettledIn(t, s) == IF Unsettled(t) # 0 /\ ShardOf[CurKey(t)] = s THEN Unsettled(t) ELSE 0

\* Both counters are exact up to what the call of t owes them.
Balanced(t) ==
  /\ (mem + MapOwes(t)) + Unsettled(t) = SumFunctionOnSet(Load, Keys)
  /\ \A s \in Shards : (smem[s] + ShardOwes(t, s)) + UnsettledIn(t, s)
                         = SumFunctionOnSet(Load, KeysIn(s))

\* With no other call in flight, the entry a call works on stays in the map,
\* and the weights it has loaded stay true until it stores a payload.
Working == {"compare", "weigh", "swap", "check", "on_ttl", "upstream"} \cup Owing
InPlace(t) ==
  /\ op[t].stage \in Working => pc[t] = "idle" /\ items[CurKey(t)] = Cur(t)
  /\ op[t].stage = "swap" => op[t].bytes = WeightOf(New(t)) - WeightOf(Cur(t))
  /\ op[t].stage = "upstream" => op[t].bytes = WeightOf(Cur(t))

\* The only call in flight.
Alone(t) == DebtOK(t) /\ InPlace(t) /\ Balanced(t)

\* What a call owes is an integer.
LEMMA UnsettledType ==
  ASSUME TypeOK, StorageTypeOK, NEW t \in Threads
  PROVE  /\ Unsettled(t) \in Int
         /\ mem + MapOwes(t) \in Int
         /\ \A s \in Shards : smem[s] + ShardOwes(t, s) \in Int /\ UnsettledIn(t, s) \in Int
<1>1. op[t].bytes \in Int /\ (op[t].stage \in Owing => op[t].cur \in Entries)
  BY DEF StorageTypeOK, OpOK, OpRecords, Owing, Holding
<1>2. /\ mem \in Int /\ dmem[t] \in Int /\ payload \in [Entries -> Payloads]
      /\ \A s \in Shards : smem[s] \in Int
  BY DEF TypeOK
<1>3. \A e \in Entries : WeightOf(e) \in Int
  BY <1>2, MapConstants DEF WeightOf
<1>4. Unsettled(t) \in Int
  BY <1>1, <1>3 DEF Unsettled, Grown, Cur
<1>5. \A s \in Shards : UnsettledIn(t, s) \in Int
  BY <1>4 DEF UnsettledIn
<1> QED
  BY <1>2, <1>4, <1>5 DEF MapOwes, ShardOwes

\* The load of one key grows by d, the counters and what the map owes them by
\* c; the storage call owes the difference.
LEMMA BalanceStep ==
  ASSUME TypeOK, TypeOK', StorageTypeOK, NEW t \in Threads,
         NEW k \in Keys, NEW c \in Int, NEW d \in Int,
         Balanced(t), Transfer(t, k, c), Reload(k, d),
         Unsettled(t)' = Unsettled(t) + (d - c),
         \A s \in Shards : UnsettledIn(t, s)' = UnsettledIn(t, s) + (IF s = ShardOf[k] THEN d - c ELSE 0)
  PROVE  Balanced(t)'
<1>1. /\ Unsettled(t) \in Int
      /\ mem + MapOwes(t) \in Int
      /\ \A s \in Shards : smem[s] + ShardOwes(t, s) \in Int /\ UnsettledIn(t, s) \in Int
  BY UnsettledType
<1>2. /\ SumFunctionOnSet(Load', Keys) = SumFunctionOnSet(Load, Keys) + d
      /\ \A s \in Shards : SumFunctionOnSet(Load', KeysIn(s))
                = SumFunctionOnSet(Load, KeysIn(s)) + (IF s = ShardOf[k] THEN d ELSE 0)
  BY LoadPoint
<1>3. /\ (mem + MapOwes(t)) + Unsettled(t) = SumFunctionOnSet(Load, Keys)
      /\ \A s \in Shards : (smem[s] + ShardOwes(t, s)) + UnsettledIn(t, s)
                             = SumFunctionOnSet(Load, KeysIn(s))
  BY DEF Balanced
<1>4. /\ mem' + MapOwes(t)' = (mem + MapOwes(t)) + c
      /\ \A s \in Shards : smem'[s] + ShardOwes(t, s)'
                             = (smem[s] + ShardOwes(t, s)) + (IF s = ShardOf[k] THEN c ELSE 0)
  BY DEF Transfer
<1>5. (mem' + MapOwes(t)') + Unsettled(t)' = SumFunctionOnSet(Load', Keys)
  <2> DEFINE m == mem + MapOwes(t)
             u == Unsettled(t)
             z == SumFunctionOnSet(Load, Keys)
  <2>1. m \in Int /\ u \in Int /\ m + u = z
    BY <1>1, <1>3
  <2>2. (mem' + MapOwes(t)') + Unsettled(t)' = (m + c) + (u + (d - c))
    BY <1>4
  <2>3. SumFunctionOnSet(Load', Keys) = z + d
    BY <1>2
  <2> HIDE DEF m, u, z
  <2>4. (m + c) + (u + (d - c)) = z + d
    BY <2>1
  <2> QED
    BY <2>2, <2>3, <2>4
<1>6. ASSUME NEW s \in Shards
      PROVE  (smem'[s] + ShardOwes(t, s)') + UnsettledIn(t, s)' = SumFunctionOnSet(Load', KeysIn(s))
  <2> DEFINE m == smem[s] + ShardOwes(t, s)
             u == UnsettledIn(t, s)
             z == SumFunctionOnSet(Load, KeysIn(s))
             a == IF s = ShardOf[k] THEN c ELSE 0
             b == IF s = ShardOf[k] THEN d ELSE 0
             x == IF s = ShardOf[k] THEN d - c ELSE 0
  <2>1. m \in Int /\ u \in Int /\ m + u = z
    BY <1>1, <1>3
  <2>2. smem'[s] + ShardOwes(t, s)' = m + a /\ UnsettledIn(t, s)' = u + x
    BY <1>4
  <2>3. SumFunctionOnSet(Load', KeysIn(s)) = z + b
    BY <1>2
  <2>4. a \in Int /\ b \in Int /\ x = b - a
    OBVIOUS
  <2> HIDE DEF m, u, z, a, b, x
  <2>5. (m + a) + (u + x) = z + b
    BY <2>1, <2>4
  <2> QED
    BY <2>2, <2>3, <2>5
<1> QED
  BY <1>5, <1>6 DEF Balanced

\* Shard::clear takes the loads of the shard and owes Map.mem as much.
LEMMA EmptiedBalance ==
  ASSUME TypeOK, TypeOK', StorageTypeOK, NEW t \in Threads, Balanced(t), Emptied(t),
         Unsettled(t) = 0, Unsettled(t)' = 0
  PROVE  Balanced(t)'
<1> DEFINE a == at[t]
           f == Load
           g == Load'
           S == KeysIn(a)
           R == Keys \ S
<1>1. /\ a \in Shards
      /\ items' = [k \in Keys |-> IF ShardOf[k] = a THEN NoEntry ELSE items[k]]
      /\ smem' = [smem EXCEPT ![a] = 0] /\ mem' = mem /\ payload' = payload
      /\ MapOwes(t) = 0 /\ MapOwes(t)' = -smem[a]
      /\ \A s \in Shards : ShardOwes(t, s) = 0 /\ ShardOwes(t, s)' = 0
  BY DEF Emptied
<1>2. mem \in Int /\ smem \in [Shards -> Int] /\ items \in [Keys -> Entries \cup {NoEntry}]
  BY DEF TypeOK
<1>3. \A k \in Keys : f[k] \in Int /\ g[k] \in Int
  BY LoadType
<1>4. \A k \in Keys : g[k] = IF ShardOf[k] = a THEN 0 ELSE f[k]
  BY <1>1 DEF Load, WeightOf
<1>5. /\ S \in SUBSET Keys /\ R \in SUBSET Keys /\ Keys \in SUBSET Keys
      /\ IsFiniteSet(S) /\ IsFiniteSet(R) /\ IsFiniteSet(Keys)
      /\ \A k \in Keys : k \in S <=> ShardOf[k] = a
  BY MapConstants, FS_Subset DEF KeysIn
<1>6. \A s \in Shards : UnsettledIn(t, s) = 0 /\ UnsettledIn(t, s)' = 0
  BY DEF UnsettledIn
<1>7. mem + 0 + 0 = SumFunctionOnSet(f, Keys) /\ \A s \in Shards : smem[s] + 0 + 0 = SumFunctionOnSet(f, KeysIn(s))
  BY <1>1, <1>6 DEF Balanced
<1> HIDE DEF f, g, R
<1>8. /\ SumFunctionOnSet(f, Keys) = SumFunctionOnSet(f, S) + SumFunctionOnSet(f, R)
      /\ SumFunctionOnSet(g, Keys) = SumFunctionOnSet(g, S) + SumFunctionOnSet(g, R)
  <2> HIDE DEF S
  <2> QED
    BY <1>3, <1>5, SumSplit DEF R
<1>9. SumFunctionOnSet(g, S) = 0
  <2>1. \A k \in S : g[k] = 0
    BY <1>4, <1>5
  <2> HIDE DEF S
  <2> QED
    BY <1>5, <2>1, SumZero
<1>10. SumFunctionOnSet(g, R) = SumFunctionOnSet(f, R)
  <2>1. \A k \in R : g[k] = f[k]
    BY <1>4, <1>5 DEF R
  <2> QED
    BY <1>5, <2>1, SumSame
<1>11. SumFunctionOnSet(f, R) \in Int
  <2>1. \A k \in R : f[k] \in Int
    BY <1>3, <1>5
  <2> QED
    BY <1>5, <2>1, SumInt
<1>12. mem - smem[a] = SumFunctionOnSet(g, Keys)
  <2>1. smem[a] \in Int /\ smem[a] + 0 + 0 = SumFunctionOnSet(f, S)
    BY <1>1, <1>2, <1>7
  <2> HIDE DEF S, a
  <2> QED
    BY <1>2, <1>7, <1>8, <1>9, <1>10, <1>11, <2>1
<1>13. (mem' + MapOwes(t)') + Unsettled(t)' = SumFunctionOnSet(g, Keys)
  <2>1. smem[a] \in Int
    BY <1>1, <1>2
  <2> HIDE DEF a
  <2> QED
    BY <1>1, <1>2, <1>12, <2>1
<1>14. ASSUME NEW s \in Shards
       PROVE  (smem'[s] + ShardOwes(t, s)') + UnsettledIn(t, s)' = SumFunctionOnSet(g, KeysIn(s))
  <2>1. CASE s = a
    <3>1. smem'[s] = 0
      BY <1>1, <1>2, <2>1
    <3> QED
      BY <1>1, <1>6, <1>9, <2>1, <3>1
  <2>2. CASE s # a
    <3>1. smem'[s] = smem[s] /\ smem[s] \in Int
      BY <1>1, <1>2, <2>2
    <3>2. SumFunctionOnSet(g, KeysIn(s)) = SumFunctionOnSet(f, KeysIn(s))
      <4>1. KeysIn(s) \in SUBSET Keys /\ \A k \in KeysIn(s) : g[k] = f[k]
        BY <1>4, <2>2 DEF KeysIn
      <4>2. IsFiniteSet(KeysIn(s))
        BY <1>5, <4>1, FS_Subset
      <4> QED
        BY <4>1, <4>2, SumSame
    <3> QED
      BY <1>1, <1>6, <1>7, <3>1, <3>2
  <2> QED
    BY <2>1, <2>2
<1> QED
  BY <1>13, <1>14 DEF Balanced, g

\* A step inside the map keeps the balance of a call that owes nothing else.
LEMMA MovesBalance ==
  ASSUME TypeOK, TypeOK', StorageTypeOK, NEW t \in Threads, Balanced(t), Moves(t),
         Unsettled(t) = 0, Unsettled(t)' = 0
  PROVE  Balanced(t)'
<1>1. \A s \in Shards : UnsettledIn(t, s) = 0 /\ UnsettledIn(t, s)' = 0
  BY DEF UnsettledIn
<1>2. CASE Emptied(t)
  BY <1>2, EmptiedBalance
<1>3. ASSUME NEW k \in Keys, NEW d \in Int, Transfer(t, k, d), Reload(k, d)
      PROVE  Balanced(t)'
  <2>1. Unsettled(t)' = Unsettled(t) + (d - d)
    OBVIOUS
  <2>2. \A s \in Shards : UnsettledIn(t, s)' = UnsettledIn(t, s) + (IF s = ShardOf[k] THEN d - d ELSE 0)
    BY <1>1
  <2> QED
    BY <1>3, <2>1, <2>2, BalanceStep
<1> QED
  BY <1>2, <1>3 DEF Moves

\* A step that changes no counter, no load and no debt, between stages at which
\* a call owes nothing of its own.
Undisturbed == UNCHANGED <<items, payload, smem, mem, pc, at, dmem>>

\* A call that only goes on, or returns, without anything to settle.
LEMMA GoesOn ==
  ASSUME TypeOK, TypeOK', StorageTypeOK, NEW t \in Threads, Alone(t), Undisturbed, InPlace(t)',
         Unsettled(t)' = Unsettled(t),
         \A s \in Shards : UnsettledIn(t, s)' = UnsettledIn(t, s)
  PROVE  Alone(t)'
<1>1. PICK k \in Keys : TRUE
  BY MapConstants
<1>2. Reload(k, 0)
  BY SameLoad DEF Undisturbed
<1>3. /\ Unsettled(t) \in Int /\ mem + MapOwes(t) \in Int
      /\ \A s \in Shards : smem[s] + ShardOwes(t, s) \in Int /\ UnsettledIn(t, s) \in Int
  BY UnsettledType
<1>4. MapOwes(t)' = MapOwes(t) /\ \A s \in Shards : ShardOwes(t, s)' = ShardOwes(t, s)
  BY DEF MapOwes, ShardOwes, Undisturbed
<1>5. Transfer(t, k, 0)
  BY <1>3, <1>4 DEF Transfer, Undisturbed
<1>6. /\ Unsettled(t)' = Unsettled(t) + (0 - 0)
      /\ \A s \in Shards : UnsettledIn(t, s)' = UnsettledIn(t, s) + (IF s = ShardOf[k] THEN 0 - 0 ELSE 0)
  BY <1>3
<1>7. Balanced(t)'
  BY <1>2, <1>5, <1>6, BalanceStep DEF Alone
<1>8. DebtOK(t)'
  BY DEF DebtOK, Alone, Undisturbed
<1> QED
  BY <1>7, <1>8 DEF Alone

\* An in-place store of a payload: the call then owes the difference.
LEMMA StoreBalance ==
  ASSUME TypeOK, TypeOK', StorageTypeOK, NEW t \in Threads, Alone(t),
         op[t].stage \in {"swap", "upstream"}, Cur(t) \in Entries,
         NEW p \in Payloads, StorePayload(Cur(t), p),
         Cur(t)' = Cur(t),
         Unsettled(t)' = Weight[p] - WeightOf(Cur(t)), InPlace(t)'
  PROVE  Alone(t)'
<1> DEFINE e == Cur(t)
           k == CurKey(t)
           d == Weight[p] - WeightOf(e)
<1>1. /\ payload' = [payload EXCEPT ![e] = p] /\ UNCHANGED <<items, smem, mem, pc, at, dmem>>
  BY DEF StorePayload, shardVars, globalVars, localVars
<1>2. /\ items \in [Keys -> Entries \cup {NoEntry}] /\ payload \in [Entries -> Payloads]
      /\ k \in Keys /\ e # NoEntry /\ items[k] = e /\ pc[t] = "idle" /\ k = KeyOf[e]
      /\ \A j \in Keys : items[j] = e => j = k
  <2>1. /\ items \in [Keys -> Entries \cup {NoEntry}] /\ payload \in [Entries -> Payloads]
        /\ \A j \in Keys : items[j] # NoEntry => KeyOf[items[j]] = j
    BY DEF TypeOK, Present
  <2>2. items[k] = e /\ pc[t] = "idle"
    BY DEF Alone, InPlace, Working
  <2>3. k = KeyOf[e] /\ k \in Keys /\ e # NoEntry
    BY MapConstants DEF CurKey
  <2> QED
    BY <2>1, <2>2, <2>3
<1>3. d \in Int /\ Weight[p] \in Int /\ WeightOf(e) \in Int
  BY <1>2, MapConstants DEF WeightOf
<1>4. Load[k] = WeightOf(e) /\ Load'[k] = Weight[p]
  BY <1>1, <1>2 DEF Load, WeightOf
<1>5. \A j \in Keys \ {k} : Load'[j] = Load[j]
  BY <1>1, <1>2 DEF Load, WeightOf
<1>6. Reload(k, d)
  <2> HIDE DEF k, e
  <2> QED
    BY <1>3, <1>4, <1>5 DEF Reload
<1>7. Unsettled(t) = 0 /\ \A s \in Shards : UnsettledIn(t, s) = 0
  BY DEF Unsettled, UnsettledIn, Owing
<1>8. \A s \in Shards : UnsettledIn(t, s)' = IF s = ShardOf[k] THEN d ELSE 0
  BY DEF UnsettledIn, CurKey
<1>9. /\ mem + MapOwes(t) \in Int
      /\ \A s \in Shards : smem[s] + ShardOwes(t, s) \in Int
  BY UnsettledType
<1>10. MapOwes(t)' = MapOwes(t) /\ \A s \in Shards : ShardOwes(t, s)' = ShardOwes(t, s)
  BY <1>1 DEF MapOwes, ShardOwes
<1>11. Transfer(t, k, 0)
  BY <1>1, <1>9, <1>10 DEF Transfer
<1>12. Unsettled(t)' = d
  OBVIOUS
<1>13. Balanced(t)
  BY DEF Alone
<1> HIDE DEF k, e, d
<1>14. Unsettled(t)' = Unsettled(t) + (d - 0)
  BY <1>3, <1>7, <1>12
<1>15. \A s \in Shards : UnsettledIn(t, s)' = UnsettledIn(t, s) + (IF s = ShardOf[k] THEN d - 0 ELSE 0)
  BY <1>3, <1>7, <1>8
<1>16. Balanced(t)'
  BY <1>2, <1>3, <1>6, <1>11, <1>13, <1>14, <1>15, BalanceStep
<1>17. DebtOK(t)'
  BY <1>1 DEF DebtOK, Alone
<1> QED
  BY <1>16, <1>17 DEF Alone

\* add_mem settles what the call owes.
LEMMA SettleBalance ==
  ASSUME TypeOK, TypeOK', StorageTypeOK, NEW t \in Threads, Alone(t),
         op[t].stage \in Owing, Cur(t) \in Entries, AddMem(t, CurKey(t), Unsettled(t)),
         op'[t].stage \notin Working
  PROVE  Alone(t)'
<1> DEFINE k == CurKey(t)
           c == Unsettled(t)
<1>1. k \in Keys
  BY MapConstants DEF CurKey
<1>2. c \in Int
  BY UnsettledType
<1>3. DebtOK(t) /\ Balanced(t)
  BY DEF Alone
<1>4. Unsettled(t)' = 0 /\ \A s \in Shards : UnsettledIn(t, s)' = 0
  BY DEF Unsettled, UnsettledIn, Working
<1>5. \A s \in Shards : UnsettledIn(t, s) = IF s = ShardOf[k] THEN c ELSE 0
  BY DEF UnsettledIn
<1>6. InPlace(t)'
  BY DEF InPlace, Working
<1>7. AddMem(t, k, c)
  OBVIOUS
<1> HIDE DEF k
<1>8. Transfer(t, k, c) /\ DebtOK(t)' /\ UNCHANGED <<items, payload>>
  <2> HIDE DEF c
  <2> QED
    BY <1>1, <1>2, <1>3, <1>7, AddMoves
<1>9. Reload(k, 0)
  BY <1>1, <1>8, SameLoad
<1>10. /\ Unsettled(t)' = Unsettled(t) + (0 - c)
       /\ \A s \in Shards : UnsettledIn(t, s)' = UnsettledIn(t, s) + (IF s = ShardOf[k] THEN 0 - c ELSE 0)
  BY <1>2, <1>4, <1>5
<1>11. Balanced(t)'
  <2> HIDE DEF c
  <2> QED
    BY <1>1, <1>2, <1>3, <1>8, <1>9, <1>10, BalanceStep
<1> QED
  BY <1>6, <1>8, <1>11 DEF Alone

\* A storage call that has the map to itself keeps both byte counters balanced,
\* at every one of its steps.
LEMMA AloneStep ==
  ASSUME IndInv, TypeOK', StorageTypeOK, NEW t \in Threads, Alone(t),
         StorageCall(t) \/ StorageStep(t)
  PROVE  Alone(t)'
<1>a. /\ TypeOK /\ LocalsOK /\ LruCoversItems
      /\ DebtOK(t) /\ InPlace(t) /\ Balanced(t)
  BY DEF IndInv, Alone
<1>b. /\ op[t] \in OpRecords /\ DOMAIN op = Threads
      /\ op[t].stage \in Holding => Cur(t) \in Entries
      /\ op[t].stage \in Bringing => New(t) \in Entries
  BY DEF StorageTypeOK, OpOK, Cur, New
<1>c. \A r : op' = [op EXCEPT ![t] = r] => op'[t] = r
  BY <1>b
<1>d. Return(t) => op'[t].stage = "none"
  BY <1>c, NoOpRecord DEF Return
<1>e. ASSUME NEW st \in Stages, Then(t, st)
      PROVE  /\ op'[t].stage = st /\ op'[t].cur = op[t].cur /\ op'[t].new = op[t].new
             /\ op'[t].bytes = op[t].bytes
  BY <1>e, ThenRecord
<1>f. ASSUME op'[t].stage \notin Working
      PROVE  InPlace(t)' /\ Unsettled(t)' = 0 /\ \A s \in Shards : UnsettledIn(t, s)' = 0
  BY <1>f DEF InPlace, Unsettled, UnsettledIn, Working
<1>g. ASSUME op[t].stage \notin Owing
      PROVE  Unsettled(t) = 0 /\ \A s \in Shards : UnsettledIn(t, s) = 0
  BY <1>g DEF Unsettled, UnsettledIn
<1>h. ASSUME UNCHANGED mapVars
      PROVE  Undisturbed
  BY <1>h DEF Undisturbed, mapVars, shardVars, globalVars, localVars
<1>i. ASSUME Undisturbed, Unsettled(t) = 0, op'[t].stage \notin Working
      PROVE  Alone(t)'
  <2>1. \A s \in Shards : UnsettledIn(t, s) = 0
    BY <1>i DEF UnsettledIn
  <2> QED
    BY <1>a, <1>f, <1>i, <2>1, GoesOn
<1>j. ASSUME Undisturbed, op[t].stage \notin Owing, op'[t].stage \notin Owing, InPlace(t)'
      PROVE  Alone(t)'
  <2>1. Unsettled(t)' = 0 /\ \A s \in Shards : UnsettledIn(t, s)' = 0
    BY <1>j DEF Unsettled, UnsettledIn
  <2> QED
    BY <1>a, <1>g, <1>j, <2>1, GoesOn
<1>k. ASSUME Moves(t), DebtOK(t)', op[t].stage \notin Owing, op'[t].stage \notin Working
      PROVE  Alone(t)'
  <2>1. Balanced(t)'
    BY <1>a, <1>f, <1>g, <1>k, MovesBalance
  <2> QED
    BY <1>f, <1>k, <2>1 DEF Alone
<1>l. ASSUME NEW k \in Keys, TouchLru(k)
      PROVE  Undisturbed
  BY <1>l DEF TouchLru, Undisturbed, globalVars, localVars
<1>m. /\ "none" \notin Working
      /\ {"use", "expired", "mark", "push", "unmark", "admit", "evict", "put", "fresh",
          "unqueue", "pop", "lookup"} \cap Working = {}
  BY DEF Working, Owing
<1>1. ASSUME NEW k \in Keys, NEW f \in Prints, Get(t, k, f)
      PROVE  Alone(t)'
  <2>1. op'[t] = [NoOp EXCEPT !.stage = "use", !.cur = items[k]]
    BY <1>1, <1>c DEF Get
  <2>2. op'[t].stage = "use"
    BY <2>1, NoOpRecord DEF OpRecords
  <2>3. op[t].stage = "none" /\ Undisturbed
    BY <1>1, <1>h DEF Get, Call
  <2> QED
    BY <1>g, <1>i, <2>2, <2>3 DEF Working, Owing
<1>2. ASSUME NEW e \in Entries, Set(t, e)
      PROVE  Alone(t)'
  <2> DEFINE old == items[KeyOf[e]]
  <2>1. op[t].stage = "none" /\ pc[t] = "idle" /\ Undisturbed
    BY <1>2, <1>h DEF Set, Call
  <2>2. CASE SamePrint(old, e)
    <3>1. op'[t] = [NoOp EXCEPT !.stage = "compare", !.cur = old, !.new = e]
      BY <1>2, <1>c, <2>2 DEF Set
    <3>2. op'[t].stage = "compare" /\ op'[t].cur = old
      BY <3>1, NoOpRecord DEF OpRecords
    <3>3. KeyOf[e] \in Keys /\ old # NoEntry
      BY <2>2, MapConstants DEF SamePrint
    <3>4. KeyOf[old] = KeyOf[e]
      BY <1>a, <3>3 DEF TypeOK, Present
    <3>5. InPlace(t)'
      BY <2>1, <3>2, <3>4 DEF InPlace, Undisturbed, CurKey, Cur
    <3> QED
      BY <1>j, <2>1, <3>2, <3>5 DEF Owing
  <2>3. CASE ~SamePrint(old, e)
    <3>1. op'[t] = [NoOp EXCEPT !.stage = "admit", !.new = e]
      BY <1>2, <1>c, <2>3 DEF Set
    <3>2. op'[t].stage = "admit"
      BY <3>1, NoOpRecord DEF OpRecords
    <3> QED
      BY <1>g, <1>i, <2>1, <3>2 DEF Working, Owing
  <2> QED
    BY <2>2, <2>3
<1>3. ASSUME Peek(t)
      PROVE  Alone(t)'
  <2>1. op'[t] = [NoOp EXCEPT !.stage = "pop", !.todo = Shards]
    BY <1>3, <1>c DEF Peek
  <2>2. op'[t].stage = "pop"
    BY <2>1, NoOpRecord DEF OpRecords
  <2>3. op[t].stage = "none" /\ Undisturbed
    BY <1>3, <1>h DEF Peek, Call
  <2> QED
    BY <1>g, <1>i, <2>2, <2>3 DEF Working, Owing
<1>4. ASSUME NEW k \in Keys, StorageRemove(t, k)
      PROVE  Alone(t)'
  <2>1. /\ op[t].stage = "none" /\ op'[t].stage = "none"
        /\ pc[t] = "idle" /\ pc' = [pc EXCEPT ![t] = "rm_len"]
        /\ items[k] # NoEntry /\ RemoveUnlocked(t, k) /\ mem' = mem /\ payload' = payload
    BY <1>4, <1>d DEF StorageRemove, Call, RemoveShard, Goto, globalVars
  <2>2. Moves(t) /\ DebtOK(t)'
    BY <1>a, <2>1, RemoveMoves
  <2> QED
    BY <1>k, <2>1, <2>2 DEF Working, Owing
<1>5. ASSUME Clear(t)
      PROVE  Alone(t)'
  <2>1. /\ op[t].stage = "none" /\ op'[t].stage = "none"
        /\ pc[t] = "idle" /\ pc'[t] = "clr_next"
        /\ UNCHANGED <<items, payload, smem, mem, dmem>>
    BY <1>5, <1>a, <1>d DEF Clear, Call, ClearBegin, Goto, shardVars, globalVars, TypeOK
  <2>2. Moves(t) /\ DebtOK(t)'
    BY <1>a, <2>1, QuietMove
  <2> QED
    BY <1>k, <2>1, <2>2 DEF Working, Owing
<1>6. ASSUME NEW limit, EvictBegin(t, limit)
      PROVE  Moves(t) /\ DebtOK(t)'
  <2>1. /\ pc[t] = "idle" /\ pc'[t] = "ev_check"
        /\ UNCHANGED <<items, payload, smem, mem, dmem>>
    BY <1>6, <1>a DEF EvictBegin, Goto, shardVars, globalVars, TypeOK
  <2> QED
    BY <1>a, <2>1, QuietMove
<1>7. ASSUME SoftEvict(t)
      PROVE  Alone(t)'
  <2>1. op[t].stage = "none" /\ op'[t].stage = "none" /\ EvictBegin(t, SoftLimit)
    BY <1>7, <1>d DEF SoftEvict, Call
  <2> QED
    BY <1>6, <1>k, <2>1 DEF Working, Owing
<1>8. ASSUME MapWorks(t)
      PROVE  Alone(t)'
  <2>1. Continue(t) /\ op' = op
    BY <1>8 DEF MapWorks
  <2>2. pc[t] # "idle"
    BY <2>1 DEF Continue, SetMem, SetLen, RemoveLen, RemoveMem, AddShardMem, EvictStop,
                EvictNextShard, EvictPop, EvictPick, EvictPickNone, EvictRemove, EvictMissed,
                EvictMem, EvictLen, ClearDone, ClearLock, ClearZero, ClearMem, ClearLen, Goto
  <2>3. op[t].stage \notin Working
    BY <1>a, <2>2 DEF InPlace
  <2>4. Moves(t) /\ DebtOK(t)'
    BY <1>a, <2>1, ContinueMoves
  <2> QED
    BY <1>k, <2>1, <2>3, <2>4 DEF Working
<1>9. ASSUME TouchUse(t) \/ UpdateUnqueue(t)
      PROVE  Alone(t)'
  <2>1. op[t].stage \in {"use", "unqueue"}
    BY <1>9 DEF TouchUse, UpdateUnqueue, At
  <2>2. CurKey(t) \in Keys
    BY <1>b, <2>1, MapConstants DEF Holding, CurKey
  <2>3. Undisturbed
    BY <1>9, <1>h, <1>l, <2>2 DEF TouchUse, UpdateUnqueue
  <2>4. op'[t].stage \in {"expired", "none"}
    BY <1>9, <1>d, <1>e DEF TouchUse, UpdateUnqueue, Stages
  <2> QED
    BY <1>g, <1>i, <1>m, <2>1, <2>3, <2>4 DEF Owing
<1>10. ASSUME \/ TouchExpired(t) \/ TouchMark(t) \/ TouchPush(t) \/ TouchUnmark(t)
              \/ SetAdmit(t) \/ UpdateFresh(t) \/ RefreshFails(t)
      PROVE  Alone(t)'
  <2>1. op[t].stage \in {"expired", "mark", "push", "unmark", "admit", "fresh", "upstream"}
    BY <1>10 DEF TouchExpired, TouchMark, TouchPush, TouchUnmark, SetAdmit, UpdateFresh,
                 RefreshFails, At
  <2>2. Undisturbed
    BY <1>10, <1>h DEF TouchExpired, TouchMark, TouchPush, TouchUnmark, SetAdmit, UpdateFresh,
                       RefreshFails
  <2>3. op'[t].stage \in {"none", "mark", "push", "unmark", "evict", "unqueue"}
    BY <1>10, <1>d, <1>e DEF TouchExpired, TouchMark, TouchPush, TouchUnmark, SetAdmit,
                             UpdateFresh, RefreshFails, Stages
  <2> QED
    BY <1>g, <1>i, <1>m, <2>1, <2>2, <2>3 DEF Owing
<1>11. ASSUME SetEvict(t)
      PROVE  Alone(t)'
  <2>1. op[t].stage = "evict" /\ op'[t].stage = "put"
    BY <1>11, <1>e DEF SetEvict, At, Stages
  <2>2. CASE UNCHANGED mapVars
    BY <1>g, <1>h, <1>i, <1>m, <2>1, <2>2 DEF Owing
  <2>3. CASE EvictBegin(t, HardLimit)
    BY <1>6, <1>k, <1>m, <2>1, <2>3 DEF Owing
  <2> QED
    BY <1>11, <2>2, <2>3 DEF SetEvict
<1>12. ASSUME SetPut(t)
      PROVE  Alone(t)'
  <2>1. op[t].stage = "put" /\ op'[t].stage = "none" /\ SetShard(t, New(t))
    BY <1>12, <1>d DEF SetPut, At
  <2>2. New(t) \in Entries
    BY <1>b, <2>1 DEF Bringing
  <2>3. Moves(t) /\ DebtOK(t)'
    BY <1>a, <2>1, <2>2, SetMoves
  <2> QED
    BY <1>k, <1>m, <2>1, <2>3 DEF Owing
<1>13. ASSUME SetCompare(t)
      PROVE  Alone(t)'
  <2>1. op[t].stage = "compare" /\ pc[t] = "idle" /\ Undisturbed
    BY <1>13, <1>h DEF SetCompare, At
  <2>2. PICK st \in {"use", "weigh"} : Then(t, st)
    BY <1>13 DEF SetCompare
  <2>3. op'[t].stage = st /\ op'[t].cur = op[t].cur
    BY <1>e, <2>2 DEF Stages
  <2>4. InPlace(t)'
    BY <1>a, <2>1, <2>3 DEF InPlace, Working, Undisturbed, CurKey, Cur
  <2> QED
    BY <1>j, <2>1, <2>3, <2>4 DEF Owing
<1>14. ASSUME UpdateWeigh(t)
      PROVE  Alone(t)'
  <2> DEFINE b == WeightOf(New(t)) - WeightOf(Cur(t))
  <2>1. op[t].stage = "weigh" /\ pc[t] = "idle" /\ Undisturbed
    BY <1>14, <1>h DEF UpdateWeigh, At
  <2>2. op' = [op EXCEPT ![t] = [op[t] EXCEPT !.stage = "swap", !.bytes = b]]
    BY <1>14, <1>b DEF UpdateWeigh
  <2> HIDE DEF b
  <2>3. /\ op'[t].stage = "swap" /\ op'[t].cur = op[t].cur /\ op'[t].new = op[t].new
        /\ op'[t].bytes = b
    BY <1>b, <1>c, <2>2 DEF OpRecords
  <2>4. InPlace(t)'
    BY <1>a, <2>1, <2>3 DEF InPlace, Working, Undisturbed, CurKey, Cur, New, WeightOf, b
  <2> QED
    BY <1>j, <2>1, <2>3, <2>4 DEF Owing
<1>15. ASSUME UpdateSwap(t)
      PROVE  Alone(t)'
  <2>1. /\ op[t].stage = "swap" /\ pc[t] = "idle"
        /\ StorePayload(Cur(t), payload[New(t)]) /\ Then(t, "add_mem")
    BY <1>15 DEF UpdateSwap, At
  <2>2. Cur(t) \in Entries /\ New(t) \in Entries /\ payload[New(t)] \in Payloads
    BY <1>a, <1>b, <2>1 DEF Holding, Bringing, TypeOK
  <2>3. op'[t].stage = "add_mem" /\ op'[t].cur = op[t].cur /\ op'[t].bytes = op[t].bytes
    BY <1>e, <2>1 DEF Stages
  <2>4. Unsettled(t)' = Weight[payload[New(t)]] - WeightOf(Cur(t)) /\ Cur(t)' = Cur(t)
    BY <1>a, <2>1, <2>3 DEF Unsettled, Owing, InPlace, WeightOf, Cur
  <2>5. InPlace(t)'
    BY <1>a, <2>1, <2>3 DEF InPlace, Working, StorePayload, shardVars, localVars, CurKey, Cur
  <2> QED
    BY <1>a, <2>1, <2>2, <2>4, <2>5, StoreBalance
<1>16. ASSUME UpdateMem(t)
      PROVE  Alone(t)'
  <2>1. op[t].stage = "add_mem" /\ AddMem(t, CurKey(t), op[t].bytes) /\ op'[t].stage = "fresh"
    BY <1>16, <1>e DEF UpdateMem, At, Settle, Stages
  <2>2. Cur(t) \in Entries /\ op[t].bytes = Unsettled(t) /\ op[t].stage \in Owing
    BY <1>b, <2>1 DEF Holding, Unsettled, Owing
  <2> QED
    BY <1>a, <1>m, <2>1, <2>2, SettleBalance
<1>17. ASSUME NEW todo, NextQueue(t, todo)
      PROVE  op'[t].stage = "pop"
  <2>1. op'[t] = [NoOp EXCEPT !.stage = "pop", !.todo = todo]
    BY <1>17, <1>c DEF NextQueue
  <2> QED
    BY <2>1, NoOpRecord DEF OpRecords
<1>18. ASSUME NEW s \in Shards, PeekPop(t, s)
      PROVE  Alone(t)'
  <2>1. op[t].stage = "pop" /\ Undisturbed
    BY <1>18, <1>h DEF PeekPop, At
  <2>2. op'[t].stage \in {"pop", "lookup"}
    <3>1. CASE rq[s] = <<>>
      BY <1>17, <1>18, <3>1 DEF PeekPop
    <3>2. CASE rq[s] # <<>>
      <4>1. op'[t] = [NoOp EXCEPT !.stage = "lookup", !.key = Head(rq[s]),
                                  !.todo = op[t].todo \ {s}]
        BY <1>18, <1>c, <3>2 DEF PeekPop
      <4> QED
        BY <4>1, NoOpRecord DEF OpRecords
    <3> QED
      BY <3>1, <3>2
  <2> QED
    BY <1>g, <1>i, <1>m, <2>1, <2>2 DEF Owing
<1>19. ASSUME NEW k \in Keys, items[k] # NoEntry, NEW st \in {"check", "on_ttl"},
              Undisturbed, pc[t] = "idle", op[t].stage \in {"pop", "lookup"},
              op' = [op EXCEPT ![t].stage = st, ![t].cur = items[k]]
      PROVE  Alone(t)'
  <2>1. op' = [op EXCEPT ![t] = [op[t] EXCEPT !.stage = st, !.cur = items[k]]]
    BY <1>19, <1>b
  <2>2. op'[t].stage = st /\ op'[t].cur = items[k]
    BY <1>b, <1>c, <2>1 DEF OpRecords
  <2>3. KeyOf[items[k]] = k
    BY <1>a, <1>19 DEF TypeOK, Present
  <2>4. InPlace(t)'
    BY <1>19, <2>2, <2>3 DEF InPlace, Undisturbed, CurKey, Cur
  <2> QED
    BY <1>j, <1>19, <2>2, <2>4 DEF Owing
<1>20. ASSUME PeekLookup(t)
      PROVE  Alone(t)'
  <2> DEFINE k == op[t].key
  <2>1. op[t].stage = "lookup" /\ pc[t] = "idle" /\ Undisturbed /\ k \in Keys
    BY <1>20, <1>b, <1>h DEF PeekLookup, At, OpRecords
  <2>2. CASE items[k] = NoEntry
    <3>1. op'[t].stage = "pop"
      BY <1>17, <1>20, <2>2 DEF PeekLookup
    <3> QED
      BY <1>g, <1>i, <1>m, <2>1, <3>1 DEF Owing
  <2>3. CASE items[k] # NoEntry
    <3>1. op' = [op EXCEPT ![t].stage = "check", ![t].cur = items[k]]
      BY <1>20, <2>3 DEF PeekLookup
    <3> HIDE DEF k
    <3> QED
      BY <1>19, <2>1, <2>3, <3>1
  <2> QED
    BY <2>2, <2>3
<1>21. ASSUME PeekCheck(t)
      PROVE  Alone(t)'
  <2>1. op[t].stage = "check" /\ pc[t] = "idle" /\ Undisturbed
    BY <1>21, <1>h DEF PeekCheck, At
  <2>2. CASE Then(t, "on_ttl")
    <3>1. op'[t].stage = "on_ttl" /\ op'[t].cur = op[t].cur
      BY <1>e, <2>2 DEF Stages
    <3>2. InPlace(t)'
      BY <1>a, <2>1, <3>1 DEF InPlace, Working, Undisturbed, CurKey, Cur
    <3> QED
      BY <1>j, <2>1, <3>1, <3>2 DEF Owing
  <2>3. CASE NextQueue(t, op[t].todo)
    BY <1>17, <1>g, <1>i, <1>m, <2>1, <2>3 DEF Owing
  <2> QED
    BY <1>21, <2>2, <2>3 DEF PeekCheck
<1>22. ASSUME PeekSample(t)
      PROVE  Alone(t)'
  <2>1. op[t].stage = "pop" /\ pc[t] = "idle" /\ Undisturbed
    BY <1>22, <1>h DEF PeekSample, At
  <2>2. CASE Return(t)
    BY <1>d, <1>g, <1>i, <1>m, <2>1, <2>2 DEF Owing
  <2>3. ASSUME NEW k \in Present, op' = [op EXCEPT ![t].stage = "on_ttl", ![t].cur = items[k]]
        PROVE  Alone(t)'
    BY <1>19, <2>1, <2>3 DEF Present
  <2> QED
    BY <1>22, <2>2, <2>3 DEF PeekSample
<1>23. ASSUME TtlRemove(t)
      PROVE  Alone(t)'
  <2>1. op[t].stage = "on_ttl" /\ op'[t].stage = "none"
    BY <1>23, <1>d DEF TtlRemove, At
  <2>2. CurKey(t) \in Keys
    BY <1>b, <2>1, MapConstants DEF Holding, CurKey
  <2>3. CASE RemoveShard(t, CurKey(t))
    <3>1. /\ pc[t] = "idle" /\ pc' = [pc EXCEPT ![t] = "rm_len"]
          /\ items[CurKey(t)] # NoEntry /\ RemoveUnlocked(t, CurKey(t))
          /\ mem' = mem /\ payload' = payload
      BY <2>3 DEF RemoveShard, Goto, globalVars
    <3>2. Moves(t) /\ DebtOK(t)'
      BY <1>a, <2>2, <3>1, RemoveMoves
    <3> QED
      BY <1>k, <1>m, <2>1, <3>2 DEF Owing
  <2>4. CASE UNCHANGED mapVars
    BY <1>g, <1>h, <1>i, <1>m, <2>1, <2>4 DEF Owing
  <2> QED
    BY <1>23, <2>3, <2>4 DEF TtlRemove
<1>24. ASSUME TtlWeigh(t)
      PROVE  Alone(t)'
  <2> DEFINE b == WeightOf(Cur(t))
  <2>1. op[t].stage = "on_ttl" /\ pc[t] = "idle" /\ Undisturbed
    BY <1>24, <1>h DEF TtlWeigh, At
  <2>2. op' = [op EXCEPT ![t] = [op[t] EXCEPT !.stage = "upstream", !.bytes = b]]
    BY <1>24, <1>b DEF TtlWeigh
  <2> HIDE DEF b
  <2>3. op'[t].stage = "upstream" /\ op'[t].cur = op[t].cur /\ op'[t].bytes = b
    BY <1>b, <1>c, <2>2 DEF OpRecords
  <2>4. InPlace(t)'
    BY <1>a, <2>1, <2>3 DEF InPlace, Working, Undisturbed, CurKey, Cur, WeightOf, b
  <2> QED
    BY <1>j, <2>1, <2>3, <2>4 DEF Owing
<1>25. ASSUME RefreshStores(t)
      PROVE  Alone(t)'
  <2>1. op[t].stage = "upstream" /\ pc[t] = "idle" /\ Then(t, "refreshed")
    BY <1>25 DEF RefreshStores, At
  <2>2. PICK p \in Payloads : StorePayload(Cur(t), p)
    BY <1>25 DEF RefreshStores
  <2>3. op'[t].stage = "refreshed" /\ op'[t].cur = op[t].cur /\ op'[t].bytes = op[t].bytes
    BY <1>e, <2>1 DEF Stages
  <2>4. Cur(t) \in Entries /\ Cur(t)' = Cur(t)
    BY <1>b, <2>1, <2>3 DEF Holding, Cur
  <2>5. WeightOf(Cur(t))' = Weight[p]
    BY <1>a, <2>2, <2>4 DEF StorePayload, WeightOf, TypeOK
  <2>6. op[t].bytes = WeightOf(Cur(t))
    BY <1>a, <2>1 DEF InPlace
  <2>7. Unsettled(t)' = Weight[p] - WeightOf(Cur(t))
    BY <2>3, <2>4, <2>5, <2>6 DEF Unsettled, Owing, Grown
  <2>8. InPlace(t)'
    BY <1>a, <2>1, <2>2, <2>3 DEF InPlace, Working, StorePayload, shardVars, localVars, CurKey, Cur
  <2> QED
    BY <1>a, <2>1, <2>2, <2>4, <2>7, <2>8, StoreBalance
<1>26. ASSUME RefreshFresh(t) \/ RefreshUnqueue(t)
      PROVE  Alone(t)'
  <2>1. op[t].stage \in {"refreshed", "settle"} /\ pc[t] = "idle" /\ Undisturbed
    BY <1>26, <1>h DEF RefreshFresh, RefreshUnqueue, At
  <2>2. PICK st \in {"settle", "reweigh"} : Then(t, st)
    BY <1>26 DEF RefreshFresh, RefreshUnqueue
  <2>3. op'[t].stage = st /\ op'[t].cur = op[t].cur /\ op'[t].bytes = op[t].bytes
    BY <1>e, <2>2 DEF Stages
  <2>4. Unsettled(t)' = Unsettled(t) /\ CurKey(t)' = CurKey(t)
    BY <2>1, <2>3 DEF Unsettled, Owing, Grown, WeightOf, Cur, CurKey, Undisturbed
  <2>5. \A s \in Shards : UnsettledIn(t, s)' = UnsettledIn(t, s)
    BY <2>4 DEF UnsettledIn
  <2>6. InPlace(t)'
    BY <1>a, <2>1, <2>3 DEF InPlace, Working, Owing, Undisturbed, CurKey, Cur
  <2> QED
    BY <1>a, <2>1, <2>4, <2>5, <2>6, GoesOn
<1>27. ASSUME TtlSettle(t)
      PROVE  Alone(t)'
  <2>1. op[t].stage = "reweigh" /\ op'[t].stage = "none"
    BY <1>27, <1>d DEF TtlSettle, At
  <2>2. Cur(t) \in Entries /\ Unsettled(t) = Grown(t) /\ op[t].stage \in Owing
    BY <1>b, <2>1 DEF Holding, Unsettled, Owing
  <2>3. CASE Grown(t) = 0
    <3>1. Undisturbed
      BY <1>27, <1>h, <2>3 DEF TtlSettle
    <3> QED
      BY <1>i, <1>m, <2>1, <2>2, <2>3, <3>1
  <2>4. CASE Grown(t) # 0
    <3>1. AddMem(t, CurKey(t), Unsettled(t))
      BY <1>27, <2>2, <2>4 DEF TtlSettle, Settle
    <3> QED
      BY <1>a, <1>m, <2>1, <2>2, <3>1, SettleBalance
  <2> QED
    BY <2>3, <2>4
<1> QED
  BY <1>1, <1>2, <1>3, <1>4, <1>5, <1>7, <1>8, <1>9, <1>10, <1>11, <1>12, <1>13, <1>14, <1>15,
     <1>16, <1>18, <1>20, <1>21, <1>22, <1>23, <1>24, <1>25, <1>26, <1>27
    DEF StorageCall, StorageStep

\* A step of one thread leaves the calls and the debts of the others alone.
LEMMA OthersStay ==
  ASSUME TypeOK, StorageTypeOK, NEW t \in Threads, StorageCall(t) \/ StorageStep(t),
         NEW u \in Threads \ {t}
  PROVE  op'[u] = op[u] /\ pc'[u] = pc[u] /\ dmem'[u] = dmem[u]
<1>1. DOMAIN op = Threads /\ pc \in [Threads -> Locations] /\ dmem \in [Threads -> Int]
  BY DEF StorageTypeOK, TypeOK
<1>2. op'[u] = op[u]
  <2>1. CASE StorageCall(t)
    BY <1>1, <2>1 DEF StorageCall, Get, Set, StorageRemove, Clear, SoftEvict, Peek, Return
  <2>2. CASE MapWorks(t)
    BY <2>2 DEF MapWorks
  <2>3. CASE \/ TouchUse(t) \/ TouchExpired(t) \/ TouchMark(t) \/ TouchPush(t) \/ TouchUnmark(t)
             \/ SetCompare(t) \/ SetAdmit(t) \/ SetEvict(t) \/ SetPut(t)
    BY <1>1, <2>3 DEF TouchUse, TouchExpired, TouchMark, TouchPush, TouchUnmark, SetCompare,
                      SetAdmit, SetEvict, SetPut, Then, Return
  <2>4. CASE UpdateWeigh(t) \/ UpdateSwap(t) \/ UpdateMem(t) \/ UpdateFresh(t) \/ UpdateUnqueue(t)
    BY <1>1, <2>4 DEF UpdateWeigh, UpdateSwap, UpdateMem, UpdateFresh, UpdateUnqueue, Then, Return
  <2>5. CASE (\E s \in Shards : PeekPop(t, s)) \/ PeekLookup(t) \/ PeekCheck(t) \/ PeekSample(t)
    BY <1>1, <2>5 DEF PeekPop, PeekLookup, PeekCheck, PeekSample, NextQueue, Then, Return
  <2>6. CASE \/ TtlRemove(t) \/ TtlWeigh(t) \/ RefreshFails(t) \/ RefreshStores(t)
             \/ RefreshFresh(t) \/ RefreshUnqueue(t) \/ TtlSettle(t)
    BY <1>1, <2>6 DEF TtlRemove, TtlWeigh, RefreshFails, RefreshStores, RefreshFresh,
                      RefreshUnqueue, TtlSettle, Then, Return
  <2> QED
    BY <2>1, <2>2, <2>3, <2>4, <2>5, <2>6 DEF StorageStep
<1> DEFINE Same == pc'[u] = pc[u] /\ dmem'[u] = dmem[u]
<1>3. ASSUME UNCHANGED <<pc, dmem>>
      PROVE  Same
  BY <1>3
<1>4. /\ \A e : SetShard(t, e) => Same
      /\ \A k : RemoveShard(t, k) => Same
      /\ \A k, d : AddMem(t, k, d) => Same
      /\ \A limit : EvictBegin(t, limit) => Same
      /\ ClearBegin(t) => Same
  BY <1>1 DEF SetShard, RemoveShard, RemoveUnlocked, AddMem, EvictBegin, ClearBegin, Goto
<1>5. ASSUME Continue(t)
      PROVE  Same
  <2>1. CASE SetMem(t) \/ SetLen(t) \/ RemoveLen(t) \/ RemoveMem(t) \/ AddShardMem(t)
    BY <1>1, <2>1 DEF SetMem, SetLen, RemoveLen, RemoveMem, AddShardMem, AddGlobalMem, AddGlobalLen, Goto
  <2>2. CASE \/ EvictStop(t) \/ (\E s \in Shards : EvictNextShard(t, s)) \/ EvictPop(t)
             \/ (\E k \in Keys : EvictPick(t, k)) \/ EvictPickNone(t) \/ EvictMissed(t)
    BY <1>1, <2>2 DEF EvictStop, EvictNextShard, EvictPop, EvictPick, EvictPickNone, EvictMissed,
                      RemoveUnlocked, Goto
  <2>3. CASE EvictRemove(t) \/ EvictMem(t) \/ EvictLen(t)
    BY <1>1, <2>3 DEF EvictRemove, EvictMem, EvictLen, RemoveUnlocked, AddGlobalMem, AddGlobalLen, Goto
  <2>4. CASE ClearDone(t) \/ ClearLock(t) \/ ClearZero(t) \/ ClearMem(t) \/ ClearLen(t)
    BY <1>1, <2>4 DEF ClearDone, ClearLock, ClearZero, ClearMem, ClearLen, AddGlobalMem,
                      AddGlobalLen, Goto
  <2> QED
    BY <1>5, <2>1, <2>2, <2>3, <2>4 DEF Continue
<1>6. /\ \A k : TouchLru(k) => Same
      /\ \A e, p : StorePayload(e, p) => Same
      /\ UNCHANGED mapVars => Same
  BY <1>3 DEF TouchLru, StorePayload, mapVars, localVars
<1> HIDE DEF Same
<1>7. CASE StorageCall(t)
  BY <1>2, <1>4, <1>6, <1>7 DEF StorageCall, Get, Set, StorageRemove, Clear, SoftEvict, Peek, Same
<1>8. CASE MapWorks(t)
  BY <1>2, <1>5, <1>8 DEF MapWorks, Same
<1>9. CASE \/ TouchUse(t) \/ TouchExpired(t) \/ TouchMark(t) \/ TouchPush(t) \/ TouchUnmark(t)
           \/ SetCompare(t) \/ SetAdmit(t) \/ SetEvict(t) \/ SetPut(t)
  BY <1>2, <1>4, <1>6, <1>9 DEF TouchUse, TouchExpired, TouchMark, TouchPush, TouchUnmark,
     SetCompare, SetAdmit, SetEvict, SetPut, Same
<1>10. CASE UpdateWeigh(t) \/ UpdateSwap(t) \/ UpdateMem(t) \/ UpdateFresh(t) \/ UpdateUnqueue(t)
  BY <1>2, <1>4, <1>6, <1>10 DEF UpdateWeigh, UpdateSwap, UpdateMem, UpdateFresh, UpdateUnqueue,
     Settle, Same
<1>11. CASE \/ (\E s \in Shards : PeekPop(t, s)) \/ PeekLookup(t) \/ PeekCheck(t) \/ PeekSample(t)
            \/ TtlRemove(t) \/ TtlWeigh(t) \/ RefreshFails(t) \/ RefreshStores(t)
            \/ RefreshFresh(t) \/ RefreshUnqueue(t) \/ TtlSettle(t)
  BY <1>2, <1>4, <1>6, <1>11 DEF PeekPop, PeekLookup, PeekCheck, PeekSample, TtlRemove, TtlWeigh,
     RefreshFails, RefreshStores, RefreshFresh, RefreshUnqueue, TtlSettle, Settle, Same
<1> QED
  BY <1>7, <1>8, <1>9, <1>10, <1>11 DEF StorageStep

\* A thread that takes a step is in a call before or after it.
LEMMA Engaged ==
  ASSUME TypeOK, StorageTypeOK, NEW t \in Threads, StorageCall(t) \/ StorageStep(t)
  PROVE  t \in Busy \/ t \in Busy'
<1>1. DOMAIN op = Threads /\ pc \in [Threads -> Locations]
  BY DEF StorageTypeOK, TypeOK
<1>2. ASSUME NEW k \in Keys, StorageRemove(t, k)
      PROVE  t \in Busy'
  BY <1>1, <1>2 DEF StorageRemove, RemoveShard, Goto, Busy
<1>3. ASSUME Clear(t) \/ SoftEvict(t)
      PROVE  t \in Busy'
  BY <1>1, <1>3 DEF Clear, SoftEvict, ClearBegin, EvictBegin, Goto, Busy
<1>4. ASSUME NEW k \in Keys, NEW f \in Prints, Get(t, k, f)
      PROVE  t \in Busy'
  <2>1. op'[t].stage = "use"
    BY <1>1, <1>4, NoOpRecord DEF Get, OpRecords
  <2> QED
    BY <2>1 DEF Busy
<1>5. ASSUME NEW e \in Entries, Set(t, e)
      PROVE  t \in Busy'
  <2>1. op'[t].stage \in {"compare", "admit"}
    BY <1>1, <1>5, NoOpRecord DEF Set, OpRecords
  <2> QED
    BY <2>1 DEF Busy
<1>6. ASSUME Peek(t)
      PROVE  t \in Busy'
  <2>1. op'[t].stage = "pop"
    BY <1>1, <1>6, NoOpRecord DEF Peek, OpRecords
  <2> QED
    BY <2>1 DEF Busy
<1>7. ASSUME MapWorks(t)
      PROVE  t \in Busy
  <2>1. pc[t] # "idle"
    BY <1>7 DEF MapWorks, Continue, SetMem, SetLen, RemoveLen, RemoveMem, AddShardMem, EvictStop,
                EvictNextShard, EvictPop, EvictPick, EvictPickNone, EvictRemove, EvictMissed,
                EvictMem, EvictLen, ClearDone, ClearLock, ClearZero, ClearMem, ClearLen, Goto
  <2> QED
    BY <2>1 DEF Busy
<1>8. ASSUME StorageStep(t), ~MapWorks(t)
      PROVE  t \in Busy
  <2>1. op[t].stage # "none"
    BY <1>8 DEF StorageStep, At, TouchUse, TouchExpired, TouchMark, TouchPush, TouchUnmark,
       SetCompare, SetAdmit, SetEvict, SetPut, UpdateWeigh, UpdateSwap, UpdateMem, UpdateFresh,
       UpdateUnqueue, PeekPop, PeekLookup, PeekCheck, PeekSample, TtlRemove, TtlWeigh,
       RefreshFails, RefreshStores, RefreshFresh, RefreshUnqueue, TtlSettle
  <2> QED
    BY <2>1 DEF Busy
<1> QED
  BY <1>2, <1>3, <1>4, <1>5, <1>6, <1>7, <1>8 DEF StorageCall

\* A set that has no two members.
LEMMA AtMostOne ==
  ASSUME NEW B, B \subseteq Threads, ~(Cardinality(B) > 1)
  PROVE  \A t, u \in B : t = u
<1> SUFFICES ASSUME NEW t \in B, NEW u \in B, t # u PROVE FALSE
  OBVIOUS
<1>1. IsFiniteSet(B)
  BY MapConstants, FS_Subset
<1>2. Cardinality({t, u}) = 2
  <2>1. IsFiniteSet({t}) /\ Cardinality({t}) = 1
    BY FS_Singleton
  <2>2. {t, u} = {t} \cup {u} /\ u \notin {t}
    OBVIOUS
  <2>3. Cardinality({t} \cup {u}) = Cardinality({t}) + 1
    BY <2>1, <2>2, FS_AddElement
  <2> QED
    BY <2>1, <2>2, <2>3
<1>3. Cardinality({t, u}) <= Cardinality(B)
  BY <1>1, FS_Subset
<1>4. Cardinality(B) \in Nat
  BY <1>1, FS_CardinalityType
<1> QED
  BY <1>2, <1>3, <1>4

\* Both counters say what the keys weigh.
Settled ==
  /\ mem = SumFunctionOnSet(Load, Keys)
  /\ \A s \in Shards : smem[s] = SumFunctionOnSet(Load, KeysIn(s))

\* As long as calls take turns: at most one is in flight and it accounts for
\* every byte the counters are off; nobody else owes anything.
Turns ==
  /\ \A t, u \in Busy : t = u
  /\ \A t \in Threads \ Busy : dmem[t] = 0
  /\ \A t \in Busy : Alone(t)
  /\ Quiet => Settled
TurnsInv == ~overlapped => Turns

\* A thread outside any call owes nothing: being alone is being settled.
LEMMA IdleAlone ==
  ASSUME TypeOK, StorageTypeOK, NEW t \in Threads, t \notin Busy
  PROVE  /\ dmem[t] = 0 /\ Settled => Alone(t)
         /\ Alone(t) => dmem[t] = 0 /\ Settled
<1>1. op[t].stage = "none" /\ pc[t] = "idle"
  BY DEF Busy
<1>2. mem \in Int /\ \A s \in Shards : smem[s] \in Int
  BY DEF TypeOK
<1>3. InPlace(t) /\ Unsettled(t) = 0 /\ \A s \in Shards : UnsettledIn(t, s) = 0
  BY <1>1 DEF InPlace, Working, Owing, Unsettled, UnsettledIn
<1>4. DebtOK(t) <=> dmem[t] = 0
  BY <1>1 DEF DebtOK
<1>5. dmem[t] = 0 => MapOwes(t) = 0 /\ \A s \in Shards : ShardOwes(t, s) = 0
  BY <1>1 DEF MapOwes, ShardOwes
<1>6. dmem[t] = 0 => (Balanced(t) <=> Settled)
  <2>1. (mem + 0) + 0 = mem /\ \A s \in Shards : (smem[s] + 0) + 0 = smem[s]
    BY <1>2
  <2> QED
    BY <1>3, <1>5, <2>1 DEF Balanced, Settled
<1> QED
  BY <1>3, <1>4, <1>6 DEF Alone

\* ... also after a step.
LEMMA IdleAloneNext ==
  ASSUME TypeOK', StorageTypeOK', NEW t \in Threads, t \notin Busy', Alone(t)'
  PROVE  dmem'[t] = 0 /\ Settled'
<1>1. op'[t].stage = "none" /\ pc'[t] = "idle"
  BY DEF Busy
<1>2. mem' \in Int /\ \A s \in Shards : smem'[s] \in Int
  BY DEF TypeOK
<1>3. Unsettled(t)' = 0 /\ \A s \in Shards : UnsettledIn(t, s)' = 0
  BY <1>1 DEF Owing, Unsettled, UnsettledIn
<1>4. dmem'[t] = 0
  BY <1>1 DEF Alone, DebtOK
<1>5. MapOwes(t)' = 0 /\ \A s \in Shards : ShardOwes(t, s)' = 0
  BY <1>1, <1>4 DEF MapOwes, ShardOwes
<1>6. Settled'
  <2>1. \A n \in Int : (n + 0) + 0 = n
    OBVIOUS
  <2> QED
    BY <1>2, <1>3, <1>5, <2>1 DEF Alone, Balanced, Settled
<1> QED
  BY <1>4, <1>6

\* A step keeps the turns, unless it makes two calls overlap.
LEMMA TurnsStep ==
  ASSUME IndInv, StorageTypeOK, TurnsInv, [TurnsNext]_<<storageVars, overlapped>>
  PROVE  TurnsInv'
<1> SUFFICES ASSUME ~overlapped' PROVE Turns'
  BY DEF TurnsInv
<1>0. [StorageNext]_storageVars
  BY DEF TurnsNext
<1>1. TypeOK /\ TypeOK' /\ StorageTypeOK'
  BY <1>0, StorageInvStep DEF IndInv
<1>2. ASSUME UNCHANGED <<items, smem, mem, payload, pc, at, dmem, op>>, ~overlapped
      PROVE  Turns'
  <2>1. Turns
    BY <1>2 DEF TurnsInv
  <2>2. Busy' = Busy /\ (Quiet' <=> Quiet) /\ Busy \subseteq Threads
    BY <1>2 DEF Busy, Quiet
  <2>3. Load' = Load
    BY <1>2 DEF Load, WeightOf
  <2>4. Settled => Settled'
    BY <1>2, <2>3 DEF Settled
  <2>5. ASSUME NEW t \in Threads, Alone(t)
        PROVE  Alone(t)'
    <3>1. Unsettled(t)' = Unsettled(t) /\ \A s \in Shards : UnsettledIn(t, s)' = UnsettledIn(t, s)
      BY <1>2 DEF Unsettled, UnsettledIn, Grown, WeightOf, Cur, CurKey
    <3>2. InPlace(t)'
      BY <1>2, <2>5 DEF Alone, InPlace, CurKey, Cur, New, WeightOf
    <3> QED
      BY <1>1, <1>2, <2>5, <3>1, <3>2, GoesOn DEF Undisturbed
  <2> QED
    BY <1>2, <2>1, <2>2, <2>4, <2>5 DEF Turns
<1>3. ASSUME CloseStorage \/ (\E e \in Entries : Expire(e)) \/ Rest \/ UNCHANGED <<storageVars, overlapped>>
      PROVE  UNCHANGED <<items, smem, mem, payload, pc, at, dmem, op>>
  BY <1>3 DEF CloseStorage, Close, Expire, Rest, storageVars, mapVars, shardVars, globalVars, localVars
<1>4. ASSUME NEW t \in Threads, StorageCall(t) \/ StorageStep(t),
             overlapped' = (overlapped \/ Cardinality(Busy') > 1)
      PROVE  Turns'
  <2>1. Turns /\ ~(Cardinality(Busy') > 1)
    BY <1>4 DEF TurnsInv
  <2>2. \A u \in Threads \ {t} : op'[u] = op[u] /\ pc'[u] = pc[u] /\ dmem'[u] = dmem[u]
    BY <1>1, <1>4, OthersStay
  <2>3. \A u \in Threads \ {t} : u \in Busy' <=> u \in Busy
    BY <2>2 DEF Busy
  <2>4. Busy \subseteq Threads /\ Busy' \subseteq Threads
    BY DEF Busy
  <2>5. \A x, y \in Busy' : x = y
    BY <2>1, <2>4, AtMostOne
  <2>6. t \in Busy \/ t \in Busy'
    BY <1>1, <1>4, Engaged
  <2>7. \A u \in Threads \ {t} : u \notin Busy /\ u \notin Busy'
    BY <2>1, <2>3, <2>4, <2>5, <2>6 DEF Turns
  <2>8. Alone(t)
    <3>1. CASE t \in Busy
      BY <2>1, <3>1 DEF Turns
    <3>2. CASE t \notin Busy
      <4>1. Quiet
        BY <2>7, <3>2 DEF Quiet, Busy
      <4> QED
        BY <1>1, <2>1, <3>2, <4>1, IdleAlone DEF Turns
    <3> QED
      BY <3>1, <3>2
  <2>9. Alone(t)'
    BY <1>1, <1>4, <2>8, AloneStep
  <2>10. \A u \in Threads \ {t} : dmem'[u] = 0
    BY <2>1, <2>2, <2>7 DEF Turns
  <2>11. t \notin Busy' => dmem'[t] = 0 /\ Settled'
    BY <1>1, <2>9, IdleAloneNext
  <2>12. Quiet' => t \notin Busy'
    BY DEF Quiet, Busy
  <2> QED
    BY <2>4, <2>5, <2>7, <2>9, <2>10, <2>11, <2>12 DEF Turns
<1>5. CASE TurnsNext
  <2>1. StorageNext /\ overlapped' = (overlapped \/ Cardinality(Busy') > 1)
    BY <1>5 DEF TurnsNext
  <2> QED
    BY <1>2, <1>3, <1>4, <2>1 DEF StorageNext
<1>6. CASE UNCHANGED <<storageVars, overlapped>>
  BY <1>2, <1>3, <1>6
<1> QED
  BY <1>5, <1>6

\* Updates in place, refreshes, removals, evictions and clears that take turns
\* leave both byte counters exact: storage.rs accounts for every byte as long as
\* no two calls overlap.
THEOREM TurnsSettleMem == TurnsSpec => []SequentialMemSettled
<1>1. TurnsInit => TurnsInv
  <2> SUFFICES ASSUME TurnsInit PROVE Turns
    BY DEF TurnsInv
  <2>1. /\ items = [k \in Keys |-> NoEntry] /\ mem = 0 /\ smem = [s \in Shards |-> 0]
        /\ pc = [t \in Threads |-> "idle"] /\ dmem = [t \in Threads |-> 0]
        /\ op = [t \in Threads |-> NoOp]
    BY DEF TurnsInit, StorageInit, Init
  <2>2. Busy = {}
    BY <2>1, NoOpRecord DEF Busy
  <2>3. \A k \in Keys : Load[k] = 0
    BY <2>1 DEF Load
  <2>4. SumFunctionOnSet(Load, Keys) = 0
    BY <2>3, SumZero, MapConstants
  <2>5. ASSUME NEW s \in Shards
        PROVE  SumFunctionOnSet(Load, KeysIn(s)) = 0
    <3>1. IsFiniteSet(KeysIn(s)) /\ \A k \in KeysIn(s) : Load[k] = 0
      BY <2>3, MapConstants, FS_Subset DEF KeysIn
    <3> QED
      BY <3>1, SumZero
  <2> QED
    BY <2>1, <2>2, <2>4, <2>5 DEF Turns, Settled
<1>2. TurnsInit => StorageInit
  BY DEF TurnsInit
<1>3. [TurnsNext]_<<storageVars, overlapped>> => [StorageNext]_storageVars
  BY DEF TurnsNext
<1>4. IndInv /\ StorageTypeOK /\ TurnsInv /\ [TurnsNext]_<<storageVars, overlapped>> => TurnsInv'
  BY TurnsStep
<1>5. IndInv /\ TurnsInv => SequentialMemSettled
  BY LoadBytes DEF IndInv, TurnsInv, Turns, Settled, SequentialMemSettled, MemSettled
<1> QED
  BY <1>1, <1>2, <1>3, <1>4, <1>5, StorageInitOK, StorageInvStep, PTL DEF TurnsSpec
=============================================================================
