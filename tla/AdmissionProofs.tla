--------------------------- MODULE AdmissionProofs ---------------------------
(***************************************************************************)
(* Proofs about the admission filter, for any number of threads, hashes,   *)
(* words and bits to a lane.  The first part is the arithmetic of packed   *)
(* counters, the second the sketch under concurrent calls, the third the   *)
(* doorkeeper in front of it.                                              *)
(***************************************************************************)
EXTENDS Sketch, TinyLfu, FiniteSetTheorems, WellFoundedInduction, TLAPS

(***************************************************************************)
(* Part 1: counters packed into words                                      *)
(***************************************************************************)

-----------------------------------------------------------------------------
(* Induction and recursion over the natural numbers *)

\* A set of numbers that is not empty has a least one.
LEMMA LeastOf ==
  ASSUME NEW T, T \subseteq Nat, T # {}
  PROVE  \E t \in T : \A u \in T : t <= u
<1> DEFINE R == OpToRel(<, Nat)
<1>1. IsWellFoundedOn(R, Nat)
  BY NatLessThanWellFounded
<1>2. PICK t \in T : \A u \in T : ~(<<u, t>> \in R)
  <2> HIDE DEF R
  <2> QED
    BY <1>1, WFMin
<1>3. \A u \in T : ~(u < t)
  <2>1. \A u \in T : u < t => <<u, t>> \in R
    BY DEF OpToRel
  <2> HIDE DEF R
  <2> QED
    BY <1>2, <2>1
<1>4. \A u \in T : t <= u
  <2> HIDE DEF R
  <2> QED
    BY <1>3
<1> QED
  BY <1>4

\* Induction, stated about the set of numbers that have the property.
LEMMA SetInduction ==
  ASSUME NEW B, 0 \in B, \A n \in Nat : n \in B => n + 1 \in B
  PROVE  \A n \in Nat : n \in B
<1> SUFFICES ASSUME Nat \ B # {} PROVE FALSE
  OBVIOUS
<1>1. PICK t \in Nat \ B : \A u \in Nat \ B : t <= u
  BY LeastOf
<1>2. t # 0 /\ t - 1 \in Nat
  OBVIOUS
<1>3. t - 1 \in B
  BY <1>1, <1>2
<1> QED
  BY <1>2, <1>3

\* 1 << n, as its definition says.
Doubles(g, n) == g[0] = 1 /\ \A i \in 0..(n - 1) : g[i + 1] = 2 * g[i]

LEMMA DoublesExist ==
  \A n \in Nat : \E g \in [0..n -> Nat] : Doubles(g, n)
<1> DEFINE B == {n \in Nat : \E g \in [0..n -> Nat] : Doubles(g, n)}
<1>1. 0 \in B
  <2>1. Doubles([i \in 0..0 |-> 1], 0)
    BY DEF Doubles
  <2> QED
    BY <2>1
<1>2. \A n \in Nat : n \in B => n + 1 \in B
  <2> SUFFICES ASSUME NEW n \in Nat, NEW g \in [0..n -> Nat], Doubles(g, n)
               PROVE  n + 1 \in B
    OBVIOUS
  <2> DEFINE h == [i \in 0..(n + 1) |-> IF i = n + 1 THEN 2 * g[n] ELSE g[i]]
  <2>1. h \in [0..(n + 1) -> Nat]
    OBVIOUS
  <2>2. h[0] = 1
    BY DEF Doubles
  <2>3. \A i \in 0..n : h[i + 1] = 2 * h[i]
    <3> SUFFICES ASSUME NEW i \in 0..n PROVE h[i + 1] = 2 * h[i]
      OBVIOUS
    <3>1. CASE i = n
      BY <3>1
    <3>2. CASE i # n
      <4>1. i \in 0..(n - 1) /\ i + 1 \in 0..n /\ i + 1 # n + 1 /\ i # n + 1
        BY <3>2
      <4>2. g[i + 1] = 2 * g[i]
        BY <4>1 DEF Doubles
      <4> QED
        BY <4>1, <4>2
    <3> QED
      BY <3>1, <3>2
  <2>4. (n + 1) - 1 = n
    OBVIOUS
  <2>5. Doubles(h, n + 1)
    BY <2>2, <2>3, <2>4 DEF Doubles
  <2> HIDE DEF h
  <2> QED
    BY <2>1, <2>5
<1> HIDE DEF B
<1>3. \A n \in Nat : n \in B
  BY <1>1, <1>2, SetInduction
<1> QED
  BY <1>3 DEF B

LEMMA DoublesUnique ==
  ASSUME NEW m \in Nat, NEW n \in Nat, m <= n, NEW g, NEW h, Doubles(g, m), Doubles(h, n)
  PROVE  g[m] = h[m]
<1> DEFINE B == {i \in Nat : i <= m => g[i] = h[i]}
<1>1. 0 \in B
  BY DEF Doubles
<1>2. \A i \in Nat : i \in B => i + 1 \in B
  <2> SUFFICES ASSUME NEW i \in Nat, i + 1 <= m, g[i] = h[i] PROVE g[i + 1] = h[i + 1]
    OBVIOUS
  <2>1. i \in 0..(m - 1) /\ i \in 0..(n - 1)
    OBVIOUS
  <2> QED
    BY <2>1 DEF Doubles
<1>3. \A i \in Nat : i \in B
  <2> HIDE DEF B
  <2> QED
    BY <1>1, <1>2, SetInduction
<1> QED
  BY <1>3

LEMMA Pow2Is ==
  /\ Pow2 \in [Nat -> Nat \ {0}]
  /\ Pow2[0] = 1
  /\ \A n \in Nat : Pow2[n + 1] = 2 * Pow2[n]
<1> DEFINE eq(f) == [n \in Nat |-> IF n = 0 THEN 1 ELSE 2 * f[n - 1]]
           upto(n) == CHOOSE g \in [0..n -> Nat] : Doubles(g, n)
           p == [n \in Nat |-> upto(n)[n]]
<1>1. \A n \in Nat : upto(n) \in [0..n -> Nat] /\ Doubles(upto(n), n)
  BY DoublesExist
<1> HIDE DEF upto
<1>2. p \in [Nat -> Nat]
  BY <1>1
<1>3. p[0] = 1
  BY <1>1 DEF Doubles
<1>4. \A n \in Nat : p[n + 1] = 2 * p[n]
  <2> SUFFICES ASSUME NEW n \in Nat PROVE p[n + 1] = 2 * p[n]
    OBVIOUS
  <2>1. n + 1 \in Nat /\ n <= n + 1 /\ n \in 0..((n + 1) - 1)
    OBVIOUS
  <2>2. Doubles(upto(n), n) /\ Doubles(upto(n + 1), n + 1)
    BY <1>1, <2>1
  <2>3. upto(n)[n] = upto(n + 1)[n]
    BY <2>1, <2>2, DoublesUnique
  <2>4. upto(n + 1)[n + 1] = 2 * upto(n + 1)[n]
    BY <2>1, <2>2 DEF Doubles
  <2> QED
    BY <2>1, <2>3, <2>4
<1> HIDE DEF p
<1>5. p = eq(p)
  <2>1. \A n \in Nat : p[n] = eq(p)[n]
    <3> SUFFICES ASSUME NEW n \in Nat PROVE p[n] = eq(p)[n]
      OBVIOUS
    <3>1. CASE n = 0
      BY <1>3, <3>1
    <3>2. CASE n # 0
      <4>1. n - 1 \in Nat /\ (n - 1) + 1 = n
        BY <3>2
      <4>2. p[(n - 1) + 1] = 2 * p[n - 1]
        BY <1>4, <4>1
      <4> QED
        BY <3>2, <4>1, <4>2
    <3> QED
      BY <3>1, <3>2
  <2> QED
    BY <1>2, <2>1
<1>6. Pow2 = eq(Pow2)
  <2>1. Pow2 = CHOOSE f : f = eq(f)
    BY DEF Pow2
  <2> QED
    BY <1>5, <2>1
<1>7. Pow2[0] = 1 /\ \A n \in Nat : Pow2[n + 1] = 2 * Pow2[n]
  <2>1. Pow2[0] = eq(Pow2)[0] /\ eq(Pow2)[0] = 1
    BY <1>6
  <2>2. \A n \in Nat : Pow2[n + 1] = eq(Pow2)[n + 1] /\ eq(Pow2)[n + 1] = 2 * Pow2[n]
    <3> SUFFICES ASSUME NEW n \in Nat
                 PROVE  Pow2[n + 1] = eq(Pow2)[n + 1] /\ eq(Pow2)[n + 1] = 2 * Pow2[n]
      OBVIOUS
    <3>1. n + 1 \in Nat /\ n + 1 # 0 /\ (n + 1) - 1 = n
      OBVIOUS
    <3> QED
      BY <1>6, <3>1
  <2> QED
    BY <2>1, <2>2
<1>8. \A n \in Nat : Pow2[n] \in Nat \ {0}
  <2> DEFINE B == {n \in Nat : Pow2[n] \in Nat \ {0}}
  <2>1. 0 \in B
    BY <1>7
  <2>2. \A n \in Nat : n \in B => n + 1 \in B
    BY <1>7
  <2>3. \A n \in Nat : n \in B
    <3> HIDE DEF B
    <3> QED
      BY <2>1, <2>2, SetInduction
  <2> QED
    BY <2>3
<1>9. Pow2 = [n \in Nat |-> Pow2[n]]
  <2>1. eq(Pow2) = [n \in Nat |-> eq(Pow2)[n]]
    OBVIOUS
  <2> HIDE DEF eq
  <2> QED
    BY <1>6, <2>1
<1> QED
  BY <1>7, <1>8, <1>9

-----------------------------------------------------------------------------
(* Division *)

LEMMA DivMod ==
  ASSUME NEW x \in Nat, NEW u \in Nat \ {0}
  PROVE  /\ x \div u \in Nat
         /\ x % u \in 0..(u - 1)
         /\ x = u * (x \div u) + (x % u)
  BY SMT

LEMMA DivModUnique ==
  ASSUME NEW u \in Nat \ {0}, NEW q \in Nat, NEW r \in 0..(u - 1)
  PROVE  (u * q + r) \div u = q /\ (u * q + r) % u = r
  BY SMT

LEMMA DivDiv ==
  ASSUME NEW x \in Nat, NEW a \in Nat \ {0}, NEW b \in Nat \ {0}
  PROVE  (x \div a) \div b = x \div (a * b)
  BY SMT

\* A multiple of the divisor goes straight through.
LEMMA AddMultiple ==
  ASSUME NEW x \in Nat, NEW u \in Nat \ {0}, NEW c \in Nat
  PROVE  (x + u * c) \div u = (x \div u) + c /\ (x + u * c) % u = x % u
<1> DEFINE q == x \div u
           r == x % u
<1>1. q \in Nat /\ r \in 0..(u - 1) /\ x = u * q + r
  BY DivMod
<1> HIDE DEF q, r
<1> DEFINE Q == q + c
<1>2. x + u * c = u * Q + r /\ Q \in Nat
  BY <1>1, SMT
<1>3. Q = (x \div u) + c
  BY DEF q
<1> HIDE DEF Q
<1>4. (u * Q + r) \div u = Q /\ (u * Q + r) % u = r
  BY <1>1, <1>2, DivModUnique
<1> QED
  BY <1>2, <1>3, <1>4, Zenon DEF r

\* A digit that is not the last one takes one more without a carry.
LEMMA NoCarry ==
  ASSUME NEW y \in Nat, NEW b \in Nat \ {0}, (y % b) + 1 < b
  PROVE  (y + 1) \div b = y \div b /\ (y + 1) % b = (y % b) + 1
<1> DEFINE q == y \div b
           r == y % b
<1>1. q \in Nat /\ r \in 0..(b - 1) /\ y = b * q + r /\ r + 1 < b
  BY DivMod
<1> HIDE DEF q, r
<1> DEFINE s == r + 1
<1>2. y + 1 = b * q + s /\ s \in 0..(b - 1)
  BY <1>1, SMT
<1>3. s = (y % b) + 1
  BY DEF r
<1> HIDE DEF s
<1>4. (b * q + s) \div b = q /\ (b * q + s) % b = s
  BY <1>1, <1>2, DivModUnique
<1> QED
  BY <1>2, <1>3, <1>4, Zenon DEF q

\* The digit of a halved number, its top bit off, is the digit halved.
LEMMA HalfDigit ==
  ASSUME NEW y \in Nat, NEW b \in Nat \ {0}, NEW h \in Nat \ {0}, b = 2 * h
  PROVE  ((y \div 2) % b) % h = (y % b) \div 2
<1> DEFINE q == y \div b
           r == y % b
           z == y \div 2
           d == r \div 2
<1>1. q \in Nat /\ r \in 0..(b - 1) /\ y = b * q + r
  BY DivMod
<1> HIDE DEF q, r
<1>2. d \in Nat /\ d < h /\ r = 2 * d + (r % 2) /\ r % 2 \in 0..1
  BY <1>1
<1> HIDE DEF d
<1>3. z = h * q + d
  <2> DEFINE e == h * q + d
             s == r % 2
  <2>1. y = 2 * e + s /\ e \in Nat /\ s \in 0..1
    BY <1>1, <1>2, SMT
  <2> HIDE DEF e, s
  <2>2. (2 * e + s) \div 2 = e
    BY <2>1
  <2> QED
    BY <2>1, <2>2, Zenon DEF e, z
<1>4. z \in Nat
  BY <1>1, <1>2, <1>3
<1> HIDE DEF z
<1>5. z % h = d
  BY <1>1, <1>2, <1>3, DivModUnique
<1>6. (z % b) % h = z % h
  <2> DEFINE e == z % b
             f == z \div b
  <2>1. f \in Nat /\ e \in 0..(b - 1) /\ z = b * f + e
    BY <1>4, DivMod, Zenon
  <2> HIDE DEF e, f
  <2>2. z = e + h * (2 * f) /\ 2 * f \in Nat
    BY <2>1, SMT
  <2>3. e \in Nat
    BY <2>1
  <2>4. (e + h * (2 * f)) % h = e % h
    BY <2>2, <2>3, AddMultiple, Zenon
  <2> QED
    BY <2>2, <2>4 DEF e
<1> QED
  BY <1>5, <1>6 DEF z, d, r

-----------------------------------------------------------------------------
(* The places of a word *)

LEMMA Pow2Sum ==
  ASSUME NEW a \in Nat, NEW b \in Nat
  PROVE  Pow2[a + b] = Pow2[a] * Pow2[b]
<1> DEFINE B == {n \in Nat : Pow2[a + n] = Pow2[a] * Pow2[n]}
<1>1. Pow2[a] \in Nat
  BY Pow2Is
<1>2. 0 \in B
  BY <1>1, Pow2Is
<1>3. \A n \in Nat : n \in B => n + 1 \in B
  <2> SUFFICES ASSUME NEW n \in Nat, Pow2[a + n] = Pow2[a] * Pow2[n]
               PROVE  Pow2[a + (n + 1)] = Pow2[a] * Pow2[n + 1]
    OBVIOUS
  <2>1. a + (n + 1) = (a + n) + 1 /\ a + n \in Nat
    OBVIOUS
  <2>2. Pow2[(a + n) + 1] = 2 * Pow2[a + n] /\ Pow2[n + 1] = 2 * Pow2[n] /\ Pow2[n] \in Nat
    BY <2>1, Pow2Is
  <2>3. 2 * (Pow2[a] * Pow2[n]) = Pow2[a] * (2 * Pow2[n])
    BY <1>1, <2>2, SMT
  <2> QED
    BY <2>1, <2>2, <2>3
<1>4. \A n \in Nat : n \in B
  <2> HIDE DEF B
  <2> QED
    BY <1>2, <1>3, SetInduction
<1> QED
  BY <1>4

\* The lanes of a word are the digits of a number to the base 1 << LaneBits.
LEMMA Bases ==
  /\ LaneBits \in Nat \ {0} /\ WordLanes \in Nat \ {0} /\ NumWords \in Nat \ {0}
  /\ ResetAt \in Nat \ {0}
  /\ Pow2[LaneBits] \in Nat \ {0}
  /\ Pow2[LaneBits - 1] \in Nat \ {0}
  /\ Pow2[LaneBits] = 2 * Pow2[LaneBits - 1]
  /\ Top \in Nat \ {0} /\ Top + 1 = Pow2[LaneBits]
<1>1. /\ LaneBits \in Nat \ {0} /\ WordLanes \in Nat \ {0} /\ NumWords \in Nat \ {0}
      /\ ResetAt \in Nat \ {0}
  BY LayoutConstants
<1>2. LaneBits - 1 \in Nat /\ (LaneBits - 1) + 1 = LaneBits
  BY <1>1
<1>3. Pow2[LaneBits - 1] \in Nat \ {0} /\ Pow2[(LaneBits - 1) + 1] = 2 * Pow2[LaneBits - 1]
  BY <1>2, Pow2Is
<1> QED
  BY <1>1, <1>2, <1>3 DEF Top

LEMMA Places ==
  /\ \A j \in Nat : Place(j) \in Nat \ {0}
  /\ Place(0) = 1
  /\ \A i, j \in Nat : Place(i + j) = Place(i) * Place(j)
  /\ Place(1) = Pow2[LaneBits]
<1>1. \A j \in Nat : LaneBits * j \in Nat
  BY Bases
<1>2. \A j \in Nat : Place(j) \in Nat \ {0}
  BY <1>1, Pow2Is DEF Place
<1>3. Place(0) = 1
  <2>1. LaneBits * 0 = 0
    BY Bases
  <2> QED
    BY <2>1, Pow2Is DEF Place
<1>4. \A i, j \in Nat : Place(i + j) = Place(i) * Place(j)
  <2> SUFFICES ASSUME NEW i \in Nat, NEW j \in Nat PROVE Place(i + j) = Place(i) * Place(j)
    OBVIOUS
  <2>1. LaneBits * (i + j) = (LaneBits * i) + (LaneBits * j)
    BY Bases, SMT
  <2>2. Pow2[(LaneBits * i) + (LaneBits * j)] = Pow2[LaneBits * i] * Pow2[LaneBits * j]
    BY <1>1, Pow2Sum
  <2> QED
    BY <2>1, <2>2 DEF Place
<1>5. Place(1) = Pow2[LaneBits]
  <2>1. LaneBits * 1 = LaneBits
    BY Bases
  <2> QED
    BY <2>1 DEF Place
<1> QED
  BY <1>2, <1>3, <1>4, <1>5

\* The same without the product, which the provers find hard to look past.
LEMMA PlaceType == \A j \in Nat : Place(j) \in Nat \ {0}
  BY Places

\* A place above j is a multiple of the base times the place of j.
LEMMA PlaceAbove ==
  ASSUME NEW j \in Nat, NEW k \in Nat, j < k
  PROVE  \E r \in Nat \ {0} : Place(k) = Place(j) * (Pow2[LaneBits] * r)
<1> DEFINE r == Place(k - j - 1)
<1>1. k - j - 1 \in Nat /\ 1 + (k - j - 1) = k - j /\ j + (k - j) = k /\ k - j \in Nat
  OBVIOUS
<1>2. r \in Nat \ {0}
  BY <1>1, Places
<1>3. Place(k - j) = Pow2[LaneBits] * r
  <2>1. Place(1 + (k - j - 1)) = Place(1) * Place(k - j - 1)
    BY <1>1, Places
  <2> QED
    BY <1>1, <2>1, Places
<1>4. Place(k) = Place(j) * Place(k - j)
  BY <1>1, Places
<1> HIDE DEF r
<1> QED
  BY <1>2, <1>3, <1>4

\* A lane is a digit.
LEMMA LaneType ==
  ASSUME NEW word \in Nat, NEW j \in Nat
  PROVE  LaneOf(word, j) \in 0..Top
<1>1. word \div Place(j) \in Nat
  BY Places, DivMod
<1> DEFINE y == word \div Place(j)
<1>2. y % Pow2[LaneBits] \in 0..(Pow2[LaneBits] - 1)
  <2> HIDE DEF y
  <2> QED
    BY <1>1, Bases, DivMod DEF y
<1> QED
  BY <1>2, Bases DEF LaneOf

\* What is added at a place leaves the lanes below it alone.
LEMMA LaneBelow ==
  ASSUME NEW m \in Nat, NEW q \in Nat, NEW j \in Nat, NEW k \in Nat, j < k
  PROVE  LaneOf(m + q * Place(k), j) = LaneOf(m, j)
<1> DEFINE b == Pow2[LaneBits]
           p == Place(j)
           y == m \div p
<1>1. PICK r \in Nat \ {0} : Place(k) = p * (b * r)
  BY PlaceAbove
<1>2. b \in Nat \ {0} /\ p \in Nat \ {0} /\ y \in Nat
  BY Bases, Places, DivMod
<1> HIDE DEF b, p
<1>3. q * Place(k) = p * (b * (q * r)) /\ q * r \in Nat /\ b * (q * r) \in Nat
  BY <1>1, <1>2, SMT
<1>4. (m + p * (b * (q * r))) \div p = y + b * (q * r)
  BY <1>2, <1>3, AddMultiple, ZenonT(60)
<1> HIDE DEF y
<1>5. (y + b * (q * r)) % b = y % b
  BY <1>2, <1>3, AddMultiple
<1> QED
  BY <1>3, <1>4, <1>5 DEF LaneOf, b, p, y

\* One more in a lane that is not full carries into no place above it.
LEMMA NoCarryAbove ==
  ASSUME NEW m \in Nat, NEW j \in Nat, NEW k \in Nat, j < k, LaneOf(m, j) < Top
  PROVE  (m + Place(j)) \div Place(k) = m \div Place(k)
<1> DEFINE b == Pow2[LaneBits]
           p == Place(j)
           y == m \div p
<1>1. PICK r \in Nat \ {0} : Place(k) = p * (b * r)
  BY PlaceAbove
<1>2. b \in Nat \ {0} /\ p \in Nat \ {0} /\ y \in Nat /\ Top + 1 = b /\ Top \in Nat
  BY Bases, Places, DivMod
<1>3. y % b = LaneOf(m, j)
  BY DEF LaneOf
<1> HIDE DEF b, p
<1>4. (m + p) \div p = y + 1
  <2>1. (m + p * 1) \div p = (m \div p) + 1
    <3>1. 1 \in Nat
      OBVIOUS
    <3> QED
      BY <1>2, <3>1, AddMultiple, ZenonT(60)
  <2>2. p * 1 = p
    BY <1>2
  <2> QED
    BY <2>1, <2>2, Zenon
<1> HIDE DEF y
<1>5. (y + 1) \div b = y \div b
  <2>1. (y % b) + 1 < b
    <3>1. y % b \in Nat
      BY <1>2, DivMod
    <3> QED
      BY <1>2, <1>3, <3>1
  <2> QED
    BY <1>2, <2>1, NoCarry
<1>6. b * r \in Nat \ {0}
  BY <1>1, <1>2, SMT
<1>7. \A x \in Nat : x \div Place(k) = ((x \div p) \div b) \div r
  <2> SUFFICES ASSUME NEW x \in Nat PROVE x \div Place(k) = ((x \div p) \div b) \div r
    OBVIOUS
  <2>1. x \div p \in Nat
    BY <1>2, DivMod
  <2>2. (x \div p) \div (b * r) = x \div (p * (b * r))
    BY <1>2, <1>6, DivDiv, ZenonT(60)
  <2>3. ((x \div p) \div b) \div r = (x \div p) \div (b * r)
    <3> DEFINE z == x \div p
    <3>1. z \in Nat
      BY <2>1
    <3> HIDE DEF z
    <3>2. (z \div b) \div r = z \div (b * r)
      BY <1>1, <1>2, <3>1, DivDiv
    <3> QED
      BY <3>2 DEF z
  <2> QED
    BY <1>1, <2>2, <2>3
<1>8. m + p \in Nat
  BY <1>2
<1>9. (m + p) \div Place(k) = ((y + 1) \div b) \div r /\ m \div Place(k) = (y \div b) \div r
  BY <1>4, <1>7, <1>8 DEF y
<1> QED
  BY <1>5, <1>9 DEF p

-----------------------------------------------------------------------------
(* What the two updates of a word do to its lanes *)

LaneNos == 0..(WordLanes - 1)
WordValues == 0..(Place(WordLanes) - 1)

\* old + One: one lane counts one more, the others stay as they are and the
\* word does not overflow.
LEMMA LaneInc ==
  ASSUME NEW word \in WordValues, NEW j \in LaneNos, LaneOf(word, j) < Top
  PROVE  LET new == (word + Place(j)) % Place(WordLanes) IN
         /\ new \in WordValues
         /\ \A k \in LaneNos : LaneOf(new, k) = IF k = j THEN LaneOf(word, j) + 1 ELSE LaneOf(word, k)
<1> DEFINE b == Pow2[LaneBits]
           sum == word + Place(j)
           full == Place(WordLanes)
<1>1. /\ word \in Nat /\ j \in Nat /\ j < WordLanes /\ WordLanes \in Nat /\ WordLanes # 0
      /\ Place(j) \in Nat \ {0} /\ sum \in Nat /\ full \in Nat \ {0} /\ word < full
  BY Bases, PlaceType DEF LaneNos, WordValues
<1>2. sum < full /\ sum % full = sum
  <2>1. sum \div full = word \div full
    BY <1>1, NoCarryAbove
  <2>2. word \div full = 0
    <3> HIDE DEF full, sum
    <3> QED
      BY <1>1, SMT
  <2>3. sum \div full = 0
    BY <2>1, <2>2
  <2> HIDE DEF full, sum
  <2>4. sum = full * (sum \div full) + (sum % full) /\ sum % full \in 0..(full - 1)
    BY <1>1, DivMod
  <2>5. full * 0 = 0
    BY <1>1
  <2> QED
    BY <1>1, <2>3, <2>4, <2>5
<1>3. LaneOf(sum, j) = LaneOf(word, j) + 1
  <2> DEFINE y == word \div Place(j)
  <2>1. y \in Nat /\ b \in Nat \ {0} /\ Top + 1 = b /\ Top \in Nat
    BY <1>1, Bases, DivMod
  <2>2. sum \div Place(j) = y + 1
    <3>1. (word + Place(j) * 1) \div Place(j) = (word \div Place(j)) + 1
      <4>1. 1 \in Nat
        OBVIOUS
      <4> QED
        BY <1>1, <4>1, AddMultiple, Zenon
    <3>2. Place(j) * 1 = Place(j)
      BY <1>1
    <3> QED
      BY <3>1, <3>2, Zenon
  <2>3. LaneOf(word, j) = y % b /\ LaneOf(sum, j) = (y + 1) % b
    BY <2>2 DEF LaneOf
  <2> HIDE DEF y, b, sum
  <2>4. y % b \in Nat
    BY <2>1, DivMod
  <2>5. (y % b) + 1 < b
    BY <2>1, <2>3, <2>4
  <2>6. (y + 1) % b = (y % b) + 1
    BY <2>1, <2>5, NoCarry
  <2> QED
    BY <2>3, <2>6
<1>4. \A k \in LaneNos : k # j => LaneOf(sum, k) = LaneOf(word, k)
  <2> SUFFICES ASSUME NEW k \in LaneNos, k # j PROVE LaneOf(sum, k) = LaneOf(word, k)
    OBVIOUS
  <2>1. k \in Nat
    BY DEF LaneNos
  <2>2. CASE k < j
    <3>1. LaneOf(word + 1 * Place(j), k) = LaneOf(word, k)
      <4>1. 1 \in Nat
        OBVIOUS
      <4> QED
        BY <1>1, <2>1, <2>2, <4>1, LaneBelow
    <3>2. 1 * Place(j) = Place(j)
      BY <1>1
    <3> QED
      BY <3>1, <3>2, Zenon
  <2>3. CASE j < k
    BY <1>1, <2>1, <2>3, NoCarryAbove DEF LaneOf
  <2> QED
    BY <1>1, <2>1, <2>2, <2>3
<1> HIDE DEF sum, full
<1>5. sum % full \in WordValues
  BY <1>1, <1>2 DEF WordValues, full
<1> QED
  BY <1>2, <1>3, <1>4, <1>5 DEF sum, full

\* Any lanes make a word.
LEMMA Packed ==
  ASSUME NEW f \in [Nat -> 0..Top], NEW n \in Nat
  PROVE  \E m \in 0..(Place(n) - 1) : \A j \in 0..(n - 1) : LaneOf(m, j) = f[j]
<1> DEFINE B == {k \in Nat : \E m \in 0..(Place(k) - 1) : \A j \in 0..(k - 1) : LaneOf(m, j) = f[j]}
<1>1. 0 \in B
  <2>1. 0 \in 0..(Place(0) - 1)
    BY Places
  <2>2. \A j \in 0..(0 - 1) : LaneOf(0, j) = f[j]
    OBVIOUS
  <2> QED
    BY <2>1, <2>2
<1>2. \A k \in Nat : k \in B => k + 1 \in B
  <2> SUFFICES ASSUME NEW k \in Nat, NEW m \in 0..(Place(k) - 1),
                      \A j \in 0..(k - 1) : LaneOf(m, j) = f[j]
               PROVE  k + 1 \in B
    OBVIOUS
  <2> DEFINE p == Place(k)
             b == Pow2[LaneBits]
             v == f[k]
             w == m + v * p
  <2>1. /\ p \in Nat \ {0} /\ b \in Nat \ {0} /\ m \in Nat /\ m < p
        /\ v \in Nat /\ v < b /\ v \in 0..(b - 1)
    BY PlaceType, Bases
  <2>2. Place(k + 1) = p * b
    BY Places, ZenonT(60)
  <2> HIDE DEF p, b, v
  <2>3. w \in 0..(Place(k + 1) - 1)
    <3>1. w \in Nat /\ w < p + v * p
      BY <2>1, SMT
    <3>2. p + v * p = p * (v + 1) /\ v + 1 <= b
      BY <2>1, SMT
    <3>3. p * (v + 1) <= p * b
      BY <2>1, <3>2, SMT
    <3>4. p * b \in Nat /\ p * (v + 1) \in Nat
      BY <2>1, SMT
    <3> HIDE DEF w
    <3> QED
      BY <2>2, <3>1, <3>2, <3>3, <3>4
  <2>4. \A j \in 0..k : LaneOf(w, j) = f[j]
    <3> SUFFICES ASSUME NEW j \in 0..k PROVE LaneOf(w, j) = f[j]
      OBVIOUS
    <3>1. CASE j = k
      <4>1. w = p * v + m /\ m \in 0..(p - 1)
        BY <2>1, SMT
      <4>2. (p * v + m) \div p = v
        BY <2>1, <4>1, DivModUnique
      <4>3. v % b = v
        BY <2>1
      <4> HIDE DEF w
      <4>4. LaneOf(w, k) = v
        BY <4>1, <4>2, <4>3, Zenon DEF LaneOf, p, b
      <4> QED
        BY <3>1, <4>4, Zenon DEF v
    <3>2. CASE j # k
      <4>1. j \in 0..(k - 1) /\ j \in Nat /\ j < k
        BY <3>2
      <4>2. LaneOf(m + v * Place(k), j) = LaneOf(m, j)
        BY <2>1, <4>1, LaneBelow
      <4> QED
        BY <4>1, <4>2 DEF p
    <3> QED
      BY <3>1, <3>2
  <2>5. (k + 1) - 1 = k /\ k + 1 \in Nat
    OBVIOUS
  <2> HIDE DEF w
  <2> QED
    BY <2>3, <2>4, <2>5
<1>3. \A k \in Nat : k \in B
  <2> HIDE DEF B
  <2> QED
    BY <1>1, <1>2, SetInduction
<1> QED
  BY <1>3

\* (old >> 1) & MASK_NIBBLES_64: every lane is halved by itself.
LEMMA LaneHalve ==
  ASSUME NEW word \in WordValues
  PROVE  /\ Halved(word) \in WordValues
         /\ \A j \in LaneNos : LaneOf(Halved(word), j) = LaneOf(word, j) \div 2
<1> DEFINE half == word \div 2
           h == Pow2[LaneBits - 1]
           f == [j \in Nat |-> LaneOf(half, j) % h]
<1>1. word \in Nat /\ half \in Nat /\ WordLanes \in Nat /\ Place(WordLanes) \in Nat
  BY Bases, Places DEF WordValues
<1>2. h \in Nat \ {0} /\ h - 1 <= Top
  BY Bases
<1>3. f \in [Nat -> 0..Top]
  <2> SUFFICES ASSUME NEW j \in Nat PROVE LaneOf(half, j) % h \in 0..Top
    OBVIOUS
  <2>1. LaneOf(half, j) \in Nat
    <3> HIDE DEF half, h, f
    <3>1. LaneOf(half, j) \in 0..Top
      BY <1>1, LaneType, Zenon
    <3> QED
      BY <3>1, Bases
  <2> DEFINE l == LaneOf(half, j)
  <2> HIDE DEF h, l
  <2>2. l % h \in 0..(h - 1)
    BY <1>2, <2>1, DivMod DEF l
  <2> QED
    BY <1>2, <2>2, Bases DEF l
<1>4. PICK m \in 0..(Place(WordLanes) - 1) : \A j \in 0..(WordLanes - 1) : LaneOf(m, j) = f[j]
  <2> HIDE DEF f
  <2> QED
    BY <1>1, <1>3, Packed
<1>5. \A j \in 0..(WordLanes - 1) : LaneOf(m, j) = LaneOf(half, j) % Pow2[LaneBits - 1]
  BY <1>1, <1>4
<1>6. /\ Halved(word) \in WordValues
      /\ \A j \in LaneNos : LaneOf(Halved(word), j) = LaneOf(half, j) % Pow2[LaneBits - 1]
  <2> HIDE DEF f, h
  <2> QED
    BY <1>5 DEF Halved, Masked, WordValues, LaneNos
<1>7. \A j \in LaneNos : LaneOf(half, j) % h = LaneOf(word, j) \div 2
  <2> SUFFICES ASSUME NEW j \in LaneNos PROVE LaneOf(half, j) % h = LaneOf(word, j) \div 2
    OBVIOUS
  <2> DEFINE p == Place(j)
             y == word \div p
             b == Pow2[LaneBits]
  <2>1. p \in Nat \ {0} /\ b \in Nat \ {0} /\ b = 2 * h
    BY PlaceType, Bases DEF LaneNos
  <2> HIDE DEF p, b, h
  <2>2. y \in Nat
    BY <1>1, <2>1, DivMod
  <2>3. half \div p = y \div 2
    <3> 2 \in Nat \ {0}
      OBVIOUS
    <3>1. (word \div 2) \div p = word \div (2 * p)
      BY <1>1, <2>1, DivDiv, ZenonT(60)
    <3>2. (word \div p) \div 2 = word \div (p * 2)
      BY <1>1, <2>1, DivDiv, SMTT(30)
    <3>3. 2 * p = p * 2
      BY <2>1
    <3> QED
      BY <3>1, <3>2, <3>3, Zenon
  <2>4. LaneOf(half, j) = (y \div 2) % b /\ LaneOf(word, j) = y % b
    BY <2>3, Zenon DEF LaneOf, p, b
  <2> HIDE DEF y, half
  <2>5. ((y \div 2) % b) % h = (y % b) \div 2
    BY <1>2, <2>1, <2>2, HalfDigit, Zenon
  <2> QED
    BY <2>4, <2>5, Zenon
<1> QED
  BY <1>6, <1>7, Zenon

(***************************************************************************)
(* Part 2: the sketch under concurrent calls                               *)
(***************************************************************************)

-----------------------------------------------------------------------------
(* The inductive invariant *)

SketchSteps == {"idle", "guard", "recheck", "age", "age_cas", "zero", "release", "inc", "inc_cas"}
Counting == {"inc", "inc_cas"}
Halving == {"age", "age_cas", "zero"}
Guarded == {"recheck", "age", "age_cas", "zero", "release"}

SketchTypeOK ==
  /\ words \in [Words -> WordValues]
  /\ adds \in 0..MaxAdds
  /\ aging \in BOOLEAN
  /\ pc \in [Threads -> SketchSteps]
  /\ hash \in [Threads -> Hashes]
  /\ nth \in [Threads -> Nat \ {0}]
  /\ at \in [Threads -> Words]
  /\ old \in [Threads -> WordValues]
  /\ tries \in [Threads -> Nat]
  /\ seen \in [Hashes -> 0..Top]

\* A thread about to swap has seen room in its lane, in the value it loaded.
Roomy ==
  \A t \in Threads : pc[t] = "inc_cas" => MoreLanes(t) /\ LaneOf(old[t], Lane(t) % WordLanes) < Top

\* aging_active is a lock: who passed the guard holds it, and halves only if
\* the window was full when it looked under the lock.
AgingInv ==
  /\ \A t, u \in Threads : pc[t] \in Guarded /\ pc[u] \in Guarded => t = u
  /\ \A t \in Threads : pc[t] \in Guarded => aging
  /\ \A t \in Threads : pc[t] \in Halving => adds >= ResetAt

SketchInv == SketchTypeOK /\ Roomy /\ AgingInv

\* get_at in given words.
LaneIn(ws, i) == LaneOf(ws[WordOf(i)], i % WordLanes)

\* Calls that take turns: every lane holds at least what was seen of every
\* hash counted in it, halved if the thread that is aging has passed its word.
Alone == \A t, u \in Threads : pc[t] # "idle" /\ pc[u] # "idle" => t = u
Passed(w) ==
  \E t \in Threads : (pc[t] \in {"age", "age_cas"} /\ w < at[t]) \/ pc[t] = "zero"
FloorOK ==
  \A h \in Hashes : \A n \in 1..Len(Indices[h]) :
    LET i == Indices[h][n] IN
    LaneIn(words, i) >= IF Passed(WordOf(i)) THEN seen[h] \div 2 ELSE seen[h]

\* The lanes a call has been through count it already, or are full.
CountedOK ==
  \A t \in Threads : pc[t] \in Counting =>
    \A n \in 1..Len(Indices[hash[t]]) : n < nth[t] =>
      LET i == Indices[hash[t]][n] IN LaneIn(words, i) = Top \/ LaneIn(words, i) > seen[hash[t]]

\* No compare-and-swap can fail.
OldOK ==
  \A t \in Threads :
    /\ pc[t] = "inc_cas" => old[t] = words[WordOf(Lane(t))]
    /\ pc[t] = "age_cas" => old[t] = words[at[t]]

FreshOK == \A t \in Threads : pc[t] \notin Counting => nth[t] = 1

TurnsOK == Alone /\ FloorOK /\ CountedOK /\ OldOK
TurnsInv == FreshOK /\ (~overlapped => TurnsOK)

-----------------------------------------------------------------------------
(* Small facts *)

LEMMA MinPair ==
  ASSUME NEW a \in Nat, NEW b \in Nat
  PROVE  Min({a, b}) = IF a <= b THEN a ELSE b
<1>1. \E x \in {a, b} : \A y \in {a, b} : x =< y
  OBVIOUS
<1>2. Min({a, b}) \in {a, b} /\ \A y \in {a, b} : Min({a, b}) =< y
  BY <1>1 DEF Min
<1> QED
  BY <1>2

\* Where a lane is.
LEMMA LanePlace ==
  ASSUME NEW i \in Lanes
  PROVE  /\ WordOf(i) \in Words
         /\ i % WordLanes \in LaneNos
<1>1. i \in Nat /\ WordLanes \in Nat \ {0} /\ NumWords \in Nat \ {0} /\ i < NumWords * WordLanes
  <2>1. NumWords * WordLanes \in Nat
    BY Bases, SMT
  <2> QED
    BY <2>1, Bases DEF Lanes
<1> DEFINE q == i \div WordLanes
           r == i % WordLanes
<1>2. q \in Nat /\ r \in 0..(WordLanes - 1) /\ i = WordLanes * q + r
  BY <1>1, DivMod
<1> HIDE DEF q, r
<1>3. q < NumWords
  BY <1>1, <1>2, SMT
<1> QED
  BY <1>1, <1>2, <1>3 DEF WordOf, Words, LaneNos, q, r

LEMMA IndexType ==
  ASSUME NEW h \in Hashes
  PROVE  /\ Len(Indices[h]) \in Nat \ {0}
         /\ \A n \in 1..Len(Indices[h]) : Indices[h][n] \in Lanes
  BY LayoutConstants

\* The lane a thread is to count in.
LEMMA LaneIs ==
  ASSUME SketchTypeOK, NEW t \in Threads, MoreLanes(t)
  PROVE  /\ Lane(t) \in Lanes
         /\ WordOf(Lane(t)) \in Words
         /\ Lane(t) % WordLanes \in LaneNos
<1>1. hash[t] \in Hashes /\ nth[t] \in Nat \ {0}
  BY DEF SketchTypeOK
<1>2. nth[t] \in 1..Len(Indices[hash[t]])
  BY <1>1, IndexType DEF MoreLanes
<1>3. Lane(t) \in Lanes
  BY <1>1, <1>2, IndexType DEF Lane
<1> QED
  BY <1>3, LanePlace

LEMMA ZeroFits == 0 \in WordValues /\ 0 \in Words /\ 0 \in 0..Top
  BY Bases, PlaceType DEF WordValues, Words

LEMMA GetAtType ==
  ASSUME SketchTypeOK, NEW i \in Lanes
  PROVE  GetAt(i) \in 0..Top
<1>1. words[WordOf(i)] \in Nat /\ i % WordLanes \in Nat
  BY LanePlace, Bases, PlaceType DEF SketchTypeOK, WordValues, LaneNos
<1> QED
  BY <1>1, LaneType DEF GetAt

-----------------------------------------------------------------------------
(* The initial state and every step *)

LEMMA SketchInit == Init => SketchInv
<1> SUFFICES ASSUME Init PROVE SketchInv
  OBVIOUS
<1>1. (CHOOSE h \in Hashes : TRUE) \in Hashes
  BY LayoutConstants
<1>2. 0 \in 0..MaxAdds
  BY SketchConstants
<1>3. SketchTypeOK
  <2> DEFINE c == CHOOSE h \in Hashes : TRUE
  <2>1. hash = [t \in Threads |-> c] /\ c \in Hashes
    BY <1>1 DEF Init
  <2> HIDE DEF c
  <2>2. hash \in [Threads -> Hashes]
    BY <2>1
  <2>3. /\ words = [w \in Words |-> 0] /\ adds = 0 /\ aging = FALSE
        /\ pc = [t \in Threads |-> "idle"] /\ nth = [t \in Threads |-> 1]
        /\ at = [t \in Threads |-> 0] /\ old = [t \in Threads |-> 0]
        /\ tries = [t \in Threads |-> 0] /\ seen = [h \in Hashes |-> 0]
    BY DEF Init
  <2>4. words \in [Words -> WordValues] /\ at \in [Threads -> Words] /\ old \in [Threads -> WordValues]
    BY <2>3, ZeroFits
  <2>5. nth \in [Threads -> Nat \ {0}] /\ tries \in [Threads -> Nat] /\ seen \in [Hashes -> 0..Top]
    BY <2>3, ZeroFits
  <2>6. pc \in [Threads -> SketchSteps] /\ aging \in BOOLEAN /\ adds \in 0..MaxAdds
    BY <1>2, <2>3 DEF SketchSteps
  <2> QED
    BY <2>2, <2>4, <2>5, <2>6, Zenon DEF SketchTypeOK
<1>4. Roomy /\ AgingInv
  BY DEF Init, Roomy, AgingInv, Guarded, Halving
<1> QED
  BY <1>3, <1>4 DEF SketchInv

LEMMA IncrementKeeps ==
  ASSUME SketchInv, NEW t \in Threads, NEW h \in Hashes, Increment(t, h)
  PROVE  SketchInv'
<1> USE DEF Goto
<1>1. SketchTypeOK'
  BY DEF SketchInv, SketchTypeOK, SketchSteps, Increment
<1>2. Roomy'
  BY DEF SketchInv, SketchTypeOK, Roomy, MoreLanes, Lane, Increment
<1>3. AgingInv'
  BY DEF SketchInv, SketchTypeOK, SketchSteps, AgingInv, Guarded, Halving, Increment
<1> QED
  BY <1>1, <1>2, <1>3 DEF SketchInv

LEMMA GuardKeeps ==
  ASSUME SketchInv, NEW t \in Threads, Guard(t)
  PROVE  SketchInv'
<1> USE DEF Goto
<1>1. SketchTypeOK'
  BY DEF SketchInv, SketchTypeOK, SketchSteps, Guard
<1>2. Roomy'
  BY DEF SketchInv, SketchTypeOK, Roomy, MoreLanes, Lane, Guard
<1>3. AgingInv'
  BY DEF SketchInv, SketchTypeOK, SketchSteps, AgingInv, Guarded, Halving, Guard
<1> QED
  BY <1>1, <1>2, <1>3 DEF SketchInv

LEMMA RecheckKeeps ==
  ASSUME SketchInv, NEW t \in Threads, Recheck(t)
  PROVE  SketchInv'
<1> USE DEF Goto
<1>1. SketchTypeOK'
  BY ZeroFits DEF SketchInv, SketchTypeOK, SketchSteps, Recheck
<1>2. Roomy'
  BY DEF SketchInv, SketchTypeOK, Roomy, MoreLanes, Lane, Recheck
<1>3. AgingInv'
  BY DEF SketchInv, SketchTypeOK, SketchSteps, AgingInv, Guarded, Halving, Recheck, Due
<1> QED
  BY <1>1, <1>2, <1>3 DEF SketchInv

LEMMA AgeLoadKeeps ==
  ASSUME SketchInv, NEW t \in Threads, AgeLoad(t)
  PROVE  SketchInv'
<1> USE DEF Goto
<1>1. SketchTypeOK'
  BY DEF SketchInv, SketchTypeOK, SketchSteps, AgeLoad
<1>2. Roomy'
  BY DEF SketchInv, SketchTypeOK, Roomy, MoreLanes, Lane, AgeLoad
<1>3. AgingInv'
  BY DEF SketchInv, SketchTypeOK, SketchSteps, AgingInv, Guarded, Halving, AgeLoad
<1> QED
  BY <1>1, <1>2, <1>3 DEF SketchInv

LEMMA AgeSwapKeeps ==
  ASSUME SketchInv, NEW t \in Threads, AgeSwap(t)
  PROVE  SketchInv'
<1> USE DEF Goto
<1>1. Halved(words[at[t]]) \in WordValues /\ at[t] \in Words
  BY LaneHalve DEF SketchInv, SketchTypeOK
<1>2. SketchTypeOK'
  BY <1>1, ZeroFits DEF SketchInv, SketchTypeOK, SketchSteps, AgeSwap, NextWord
<1>3. Roomy'
  BY DEF SketchInv, SketchTypeOK, Roomy, MoreLanes, Lane, AgeSwap, NextWord
<1>4. AgingInv'
  BY DEF SketchInv, SketchTypeOK, SketchSteps, AgingInv, Guarded, Halving, AgeSwap, NextWord
<1> QED
  BY <1>2, <1>3, <1>4 DEF SketchInv

LEMMA AgeLostKeeps ==
  ASSUME SketchInv, NEW t \in Threads, AgeLost(t)
  PROVE  SketchInv'
<1> USE DEF Goto
<1>1. Min({tries[t] + 1, MaxTries}) \in Nat
  BY MinPair, SketchConstants DEF SketchInv, SketchTypeOK
<1>2. SketchTypeOK'
  BY <1>1, ZeroFits DEF SketchInv, SketchTypeOK, SketchSteps, AgeLost, NextWord, Retry
<1>3. Roomy'
  BY DEF SketchInv, SketchTypeOK, Roomy, MoreLanes, Lane, AgeLost, NextWord, Retry
<1>4. AgingInv'
  BY DEF SketchInv, SketchTypeOK, SketchSteps, AgingInv, Guarded, Halving, AgeLost, NextWord, Retry
<1> QED
  BY <1>2, <1>3, <1>4 DEF SketchInv

LEMMA ZeroKeeps ==
  ASSUME SketchInv, NEW t \in Threads, Zero(t)
  PROVE  SketchInv'
<1> USE DEF Goto
<1>1. 0 \in 0..MaxAdds /\ \A x \in 0..Top : x \div 2 \in 0..Top
  BY SketchConstants, Bases
<1>2. SketchTypeOK'
  BY <1>1 DEF SketchInv, SketchTypeOK, SketchSteps, Zero
<1>3. Roomy'
  BY DEF SketchInv, SketchTypeOK, Roomy, MoreLanes, Lane, Zero
<1>4. AgingInv'
  BY DEF SketchInv, SketchTypeOK, SketchSteps, AgingInv, Guarded, Halving, Zero
<1> QED
  BY <1>2, <1>3, <1>4 DEF SketchInv

LEMMA ReleaseKeeps ==
  ASSUME SketchInv, NEW t \in Threads, Release(t)
  PROVE  SketchInv'
<1> USE DEF Goto
<1>1. SketchTypeOK'
  BY DEF SketchInv, SketchTypeOK, SketchSteps, Release
<1>2. Roomy'
  BY DEF SketchInv, SketchTypeOK, Roomy, MoreLanes, Lane, Release
<1>3. AgingInv'
  BY DEF SketchInv, SketchTypeOK, SketchSteps, AgingInv, Guarded, Halving, Release
<1> QED
  BY <1>1, <1>2, <1>3 DEF SketchInv

LEMMA IncLoadKeeps ==
  ASSUME SketchInv, NEW t \in Threads, IncLoad(t)
  PROVE  SketchInv'
<1> USE DEF Goto
<1>1. /\ words[WordOf(Lane(t))] \in WordValues
      /\ ~Saturated(t) => GetAt(Lane(t)) < Top
  <2>1. Lane(t) \in Lanes /\ WordOf(Lane(t)) \in Words
    BY LaneIs DEF SketchInv, IncLoad
  <2>2. GetAt(Lane(t)) \in 0..Top
    BY <2>1, GetAtType DEF SketchInv
  <2> QED
    BY <2>1, <2>2, Bases DEF SketchInv, SketchTypeOK, Saturated
<1>2. SketchTypeOK'
  BY <1>1 DEF SketchInv, SketchTypeOK, SketchSteps, IncLoad, NextLane
<1>3. Roomy'
  BY <1>1 DEF SketchInv, SketchTypeOK, Roomy, MoreLanes, Lane, IncLoad, NextLane, GetAt
<1>4. AgingInv'
  BY DEF SketchInv, SketchTypeOK, SketchSteps, AgingInv, Guarded, Halving, IncLoad, NextLane
<1> QED
  BY <1>2, <1>3, <1>4 DEF SketchInv

LEMMA IncSwapKeeps ==
  ASSUME SketchInv, NEW t \in Threads, IncSwap(t)
  PROVE  SketchInv'
<1> USE DEF Goto
<1> DEFINE w == WordOf(Lane(t))
           new == (words[w] + One(Lane(t))) % Place(WordLanes)
<1>1. new \in WordValues
  <2>1. MoreLanes(t) /\ LaneOf(old[t], Lane(t) % WordLanes) < Top /\ words[w] = old[t]
    BY DEF SketchInv, Roomy, IncSwap
  <2>2. w \in Words /\ Lane(t) % WordLanes \in LaneNos /\ words[w] \in WordValues
    BY <2>1, LaneIs DEF SketchInv, SketchTypeOK
  <2> QED
    BY <2>1, <2>2, LaneInc DEF One
<1>2. words' = [words EXCEPT ![w] = new]
  BY DEF IncSwap
<1> HIDE DEF w, new
<1>3. words' \in [Words -> WordValues]
  BY <1>1, <1>2 DEF SketchInv, SketchTypeOK
<1>4. /\ pc' = [pc EXCEPT ![t] = "inc"]
      /\ old' = [old EXCEPT ![t] = 0]
      /\ NextLane(t)
  BY DEF IncSwap
<1>5. SketchTypeOK'
  BY <1>3, <1>4, ZeroFits DEF SketchInv, SketchTypeOK, SketchSteps, NextLane
<1>6. Roomy'
  BY DEF SketchInv, SketchTypeOK, Roomy, MoreLanes, Lane, IncSwap, NextLane
<1>7. AgingInv'
  BY DEF SketchInv, SketchTypeOK, SketchSteps, AgingInv, Guarded, Halving, IncSwap, NextLane
<1> QED
  BY <1>5, <1>6, <1>7 DEF SketchInv

LEMMA IncLostKeeps ==
  ASSUME SketchInv, NEW t \in Threads, IncLost(t)
  PROVE  SketchInv'
<1> USE DEF Goto
<1>1. Min({tries[t] + 1, MaxTries}) \in Nat
  BY MinPair, SketchConstants DEF SketchInv, SketchTypeOK
<1>2. SketchTypeOK'
  BY <1>1, ZeroFits DEF SketchInv, SketchTypeOK, SketchSteps, IncLost, NextLane, Retry
<1>3. Roomy'
  BY DEF SketchInv, SketchTypeOK, Roomy, MoreLanes, Lane, IncLost, NextLane, Retry
<1>4. AgingInv'
  BY DEF SketchInv, SketchTypeOK, SketchSteps, AgingInv, Guarded, Halving, IncLost, NextLane, Retry
<1> QED
  BY <1>2, <1>3, <1>4 DEF SketchInv

LEMMA IncDoneKeeps ==
  ASSUME SketchInv, NEW t \in Threads, IncDone(t)
  PROVE  SketchInv'
<1> USE DEF Goto
<1>1. /\ Min({adds + 1, MaxAdds}) \in 0..MaxAdds
      /\ adds >= ResetAt => Min({adds + 1, MaxAdds}) >= ResetAt
      /\ Min({seen[hash[t]] + 1, Top}) \in 0..Top
  <2>1. adds \in Nat /\ adds + 1 \in Nat /\ MaxAdds \in Nat /\ MaxAdds >= ResetAt /\ ResetAt \in Nat
    BY SketchConstants, Bases DEF SketchInv, SketchTypeOK
  <2>2. seen[hash[t]] + 1 \in Nat /\ Top \in Nat
    BY Bases DEF SketchInv, SketchTypeOK
  <2>3. Min({adds + 1, MaxAdds}) = IF adds + 1 <= MaxAdds THEN adds + 1 ELSE MaxAdds
    BY <2>1, MinPair
  <2>4. Min({seen[hash[t]] + 1, Top}) = IF seen[hash[t]] + 1 <= Top THEN seen[hash[t]] + 1 ELSE Top
    BY <2>2, MinPair
  <2> QED
    BY <2>1, <2>2, <2>3, <2>4
<1>2. SketchTypeOK'
  BY <1>1 DEF SketchInv, SketchTypeOK, SketchSteps, IncDone
<1>3. Roomy'
  BY DEF SketchInv, SketchTypeOK, Roomy, MoreLanes, Lane, IncDone
<1>4. AgingInv'
  BY <1>1 DEF SketchInv, SketchTypeOK, SketchSteps, AgingInv, Guarded, Halving, IncDone
<1> QED
  BY <1>2, <1>3, <1>4 DEF SketchInv

LEMMA SketchStep == SketchInv /\ [Next]_sketchVars => SketchInv'
<1> SUFFICES ASSUME SketchInv, [Next]_sketchVars PROVE SketchInv'
  OBVIOUS
<1>1. CASE UNCHANGED sketchVars
  BY <1>1 DEF sketchVars, SketchInv, SketchTypeOK, Roomy, AgingInv, MoreLanes, Lane
<1>2. ASSUME NEW t \in Threads, (\E h \in Hashes : Increment(t, h)) \/ Continue(t)
      PROVE  SketchInv'
  BY <1>2, IncrementKeeps, GuardKeeps, RecheckKeeps, AgeLoadKeeps, AgeSwapKeeps, AgeLostKeeps,
     ZeroKeeps, ReleaseKeeps, IncLoadKeeps, IncSwapKeeps, IncLostKeeps, IncDoneKeeps DEF Continue
<1> QED
  BY <1>1, <1>2 DEF Next

-----------------------------------------------------------------------------
(* What follows for any interleaving *)

\* Every value has its type; no thread swaps a lane it saw full; aging_active
\* is a lock.
THEOREM SketchSafe == Spec => []SketchInv
<1>1. Init => SketchInv
  BY SketchInit
<1>2. SketchInv /\ [Next]_sketchVars => SketchInv'
  BY SketchStep
<1> QED
  BY <1>1, <1>2, PTL DEF Spec

\* Threads age one at a time and once per window, whatever they found before
\* they took aging_active.
THEOREM AgesOncePerWindow == Spec => []AgingEarned
<1>1. SketchInv => AgingEarned
  <2> SUFFICES ASSUME SketchInv PROVE AgingEarned
    OBVIOUS
  <2> DEFINE Agers == {t \in Threads : pc[t] \in {"age", "age_cas", "zero"}}
  <2>1. \A t, u \in Agers : t = u
    BY DEF SketchInv, AgingInv, Guarded
  <2>2. Agers # {} => adds >= ResetAt
    BY DEF SketchInv, AgingInv, Halving
  <2>3. Cardinality(Agers) <= 1
    <3>1. CASE Agers = {}
      BY <3>1, FS_EmptySet
    <3>2. CASE Agers # {}
      <4>1. PICK t : Agers = {t}
        BY <2>1, <3>2
      <4> HIDE DEF Agers
      <4> QED
        BY <4>1, FS_Singleton, SMTT(30)
    <3> QED
      BY <3>1, <3>2
  <2> QED
    BY <2>2, <2>3 DEF AgingEarned
<1> QED
  BY <1>1, SketchSafe, PTL

\* A compare-and-swap that succeeds adds to the lane its thread saw room in.
LEMMA SwapAdds ==
  ASSUME SketchInv, NEW t \in Threads, IncSwap(t)
  PROVE  LET i == Lane(t)  w == WordOf(i) IN
         /\ i \in Lanes /\ w \in Words
         /\ GetAt(i) < Top
         /\ words'[w] \in WordValues
         /\ \A k \in LaneNos :
              LaneOf(words'[w], k) =
                IF k = i % WordLanes THEN LaneOf(words[w], k) + 1 ELSE LaneOf(words[w], k)
         /\ \A v \in Words : v # w => words'[v] = words[v]
<1> DEFINE i == Lane(t)
           w == WordOf(i)
           j == i % WordLanes
           new == (words[w] + Place(j)) % Place(WordLanes)
<1>1. MoreLanes(t) /\ LaneOf(old[t], j) < Top /\ words[w] = old[t]
  BY DEF SketchInv, Roomy, IncSwap, Goto
<1>2. i \in Lanes /\ w \in Words /\ j \in LaneNos
  BY <1>1, LaneIs DEF SketchInv
<1>3. words[w] \in WordValues /\ words \in [Words -> WordValues]
  BY <1>2 DEF SketchInv, SketchTypeOK
<1>4. words' = [words EXCEPT ![w] = new]
  BY DEF IncSwap, One
<1>5. LaneOf(words[w], j) < Top
  BY <1>1
<1>6. /\ new \in WordValues
      /\ \A k \in LaneNos : LaneOf(new, k) = IF k = j THEN LaneOf(words[w], j) + 1 ELSE LaneOf(words[w], k)
  <2> HIDE DEF w, j
  <2> QED
    BY <1>2, <1>3, <1>5, LaneInc
<1>7. GetAt(i) = LaneOf(words[w], j)
  BY DEF GetAt
<1> HIDE DEF new, w, j
<1>8. words'[w] = new /\ \A v \in Words : v # w => words'[v] = words[v]
  BY <1>2, <1>3, <1>4
<1> QED
  BY <1>2, <1>5, <1>6, <1>7, <1>8 DEF w, j

LEMMA SwapHalves ==
  ASSUME SketchInv, NEW t \in Threads, AgeSwap(t)
  PROVE  /\ at[t] \in Words
         /\ words'[at[t]] \in WordValues
         /\ \A j \in LaneNos : LaneOf(words'[at[t]], j) = LaneOf(words[at[t]], j) \div 2
         /\ \A v \in Words : v # at[t] => words'[v] = words[v]
<1>1. at[t] \in Words /\ words \in [Words -> WordValues] /\ words[at[t]] \in WordValues
  BY DEF SketchInv, SketchTypeOK
<1>2. words' = [words EXCEPT ![at[t]] = Halved(words[at[t]])]
  BY DEF AgeSwap
<1>3. words'[at[t]] = Halved(words[at[t]]) /\ \A v \in Words : v # at[t] => words'[v] = words[v]
  BY <1>1, <1>2
<1> QED
  BY <1>1, <1>3, LaneHalve

\* Only these two write a word.
LEMMA WordWriters ==
  ASSUME NEW t \in Threads, (\E h \in Hashes : Increment(t, h)) \/ Continue(t),
         words' # words
  PROVE  AgeSwap(t) \/ IncSwap(t)
  BY DEF Continue, Increment, Guard, Recheck, AgeLoad, AgeLost, Retry, Zero, Release,
         IncLoad, IncLost, IncDone

\* However the loads and swaps of the threads interleave, a word changes as a
\* row of separate counters.
THEOREM LanesStaySeparate == Spec => LaneSteps
<1>1. SketchInv /\ [Next]_sketchVars =>
        [\A w \in Words :
           words'[w] # words[w] => Separately(Unpacked(words[w]), Unpacked(words'[w]))]_sketchVars
  <2> SUFFICES ASSUME SketchInv, Next, NEW w \in Words, words'[w] # words[w]
               PROVE  Separately(Unpacked(words[w]), Unpacked(words'[w]))
    OBVIOUS
  <2> DEFINE a == Unpacked(words[w])
             b == Unpacked(words'[w])
  <2>1. PICK t \in Threads : AgeSwap(t) \/ IncSwap(t)
    BY WordWriters DEF Next
  <2>2. /\ DOMAIN a = LaneNos
        /\ a = [j \in LaneNos |-> LaneOf(words[w], j)]
        /\ b = [j \in LaneNos |-> LaneOf(words'[w], j)]
    BY DEF Unpacked, LaneNos
  <2>3. CASE AgeSwap(t)
    <3>1. w = at[t]
      BY <2>3, SwapHalves
    <3>2. \A j \in LaneNos : LaneOf(words'[w], j) = LaneOf(words[w], j) \div 2
      BY <2>3, <3>1, SwapHalves
    <3>3. b = [j \in DOMAIN a |-> a[j] \div 2]
      BY <2>2, <3>2
    <3> QED
      BY <3>3 DEF Separately
  <2>4. CASE IncSwap(t)
    <3> DEFINE k == Lane(t) % WordLanes
    <3>1. w = WordOf(Lane(t)) /\ k \in LaneNos
      BY <2>4, SwapAdds, LanePlace
    <3>2. LaneOf(words[w], k) < Top
      BY <2>4, <3>1, SwapAdds DEF GetAt
    <3>3. \A j \in LaneNos :
            LaneOf(words'[w], j) = IF j = k THEN LaneOf(words[w], j) + 1 ELSE LaneOf(words[w], j)
      BY <2>4, <3>1, SwapAdds
    <3> HIDE DEF k
    <3>4. a[k] < Top /\ b = [a EXCEPT ![k] = @ + 1]
      BY <2>2, <3>1, <3>2, <3>3
    <3> QED
      BY <2>2, <3>1, <3>4 DEF Separately
  <2> QED
    BY <2>1, <2>3, <2>4
<1> QED
  BY <1>1, SketchSafe, PTL DEF Spec, LaneSteps

-----------------------------------------------------------------------------
(* Calls that take turns *)

LEMMA BusyAlone ==
  ASSUME NEW B, B \subseteq Threads, ~(Cardinality(B) > 1)
  PROVE  \A t, u \in B : t = u
<1> SUFFICES ASSUME NEW t \in B, NEW u \in B, t # u PROVE FALSE
  OBVIOUS
<1>1. IsFiniteSet(B)
  BY SketchConstants, FS_Subset
<1>2. Cardinality({t, u}) = 2
  <2>1. IsFiniteSet({t}) /\ Cardinality({t}) = 1
    BY FS_Singleton
  <2>2. {t, u} = {t} \cup {u} /\ u \notin {t}
    OBVIOUS
  <2>3. Cardinality({t} \cup {u}) = Cardinality({t}) + 1
    BY <2>1, <2>2, FS_AddElement
  <2> QED
    BY <2>1, <2>2, <2>3
<1>3. Cardinality({t, u}) <= Cardinality(B)
  BY <1>1, FS_Subset
<1>4. Cardinality(B) \in Nat
  BY <1>1, FS_CardinalityType
<1> QED
  BY <1>2, <1>3, <1>4

\* With one thread at work, it is the only one that can be aging.
PassedBy(t, w) == (pc[t] \in {"age", "age_cas"} /\ w < at[t]) \/ pc[t] = "zero"

LEMMA PassedAlone ==
  ASSUME NEW t \in Threads, \A u \in Threads : u # t => pc[u] = "idle", NEW w
  PROVE  Passed(w) <=> PassedBy(t, w)
  BY DEF Passed, PassedBy

LEMMA IdleOthers ==
  ASSUME Alone, NEW t \in Threads, pc[t] # "idle"
  PROVE  \A u \in Threads : u # t => pc[u] = "idle"
  BY DEF Alone

\* Nothing happened to the lanes or to the words passed.
LEMMA FloorStays ==
  ASSUME FloorOK, words' = words, seen' = seen, \A w \in Words : Passed(w)' <=> Passed(w)
  PROVE  FloorOK'
<1> SUFFICES ASSUME NEW h \in Hashes, NEW n \in 1..Len(Indices[h])
             PROVE  LET i == Indices[h][n] IN
                    LaneIn(words', i) >= IF Passed(WordOf(i))' THEN seen'[h] \div 2 ELSE seen'[h]
  BY DEF FloorOK
<1> DEFINE i == Indices[h][n]
<1>1. WordOf(i) \in Words
  BY IndexType, LanePlace
<1>2. LaneIn(words, i) >= IF Passed(WordOf(i)) THEN seen[h] \div 2 ELSE seen[h]
  BY DEF FloorOK
<1>3. Passed(WordOf(i))' <=> Passed(WordOf(i))
  BY <1>1
<1> QED
  BY <1>2, <1>3

LEMMA CountedStays ==
  ASSUME CountedOK, words' = words, seen' = seen, NEW t \in Threads,
         \A u \in Threads : u # t => pc'[u] \notin Counting,
         pc'[t] \in Counting =>
           \/ nth'[t] = 1
           \/ nth'[t] = nth[t] /\ hash'[t] = hash[t] /\ pc[t] \in Counting
  PROVE  CountedOK'
<1> SUFFICES ASSUME pc'[t] \in Counting, NEW n \in 1..Len(Indices[hash'[t]]), n < nth'[t]
             PROVE  LET i == Indices[hash'[t]][n] IN
                    LaneIn(words', i) = Top \/ LaneIn(words', i) > seen'[hash'[t]]
  BY DEF CountedOK
<1>1. pc[t] \in Counting /\ nth'[t] = nth[t] /\ hash'[t] = hash[t]
  OBVIOUS
<1> QED
  BY <1>1 DEF CountedOK

\* A step of the one thread at work that writes no word.
LEMMA QuietTurn ==
  ASSUME TurnsOK, NEW t \in Threads,
         \A u \in Threads : u # t => pc[u] = "idle" /\ pc'[u] = "idle",
         words' = words, seen' = seen,
         \A w \in Words : PassedBy(t, w)' <=> PassedBy(t, w),
         pc'[t] \in Counting =>
           \/ nth'[t] = 1
           \/ nth'[t] = nth[t] /\ hash'[t] = hash[t] /\ pc[t] \in Counting,
         pc'[t] = "inc_cas" => old'[t] = words[WordOf(Lane(t)')],
         pc'[t] = "age_cas" => old'[t] = words[at'[t]]
  PROVE  TurnsOK'
<1>1. Alone'
  BY DEF Alone
<1>2. \A w : (Passed(w) <=> PassedBy(t, w)) /\ (Passed(w)' <=> PassedBy(t, w)')
  BY DEF Passed, PassedBy
<1>3. FloorOK'
  BY <1>2, FloorStays DEF TurnsOK
<1>4. \A u \in Threads : u # t => pc'[u] \notin Counting
  BY DEF Counting
<1>5. CountedOK'
  BY <1>4, CountedStays DEF TurnsOK
<1>6. OldOK'
  BY DEF OldOK
<1> QED
  BY <1>1, <1>3, <1>5, <1>6 DEF TurnsOK

LEMMA IncrementTurn ==
  ASSUME SketchInv, FreshOK, TurnsOK, NEW t \in Threads, NEW h \in Hashes, Increment(t, h), Alone'
  PROVE  TurnsOK'
<1>1. pc[t] = "idle" /\ pc'[t] \in {"inc", "guard"}
  BY DEF Increment, Goto, SketchInv, SketchTypeOK
<1>2. \A u \in Threads : u # t => pc'[u] = "idle" /\ pc[u] = "idle"
  BY <1>1 DEF Alone, Increment, Goto, SketchInv, SketchTypeOK
<1>3. words' = words /\ seen' = seen /\ nth'[t] = 1
  BY <1>1 DEF Increment, FreshOK, Counting
<1>4. \A w \in Words : PassedBy(t, w)' <=> PassedBy(t, w)
  BY <1>1 DEF PassedBy
<1> QED
  BY <1>1, <1>2, <1>3, <1>4, QuietTurn

\* The others, before and after a step of a thread at work.
LEMMA OthersIdle ==
  ASSUME SketchInv, TurnsOK, NEW t \in Threads, Continue(t)
  PROVE  \A u \in Threads : u # t => pc[u] = "idle" /\ pc'[u] = "idle"
<1>1. pc[t] # "idle"
  BY DEF Continue, Guard, Recheck, AgeLoad, AgeSwap, AgeLost, NextWord, Zero, Release,
         IncLoad, IncSwap, IncLost, IncDone, Goto
<1>2. \A u \in Threads : u # t => pc[u] = "idle"
  BY <1>1, IdleOthers DEF TurnsOK
<1>3. \A u \in Threads : u # t => pc'[u] = pc[u]
  BY DEF Continue, Guard, Recheck, AgeLoad, AgeSwap, AgeLost, NextWord, Retry, Zero, Release,
         IncLoad, IncSwap, IncLost, IncDone, Goto, NextLane, SketchInv, SketchTypeOK
<1> QED
  BY <1>2, <1>3

LEMMA GuardTurn ==
  ASSUME SketchInv, FreshOK, TurnsOK, NEW t \in Threads, Guard(t)
  PROVE  TurnsOK'
<1>1. pc[t] = "guard" /\ pc'[t] \in {"inc", "recheck"}
  BY DEF Guard, Goto, SketchInv, SketchTypeOK
<1>2. \A u \in Threads : u # t => pc[u] = "idle" /\ pc'[u] = "idle"
  BY OthersIdle DEF Continue
<1>3. words' = words /\ seen' = seen /\ nth'[t] = 1
  BY <1>1 DEF Guard, FreshOK, Counting
<1>4. \A w \in Words : PassedBy(t, w)' <=> PassedBy(t, w)
  BY <1>1 DEF PassedBy
<1> QED
  BY <1>1, <1>2, <1>3, <1>4, QuietTurn

LEMMA RecheckTurn ==
  ASSUME SketchInv, FreshOK, TurnsOK, NEW t \in Threads, Recheck(t)
  PROVE  TurnsOK'
<1>1. pc[t] = "recheck" /\ pc'[t] \in {"age", "release"} /\ at'[t] = 0
  BY DEF Recheck, Goto, SketchInv, SketchTypeOK
<1>2. \A u \in Threads : u # t => pc[u] = "idle" /\ pc'[u] = "idle"
  BY OthersIdle DEF Continue
<1>3. words' = words /\ seen' = seen
  BY <1>1 DEF Recheck
<1>4. \A w \in Words : PassedBy(t, w)' <=> PassedBy(t, w)
  BY <1>1 DEF PassedBy, Words
<1>5. pc'[t] \notin Counting
  BY <1>1 DEF Counting
<1> QED
  BY <1>1, <1>2, <1>3, <1>4, <1>5, QuietTurn

LEMMA AgeLoadTurn ==
  ASSUME SketchInv, FreshOK, TurnsOK, NEW t \in Threads, AgeLoad(t)
  PROVE  TurnsOK'
<1>1. pc[t] = "age" /\ pc'[t] = "age_cas" /\ at' = at /\ old'[t] = words[at'[t]]
  BY DEF AgeLoad, Goto, SketchInv, SketchTypeOK
<1>2. \A u \in Threads : u # t => pc[u] = "idle" /\ pc'[u] = "idle"
  BY OthersIdle DEF Continue
<1>3. words' = words /\ seen' = seen
  BY <1>1 DEF AgeLoad
<1>4. \A w \in Words : PassedBy(t, w)' <=> PassedBy(t, w)
  BY <1>1 DEF PassedBy
<1>5. pc'[t] \notin Counting
  BY <1>1 DEF Counting
<1> QED
  BY <1>1, <1>2, <1>3, <1>4, <1>5, QuietTurn

LEMMA ReleaseTurn ==
  ASSUME SketchInv, FreshOK, TurnsOK, NEW t \in Threads, Release(t)
  PROVE  TurnsOK'
<1>1. pc[t] = "release" /\ pc'[t] = "inc"
  BY DEF Release, Goto, SketchInv, SketchTypeOK
<1>2. \A u \in Threads : u # t => pc[u] = "idle" /\ pc'[u] = "idle"
  BY OthersIdle DEF Continue
<1>3. words' = words /\ seen' = seen /\ nth'[t] = 1
  BY <1>1 DEF Release, FreshOK, Counting
<1>4. \A w \in Words : PassedBy(t, w)' <=> PassedBy(t, w)
  BY <1>1 DEF PassedBy
<1> QED
  BY <1>1, <1>2, <1>3, <1>4, QuietTurn

\* Threads that take turns lose no compare-and-swap.
LEMMA NoLoss ==
  ASSUME TurnsOK, NEW t \in Threads
  PROVE  ~AgeLost(t) /\ ~IncLost(t)
  BY DEF TurnsOK, OldOK, AgeLost, IncLost

\* Halving a word lowers its lanes and what is asked of them alike.
LEMMA AgeSwapTurn ==
  ASSUME SketchInv, TurnsOK, NEW t \in Threads, AgeSwap(t)
  PROVE  TurnsOK'
<1>1. /\ pc[t] = "age_cas" /\ pc'[t] \in {"age", "zero"}
      /\ pc'[t] = "age" => at'[t] = at[t] + 1
      /\ pc'[t] = "zero" => at[t] + 1 \notin Words
      /\ at[t] \in Words /\ at[t] \in Nat /\ seen' = seen
  BY Bases, SMTT(30) DEF AgeSwap, NextWord, SketchInv, SketchTypeOK, Words
<1>2. \A u \in Threads : u # t => pc[u] = "idle" /\ pc'[u] = "idle"
  BY OthersIdle DEF Continue
<1>3. Alone' /\ CountedOK' /\ OldOK'
  BY <1>1, <1>2 DEF Alone, CountedOK, OldOK, Counting
<1>4. \A w : (Passed(w) <=> PassedBy(t, w)) /\ (Passed(w)' <=> PassedBy(t, w)')
  BY <1>2 DEF Passed, PassedBy
<1>5. \A w \in Words : Passed(w)' <=> Passed(w) \/ w = at[t]
  <2> SUFFICES ASSUME NEW w \in Words PROVE PassedBy(t, w)' <=> PassedBy(t, w) \/ w = at[t]
    BY <1>4
  <2>1. w \in Nat /\ w <= NumWords - 1 /\ NumWords \in Nat
    BY Bases DEF Words
  <2>2. CASE pc'[t] = "age"
    BY <1>1, <2>1, <2>2 DEF PassedBy
  <2>3. CASE pc'[t] = "zero"
    <3>1. at[t] = NumWords - 1
      BY <1>1, <2>1, <2>3 DEF Words
    <3> QED
      BY <1>1, <2>1, <2>3, <3>1 DEF PassedBy
  <2> QED
    BY <1>1, <2>2, <2>3
<1>6. ~Passed(at[t])
  BY <1>1, <1>4 DEF PassedBy
<1>7. FloorOK'
  <2> SUFFICES ASSUME NEW h \in Hashes, NEW n \in 1..Len(Indices[h])
               PROVE  LET i == Indices[h][n] IN
                      LaneIn(words', i) >= IF Passed(WordOf(i))' THEN seen'[h] \div 2 ELSE seen'[h]
    BY DEF FloorOK
  <2> DEFINE i == Indices[h][n]
             l == LaneIn(words, i)
  <2>1. i \in Lanes /\ WordOf(i) \in Words /\ i % WordLanes \in LaneNos
    BY IndexType, LanePlace
  <2>2. l >= IF Passed(WordOf(i)) THEN seen[h] \div 2 ELSE seen[h]
    BY DEF FloorOK, TurnsOK
  <2>3. l \in Nat /\ seen[h] \in Nat
    <3>1. GetAt(i) \in 0..Top
      BY <2>1, GetAtType DEF SketchInv
    <3> QED
      BY <3>1, Bases DEF GetAt, LaneIn, SketchInv, SketchTypeOK
  <2>4. CASE WordOf(i) = at[t]
    <3>1. LaneIn(words', i) = l \div 2
      BY <2>1, <2>4, SwapHalves DEF LaneIn
    <3>2. Passed(WordOf(i))' /\ l >= seen[h]
      BY <1>5, <1>6, <2>1, <2>2, <2>4
    <3> HIDE DEF l, i
    <3>3. l \div 2 >= seen[h] \div 2
      BY <2>3, <3>2
    <3> QED
      BY <1>1, <3>1, <3>2, <3>3 DEF i
  <2>5. CASE WordOf(i) # at[t]
    <3>1. LaneIn(words', i) = l
      BY <2>1, <2>5, SwapHalves DEF LaneIn
    <3>2. Passed(WordOf(i))' <=> Passed(WordOf(i))
      BY <1>5, <2>1, <2>5
    <3> QED
      BY <1>1, <2>2, <3>1, <3>2
  <2> QED
    BY <2>4, <2>5
<1> QED
  BY <1>3, <1>7 DEF TurnsOK

\* Once every word is halved, so is what was seen.
LEMMA ZeroTurn ==
  ASSUME SketchInv, TurnsOK, NEW t \in Threads, Zero(t)
  PROVE  TurnsOK'
<1>1. pc[t] = "zero" /\ pc'[t] = "release" /\ words' = words
  BY DEF Zero, Goto, SketchInv, SketchTypeOK
<1>2. \A u \in Threads : u # t => pc[u] = "idle" /\ pc'[u] = "idle"
  BY OthersIdle DEF Continue
<1>3. Alone' /\ CountedOK' /\ OldOK'
  BY <1>1, <1>2 DEF Alone, CountedOK, OldOK, Counting
<1>4. \A w : Passed(w) /\ ~Passed(w)'
  BY <1>1, <1>2 DEF Passed
<1>5. \A h \in Hashes : seen'[h] = seen[h] \div 2
  BY DEF Zero
<1>6. FloorOK'
  <2> SUFFICES ASSUME NEW h \in Hashes, NEW n \in 1..Len(Indices[h])
               PROVE  LaneIn(words', Indices[h][n]) >= seen'[h]
    BY <1>4 DEF FloorOK
  <2> QED
    BY <1>1, <1>4, <1>5 DEF FloorOK, TurnsOK
<1> QED
  BY <1>3, <1>6 DEF TurnsOK

\* A full lane is skipped and counts as counted.
LEMMA IncLoadTurn ==
  ASSUME SketchInv, TurnsOK, NEW t \in Threads, IncLoad(t)
  PROVE  TurnsOK'
<1>1. /\ pc[t] = "inc" /\ MoreLanes(t) /\ words' = words /\ seen' = seen /\ hash' = hash
      /\ pc'[t] \in Counting
  BY DEF IncLoad, NextLane, Goto, Counting, SketchInv, SketchTypeOK
<1>2. \A u \in Threads : u # t => pc[u] = "idle" /\ pc'[u] = "idle"
  BY OthersIdle DEF Continue
<1>3. CASE ~Saturated(t)
  <2>1. nth' = nth /\ pc'[t] = "inc_cas" /\ old'[t] = words[WordOf(Lane(t))]
    BY <1>1, <1>3 DEF IncLoad, Goto, SketchInv, SketchTypeOK
  <2>2. Lane(t)' = Lane(t)
    BY <1>1, <2>1 DEF Lane
  <2>3. \A w \in Words : PassedBy(t, w)' <=> PassedBy(t, w)
    BY <1>1, <2>1 DEF PassedBy
  <2>4. pc[t] \in Counting
    BY <1>1 DEF Counting
  <2> QED
    BY <1>1, <1>2, <2>1, <2>2, <2>3, <2>4, QuietTurn
<1>4. CASE Saturated(t)
  <2>1. nth'[t] = nth[t] + 1 /\ nth[t] \in Nat /\ pc' = pc
    BY <1>4 DEF IncLoad, NextLane, SketchInv, SketchTypeOK
  <2>2. Alone' /\ OldOK'
    BY <1>1, <1>2, <2>1 DEF Alone, OldOK
  <2>3. \A w \in Words : ~Passed(w)' /\ ~Passed(w)
    BY <1>1, <1>2, <2>1 DEF Passed
  <2>4. FloorOK'
    BY <1>1, <2>3, FloorStays DEF TurnsOK
  <2>5. CountedOK'
    <3> SUFFICES ASSUME NEW n \in 1..Len(Indices[hash[t]]), n < nth[t] + 1
                 PROVE  LET i == Indices[hash[t]][n] IN
                        LaneIn(words, i) = Top \/ LaneIn(words, i) > seen[hash[t]]
      BY <1>1, <1>2, <2>1 DEF CountedOK, Counting
    <3>1. CASE n < nth[t]
      BY <1>1, <3>1 DEF CountedOK, TurnsOK, Counting
    <3>2. CASE n = nth[t]
      BY <1>4, <3>2 DEF Saturated, GetAt, LaneIn, Lane
    <3> QED
      BY <2>1, <3>1, <3>2
  <2> QED
    BY <2>2, <2>4, <2>5 DEF TurnsOK
<1> QED
  BY <1>3, <1>4

\* An increment takes nothing from any lane and gives its own one more.
LEMMA IncSwapTurn ==
  ASSUME SketchInv, SketchInv', TurnsOK, NEW t \in Threads, IncSwap(t)
  PROVE  TurnsOK'
<1>1. /\ pc[t] = "inc_cas" /\ pc'[t] = "inc" /\ seen' = seen /\ hash' = hash
      /\ nth'[t] = nth[t] + 1 /\ nth[t] \in Nat /\ MoreLanes(t) /\ nth[t] \in Nat \ {0}
  BY DEF IncSwap, NextLane, Goto, SketchInv, SketchTypeOK, Roomy
<1>2. \A u \in Threads : u # t => pc[u] = "idle" /\ pc'[u] = "idle"
  BY OthersIdle DEF Continue
<1>3. Alone' /\ OldOK'
  BY <1>1, <1>2 DEF Alone, OldOK
<1>4. \A w \in Words : ~Passed(w)' /\ ~Passed(w)
  BY <1>1, <1>2 DEF Passed
<1>5. \A i \in Lanes : /\ LaneIn(words, i) \in 0..Top /\ LaneIn(words', i) \in 0..Top
                       /\ LaneIn(words', i) >= LaneIn(words, i)
  <2> SUFFICES ASSUME NEW i \in Lanes
               PROVE  /\ LaneIn(words, i) \in 0..Top /\ LaneIn(words', i) \in 0..Top
                      /\ LaneIn(words', i) >= LaneIn(words, i)
    OBVIOUS
  <2> DEFINE w == WordOf(i)
             j == i % WordLanes
  <2>1. w \in Words /\ j \in LaneNos
    BY LanePlace
  <2>2. GetAt(i) \in 0..Top
    BY GetAtType DEF SketchInv
  <2>3. words'[w] \in Nat /\ j \in Nat
    BY <2>1, Bases, PlaceType DEF SketchInv, SketchTypeOK, WordValues, LaneNos
  <2>4. LaneOf(words'[w], j) \in 0..Top
    <3> HIDE DEF w, j
    <3> QED
      BY <2>3, LaneType
  <2>5. CASE w = WordOf(Lane(t))
    <3>1. \/ LaneOf(words'[w], j) = LaneOf(words[w], j) + 1
          \/ LaneOf(words'[w], j) = LaneOf(words[w], j)
      BY <2>1, <2>5, SwapAdds
    <3> QED
      BY <2>2, <2>4, <3>1, Bases DEF LaneIn, GetAt
  <2>6. CASE w # WordOf(Lane(t))
    <3>1. words'[w] = words[w]
      BY <2>1, <2>6, SwapAdds
    <3> QED
      BY <2>2, <2>4, <3>1, Bases DEF LaneIn, GetAt
  <2> QED
    BY <2>5, <2>6
<1>6. /\ Lane(t) \in Lanes
      /\ LaneIn(words', Lane(t)) = LaneIn(words, Lane(t)) + 1
  <2>1. Lane(t) \in Lanes /\ Lane(t) % WordLanes \in LaneNos
    BY SwapAdds, LanePlace
  <2> QED
    BY <2>1, SwapAdds DEF LaneIn
<1>7. FloorOK'
  <2> SUFFICES ASSUME NEW h \in Hashes, NEW n \in 1..Len(Indices[h])
               PROVE  LaneIn(words', Indices[h][n]) >= seen[h]
    BY <1>1, <1>4, IndexType, LanePlace DEF FloorOK
  <2>1. Indices[h][n] \in Lanes /\ WordOf(Indices[h][n]) \in Words
    BY IndexType, LanePlace
  <2>2. LaneIn(words, Indices[h][n]) >= seen[h]
    BY <1>4, <2>1 DEF FloorOK, TurnsOK
  <2>3. seen[h] \in Nat
    BY Bases DEF SketchInv, SketchTypeOK
  <2> QED
    BY <1>5, <2>1, <2>2, <2>3, Bases
<1>8. CountedOK'
  <2> SUFFICES ASSUME NEW n \in 1..Len(Indices[hash[t]]), n < nth[t] + 1
               PROVE  LET i == Indices[hash[t]][n] IN
                      LaneIn(words', i) = Top \/ LaneIn(words', i) > seen[hash[t]]
    BY <1>1, <1>2 DEF CountedOK, Counting
  <2> DEFINE i == Indices[hash[t]][n]
  <2>1. hash[t] \in Hashes /\ seen[hash[t]] \in Nat
    BY Bases DEF SketchInv, SketchTypeOK
  <2>2. i \in Lanes /\ WordOf(i) \in Words
    BY <2>1, IndexType, LanePlace
  <2>3. /\ LaneIn(words, i) \in 0..Top /\ LaneIn(words', i) \in 0..Top
        /\ LaneIn(words', i) >= LaneIn(words, i)
    BY <1>5, <2>2
  <2>4. CASE n < nth[t]
    <3>1. LaneIn(words, i) = Top \/ LaneIn(words, i) > seen[hash[t]]
      BY <1>1, <2>4 DEF CountedOK, TurnsOK, Counting
    <3> HIDE DEF i
    <3> QED
      BY <2>1, <2>3, <3>1, Bases DEF i
  <2>5. CASE n = nth[t]
    <3>1. i = Lane(t)
      BY <2>5 DEF Lane
    <3>2. LaneIn(words, i) >= seen[hash[t]]
      BY <1>4, <2>1, <2>2 DEF FloorOK, TurnsOK
    <3> HIDE DEF i
    <3> QED
      BY <1>6, <2>1, <2>3, <3>1, <3>2, Bases DEF i
  <2> QED
    BY <1>1, <2>4, <2>5
<1> QED
  BY <1>3, <1>7, <1>8 DEF TurnsOK

\* A call that ends has been counted in every lane of its hash.
LEMMA IncDoneTurn ==
  ASSUME SketchInv, TurnsOK, NEW t \in Threads, IncDone(t)
  PROVE  TurnsOK'
<1>1. /\ pc[t] = "inc" /\ pc'[t] = "idle" /\ words' = words /\ ~MoreLanes(t)
      /\ hash[t] \in Hashes /\ nth[t] \in Nat
  BY DEF IncDone, Goto, SketchInv, SketchTypeOK
<1>2. \A u \in Threads : u # t => pc[u] = "idle" /\ pc'[u] = "idle"
  BY OthersIdle DEF Continue
<1>3. Alone' /\ CountedOK' /\ OldOK'
  BY <1>1, <1>2 DEF Alone, CountedOK, OldOK, Counting
<1>4. \A w : ~Passed(w)' /\ ~Passed(w)
  BY <1>1, <1>2 DEF Passed
<1>5. \A h \in Hashes : \A n \in 1..Len(Indices[h]) : LaneIn(words, Indices[h][n]) >= seen[h]
  BY <1>4 DEF FloorOK, TurnsOK
<1>6. \A n \in 1..Len(Indices[hash[t]]) :
        LET i == Indices[hash[t]][n] IN LaneIn(words, i) = Top \/ LaneIn(words, i) > seen[hash[t]]
  <2>1. \A n \in 1..Len(Indices[hash[t]]) : n < nth[t]
    BY <1>1, IndexType DEF MoreLanes
  <2> QED
    BY <1>1, <2>1 DEF CountedOK, TurnsOK, Counting
<1>7. FloorOK'
  <2> SUFFICES ASSUME NEW h \in Hashes, NEW n \in 1..Len(Indices[h])
               PROVE  LaneIn(words, Indices[h][n]) >= seen'[h]
    BY <1>1, <1>4 DEF FloorOK
  <2> DEFINE l == LaneIn(words, Indices[h][n])
  <2>1. l \in 0..Top /\ Top \in Nat /\ seen[h] \in 0..Top
    <3>1. GetAt(Indices[h][n]) \in 0..Top
      BY IndexType, GetAtType DEF SketchInv
    <3> QED
      BY <3>1, Bases DEF LaneIn, GetAt, SketchInv, SketchTypeOK
  <2>2. CASE h # hash[t]
    <3>1. seen'[h] = seen[h]
      BY <2>2 DEF IncDone, SketchInv, SketchTypeOK
    <3> QED
      BY <1>5, <3>1
  <2>3. CASE h = hash[t]
    <3>1. seen'[h] = Min({seen[h] + 1, Top})
      BY <2>3 DEF IncDone, SketchInv, SketchTypeOK
    <3>2. seen[h] + 1 \in Nat
      BY <2>1
    <3>3. seen'[h] = IF seen[h] + 1 <= Top THEN seen[h] + 1 ELSE Top
      BY <2>1, <3>1, <3>2, MinPair
    <3>4. l = Top \/ l > seen[h]
      BY <1>6, <2>3
    <3> HIDE DEF l
    <3> QED
      BY <2>1, <3>3, <3>4 DEF l
  <2> QED
    BY <2>2, <2>3
<1> QED
  BY <1>3, <1>7 DEF TurnsOK

LEMMA TurnsStep ==
  ASSUME SketchInv, SketchInv', TurnsInv, [TurnsNext]_<<sketchVars, overlapped>>
  PROVE  TurnsInv'
<1>1. CASE UNCHANGED <<sketchVars, overlapped>>
  <2>1. UNCHANGED <<words, adds, aging, pc, hash, nth, at, old, tries, seen, overlapped>>
    BY <1>1 DEF sketchVars
  <2> QED
    BY <2>1 DEF TurnsInv, FreshOK, TurnsOK, Alone, FloorOK, CountedOK, OldOK, Passed, Lane
<1>2. CASE TurnsNext
  <2>1. PICK t \in Threads : (\E h \in Hashes : Increment(t, h)) \/ Continue(t)
    BY <1>2 DEF TurnsNext, Next
  <2>2. FreshOK'
    <3> USE DEF Goto, FreshOK, Counting
    <3>1. CASE \E h \in Hashes : Increment(t, h)
      BY <3>1 DEF TurnsInv, Increment, SketchInv, SketchTypeOK
    <3>2. CASE Continue(t)
      BY <2>1, <3>2 DEF TurnsInv, Continue, Guard, Recheck, AgeLoad, AgeSwap, AgeLost, NextWord,
           Retry, Zero, Release, IncLoad, IncSwap, IncLost, IncDone, NextLane, SketchInv, SketchTypeOK
    <3> QED
      BY <2>1, <3>1, <3>2
  <2>3. ASSUME ~overlapped' PROVE TurnsOK'
    <3>1. ~overlapped /\ ~(Cardinality(Busy') > 1)
      <4>1. overlapped' = (overlapped \/ Cardinality(Busy') > 1)
        BY <1>2 DEF TurnsNext
      <4> QED
        BY <2>3, <4>1
    <3>2. TurnsOK
      BY <3>1 DEF TurnsInv
    <3>3. Alone'
      <4>1. Busy' \subseteq Threads
        BY DEF Busy
      <4>2. \A x, y \in Busy' : x = y
        BY <3>1, <4>1, BusyAlone
      <4> QED
        BY <4>2 DEF Alone, Busy
    <3>4. CASE \E h \in Hashes : Increment(t, h)
      BY <3>2, <3>3, <3>4, IncrementTurn DEF TurnsInv
    <3>5. CASE Continue(t)
      BY <3>2, <3>5, GuardTurn, RecheckTurn, AgeLoadTurn, AgeSwapTurn, ZeroTurn, ReleaseTurn,
         IncLoadTurn, IncSwapTurn, IncDoneTurn, NoLoss DEF TurnsInv, Continue
    <3> QED
      BY <2>1, <3>4, <3>5
  <2> QED
    BY <2>2, <2>3 DEF TurnsInv
<1> QED
  BY <1>1, <1>2

\* The least lane of a hash.
LEMMA EstimateIs ==
  ASSUME SketchTypeOK, NEW h \in Hashes
  PROVE  \E n \in 1..Len(Indices[h]) : Estimate(h) = GetAt(Indices[h][n])
<1> DEFINE S == {GetAt(Indices[h][n]) : n \in 1..Len(Indices[h])}
<1>1. S \subseteq Nat
  BY IndexType, GetAtType, Bases
<1>2. S # {}
  BY IndexType
<1>3. PICK x \in S : \A y \in S : x <= y
  <2> HIDE DEF S
  <2> QED
    BY <1>1, <1>2, LeastOf
<1>4. Estimate(h) \in S
  <2>1. Estimate(h) = Min(S)
    BY DEF Estimate
  <2> HIDE DEF S
  <2> QED
    BY <1>3, <2>1 DEF Min
<1> QED
  BY <1>4

\* Through saturation and aging, calls that take turns are never counted less
\* often than they were made.
THEOREM TurnsNeverUndercount == TurnsSpec => []SequentialNeverUndercounts
<1>1. TurnsInit => SketchInv /\ TurnsInv
  <2> SUFFICES ASSUME TurnsInit PROVE SketchInv /\ TurnsInv
    OBVIOUS
  <2>1. SketchInv
    BY SketchInit DEF TurnsInit
  <2>2. \A t \in Threads : pc[t] = "idle" /\ nth[t] = 1
    BY DEF TurnsInit, Init
  <2>3. FreshOK /\ Alone /\ CountedOK /\ OldOK
    BY <2>2 DEF FreshOK, Alone, CountedOK, OldOK, Counting
  <2>4. FloorOK
    <3> SUFFICES ASSUME NEW h \in Hashes, NEW n \in 1..Len(Indices[h])
                 PROVE  LaneIn(words, Indices[h][n]) >= seen[h]
      BY <2>2 DEF FloorOK, Passed
    <3>1. GetAt(Indices[h][n]) \in Nat
      BY <2>1, IndexType, GetAtType, Bases DEF SketchInv
    <3>2. seen[h] = 0
      BY DEF TurnsInit, Init
    <3> QED
      BY <3>1, <3>2 DEF GetAt, LaneIn
  <2> QED
    BY <2>1, <2>3, <2>4 DEF TurnsInv, TurnsOK
<1>2. SketchInv /\ TurnsInv /\ [TurnsNext]_<<sketchVars, overlapped>> => (SketchInv /\ TurnsInv)'
  <2> SUFFICES ASSUME SketchInv, TurnsInv, [TurnsNext]_<<sketchVars, overlapped>>
               PROVE  SketchInv' /\ TurnsInv'
    OBVIOUS
  <2>1. [Next]_sketchVars
    BY DEF TurnsNext
  <2>2. SketchInv'
    BY <2>1, SketchStep
  <2> QED
    BY <2>2, TurnsStep
<1>3. SketchInv /\ TurnsInv => SequentialNeverUndercounts
  <2> SUFFICES ASSUME SketchInv, TurnsInv, ~overlapped, \A t \in Threads : pc[t] = "idle",
                      NEW h \in Hashes
               PROVE  Estimate(h) >= seen[h]
    BY DEF SequentialNeverUndercounts, NeverUndercounts
  <2>1. PICK n \in 1..Len(Indices[h]) : Estimate(h) = GetAt(Indices[h][n])
    BY EstimateIs DEF SketchInv
  <2>2. ~Passed(WordOf(Indices[h][n]))
    BY DEF Passed
  <2>3. LaneIn(words, Indices[h][n]) >= seen[h]
    BY <2>2 DEF TurnsInv, TurnsOK, FloorOK
  <2> QED
    BY <2>1, <2>3 DEF GetAt, LaneIn
<1> QED
  BY <1>1, <1>2, <1>3, PTL DEF TurnsSpec

(***************************************************************************)
(* Part 3: the doorkeeper in front of the sketch                           *)
(***************************************************************************)

-----------------------------------------------------------------------------
(* The inductive invariant *)

LfuTypeOK ==
  /\ door \in [Shards -> SUBSET Bits]
  /\ count \in [Shards -> [Lanes -> 0..Top]]
  /\ freq \in [Hashes -> 0..(Top + 1)]

\* A bit that is set was set by a hash of the shard.
DoorOK ==
  \A s \in Shards : \A b \in door[s] :
    \E g \in Hashes : ShardOf[g] = s /\ b \in Probes[g] /\ freq[g] >= 1

\* A counter that counts something counts a hash that came again.
CountOK ==
  \A s \in Shards : \A i \in Lanes : count[s][i] > 0 =>
    \E g \in Hashes : ShardOf[g] = s /\ freq[g] >= 2 /\ CountedIn(g, i)

LfuInv == LfuTypeOK /\ DoorOK /\ (DoorSeparates => CountOK)

\* How often a hash has been recorded only grows, and a recorded hash has
\* been recorded.
LEMMA FreqGrows ==
  ASSUME LfuTypeOK, NEW h \in Hashes, Record(h)
  PROVE  /\ freq' \in [Hashes -> 0..(Top + 1)]
         /\ \A g \in Hashes : freq'[g] >= freq[g]
         /\ freq'[h] >= 1
         /\ freq[h] >= 1 => freq'[h] >= 2
<1>1. freq' = [freq EXCEPT ![h] = Min({freq[h] + 1, Top + 1})]
  BY DEF Record
<1>2. freq \in [Hashes -> 0..(Top + 1)] /\ freq[h] \in 0..(Top + 1) /\ Top \in Nat /\ Top >= 1
  BY Bases DEF LfuTypeOK
<1>3. freq[h] + 1 \in Nat /\ Top + 1 \in Nat
  BY <1>2
<1>4. Min({freq[h] + 1, Top + 1}) = IF freq[h] + 1 <= Top + 1 THEN freq[h] + 1 ELSE Top + 1
  BY <1>3, MinPair
<1> QED
  BY <1>1, <1>2, <1>4

\* Where no bits are covered by the others', a hash the door has seen was
\* recorded before.
LEMMA SeenBefore ==
  ASSUME LfuInv, DoorSeparates, NEW h \in Hashes, ProbablySeen(h)
  PROVE  freq[h] >= 1
<1>1. PICK b \in Probes[h] :
        b \notin UNION {Probes[g] : g \in {g \in Hashes \ {h} : ShardOf[g] = ShardOf[h]}}
  BY DEF DoorSeparates
<1>2. b \in door[ShardOf[h]] /\ ShardOf[h] \in Shards
  BY LfuConstants DEF ProbablySeen
<1>3. PICK g \in Hashes : ShardOf[g] = ShardOf[h] /\ b \in Probes[g] /\ freq[g] >= 1
  BY <1>2 DEF LfuInv, DoorOK
<1>4. g = h
  BY <1>1, <1>3
<1> QED
  BY <1>3, <1>4

\* Aging makes no counter greater.
LEMMA AgedIs ==
  ASSUME LfuTypeOK, NEW s \in Shards
  PROVE  /\ Aged(s).lanes \in [Lanes -> 0..Top]
         /\ \A i \in Lanes : Aged(s).lanes[i] > 0 => count[s][i] > 0
<1>1. count[s] \in [Lanes -> 0..Top] /\ Top \in Nat
  BY Bases DEF LfuTypeOK
<1>2. \A x \in 0..Top : x \div 2 \in 0..Top /\ (x \div 2 > 0 => x > 0)
  BY <1>1
<1>3. CASE added[s] >= ResetAt
  <2>1. Aged(s).lanes = [i \in Lanes |-> count[s][i] \div 2]
    BY <1>3 DEF Aged
  <2> QED
    BY <1>1, <1>2, <2>1
<1>4. CASE ~(added[s] >= ResetAt)
  <2>1. Aged(s).lanes = count[s]
    BY <1>4 DEF Aged
  <2> QED
    BY <1>1, <2>1
<1> QED
  BY <1>3, <1>4

\* Counting a hash touches only its own lanes.
LEMMA CountedIs ==
  ASSUME NEW lanes \in [Lanes -> 0..Top], NEW h \in Hashes
  PROVE  /\ Counted(lanes, h) \in [Lanes -> 0..Top]
         /\ \A i \in Lanes : Counted(lanes, h)[i] > 0 => lanes[i] > 0 \/ CountedIn(h, i)
<1> DEFINE J(i) == {j \in 1..Len(Indices[h]) : Indices[h][j] = i}
           Times(i) == Cardinality(J(i))
<1>1. Len(Indices[h]) \in Nat /\ Top \in Nat
  BY IndexType, Bases
<1>2. \A i : Times(i) \in Nat /\ (~CountedIn(h, i) => Times(i) = 0)
  <2> SUFFICES ASSUME NEW i PROVE Times(i) \in Nat /\ (~CountedIn(h, i) => Times(i) = 0)
    OBVIOUS
  <2>1. IsFiniteSet(1..Len(Indices[h]))
    BY <1>1, FS_Interval
  <2>2. IsFiniteSet(J(i))
    BY <2>1, FS_Subset
  <2>3. ~CountedIn(h, i) => J(i) = {}
    BY DEF CountedIn
  <2> HIDE DEF J
  <2> QED
    BY <2>2, <2>3, FS_CardinalityType, FS_EmptySet
<1>3. Counted(lanes, h) = [i \in Lanes |-> Min({lanes[i] + Times(i), Top})]
  BY DEF Counted
<1> HIDE DEF Times, J
<1>4. \A i \in Lanes : /\ Min({lanes[i] + Times(i), Top}) \in 0..Top
                       /\ Min({lanes[i] + Times(i), Top}) > 0 => lanes[i] > 0 \/ CountedIn(h, i)
  <2> SUFFICES ASSUME NEW i \in Lanes
               PROVE  /\ Min({lanes[i] + Times(i), Top}) \in 0..Top
                      /\ Min({lanes[i] + Times(i), Top}) > 0 => lanes[i] > 0 \/ CountedIn(h, i)
    OBVIOUS
  <2>1. lanes[i] \in Nat /\ Times(i) \in Nat /\ lanes[i] + Times(i) \in Nat
    BY <1>1, <1>2
  <2>2. Min({lanes[i] + Times(i), Top}) =
          IF lanes[i] + Times(i) <= Top THEN lanes[i] + Times(i) ELSE Top
    BY <1>1, <2>1, MinPair
  <2> QED
    BY <1>1, <1>2, <2>1, <2>2
<1> QED
  BY <1>3, <1>4

LEMMA RecordKeeps ==
  ASSUME LfuInv, NEW h \in Hashes, Record(h)
  PROVE  LfuInv'
<1> DEFINE s == ShardOf[h]
<1>1. s \in Shards /\ LfuTypeOK
  BY LfuConstants DEF LfuInv
<1>2. /\ freq' \in [Hashes -> 0..(Top + 1)]
      /\ \A g \in Hashes : freq'[g] >= freq[g]
      /\ freq'[h] >= 1
      /\ freq[h] >= 1 => freq'[h] >= 2
  BY <1>1, FreqGrows
<1>3. \A g \in Hashes : freq[g] \in Nat /\ freq'[g] \in Nat
  BY <1>1, <1>2, Bases DEF LfuTypeOK
<1>4. CASE ProbablySeen(h)
  <2> DEFINE lanes == Aged(s).lanes
  <2>1. door' = door /\ count' = [count EXCEPT ![s] = Counted(lanes, h)]
    BY <1>4 DEF Record
  <2>2. lanes \in [Lanes -> 0..Top] /\ \A i \in Lanes : lanes[i] > 0 => count[s][i] > 0
    BY <1>1, AgedIs
  <2> HIDE DEF lanes
  <2>3. /\ Counted(lanes, h) \in [Lanes -> 0..Top]
        /\ \A i \in Lanes : Counted(lanes, h)[i] > 0 => lanes[i] > 0 \/ CountedIn(h, i)
    BY <2>2, CountedIs
  <2>4. LfuTypeOK'
    BY <1>1, <1>2, <2>1, <2>3 DEF LfuTypeOK
  <2>5. DoorOK'
    BY <1>2, <1>3, <2>1 DEF DoorOK, LfuInv
  <2>6. ASSUME DoorSeparates PROVE CountOK'
    <3> SUFFICES ASSUME NEW r \in Shards, NEW i \in Lanes, count'[r][i] > 0
                 PROVE  \E g \in Hashes : ShardOf[g] = r /\ freq'[g] >= 2 /\ CountedIn(g, i)
      BY DEF CountOK
    <3>1. freq'[h] >= 2
      BY <1>2, <1>4, <2>6, SeenBefore
    <3>2. CASE r = s /\ CountedIn(h, i)
      BY <3>1, <3>2
    <3>3. CASE count[r][i] > 0
      <4>1. PICK g \in Hashes : ShardOf[g] = r /\ freq[g] >= 2 /\ CountedIn(g, i)
        BY <2>6, <3>3 DEF CountOK, LfuInv
      <4> QED
        BY <1>2, <1>3, <4>1
    <3>4. r = s => count'[r] = Counted(lanes, h)
      BY <1>1, <2>1 DEF LfuTypeOK
    <3>5. r # s => count'[r] = count[r]
      BY <1>1, <2>1 DEF LfuTypeOK
    <3> QED
      BY <2>2, <2>3, <3>2, <3>3, <3>4, <3>5
  <2> QED
    BY <2>4, <2>5, <2>6 DEF LfuInv, DoorSeparates
<1>5. CASE ~ProbablySeen(h)
  <2>1. door' = [door EXCEPT ![s] = @ \cup Probes[h]] /\ count' = count
    BY <1>5 DEF Record
  <2>2. LfuTypeOK'
    BY <1>1, <1>2, <2>1, LfuConstants DEF LfuTypeOK
  <2>3. DoorOK'
    <3> SUFFICES ASSUME NEW r \in Shards, NEW b \in door'[r]
                 PROVE  \E g \in Hashes : ShardOf[g] = r /\ b \in Probes[g] /\ freq'[g] >= 1
      BY DEF DoorOK
    <3>1. b \in door[r] \/ (r = s /\ b \in Probes[h])
      BY <1>1, <2>1 DEF LfuTypeOK
    <3>2. CASE b \in door[r]
      <4>1. PICK g \in Hashes : ShardOf[g] = r /\ b \in Probes[g] /\ freq[g] >= 1
        BY <3>2 DEF DoorOK, LfuInv
      <4> QED
        BY <1>2, <1>3, <4>1
    <3>3. CASE r = s /\ b \in Probes[h]
      BY <1>2, <3>3
    <3> QED
      BY <3>1, <3>2, <3>3
  <2>4. ASSUME DoorSeparates PROVE CountOK'
    <3> SUFFICES ASSUME NEW r \in Shards, NEW i \in Lanes, count[r][i] > 0
                 PROVE  \E g \in Hashes : ShardOf[g] = r /\ freq'[g] >= 2 /\ CountedIn(g, i)
      BY <2>1 DEF CountOK
    <3>1. PICK g \in Hashes : ShardOf[g] = r /\ freq[g] >= 2 /\ CountedIn(g, i)
      BY <2>4 DEF CountOK, LfuInv
    <3> QED
      BY <1>2, <1>3, <3>1
  <2> QED
    BY <2>2, <2>3, <2>4 DEF LfuInv, DoorSeparates
<1> QED
  BY <1>4, <1>5

\* The estimate of a hash is one of its counters, and no counter of it is less.
LEMMA EstimateInIs ==
  ASSUME LfuTypeOK, NEW s \in Shards, NEW h \in Hashes
  PROVE  /\ EstimateIn(s, h) \in Nat
         /\ \A i \in Lanes : CountedIn(h, i) => count[s][i] \in Nat /\ EstimateIn(s, h) <= count[s][i]
<1> DEFINE S == {count[s][Indices[h][n]] : n \in 1..Len(Indices[h])}
<1>1. S \subseteq Nat
  <2>1. \A i \in Lanes : count[s][i] \in Nat
    BY Bases DEF LfuTypeOK
  <2>2. \A n \in 1..Len(Indices[h]) : Indices[h][n] \in Lanes
    BY IndexType
  <2> QED
    BY <2>1, <2>2
<1>2. S # {}
  <2>1. 1 \in 1..Len(Indices[h])
    BY IndexType
  <2>2. count[s][Indices[h][1]] \in S
    BY <2>1
  <2> QED
    BY <2>2
<1>3. \A i \in Lanes : CountedIn(h, i) => count[s][i] \in S
  BY DEF CountedIn
<1>4. EstimateIn(s, h) = Min(S)
  BY DEF EstimateIn
<1> HIDE DEF S
<1>5. PICK x \in S : \A y \in S : x <= y
  BY <1>1, <1>2, LeastOf
<1>6. Min(S) \in S /\ \A y \in S : Min(S) <= y
  BY <1>5 DEF Min
<1> QED
  BY <1>1, <1>3, <1>4, <1>6

\* A key is admitted only on the strength of keys that came twice, through
\* every aging of the sketch and however the hashes share bits and lanes.
THEOREM DoorKeepsOneHitWondersOut == LfuSpec => []OneHitWondersStayOut
<1>1. LfuInit => LfuInv
  <2> SUFFICES ASSUME LfuInit PROVE LfuInv
    OBVIOUS
  <2>1. 0 \in 0..Top /\ 0 \in 0..(Top + 1)
    BY Bases
  <2>2. LfuTypeOK
    BY <2>1 DEF LfuInit, LfuTypeOK
  <2>3. DoorOK /\ CountOK
    BY DEF LfuInit, DoorOK, CountOK
  <2> QED
    BY <2>2, <2>3 DEF LfuInv
<1>2. LfuInv /\ [LfuNext]_lfuVars => LfuInv'
  <2> SUFFICES ASSUME LfuInv, [LfuNext]_lfuVars PROVE LfuInv'
    OBVIOUS
  <2>1. CASE UNCHANGED lfuVars
    BY <2>1 DEF lfuVars, LfuInv, LfuTypeOK, DoorOK, CountOK, DoorSeparates
  <2>2. CASE LfuNext
    BY <2>2, RecordKeeps DEF LfuNext
  <2> QED
    BY <2>1, <2>2
<1>3. LfuInv => OneHitWondersStayOut
  <2> SUFFICES ASSUME LfuInv, DoorSeparates, NEW c \in Hashes, NEW v \in Hashes, Allow(c, v),
                      NEW i \in Lanes, CountedIn(c, i)
               PROVE  \E g \in Hashes : ShardOf[g] = ShardOf[c] /\ freq[g] >= 2 /\ CountedIn(g, i)
    BY DEF OneHitWondersStayOut
  <2> DEFINE s == ShardOf[c]
  <2>1. s \in Shards /\ LfuTypeOK
    BY LfuConstants DEF LfuInv
  <2>2. EstimateIn(s, c) > EstimateIn(s, v)
    BY DEF Allow
  <2>3. EstimateIn(s, v) \in Nat /\ EstimateIn(s, c) \in Nat
        /\ count[s][i] \in Nat /\ EstimateIn(s, c) <= count[s][i]
    BY <2>1, EstimateInIs
  <2>4. count[s][i] > 0
    BY <2>2, <2>3
  <2> QED
    BY <2>1, <2>4 DEF LfuInv, CountOK
<1> QED
  BY <1>1, <1>2, <1>3, PTL DEF LfuSpec

=============================================================================
