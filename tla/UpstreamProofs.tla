--------------------------- MODULE UpstreamProofs ---------------------------
(***************************************************************************)
(* Proofs about the upstream client: permits are conserved, and the health *)
(* flag turns only after three equal results in a row.                     *)
(***************************************************************************)
EXTENDS Upstream, FiniteSetTheorems, SequenceTheorems, TLAPS

\* A request that moves inside the throttle, or outside of it, moves no permit;
\* one that enters takes one and one that leaves gives one back.
LEMMA Moves ==
  ASSUME TypeOK, PermitsConserved, NEW r \in Requests, NEW to,
         pc' = [pc EXCEPT ![r] = to],
         to \in {"policy", "wait", "check"} => permits > 0 \/ pc[r] \in {"policy", "wait", "check"},
         permits' = permits + (IF pc[r] \in {"policy", "wait", "check"} THEN 1 ELSE 0)
                            - (IF to \in {"policy", "wait", "check"} THEN 1 ELSE 0)
  PROVE  PermitsConserved' /\ permits' \in 0..Concurrency
<1> DEFINE Inside == {"policy", "wait", "check"}
<1>1. IsFiniteSet(Throttling) /\ Cardinality(Throttling) \in Nat
  BY FS_Subset, FS_CardinalityType, UpstreamConstants DEF Throttling
<1>2. IF to \in Inside THEN Throttling' = Throttling \cup {r} ELSE Throttling' = Throttling \ {r}
  BY DEF Throttling, TypeOK
<1>3. r \in Throttling <=> pc[r] \in Inside
  BY DEF Throttling
<1>4. Cardinality(Throttling') = Cardinality(Throttling)
                                - (IF pc[r] \in Inside THEN 1 ELSE 0) + (IF to \in Inside THEN 1 ELSE 0)
  <2>1. CASE to \in Inside
    BY <1>1, <1>2, <1>3, <2>1, FS_AddElement
  <2>2. CASE to \notin Inside
    BY <1>1, <1>2, <1>3, <2>2, FS_RemoveElement
  <2> QED BY <2>1, <2>2
<1>5. Cardinality(Throttling') \in Nat
  BY <1>1, <1>2, FS_AddElement, FS_RemoveElement, FS_CardinalityType
<1>6. permits \in Nat /\ Concurrency \in Nat /\ permits + Cardinality(Throttling) = Concurrency
  BY UpstreamConstants DEF TypeOK, PermitsConserved
<1>7. /\ permits' + Cardinality(Throttling') = Concurrency
      /\ permits' \in 0..Concurrency
  <2> HIDE DEF Inside
  <2> DEFINE c == Cardinality(Throttling)  d == Cardinality(Throttling')
             out == IF pc[r] \in Inside THEN 1 ELSE 0
             in == IF to \in Inside THEN 1 ELSE 0
  <2>1. out \in {0, 1} /\ in \in {0, 1} /\ c \in Nat /\ d \in Nat
    BY <1>1, <1>5
  <2>2. d = c - out + in
    BY <1>4
  <2>3. permits' = permits + out - in
    BY DEF Inside
  <2>4. permits + c = Concurrency /\ (in = 1 => permits > 0 \/ out = 1)
    BY <1>6 DEF Inside
  <2>5. permits' + d = Concurrency /\ permits' \in 0..Concurrency
    <3> HIDE DEF c, d, out, in
    <3>1. permits' + d = permits + c
      BY <1>6, <2>1, <2>2, <2>3
    <3>2. permits' \in Int
      BY <1>6, <2>1, <2>3
    <3>3. permits' + d = Concurrency
      BY <2>4, <3>1
    <3>4. permits' >= 0
      BY <1>6, <2>1, <2>2, <2>3, <2>4
    <3> QED BY <1>6, <2>1, <3>2, <3>3, <3>4
  <2> QED BY <2>5
<1> QED
  BY <1>7 DEF PermitsConserved

\* A step that moves no request and no permit leaves the permits conserved.
LEMMA Stays ==
  ASSUME PermitsConserved, UNCHANGED reqVars
  PROVE  PermitsConserved'
BY DEF PermitsConserved, Throttling, reqVars

-----------------------------------------------------------------------------
(* The observer *)

\* A window of the last n results: what is appended comes last, and what came
\* before it moves up by one.
LEMMA Window ==
  ASSUME NEW S, NEW q \in Seq(S), NEW e \in S, NEW n \in Nat \ {0}, Len(q) <= n,
         NEW r, r = IF Len(q) < n THEN Append(q, e) ELSE Append(Tail(q), e)
  PROVE  /\ r \in Seq(S)
         /\ Len(r) = IF Len(q) < n THEN Len(q) + 1 ELSE n
         /\ r[Len(r)] = e
         /\ \A i \in 1..(Len(r) - 1) : r[Len(r) - i] = q[Len(q) - (i - 1)]
<1>0. Len(q) \in Nat
  OBVIOUS
<1>1. CASE Len(q) < n
  <2>1. r = Append(q, e)
    BY <1>1
  <2>2. /\ r \in Seq(S)
        /\ Len(r) = Len(q) + 1
        /\ \A i \in 1..Len(q) : r[i] = q[i]
        /\ r[Len(q) + 1] = e
    BY <2>1, AppendProperties
  <2>3. ASSUME NEW i \in 1..(Len(r) - 1)
        PROVE  r[Len(r) - i] = q[Len(q) - (i - 1)]
    <3>1. Len(r) - i \in 1..Len(q) /\ Len(r) - i = Len(q) - (i - 1)
      BY <1>0, <2>2
    <3> QED BY <2>2, <3>1
  <2> QED BY <1>1, <2>2, <2>3
<1>2. CASE ~(Len(q) < n)
  <2>1. r = Append(Tail(q), e)
    BY <1>2
  <2>2. Len(q) = n /\ q # <<>>
    BY <1>0, <1>2
  <2>3. /\ Tail(q) \in Seq(S)
        /\ Len(Tail(q)) = Len(q) - 1
        /\ \A i \in 1..Len(Tail(q)) : Tail(q)[i] = q[i + 1]
    BY <2>2, HeadTailProperties
  <2>4. /\ r \in Seq(S)
        /\ Len(r) = Len(Tail(q)) + 1
        /\ \A i \in 1..Len(Tail(q)) : r[i] = Tail(q)[i]
        /\ r[Len(Tail(q)) + 1] = e
    <3> DEFINE u == Tail(q)
    <3>1. u \in Seq(S) /\ r = Append(u, e)
      BY <2>1, <2>3
    <3> HIDE DEF u
    <3>2. /\ r \in Seq(S)
          /\ Len(r) = Len(u) + 1
          /\ \A i \in 1..Len(u) : r[i] = u[i]
          /\ r[Len(u) + 1] = e
      BY <3>1, AppendProperties, SMTT(30)
    <3> QED BY <3>2 DEF u
  <2>5. ASSUME NEW i \in 1..(Len(r) - 1)
        PROVE  r[Len(r) - i] = q[Len(q) - (i - 1)]
    <3>a. Len(Tail(q)) = Len(q) - 1 /\ Len(r) = Len(Tail(q)) + 1
      BY <2>3, <2>4
    <3>b. Len(r) = Len(q) /\ Len(Tail(q)) = Len(q) - 1
      BY <1>0, <3>a
    <3>1. /\ Len(r) = Len(q) /\ Len(Tail(q)) = Len(q) - 1
          /\ i \in Int /\ 1 <= i /\ i <= Len(q) - 1
      BY <1>0, <3>b
    <3>2. /\ Len(r) - i \in 1..Len(Tail(q))
          /\ (Len(r) - i) + 1 = Len(q) - (i - 1)
      BY <1>0, <3>1
    <3> QED BY <2>3, <2>4, <3>2
  <2>6. Len(r) = n
    BY <1>0, <2>2, <2>3, <2>4
  <2> QED BY <1>2, <2>4, <2>5, <2>6
<1> QED BY <1>1, <1>2

\* The window of the observer.
LEMMA Remembers ==
  ASSUME NEW res \in Results, recent \in Seq(Results), Len(recent) <= FailOpen, Remember(res)
  PROVE  /\ recent' \in Seq(Results)
         /\ Len(recent') = IF Len(recent) < FailOpen THEN Len(recent) + 1 ELSE FailOpen
         /\ recent'[Len(recent')] = res
         /\ \A i \in 1..(Len(recent') - 1) : recent'[Len(recent') - i] = recent[Len(recent) - (i - 1)]
<1>1. recent' = IF Len(recent) < FailOpen THEN Append(recent, res) ELSE Append(Tail(recent), res)
  BY DEF Remember
<1>2. FailOpen \in Nat \ {0}
  BY DEF FailOpen
<1> QED BY <1>1, <1>2, Window

\* What the step of the observer makes of its state.
ObserverTypes ==
  /\ alive \in BOOLEAN /\ down \in BOOLEAN
  /\ fails \in 0..(FailOpen - 1) /\ oks \in 0..(OkClose - 1)
  /\ recent \in Seq(Results) /\ Len(recent) <= FailOpen

TurnEarned ==
  alive' # alive =>
    Len(recent') = FailOpen /\ \A i \in 1..FailOpen : recent'[i] = (IF alive' THEN "ok" ELSE "fail")

\* A failure is counted, and the third in a row takes the backend down.
LEMMA Failure ==
  ASSUME ObserverTypes, ResultsCounted, Remember("fail"), ProbeFailed
  PROVE  ObserverTypes' /\ ResultsCounted' /\ TurnEarned
<1>1. /\ recent' \in Seq(Results)
      /\ Len(recent') = IF Len(recent) < FailOpen THEN Len(recent) + 1 ELSE FailOpen
      /\ recent'[Len(recent')] = "fail"
      /\ \A i \in 1..(Len(recent') - 1) : recent'[Len(recent') - i] = recent[Len(recent) - (i - 1)]
  BY Remembers DEF ObserverTypes, Results
<1>2. Len(recent) \in Nat /\ Len(recent) <= 3 /\ Len(recent') \in Nat /\ Len(recent') <= 3
  BY <1>1 DEF ObserverTypes, FailOpen
<1>3. CASE down
  <2>1. /\ fails' = fails /\ oks' = 0 /\ down' = down /\ alive' = alive /\ fails = 0
    BY <1>3 DEF ProbeFailed, ResultsCounted
  <2>2. ObserverTypes'
    BY <1>1, <1>2, <2>1 DEF ObserverTypes, FailOpen, OkClose
  <2>3. ResultsCounted'
    BY <1>2, <1>3, <2>1 DEF ResultsCounted, ObserverTypes
  <2> QED BY <2>1, <2>2, <2>3 DEF TurnEarned
<1>4. CASE ~down /\ fails + 1 >= FailOpen
  <2>1. fails' = 0 /\ oks' = 0 /\ down' = TRUE /\ alive' = FALSE
    BY <1>4 DEF ProbeFailed
  <2>2. fails = 2
    BY <1>4 DEF ObserverTypes, FailOpen
  <2>3. Len(recent) >= 2 /\ recent[Len(recent)] = "fail" /\ recent[Len(recent) - 1] = "fail"
    BY <1>2, <2>2 DEF ResultsCounted
  <2>4. Len(recent') = 3
    BY <1>1, <1>2, <2>3 DEF FailOpen
  <2>5. recent'[3] = "fail" /\ recent'[2] = "fail" /\ recent'[1] = "fail"
    <3>1. 1 \in 1..(Len(recent') - 1) /\ 2 \in 1..(Len(recent') - 1)
      BY <2>4
    <3>2. /\ recent'[Len(recent') - 1] = recent[Len(recent) - (1 - 1)]
          /\ recent'[Len(recent') - 2] = recent[Len(recent) - (2 - 1)]
      BY <1>1, <3>1
    <3>3. /\ Len(recent') - 1 = 2 /\ Len(recent') - 2 = 1
          /\ Len(recent) - (1 - 1) = Len(recent) /\ Len(recent) - (2 - 1) = Len(recent) - 1
      BY <1>2, <2>4
    <3> QED BY <1>1, <2>3, <2>4, <3>2, <3>3
  <2>6. TurnEarned
    BY <2>1, <2>4, <2>5 DEF TurnEarned, FailOpen
  <2>a. alive' \in BOOLEAN /\ down' \in BOOLEAN /\ (alive' = ~down')
    BY <2>1, Zenon
  <2>b. fails' \in 0..(FailOpen - 1) /\ oks' \in 0..(OkClose - 1) /\ Len(recent') <= FailOpen
    BY <1>2, <2>1 DEF FailOpen, OkClose
  <2>7. ObserverTypes'
    BY <1>1, <2>a, <2>b, Zenon DEF ObserverTypes
  <2>c. /\ fails' <= Len(recent') /\ oks' <= Len(recent')
        /\ 0..(fails' - 1) = {} /\ 0..(oks' - 1) = {}
    BY <1>2, <2>1
  <2>8. ResultsCounted'
    BY <2>1, <2>a, <2>c, Zenon DEF ResultsCounted
  <2> QED BY <2>6, <2>7, <2>8
<1>5. CASE ~down /\ ~(fails + 1 >= FailOpen)
  <2>1. fails' = fails + 1 /\ oks' = 0 /\ down' = down /\ alive' = alive
    BY <1>5 DEF ProbeFailed
  <2>2. fails \in {0, 1} /\ fails <= Len(recent)
    BY <1>5 DEF ObserverTypes, FailOpen, ResultsCounted
  <2>3. fails' <= Len(recent')
    BY <1>1, <1>2, <2>1, <2>2 DEF FailOpen
  <2>4. ASSUME NEW i \in 0..(fails' - 1)
        PROVE  recent'[Len(recent') - i] = "fail"
    <3>1. CASE i = 0
      BY <1>1, <1>2, <3>1
    <3>2. CASE i # 0
      <4>1. i \in 1..(Len(recent') - 1) /\ i - 1 \in 0..(fails - 1)
        BY <1>2, <2>1, <2>2, <2>3, <3>2
      <4>2. recent[Len(recent) - (i - 1)] = "fail"
        BY <4>1 DEF ResultsCounted
      <4> QED BY <1>1, <4>1, <4>2
    <3> QED BY <3>1, <3>2
  <2>5. ObserverTypes'
    BY <1>1, <1>2, <2>1, <2>2 DEF ObserverTypes, FailOpen, OkClose
  <2>6. ResultsCounted'
    BY <1>2, <1>5, <2>1, <2>3, <2>4 DEF ResultsCounted
  <2> QED BY <2>1, <2>5, <2>6 DEF TurnEarned
<1> QED BY <1>3, <1>4, <1>5

\* A success is counted while the backend is down, and the third in a row
\* brings it back.
LEMMA Success ==
  ASSUME ObserverTypes, ResultsCounted, Remember("ok"), ProbeSucceeded
  PROVE  ObserverTypes' /\ ResultsCounted' /\ TurnEarned
<1>1. /\ recent' \in Seq(Results)
      /\ Len(recent') = IF Len(recent) < FailOpen THEN Len(recent) + 1 ELSE FailOpen
      /\ recent'[Len(recent')] = "ok"
      /\ \A i \in 1..(Len(recent') - 1) : recent'[Len(recent') - i] = recent[Len(recent) - (i - 1)]
  BY Remembers DEF ObserverTypes, Results
<1>2. Len(recent) \in Nat /\ Len(recent) <= 3 /\ Len(recent') \in Nat /\ Len(recent') <= 3
  BY <1>1 DEF ObserverTypes, FailOpen
<1>3. CASE ~down
  <2>1. /\ fails' = 0 /\ oks' = 0 /\ down' = down /\ alive' = alive
    BY <1>3 DEF ProbeSucceeded
  <2>2. ObserverTypes'
    BY <1>1, <1>2, <2>1 DEF ObserverTypes, FailOpen, OkClose
  <2>3. ResultsCounted'
    BY <1>2, <1>3, <2>1 DEF ResultsCounted, ObserverTypes
  <2> QED BY <2>1, <2>2, <2>3 DEF TurnEarned
<1>4. CASE down /\ oks + 1 >= OkClose
  <2>1. fails' = 0 /\ oks' = 0 /\ down' = FALSE /\ alive' = TRUE
    BY <1>4 DEF ProbeSucceeded
  <2>2. oks = 2
    BY <1>4 DEF ObserverTypes, OkClose
  <2>3. Len(recent) >= 2 /\ recent[Len(recent)] = "ok" /\ recent[Len(recent) - 1] = "ok"
    BY <1>2, <2>2 DEF ResultsCounted
  <2>4. Len(recent') = 3
    BY <1>1, <1>2, <2>3 DEF FailOpen
  <2>5. recent'[3] = "ok" /\ recent'[2] = "ok" /\ recent'[1] = "ok"
    <3>1. 1 \in 1..(Len(recent') - 1) /\ 2 \in 1..(Len(recent') - 1)
      BY <2>4
    <3>2. /\ recent'[Len(recent') - 1] = recent[Len(recent) - (1 - 1)]
          /\ recent'[Len(recent') - 2] = recent[Len(recent) - (2 - 1)]
      BY <1>1, <3>1
    <3>3. /\ Len(recent') - 1 = 2 /\ Len(recent') - 2 = 1
          /\ Len(recent) - (1 - 1) = Len(recent) /\ Len(recent) - (2 - 1) = Len(recent) - 1
      BY <1>2, <2>4
    <3> QED BY <1>1, <2>3, <2>4, <3>2, <3>3
  <2>6. TurnEarned
    BY <2>1, <2>4, <2>5 DEF TurnEarned, FailOpen
  <2>a. alive' \in BOOLEAN /\ down' \in BOOLEAN /\ (alive' = ~down')
    BY <2>1, Zenon
  <2>b. fails' \in 0..(FailOpen - 1) /\ oks' \in 0..(OkClose - 1) /\ Len(recent') <= FailOpen
    BY <1>2, <2>1 DEF FailOpen, OkClose
  <2>7. ObserverTypes'
    BY <1>1, <2>a, <2>b, Zenon DEF ObserverTypes
  <2>c. /\ fails' <= Len(recent') /\ oks' <= Len(recent')
        /\ 0..(fails' - 1) = {} /\ 0..(oks' - 1) = {}
    BY <1>2, <2>1
  <2>8. ResultsCounted'
    BY <2>1, <2>a, <2>c, Zenon DEF ResultsCounted
  <2> QED BY <2>6, <2>7, <2>8
<1>5. CASE down /\ ~(oks + 1 >= OkClose)
  <2>1. fails' = 0 /\ oks' = oks + 1 /\ down' = down /\ alive' = alive
    BY <1>5 DEF ProbeSucceeded
  <2>2. oks \in {0, 1} /\ oks <= Len(recent)
    BY <1>5 DEF ObserverTypes, OkClose, ResultsCounted
  <2>3. oks' <= Len(recent')
    BY <1>1, <1>2, <2>1, <2>2 DEF FailOpen
  <2>4. ASSUME NEW i \in 0..(oks' - 1)
        PROVE  recent'[Len(recent') - i] = "ok"
    <3>1. CASE i = 0
      BY <1>1, <1>2, <3>1
    <3>2. CASE i # 0
      <4>1. i \in 1..(Len(recent') - 1) /\ i - 1 \in 0..(oks - 1)
        BY <1>2, <2>1, <2>2, <2>3, <3>2
      <4>2. recent[Len(recent) - (i - 1)] = "ok"
        BY <4>1 DEF ResultsCounted
      <4> QED BY <1>1, <4>1, <4>2
    <3> QED BY <3>1, <3>2
  <2>5. ObserverTypes'
    BY <1>1, <1>2, <2>1, <2>2 DEF ObserverTypes, FailOpen, OkClose
  <2>6. ResultsCounted'
    BY <1>2, <1>5, <2>1, <2>3, <2>4 DEF ResultsCounted
  <2> QED BY <2>1, <2>5, <2>6 DEF TurnEarned
<1> QED BY <1>3, <1>4, <1>5

-----------------------------------------------------------------------------
(* Every step *)

\* A new backend: all permits are there and nothing has been counted.
LEMMA UpInit == Init => IndInv
<1> SUFFICES ASSUME Init PROVE IndInv
  OBVIOUS
<1>1. TypeOK
  <2>1. /\ alive \in BOOLEAN /\ cancelled \in BOOLEAN /\ healthy \in BOOLEAN /\ down \in BOOLEAN
        /\ policy \in {"await", "deny"}
    BY Zenon DEF Init
  <2>2. /\ permits \in 0..Concurrency /\ status \in Statuses \cup {0}
        /\ fails \in 0..(FailOpen - 1) /\ oks \in 0..(OkClose - 1)
        /\ recent \in Seq(Results) /\ Len(recent) <= FailOpen
    BY UpstreamConstants DEF Init, OkClose, FailOpen
  <2>3. /\ pc \in [Requests -> {"idle", "acquire", "policy", "wait", "check", "send", "body"}]
        /\ probe \in {"tick", "sent", "body", "ended"}
    BY DEF Init
  <2> QED BY <2>1, <2>2, <2>3, Zenon DEF TypeOK
<1>2. PermitsConserved
  <2>1. Throttling = {}
    BY DEF Init, Throttling
  <2> QED BY <2>1, FS_EmptySet, UpstreamConstants DEF Init, PermitsConserved
<1>3. ResultsCounted
  <2>1. (alive = ~down) /\ ~down /\ oks = 0
    BY Zenon DEF Init
  <2>2. /\ fails <= Len(recent) /\ oks <= Len(recent)
        /\ 0..(fails - 1) = {} /\ 0..(oks - 1) = {}
    BY DEF Init
  <2> QED BY <2>1, <2>2, Zenon DEF ResultsCounted
<1> QED BY <1>1, <1>2, <1>3 DEF IndInv

\* The steps of a request: the observer and its counters stay as they are.
LEMMA RequestStep ==
  ASSUME IndInv, NEW r \in Requests, Begin(r) \/ Throttled(r) \/ Sent(r) \/ BodyEnds(r)
  PROVE  IndInv' /\ TurnEarned
<1> USE DEF IndInv
<1>1. UNCHANGED <<alive, policy, obsVars, cancelled, healthy>>
  BY DEF Begin, Throttled, Acquire, ReadPolicy, Pass, Busy, Sent, Headers, SendFails, BodyEnds
<1>2. pc \in [Requests -> {"idle", "acquire", "policy", "wait", "check", "send", "body"}]
      /\ permits \in Nat
  BY UpstreamConstants DEF TypeOK
<1>3. PICK to \in {"idle", "acquire", "policy", "wait", "check", "send", "body"} :
         /\ pc' = [pc EXCEPT ![r] = to]
         /\ to \in {"policy", "wait", "check"} => permits > 0 \/ pc[r] \in {"policy", "wait", "check"}
         /\ permits' = permits + (IF pc[r] \in {"policy", "wait", "check"} THEN 1 ELSE 0)
                               - (IF to \in {"policy", "wait", "check"} THEN 1 ELSE 0)
  <2>1. CASE Begin(r)
    BY <1>2, <2>1 DEF Begin, Goto
  <2>2. CASE Acquire(r)
    BY <1>2, <2>2 DEF Acquire, Goto
  <2>3. CASE ReadPolicy(r)
    <3>1. PICK to \in {"wait", "check"} : pc[r] = "policy" /\ pc' = [pc EXCEPT ![r] = to]
      BY <2>3 DEF ReadPolicy, Goto
    <3>2. permits' = permits
      BY <2>3 DEF ReadPolicy
    <3>3. permits = permits + 1 - 1
      BY <1>2
    <3>4. CASE to = "wait"
      BY <3>1, <3>2, <3>3, <3>4
    <3>5. CASE to = "check"
      BY <3>1, <3>2, <3>3, <3>5
    <3> QED BY <3>1, <3>4, <3>5
  <2>4. CASE Pass(r) \/ Busy(r)
    BY <1>2, <2>4 DEF Pass, Busy, Goto, DropPermit
  <2>5. CASE Sent(r) \/ BodyEnds(r)
    BY <1>2, <2>5 DEF Sent, Headers, SendFails, BodyEnds, Goto
  <2> QED BY <2>1, <2>2, <2>3, <2>4, <2>5 DEF Throttled
<1>4. PermitsConserved' /\ permits' \in 0..Concurrency
  BY <1>3, Moves
<1>5. TypeOK'
  <2>1. pc' \in [Requests -> {"idle", "acquire", "policy", "wait", "check", "send", "body"}]
    BY <1>2, <1>3
  <2> QED BY <1>1, <1>4, <2>1 DEF TypeOK, obsVars
<1>6. ResultsCounted' /\ TurnEarned
  BY <1>1 DEF ResultsCounted, TurnEarned, obsVars
<1> QED BY <1>4, <1>5, <1>6

\* The steps of the observer that see a result: no request moves.
LEMMA ResultStep ==
  ASSUME IndInv, ProbeRead \/ ProbeLost
  PROVE  IndInv' /\ TurnEarned
<1> USE DEF IndInv
<1>1. /\ UNCHANGED <<policy, reqVars, cancelled, healthy>>
      /\ probe' = "tick"
      /\ status' = 0 \/ status' = status
  BY DEF ProbeRead, ProbeBody, ProbeBroken, ProbeLost
<1>2. ObserverTypes
  BY DEF TypeOK, ObserverTypes
<1>3. ObserverTypes' /\ ResultsCounted' /\ TurnEarned
  <2>1. (Remember("fail") /\ ProbeFailed) \/ (Remember("ok") /\ ProbeSucceeded)
    BY DEF ProbeRead, ProbeBody, ProbeBroken, ProbeLost
  <2> QED BY <1>2, <2>1, Failure, Success
<1>4. TypeOK'
  BY <1>1, <1>3 DEF TypeOK, ObserverTypes, reqVars
<1> QED BY <1>1, <1>3, <1>4, Stays

\* All other steps: no request moves and no result is seen.
LEMMA OtherStep ==
  ASSUME IndInv,
         \/ ProbeSend \/ ObserverEnds \/ Cancel \/ Change
         \/ \E p \in {"await", "deny"} : ChangePolicy(p)
         \/ \E s \in Statuses : ProbeHeaders(s)
         \/ UNCHANGED upVars
  PROVE  IndInv' /\ TurnEarned
<1> USE DEF IndInv
<1>1. UNCHANGED <<alive, reqVars, down, fails, oks, recent>>
  BY DEF ProbeSend, ObserverEnds, Cancel, Change, ChangePolicy, ProbeHeaders, upVars, obsVars
<1>2. /\ probe' \in {"tick", "sent", "body", "ended"}
      /\ status' \in Statuses \cup {0}
      /\ policy' \in {"await", "deny"}
  BY DEF TypeOK, ProbeSend, ObserverEnds, Cancel, Change, ChangePolicy, ProbeHeaders, upVars, obsVars
<1>3. cancelled' \in BOOLEAN /\ healthy' \in BOOLEAN
  BY DEF TypeOK, ProbeSend, ObserverEnds, Cancel, Change, ChangePolicy, ProbeHeaders, upVars, obsVars
<1>4. TypeOK'
  BY <1>1, <1>2, <1>3 DEF TypeOK, reqVars
<1>5. ResultsCounted' /\ TurnEarned
  BY <1>1 DEF ResultsCounted, TurnEarned
<1> QED BY <1>1, <1>4, <1>5, Stays

\* Every step keeps the invariant and turns the health flag only when earned.
LEMMA UpStep == IndInv /\ [Next]_upVars => IndInv' /\ TurnEarned
<1> SUFFICES ASSUME IndInv, [Next]_upVars PROVE IndInv' /\ TurnEarned
  OBVIOUS
<1>1. CASE \E r \in Requests : Begin(r) \/ Throttled(r) \/ Sent(r) \/ BodyEnds(r)
  BY <1>1, RequestStep
<1>2. CASE ProbeRead \/ ProbeLost
  BY <1>2, ResultStep
<1>3. CASE \/ ProbeSend \/ ObserverEnds \/ Cancel \/ Change
           \/ \E p \in {"await", "deny"} : ChangePolicy(p)
           \/ \E s \in Statuses : ProbeHeaders(s)
           \/ UNCHANGED upVars
  BY <1>3, OtherStep
<1> QED BY <1>1, <1>2, <1>3 DEF Next, ProbeAnswered

-----------------------------------------------------------------------------
(* Theorems *)

\* The inductive invariant of the upstream client, for any number of requests
\* and permits: permits are conserved (BackendImpl::throttle) and the counters
\* of the health observer count the results it saw last.
THEOREM UpstreamInvariant == Spec => []IndInv
BY UpInit, UpStep, PTL DEF Spec

\* Hence every permit is in the semaphore or with a request in the throttle
\* (the permit local to BackendImpl::throttle).
THEOREM UpstreamPermits == Spec => [](TypeOK /\ PermitsConserved)
<1>1. IndInv => TypeOK /\ PermitsConserved
  BY DEF IndInv
<1> QED BY <1>1, UpstreamInvariant, PTL

\* The health flag is turned by three equal results in a row and by nothing
\* else (the observer of BackendImpl).
THEOREM UpstreamTurnsSlowly == Spec => HealthTurnsSlowly
<1>1. IndInv /\ [Next]_upVars =>
        [alive' # alive =>
           /\ Len(recent') = FailOpen
           /\ \A i \in 1..FailOpen : recent'[i] = (IF alive' THEN "ok" ELSE "fail")]_upVars
  BY UpStep DEF TurnEarned
<1> QED BY <1>1, UpstreamInvariant, PTL DEF Spec, HealthTurnsSlowly
=============================================================================
