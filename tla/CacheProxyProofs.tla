-------------------------- MODULE CacheProxyProofs --------------------------
(***************************************************************************)
(* Proofs about the handlers, for any number of requests, keys, operators, *)
(* tokens and reports.                                                     *)
(***************************************************************************)
EXTENDS CacheProxy, FiniteSetTheorems, SequenceTheorems, TLAPS

\* What a request is.
Rec == [at : {"new", "in", "render", "fetch", "proxy", "done", "dropped"},
        key : Keys \cup {None}, retried : BOOLEAN, failed : BOOLEAN]

Has(S, r) == IF r \in S THEN 1 ELSE 0

-----------------------------------------------------------------------------
(* Counting requests *)

\* A set of requests is finite.
LEMMA Sizes ==
  ASSUME NEW S \in SUBSET Requests
  PROVE  Cardinality(S) \in Nat /\ Cardinality(S) <= Cardinality(Requests)
<1>1. IsFiniteSet(S) /\ Cardinality(S) <= Cardinality(Requests)
  BY ProxyConstants, FS_Subset
<1> QED
  BY <1>1, FS_CardinalityType

\* Two sets of requests that differ in one request at most differ by one in
\* size at most.
LEMMA OneDiffers ==
  ASSUME NEW S \in SUBSET Requests, NEW T \in SUBSET Requests, NEW r \in Requests,
         S \ {r} = T \ {r}
  PROVE  Cardinality(T) = Cardinality(S) + Has(T, r) - Has(S, r)
<1>1. ASSUME NEW R \in SUBSET Requests
      PROVE  Cardinality(R) = Cardinality(R \ {r}) + Has(R, r)
  <2>1. IsFiniteSet(R) /\ Cardinality(R) \in Nat
    BY ProxyConstants, FS_Subset, Sizes
  <2>2. Cardinality(R \ {r}) = IF r \in R THEN Cardinality(R) - 1 ELSE Cardinality(R)
    BY <2>1, FS_RemoveElement
  <2> QED
    BY <2>1, <2>2 DEF Has
<1>2. Cardinality(S) = Cardinality(S \ {r}) + Has(S, r)
  BY <1>1
<1>3. Cardinality(T) = Cardinality(S \ {r}) + Has(T, r)
  BY <1>1
<1>4. Cardinality(S \ {r}) \in Nat /\ Has(S, r) \in Int /\ Has(T, r) \in Int
  BY Sizes DEF Has
<1> QED
  BY <1>2, <1>3, <1>4

\* How the sizes that the invariants are about change with one request.
LEMMA SizesAfter ==
  ASSUME req \in [Requests -> Rec], req' \in [Requests -> Rec], NEW r \in Requests,
         \A q \in Requests \ {r} : req'[q] = req[q]
  PROVE  /\ Cardinality(In("in")') = Cardinality(In("in")) + Has(In("in")', r) - Has(In("in"), r)
         /\ Cardinality((Requests \ In("new"))')
              = Cardinality(Requests \ In("new")) + Has((Requests \ In("new"))', r)
                  - Has(Requests \ In("new"), r)
         /\ Cardinality(Retried') = Cardinality(Retried) + Has(Retried', r) - Has(Retried, r)
         /\ Cardinality(Failed') = Cardinality(Failed) + Has(Failed', r) - Has(Failed, r)
<1>1. /\ In("in") \in SUBSET Requests /\ In("in")' \in SUBSET Requests
      /\ In("in") \ {r} = In("in")' \ {r}
  BY DEF In
<1>2. /\ (Requests \ In("new")) \in SUBSET Requests /\ (Requests \ In("new"))' \in SUBSET Requests
      /\ (Requests \ In("new")) \ {r} = (Requests \ In("new"))' \ {r}
  BY DEF In
<1>3. /\ Retried \in SUBSET Requests /\ Retried' \in SUBSET Requests
      /\ Retried \ {r} = Retried' \ {r}
  BY DEF Retried
<1>4. /\ Failed \in SUBSET Requests /\ Failed' \in SUBSET Requests
      /\ Failed \ {r} = Failed' \ {r}
  BY DEF Failed
<1> QED
  BY <1>1, <1>2, <1>3, <1>4, OneDiffers
-----------------------------------------------------------------------------
(* Counters *)

LEMMA TheCounters == Counters = {"total", "hits", "misses", "proxied", "errored"}
<1>1. DOMAIN Order = 1..5
  BY DEF Order
<1> QED
  BY <1>1 DEF Counters, Order

\* The part of the invariant that is about counters.
Numbers ==
  /\ {window, metric, drained} \subseteq [Counters -> 0..(2 * Cardinality(Requests))]
  /\ CountsAddUp
  /\ metric["total"] = Cardinality(Requests \ In("new"))

\* A step of one request keeps it, if it counts what the request becomes.
LEMMA Counting ==
  ASSUME Numbers, req \in [Requests -> Rec], req' \in [Requests -> Rec], NEW r \in Requests,
         \A q \in Requests \ {r} : req'[q] = req[q],
         NEW C \in SUBSET Counters, Count(C),
         Has(C, "total") = Has((Requests \ In("new"))', r) - Has(Requests \ In("new"), r),
         Has(C, "total") + Has(Retried', r) - Has(Retried, r)
           = Has(C, "hits") + Has(C, "misses") + Has(C, "proxied") + Has(In("in")', r) - Has(In("in"), r),
         Has(C, "errored") = Has(Failed', r) - Has(Failed, r)
  PROVE  Numbers'
<1> DEFINE N == Cardinality(Requests)
<1>1. /\ window \in [Counters -> Nat] /\ metric \in [Counters -> Nat] /\ drained \in [Counters -> Nat]
      /\ \A c \in Counters : metric[c] = drained[c] + window[c]
  <2>1. N \in Nat
    BY Sizes
  <2> QED
    BY <2>1 DEF Numbers, CountsAddUp
<1>2. /\ window' \in [Counters -> Nat] /\ metric' \in [Counters -> Nat] /\ drained' = drained
      /\ \A c \in Counters : window'[c] = window[c] + Has(C, c) /\ metric'[c] = metric[c] + Has(C, c)
  BY <1>1 DEF Count, Counted, Has
<1>3. \A c \in Counters : metric'[c] = drained'[c] + window'[c]
  <2>1. \A c \in Counters : Has(C, c) \in Nat
    BY DEF Has
  <2> QED
    BY <1>1, <1>2, <2>1
<1>4. /\ Cardinality(In("in")) \in 0..N /\ Cardinality(In("in")') \in 0..N
      /\ Cardinality(Requests \ In("new")) \in 0..N /\ Cardinality((Requests \ In("new"))') \in 0..N
      /\ Cardinality(Retried) \in 0..N /\ Cardinality(Retried') \in 0..N
      /\ Cardinality(Failed) \in 0..N /\ Cardinality(Failed') \in 0..N
      /\ N \in Nat
  <2>1. /\ In("in") \in SUBSET Requests /\ In("in")' \in SUBSET Requests
        /\ (Requests \ In("new")) \in SUBSET Requests /\ (Requests \ In("new"))' \in SUBSET Requests
        /\ Retried \in SUBSET Requests /\ Retried' \in SUBSET Requests
        /\ Failed \in SUBSET Requests /\ Failed' \in SUBSET Requests
        /\ Requests \in SUBSET Requests
    BY DEF In, Retried, Failed
  <2> QED
    BY <2>1, Sizes
<1>5. /\ Has(In("in")', r) \in Int /\ Has(In("in"), r) \in Int
      /\ Has((Requests \ In("new"))', r) \in Int /\ Has(Requests \ In("new"), r) \in Int
      /\ Has(Retried', r) \in Int /\ Has(Retried, r) \in Int
      /\ Has(Failed', r) \in Int /\ Has(Failed, r) \in Int
      /\ \A c \in Counters : Has(C, c) \in Int
  BY DEF Has
<1>6. {"total", "hits", "misses", "proxied", "errored"} \subseteq Counters
  BY TheCounters
<1>7. metric'["total"] = Cardinality((Requests \ In("new"))')
  BY <1>1, <1>2, <1>4, <1>5, <1>6, SizesAfter DEF Numbers
<1>8. metric'["errored"] = Cardinality(Failed')
  BY <1>1, <1>2, <1>4, <1>5, <1>6, SizesAfter DEF Numbers, CountsAddUp
<1>9. metric'["total"] + Cardinality(Retried')
        = metric'["hits"] + metric'["misses"] + metric'["proxied"] + Cardinality(In("in")')
  <2>1. metric["total"] + Cardinality(Retried)
          = metric["hits"] + metric["misses"] + metric["proxied"] + Cardinality(In("in"))
    BY DEF Numbers, CountsAddUp
  <2>2. /\ metric["total"] \in Nat /\ metric["hits"] \in Nat /\ metric["misses"] \in Nat
        /\ metric["proxied"] \in Nat
        /\ metric'["total"] = metric["total"] + Has(C, "total")
        /\ metric'["hits"] = metric["hits"] + Has(C, "hits")
        /\ metric'["misses"] = metric["misses"] + Has(C, "misses")
        /\ metric'["proxied"] = metric["proxied"] + Has(C, "proxied")
    BY <1>1, <1>2, <1>6
  <2>3. /\ Cardinality(In("in")') = Cardinality(In("in")) + Has(In("in")', r) - Has(In("in"), r)
        /\ Cardinality(Retried') = Cardinality(Retried) + Has(Retried', r) - Has(Retried, r)
    BY SizesAfter
  <2> QED
    BY <2>1, <2>2, <2>3, <1>4, <1>5, <1>6
\* No request is counted more than twice.
<1>10. {window', metric', drained'} \subseteq [Counters -> 0..(2 * N)]
  <2>1. metric'["total"] \in 0..N /\ metric'["errored"] \in 0..N
    BY <1>4, <1>7, <1>8
  <2>2. /\ window' \in [Counters -> Nat] /\ metric' \in [Counters -> Nat]
        /\ drained' \in [Counters -> Nat]
    BY <1>1, <1>2
  <2>3. N \in Nat /\ Cardinality(Retried') \in 0..N /\ Cardinality(In("in")') \in 0..N
    BY <1>4
  <2> HIDE DEF N
  <2>4. \A c \in Counters : metric'[c] \in 0..(2 * N)
    BY <1>9, <2>1, <2>2, <2>3, TheCounters
  <2>5. \A c \in Counters : window'[c] \in 0..(2 * N) /\ drained'[c] \in 0..(2 * N)
    BY <1>3, <2>2, <2>3, <2>4
  <2> QED
    BY <2>2, <2>4, <2>5
<1> QED
  BY <1>3, <1>7, <1>8, <1>9, <1>10 DEF Numbers, CountsAddUp
-----------------------------------------------------------------------------
(* Requests *)

\* The part of the invariant that is about requests.
Routes ==
  /\ cached \subseteq Ruled
  /\ req \in [Requests -> Rec]
  /\ \A r \in Requests :
       /\ req[r].at \in {"new", "in", "render", "fetch"} => ~req[r].retried
       /\ req[r].at # "done" => ~req[r].failed
       /\ req[r].at \in {"render", "fetch"} => req[r].key \in Ruled

\* A request keeps it by what it becomes.
LEMMA Routed ==
  ASSUME Routes, NEW r \in Requests, NEW v \in Rec, req' = [req EXCEPT ![r] = v],
         v.at \in {"new", "in", "render", "fetch"} => ~v.retried,
         v.at # "done" => ~v.failed,
         v.at \in {"render", "fetch"} => v.key \in Ruled,
         cached' \subseteq Ruled
  PROVE  /\ Routes'
         /\ req'[r] = v
         /\ req \in [Requests -> Rec] /\ req' \in [Requests -> Rec]
         /\ \A q \in Requests \ {r} : req'[q] = req[q]
BY DEF Routes

\* What a request counts for is seen from its record.
LEMMA Membership ==
  ASSUME NEW r \in Requests
  PROVE  /\ r \in In("in") <=> req[r].at = "in"
         /\ r \in In("in")' <=> req'[r].at = "in"
         /\ r \in Requests \ In("new") <=> req[r].at # "new"
         /\ r \in (Requests \ In("new"))' <=> req'[r].at # "new"
         /\ r \in Retried <=> req[r].retried
         /\ r \in Retried' <=> req'[r].retried
         /\ r \in Failed <=> req[r].failed
         /\ r \in Failed' <=> req'[r].failed
BY DEF In, Retried, Failed

LEMMA Uncounted ==
  ASSUME Numbers, UNCHANGED countVars
  PROVE  Count({})
<1>1. window \in [Counters -> Nat] /\ metric \in [Counters -> Nat]
  <2>1. Cardinality(Requests) \in Nat
    BY Sizes
  <2> QED
    BY <2>1 DEF Numbers
<1> QED
  BY <1>1 DEF Count, Counted, countVars

Bit(b) == IF b THEN 1 ELSE 0

\* A request becomes v and counts C.
LEMMA RouteStep ==
  ASSUME Numbers, Routes, NEW r \in Requests, NEW v \in Rec, NEW C \in SUBSET Counters,
         req' = [req EXCEPT ![r] = v], Count(C), cached' \subseteq Ruled,
         v.at \in {"new", "in", "render", "fetch"} => ~v.retried,
         v.at # "done" => ~v.failed,
         v.at \in {"render", "fetch"} => v.key \in Ruled,
         Has(C, "total") = Bit(v.at # "new") - Bit(req[r].at # "new"),
         Has(C, "total") + Bit(v.retried) - Bit(req[r].retried)
           = Has(C, "hits") + Has(C, "misses") + Has(C, "proxied") + Bit(v.at = "in") - Bit(req[r].at = "in"),
         Has(C, "errored") = Bit(v.failed) - Bit(req[r].failed)
  PROVE  Numbers' /\ Routes'
<1>1. /\ Routes' /\ req'[r] = v
      /\ req \in [Requests -> Rec] /\ req' \in [Requests -> Rec]
      /\ \A q \in Requests \ {r} : req'[q] = req[q]
  BY Routed
<1>2. /\ Has(In("in")', r) = Bit(v.at = "in") /\ Has(In("in"), r) = Bit(req[r].at = "in")
      /\ Has((Requests \ In("new"))', r) = Bit(v.at # "new")
      /\ Has(Requests \ In("new"), r) = Bit(req[r].at # "new")
      /\ Has(Retried', r) = Bit(v.retried) /\ Has(Retried, r) = Bit(req[r].retried)
      /\ Has(Failed', r) = Bit(v.failed) /\ Has(Failed, r) = Bit(req[r].failed)
  BY <1>1, Membership DEF Has, Bit
<1>3. Numbers'
  BY <1>1, <1>2, Counting
<1> QED
  BY <1>1, <1>3

LEMMA ArriveKeeps ==
  ASSUME Numbers, Routes, NEW r \in Requests, NEW k \in Keys, Arrive(r, k)
  PROVE  Numbers' /\ Routes'
<1> DEFINE v == [req[r] EXCEPT !.at = "in", !.key = k]
           C == {"total"}
<1>1. /\ v \in Rec /\ req' = [req EXCEPT ![r] = v]
      /\ v.at = "in" /\ ~v.retried /\ ~v.failed
      /\ req[r].at = "new" /\ ~req[r].retried /\ ~req[r].failed
  BY DEF Arrive, Routes, Rec
<1>2. C \in SUBSET Counters /\ Count(C) /\ cached' \subseteq Ruled
  BY TheCounters DEF Arrive, Routes
<1>3. /\ Has(C, "total") = Bit(v.at # "new") - Bit(req[r].at # "new")
      /\ Has(C, "total") + Bit(v.retried) - Bit(req[r].retried)
           = Has(C, "hits") + Has(C, "misses") + Has(C, "proxied") + Bit(v.at = "in") - Bit(req[r].at = "in")
      /\ Has(C, "errored") = Bit(v.failed) - Bit(req[r].failed)
  BY <1>1 DEF Has, Bit
<1> HIDE DEF v, C
<1> QED
  BY <1>1, <1>2, <1>3, RouteStep

LEMMA ToProxyKeeps ==
  ASSUME Numbers, Routes, NEW r \in Requests, ToProxy(r)
  PROVE  Numbers' /\ Routes'
<1> DEFINE v == [req[r] EXCEPT !.at = "proxy", !.key = None]
           C == {"proxied"}
<1>1. /\ v \in Rec /\ req' = [req EXCEPT ![r] = v]
      /\ v.at = "proxy" /\ ~v.retried /\ ~v.failed
      /\ req[r].at = "in" /\ ~req[r].retried /\ ~req[r].failed
  BY DEF ToProxy, Leaves, Routes, Rec
<1>2. C \in SUBSET Counters /\ Count(C) /\ cached' \subseteq Ruled
  BY TheCounters DEF ToProxy, Routes
<1>3. /\ Has(C, "total") = Bit(v.at # "new") - Bit(req[r].at # "new")
      /\ Has(C, "total") + Bit(v.retried) - Bit(req[r].retried)
           = Has(C, "hits") + Has(C, "misses") + Has(C, "proxied") + Bit(v.at = "in") - Bit(req[r].at = "in")
      /\ Has(C, "errored") = Bit(v.failed) - Bit(req[r].failed)
  BY <1>1 DEF Has, Bit
<1> HIDE DEF v, C
<1> QED
  BY <1>1, <1>2, <1>3, RouteStep

LEMMA LookupKeeps ==
  ASSUME Numbers, Routes, NEW r \in Requests, Lookup(r)
  PROVE  Numbers' /\ Routes'
<1> DEFINE hit == req[r].key \in cached
           v == [req[r] EXCEPT !.at = IF hit THEN "render" ELSE "fetch"]
           C == IF hit THEN {"hits"} ELSE {"misses"}
<1>1. /\ v \in Rec /\ req' = [req EXCEPT ![r] = v]
      /\ v.at \in {"render", "fetch"} /\ v.key \in Ruled /\ ~v.retried /\ ~v.failed
      /\ req[r].at = "in" /\ ~req[r].retried /\ ~req[r].failed
  BY DEF Lookup, Goes, Matched, Routes, Rec
<1>2. C \in SUBSET Counters /\ Count(C) /\ cached' \subseteq Ruled
  BY TheCounters DEF Lookup, Routes
<1>3. /\ Has(C, "total") = Bit(v.at # "new") - Bit(req[r].at # "new")
      /\ Has(C, "total") + Bit(v.retried) - Bit(req[r].retried)
           = Has(C, "hits") + Has(C, "misses") + Has(C, "proxied") + Bit(v.at = "in") - Bit(req[r].at = "in")
      /\ Has(C, "errored") = Bit(v.failed) - Bit(req[r].failed)
  BY <1>1 DEF Has, Bit
<1> HIDE DEF v, C
<1> QED
  BY <1>1, <1>2, <1>3, RouteStep

\* Rendered and Timeout.
LEMMA LeavesKeeps ==
  ASSUME Numbers, Routes, NEW r \in Requests, Rendered(r) \/ Timeout(r)
  PROVE  Numbers' /\ Routes'
<1> DEFINE v == [req[r] EXCEPT !.at = IF req[r].at = "render" THEN "done" ELSE "dropped", !.key = None]
           C == {}
<1>1. /\ v \in Rec /\ req' = [req EXCEPT ![r] = v]
      /\ v.at \in {"done", "dropped"} /\ v.retried = req[r].retried /\ ~v.failed
      /\ req[r].at \in {"render", "fetch", "proxy"} /\ ~req[r].failed
  BY DEF Rendered, Timeout, Leaves, Routes, Rec
<1>2. C \in SUBSET Counters /\ cached' \subseteq Ruled
  BY DEF Rendered, Timeout, Routes
<1>3. Count(C)
  BY Uncounted DEF Rendered, Timeout
<1>4. /\ Has(C, "total") = Bit(v.at # "new") - Bit(req[r].at # "new")
      /\ Has(C, "total") + Bit(v.retried) - Bit(req[r].retried)
           = Has(C, "hits") + Has(C, "misses") + Has(C, "proxied") + Bit(v.at = "in") - Bit(req[r].at = "in")
      /\ Has(C, "errored") = Bit(v.failed) - Bit(req[r].failed)
  BY <1>1 DEF Has, Bit
<1> HIDE DEF v, C
<1> QED
  BY <1>1, <1>2, <1>3, <1>4, RouteStep

LEMMA RenderFailsKeeps ==
  ASSUME Numbers, Routes, NEW r \in Requests, RenderFails(r)
  PROVE  Numbers' /\ Routes'
<1> DEFINE v == [req[r] EXCEPT !.at = "proxy", !.key = None, !.retried = TRUE]
           C == {"proxied"}
<1>1. /\ v \in Rec /\ req' = [req EXCEPT ![r] = v]
      /\ v.at = "proxy" /\ v.retried /\ ~v.failed
      /\ req[r].at = "render" /\ ~req[r].retried /\ ~req[r].failed
  BY DEF RenderFails, Routes, Rec
<1>2. C \in SUBSET Counters /\ Count(C) /\ cached' \subseteq Ruled
  BY TheCounters DEF RenderFails, Retry, Routes
<1>3. /\ Has(C, "total") = Bit(v.at # "new") - Bit(req[r].at # "new")
      /\ Has(C, "total") + Bit(v.retried) - Bit(req[r].retried)
           = Has(C, "hits") + Has(C, "misses") + Has(C, "proxied") + Bit(v.at = "in") - Bit(req[r].at = "in")
      /\ Has(C, "errored") = Bit(v.failed) - Bit(req[r].failed)
  BY <1>1 DEF Has, Bit
<1> HIDE DEF v, C
<1> QED
  BY <1>1, <1>2, <1>3, RouteStep

\* Fetched and Proxied.
LEMMA UpstreamKeeps ==
  ASSUME Numbers, Routes, NEW r \in Requests, NEW failed \in BOOLEAN,
         Fetched(r, failed) \/ Proxied(r, failed)
  PROVE  Numbers' /\ Routes'
<1> DEFINE v == [req[r] EXCEPT !.at = "done", !.key = None, !.failed = failed]
           C == IF failed THEN {"errored"} ELSE {}
<1>1. /\ v \in Rec /\ req' = [req EXCEPT ![r] = v]
      /\ v.at = "done" /\ v.retried = req[r].retried /\ v.failed = failed
      /\ req[r].at \in {"fetch", "proxy"} /\ ~req[r].failed
  BY DEF Fetched, Proxied, Answered, Routes, Rec
<1>2. C \in SUBSET Counters /\ Count(C)
  BY TheCounters DEF Fetched, Proxied, Answered
<1>3. cached' \subseteq Ruled
  BY DEF Fetched, Proxied, Routes
<1>4. /\ Has(C, "total") = Bit(v.at # "new") - Bit(req[r].at # "new")
      /\ Has(C, "total") + Bit(v.retried) - Bit(req[r].retried)
           = Has(C, "hits") + Has(C, "misses") + Has(C, "proxied") + Bit(v.at = "in") - Bit(req[r].at = "in")
      /\ Has(C, "errored") = Bit(v.failed) - Bit(req[r].failed)
  BY <1>1 DEF Has, Bit
<1> HIDE DEF v, C
<1> QED
  BY <1>1, <1>2, <1>3, <1>4, RouteStep
-----------------------------------------------------------------------------
(* The report *)

LEMMA ReportKeeps ==
  ASSUME Numbers, taken \in 0..(MaxReports * Len(Order)), Report
  PROVE  Numbers' /\ taken' \in 0..(MaxReports * Len(Order))
<1> DEFINE N == Cardinality(Requests)
           c == Order[(taken % Len(Order)) + 1]
<1>1. Len(Order) = 5 /\ MaxReports \in Nat
  BY ProxyConstants DEF Order
<1>2. taken' \in 0..(MaxReports * Len(Order))
  BY <1>1 DEF Report
<1>3. c \in Counters
  <2>1. (taken % 5) + 1 \in DOMAIN Order
    BY <1>1 DEF Order
  <2> QED
    BY <1>1, <2>1 DEF Counters
<1>4. /\ drained' = [drained EXCEPT ![c] = @ + window[c]]
      /\ window' = [window EXCEPT ![c] = 0]
      /\ metric' = metric /\ req' = req
  BY DEF Report, Swapped
<1> HIDE DEF c
<1>5. /\ window \in [Counters -> 0..(2 * N)] /\ metric \in [Counters -> 0..(2 * N)]
      /\ drained \in [Counters -> 0..(2 * N)] /\ N \in Nat
      /\ \A d \in Counters : metric[d] = drained[d] + window[d]
  BY Sizes DEF Numbers, CountsAddUp
<1> HIDE DEF N
<1>6. \A d \in Counters : metric[d] = drained'[d] + window'[d]
  BY <1>3, <1>4, <1>5
<1>7. window' \in [Counters -> 0..(2 * N)] /\ drained' \in [Counters -> 0..(2 * N)]
  BY <1>3, <1>4, <1>5
<1>8. In("in")' = In("in") /\ In("new")' = In("new") /\ Retried' = Retried /\ Failed' = Failed
  BY <1>4 DEF In, Retried, Failed
<1> QED
  BY <1>2, <1>4, <1>5, <1>6, <1>7, <1>8 DEF Numbers, CountsAddUp, N

-----------------------------------------------------------------------------
(* The clear endpoint *)

Calls == [at : {"idle", "ask", "confirm"}, token : 0..MaxTokens, stale : 0..MaxTokens]

\* The part of the invariant that is about tokens.
Clearing ==
  /\ token \in 0..MaxTokens
  /\ expired \in BOOLEAN
  /\ made \in 0..MaxTokens
  /\ oper \in [Operators -> Calls]
  /\ clears \in Seq(1..MaxTokens)
  /\ OneClearPerToken
  /\ TokensOK

LEMMA ExpireKeeps == ASSUME Clearing, Expire PROVE Clearing'
BY DEF Clearing, Expire, OneClearPerToken, TokensOK

\* A new token is larger than every one that has cleared.
LEMMA AskTokenKeeps ==
  ASSUME Clearing, NEW o \in Operators, AskToken(o)
  PROVE  Clearing'
<1>1. clears \in Seq(1..MaxTokens) /\ clears' = clears
  BY DEF Clearing, AskToken
<1>2. \A i \in DOMAIN clears : clears[i] \in 1..MaxTokens
  BY <1>1, ElementOfSeq, LenProperties
<1>3. OneClearPerToken'
  BY <1>1 DEF Clearing, OneClearPerToken
<1>4. CASE /\ oper' = [oper EXCEPT ![o] = [NoCall EXCEPT !.token = token]]
           /\ UNCHANGED <<token, expired, made>>
  <2>1. oper' \in [Operators -> Calls]
    <3>1. [NoCall EXCEPT !.token = token] \in Calls
      BY ProxyConstants DEF Clearing, Calls, NoCall
    <3> QED
      BY <1>4, <3>1 DEF Clearing
  <2>2. TokensOK'
    BY <1>1, <1>4 DEF Clearing, TokensOK
  <2> QED
    BY <1>1, <1>3, <1>4, <2>1, <2>2 DEF Clearing
<1>5. CASE /\ made < MaxTokens
           /\ made' = made + 1 /\ token' = made + 1 /\ expired' = FALSE
           /\ oper' = [oper EXCEPT ![o] = [NoCall EXCEPT !.token = made + 1]]
  <2>1. made \in Nat /\ made + 1 \in 0..MaxTokens
    BY <1>5, ProxyConstants DEF Clearing
  <2>2. oper' \in [Operators -> Calls]
    <3>1. [NoCall EXCEPT !.token = made + 1] \in Calls
      BY <2>1, ProxyConstants DEF Calls, NoCall
    <3> QED
      BY <1>5, <3>1 DEF Clearing
  <2>3. TokensOK'
    BY <1>1, <1>2, <1>5, <2>1 DEF Clearing, TokensOK
  <2> QED
    BY <1>1, <1>3, <1>5, <2>1, <2>2, <2>3 DEF Clearing
<1> QED
  BY <1>4, <1>5 DEF AskToken

LEMMA AskKeeps ==
  ASSUME Clearing, NEW o \in Operators, Ask(o)
  PROVE  Clearing'
<1>1. Stale \in 0..MaxTokens /\ 0 \in 0..MaxTokens
  BY ProxyConstants DEF Clearing, Stale
<1>2. oper' \in [Operators -> Calls]
  BY <1>1 DEF Clearing, Ask, Calls
<1> QED
  BY <1>2 DEF Clearing, Ask, OneClearPerToken, TokensOK

LEMMA ConfirmKeeps ==
  ASSUME Clearing, NEW o \in Operators, NEW t \in {0, oper[o].token}, Confirm(o, t)
  PROVE  Clearing'
<1>1. t \in 0..MaxTokens /\ Stale \in 0..MaxTokens
  BY ProxyConstants DEF Clearing, Calls, Stale
<1>2. oper' \in [Operators -> Calls]
  BY <1>1 DEF Clearing, Confirm, Calls
<1> QED
  BY <1>2 DEF Clearing, Confirm, OneClearPerToken, TokensOK

\* The token that clears was never used before, and is void afterwards.
LEMMA ClearKeeps ==
  ASSUME Clearing, NEW o \in Operators, Clear(o)
  PROVE  Clearing'
<1>1. /\ token' = 0 /\ made' = made /\ expired' \in BOOLEAN
      /\ oper' \in [Operators -> Calls]
  BY ProxyConstants DEF Clearing, Clear, Spent, NoCall, Calls
<1>2. CASE clears' = clears
  BY <1>1, <1>2, ProxyConstants DEF Clearing, OneClearPerToken, TokensOK
<1>3. CASE token # 0 /\ clears' = Append(clears, token)
  <2>1. token \in 1..MaxTokens /\ clears \in Seq(1..MaxTokens) /\ made \in Nat /\ token <= made
    BY <1>3 DEF Clearing, TokensOK
  <2>2. /\ clears' \in Seq(1..MaxTokens)
        /\ DOMAIN clears = 1..Len(clears) /\ Len(clears) \in Nat
        /\ DOMAIN clears' = 1..(Len(clears) + 1)
        /\ \A i \in 1..(Len(clears) + 1) :
             clears'[i] = IF i = Len(clears) + 1 THEN token ELSE clears[i]
    BY <1>3, <2>1
  <2>3. \A i \in 1..Len(clears) : clears[i] \in Nat /\ clears[i] <= made /\ clears[i] < token
    <3>1. \A i \in 1..Len(clears) : clears[i] \in 1..MaxTokens
      BY <2>1, ElementOfSeq
    <3> QED
      BY <1>3, <2>2, <3>1 DEF Clearing, TokensOK
  <2>4. OneClearPerToken'
    <3> SUFFICES ASSUME NEW i \in DOMAIN clears', NEW j \in DOMAIN clears', i < j
                 PROVE  clears'[i] < clears'[j]
      BY DEF OneClearPerToken
    <3>1. CASE j = Len(clears) + 1
      BY <2>2, <2>3, <3>1
    <3>2. CASE j # Len(clears) + 1
      <4>1. i \in DOMAIN clears /\ j \in DOMAIN clears
        BY <2>2, <3>2
      <4> QED
        BY <2>2, <3>2, <4>1 DEF Clearing, OneClearPerToken
    <3> QED
      BY <3>1, <3>2
  <2>5. TokensOK'
    BY <1>1, <2>1, <2>2, <2>3 DEF TokensOK
  <2> QED
    BY <1>1, <2>2, <2>4, <2>5, ProxyConstants DEF Clearing
<1> QED
  BY <1>2, <1>3 DEF Clear

-----------------------------------------------------------------------------
(* The invariant *)

LEMMA IndInvInit == Init => IndInv
<1> SUFFICES ASSUME Init PROVE IndInv
  OBVIOUS
<1>1. In("in") = {} /\ Requests \ In("new") = {} /\ Retried = {} /\ Failed = {}
  BY DEF Init, In, Retried, Failed
<1>2. Cardinality({}) = 0 /\ Cardinality(Requests) \in Nat
  BY FS_EmptySet, Sizes
<1>3. CountsAddUp /\ metric["total"] = Cardinality(Requests \ In("new"))
  <2>1. \A c \in Counters : metric[c] = 0 /\ drained[c] = 0 /\ window[c] = 0
    BY DEF Init, Zero
  <2>2. /\ metric["total"] = 0 /\ metric["hits"] = 0 /\ metric["misses"] = 0
        /\ metric["proxied"] = 0 /\ metric["errored"] = 0
    BY <2>1, TheCounters
  <2>3. \A c \in Counters : metric[c] = drained[c] + window[c]
    BY <2>1
  <2>4. /\ Cardinality(In("in")) = 0 /\ Cardinality(Requests \ In("new")) = 0
        /\ Cardinality(Retried) = 0 /\ Cardinality(Failed) = 0
    BY <1>1, <1>2
  <2> QED
    BY <2>2, <2>3, <2>4 DEF CountsAddUp
<1>4. {window, metric, drained} \subseteq [Counters -> 0..(2 * Cardinality(Requests))]
  BY <1>2 DEF Init, Zero
<1>5. taken \in 0..(MaxReports * Len(Order))
  BY ProxyConstants DEF Init, Order
<1>6. cached \subseteq Ruled /\ req \in [Requests -> Rec]
  BY DEF Init, Rec
<1>7. on \in [Clones -> BOOLEAN]
  <2>1. PICK v \in BOOLEAN : on = [c \in Clones |-> v]
    BY DEF Init
  <2> QED
    BY <2>1
<1>8. token \in 0..MaxTokens /\ expired \in BOOLEAN /\ made \in 0..MaxTokens
  <2>1. token = 0 /\ expired = FALSE /\ made = 0
    BY DEF Init
  <2>2. 0 \in 0..MaxTokens
    BY ProxyConstants
  <2> QED
    BY <2>1, <2>2, Zenon
<1>9. oper \in [Operators -> Calls]
  <2>1. NoCall \in Calls
    BY ProxyConstants DEF NoCall, Calls
  <2> QED
    BY <2>1 DEF Init
<1>10. clears \in Seq(1..MaxTokens) /\ DOMAIN clears = {} /\ token <= made
  BY DEF Init
<1>11. OneClearPerToken /\ TokensOK
  BY <1>10 DEF OneClearPerToken, TokensOK
<1>12. RequestsOK
  BY <1>3 DEF RequestsOK, Init
<1> QED
  BY <1>3, <1>4, <1>5, <1>6, <1>7, <1>8, <1>9, <1>10, <1>11, <1>12 DEF IndInv, TypeOK, Rec, Calls

LEMMA IndInvStep == IndInv /\ [Next]_vars => IndInv'
<1> SUFFICES ASSUME IndInv, [Next]_vars PROVE IndInv'
  OBVIOUS
<1> DEFINE Rest == on \in [Clones -> BOOLEAN] /\ taken \in 0..(MaxReports * Len(Order))
<1>1. Numbers /\ Routes /\ Clearing /\ Rest
  BY DEF IndInv, TypeOK, RequestsOK, Numbers, Routes, Clearing, Rec, Calls
<1>2. UNCHANGED <<countVars, req>> => Numbers'
  BY <1>1 DEF Numbers, CountsAddUp, countVars, In, Retried, Failed
<1>3. UNCHANGED <<cached, req>> => Routes'
  BY <1>1 DEF Routes
<1>4. UNCHANGED clearVars => Clearing'
  BY <1>1 DEF Clearing, clearVars, OneClearPerToken, TokensOK
<1>5. UNCHANGED <<on, taken>> => Rest'
  BY <1>1
<1> HIDE DEF Rest
<1>6. SUFFICES Numbers' /\ Routes' /\ Clearing' /\ Rest'
  BY DEF IndInv, TypeOK, RequestsOK, Numbers, Routes, Clearing, Rec, Calls, Rest
<1>7. ASSUME NEW r \in Requests, NEW k \in Keys, Arrive(r, k)
      PROVE  Numbers' /\ Routes' /\ Clearing' /\ Rest'
  BY <1>1, <1>4, <1>5, <1>7, ArriveKeeps DEF Arrive, Count
<1>8. ASSUME NEW r \in Requests, ToProxy(r)
      PROVE  Numbers' /\ Routes' /\ Clearing' /\ Rest'
  BY <1>1, <1>4, <1>5, <1>8, ToProxyKeeps DEF ToProxy, Count
<1>9. ASSUME NEW r \in Requests, Lookup(r)
      PROVE  Numbers' /\ Routes' /\ Clearing' /\ Rest'
  BY <1>1, <1>4, <1>5, <1>9, LookupKeeps DEF Lookup, Count
<1>10. ASSUME NEW r \in Requests, Rendered(r) \/ Timeout(r)
       PROVE  Numbers' /\ Routes' /\ Clearing' /\ Rest'
  BY <1>1, <1>4, <1>5, <1>10, LeavesKeeps DEF Rendered, Timeout, countVars
<1>11. ASSUME NEW r \in Requests, RenderFails(r)
       PROVE  Numbers' /\ Routes' /\ Clearing' /\ Rest'
  BY <1>1, <1>4, <1>5, <1>11, RenderFailsKeeps DEF RenderFails, Count
<1>12. ASSUME NEW r \in Requests, NEW failed \in BOOLEAN, Fetched(r, failed) \/ Proxied(r, failed)
       PROVE  Numbers' /\ Routes' /\ Clearing' /\ Rest'
  BY <1>1, <1>4, <1>5, <1>12, UpstreamKeeps DEF Fetched, Proxied, Answered, Count
<1>13. ASSUME NEW k \in Ruled, Evict(k)
       PROVE  Numbers' /\ Routes' /\ Clearing' /\ Rest'
  <2>1. Routes'
    BY <1>1, <1>13 DEF Routes, Evict
  <2> QED
    BY <1>2, <1>4, <1>5, <1>13, <2>1 DEF Evict, countVars
<1>14. ASSUME NEW v \in BOOLEAN, Bypass(v)
       PROVE  Numbers' /\ Routes' /\ Clearing' /\ Rest'
  <2>1. Rest'
    BY <1>1, <1>14 DEF Bypass, countVars, Clones, Rest
  <2> QED
    BY <1>2, <1>3, <1>4, <1>14, <2>1 DEF Bypass
<1>15. ASSUME NEW o \in Operators, Operator(o)
       PROVE  Numbers' /\ Routes' /\ Clearing' /\ Rest'
  <2>1. CASE AskToken(o)
    BY <1>1, <1>2, <1>3, <1>5, <2>1, AskTokenKeeps DEF AskToken, countVars
  <2>2. CASE Clear(o)
    <3>1. Routes'
      BY <1>1, <2>2 DEF Routes, Clear
    <3> QED
      BY <1>1, <1>2, <1>5, <2>2, <3>1, ClearKeeps DEF Clear, countVars
  <2>3. ASSUME NEW t \in {0, oper[o].token}, Confirm(o, t)
        PROVE  Numbers' /\ Routes' /\ Clearing' /\ Rest'
    BY <1>1, <1>2, <1>3, <1>5, <2>3, ConfirmKeeps DEF Confirm, countVars
  <2>4. CASE Ask(o)
    BY <1>1, <1>2, <1>3, <1>5, <2>4, AskKeeps DEF Ask, countVars
  <2> QED
    BY <1>15, <2>1, <2>2, <2>3, <2>4 DEF Operator
<1>16. ASSUME Report
       PROVE  Numbers' /\ Routes' /\ Clearing' /\ Rest'
  <2>1. Rest'
    BY <1>1, <1>16, ReportKeeps DEF Report, Rest
  <2> QED
    BY <1>1, <1>3, <1>4, <1>16, <2>1, ReportKeeps DEF Report, Rest
<1>17. ASSUME Expire
       PROVE  Numbers' /\ Routes' /\ Clearing' /\ Rest'
  BY <1>1, <1>2, <1>3, <1>5, <1>17, ExpireKeeps DEF Expire, countVars
<1>18. ASSUME UNCHANGED vars
       PROVE  Numbers' /\ Routes' /\ Clearing' /\ Rest'
  BY <1>2, <1>3, <1>4, <1>5, <1>18 DEF vars, countVars
<1> QED
  BY <1>7, <1>8, <1>9, <1>10, <1>11, <1>12, <1>13, <1>14, <1>15, <1>16, <1>17, <1>18
     DEF Next, Handler, Upstream

\* The inductive invariant holds in every reachable state.
THEOREM Inductive == Spec => []IndInv
BY IndInvInit, IndInvStep, PTL DEF Spec

\* Every variable keeps its type; a counter never exceeds two per request.
THEOREM ProxyTypes == Spec => []TypeOK
<1>1. IndInv => TypeOK
  BY DEF IndInv
<1> QED
  BY <1>1, Inductive, PTL

\* However requests, their upstream answers, timeouts and the drain of the
\* counters interleave, no count is lost or taken twice (cache.rs).
THEOREM CountsAlwaysAddUp == Spec => []CountsAddUp
<1>1. IndInv => CountsAddUp
  BY DEF IndInv
<1> QED
  BY <1>1, Inductive, PTL

\* A clear token clears the storage at most once, whatever any number of
\* operators ask for, confirm and mistype at the same time (clear.rs).
THEOREM TokensClearOnce == Spec => []OneClearPerToken
<1>1. IndInv => OneClearPerToken
  BY DEF IndInv
<1> QED
  BY <1>1, Inductive, PTL
=============================================================================
