---------------------------- MODULE RefreshCycle ----------------------------
(***************************************************************************)
(* How an entry that grows old is refreshed or removed: a hit queues it    *)
(* once it has outlived the global TTL, the provider of the lifetime       *)
(* manager takes it from the queue or finds it by a scan of the shards and *)
(* offers it to the task channel, a worker calls on_ttl, and an operator   *)
(* may invalidate it or switch the policy.  One shard; the queue is the    *)
(* circular buffer of RefreshQueue.tla.  Storage.tla has the steps of the  *)
(* storage's calls one by one; here each is one step.                      *)
(***************************************************************************)
EXTENDS RefreshQueue, FiniteSets

CONSTANTS
  Ttl,       \* lifetime.ttl, in ticks of the clock
  RuleTtl,   \* key -> ttl of the rule, 0 if the rule has none
  MinStale,  \* key -> ttl * coefficient, the age from which the scan may pick
  RuleOn,    \* keys whose rule does not disable refreshing
  MaxSeen,   \* how many entries a scan looks at, 512
  Sample,    \* after how many hits it stops, 32
  TaskCap,   \* capacity of the task channel
  Workers,   \* workers of the lifetime manager
  MaxAge     \* ages from here on are alike

ASSUME RefreshConstants ==
  /\ Ttl \in Nat
  /\ RuleTtl \in [Keys -> Nat]
  /\ MinStale \in [Keys -> Nat]
  /\ RuleOn \subseteq Keys
  /\ {MaxSeen, Sample, TaskCap} \subseteq Nat \ {0}
  /\ MaxAge \in Nat
  /\ MaxAge > Ttl
  /\ \A k \in Keys : MaxAge >= RuleTtl[k] /\ MaxAge >= MinStale[k]

VARIABLES
  age,     \* key -> ticks since updated_at, for cached keys
  flag,    \* key -> refresh_queued
  cached,  \* the keys the shard holds
  tasks,   \* the task channel: [key, own]
  worker,  \* worker -> [at, key, own]
  remove   \* lifetime.is_remove_on_ttl

\* A task holds an entry, not a key: own says that it is still the entry which
\* the shard holds under that key.
cycleVars == <<age, flag, cached, tasks, worker, remove>>
vars == <<queueVars, cycleVars>>

NoKey == "none"
Idle == [at |-> "idle", key |-> NoKey, own |-> FALSE]

TypeOK ==
  /\ QueueTypeOK
  /\ age \in [Keys -> 0..MaxAge]
  /\ flag \in [Keys -> BOOLEAN]
  /\ cached \subseteq Keys
  /\ tasks \in Seq([key : Keys, own : BOOLEAN])
  /\ Len(tasks) <= TaskCap
  /\ worker \in [Workers -> {Idle} \cup [at : {"got", "fetch"}, key : Keys, own : BOOLEAN]]
  /\ remove \in BOOLEAN

Init ==
  /\ QueueInit
  /\ age = [k \in Keys |-> 0]
  /\ flag = [k \in Keys |-> FALSE]
  /\ cached = {}
  /\ tasks = <<>>
  /\ worker = [w \in Workers |-> Idle]
  /\ remove \in BOOLEAN

-----------------------------------------------------------------------------
(* Ages *)

\* is_expired, on a hit and on a queued key: the global TTL, whatever the rule.
Expired(k) == age[k] > Ttl

\* is_probably_expired, in the scan: never before ttl * coefficient nor at age
\* zero, nor if the rule disables it; otherwise by chance.
MayBePicked_Unflagged(k) == k \in RuleOn /\ age[k] > 0 /\ age[k] >= MinStale[k] /\ ~flag[k]
MayBePicked(k) == k \in RuleOn /\ age[k] > 0 /\ age[k] >= MinStale[k]

Tick ==
  /\ \E k \in cached : age[k] < MaxAge
  /\ age' = [k \in Keys |-> IF k \in cached /\ age[k] < MaxAge THEN age[k] + 1 ELSE age[k]]
  /\ UNCHANGED <<queueVars, flag, cached, tasks, worker, remove>>

-----------------------------------------------------------------------------
(* Traffic *)

\* The entry of k leaves the shard: tasks that hold it are on their own.
Orphaned(t, k) == IF t.key = k THEN [t EXCEPT !.own = FALSE] ELSE t
Forget(k) ==
  /\ cached' = cached \ {k}
  /\ age' = [age EXCEPT ![k] = 0]
  /\ flag' = [flag EXCEPT ![k] = FALSE]
  /\ tasks' = [i \in DOMAIN tasks |-> Orphaned(tasks[i], k)]

\* Storage::touch after a hit: mark and queue an expired entry, unmark it if
\* the queue is full.
Hit(k) ==
  /\ k \in cached
  /\ Expired(k)
  /\ ~flag[k]
  /\ TryPush(k)
  /\ flag' = [flag EXCEPT ![k] = ~Full(head)]
  /\ UNCHANGED <<age, cached, tasks, worker, remove>>

\* Storage::set: a new entry, or an update of the one that is there, which
\* clears its flag and leaves it in the queue.
Set(k) ==
  /\ cached' = cached \cup {k}
  /\ age' = [age EXCEPT ![k] = 0]
  /\ flag' = [flag EXCEPT ![k] = FALSE]
  /\ UNCHANGED <<queueVars, tasks, worker, remove>>

Evict(k) ==
  /\ k \in cached
  /\ Forget(k)
  /\ worker' = [w \in Workers |-> Orphaned(worker[w], k)]
  /\ UNCHANGED <<queueVars, remove>>

-----------------------------------------------------------------------------
(* The provider: peek_expired_ttl and try_send.  scan is what peek_expired   *)
(* comes up with, NoKey if nothing.  It goes through shards in turn and each *)
(* from its start, until it has looked at MaxSeen entries or Sample of them  *)
(* were hits, by chance, and takes the stalest hit: where it starts is up to *)
(* an index that others move too, so that any entry may be what it finds.    *)

Queued == head # tail
Due == Queued /\ buf[tail] \in cached /\ Expired(buf[tail])
Outdated == Queued /\ buf[tail] \in cached /\ ~Expired(buf[tail])

\* A full channel drops the entry, flag and all.
HasRoom == Len(tasks) < TaskCap
Offered(k) == IF k # NoKey /\ HasRoom THEN Append(tasks, [key |-> k, own |-> TRUE]) ELSE tasks

Provide(scan) ==
  /\ cached # {}
  /\ scan # NoKey => ~Due /\ scan \in cached /\ MayBePicked(scan)
  /\ TryPop
  /\ flag' = IF Outdated THEN [flag EXCEPT ![buf[tail]] = FALSE] ELSE flag
  /\ tasks' = Offered(IF Due THEN buf[tail] ELSE scan)
  /\ UNCHANGED <<age, cached, worker, remove>>

-----------------------------------------------------------------------------
(* Workers: on_ttl *)

Receive(w) ==
  /\ worker[w] = Idle
  /\ tasks # <<>>
  /\ worker' = [worker EXCEPT ![w] = [at |-> "got", key |-> Head(tasks).key, own |-> Head(tasks).own]]
  /\ tasks' = Tail(tasks)
  /\ UNCHANGED <<queueVars, age, flag, cached, remove>>

\* The policy is read once; removal is by key, whichever entry is there now.
OnTtlRemove(w) ==
  /\ worker[w].at = "got"
  /\ remove
  /\ Forget(worker[w].key)
  /\ worker' = [v \in Workers |-> IF v = w THEN Idle ELSE Orphaned(worker[v], worker[w].key)]
  /\ UNCHANGED <<queueVars, remove>>

OnTtlFetch(w) ==
  /\ worker[w].at = "got"
  /\ ~remove
  /\ worker' = [worker EXCEPT ![w].at = "fetch"]
  /\ UNCHANGED <<queueVars, age, flag, cached, tasks, remove>>

\* The upstream answers: the entry that the task holds is fresh, and its flag
\* is cleared; an error leaves both as they are.
Refreshed(w, ok) ==
  LET k == worker[w].key  hold == ok /\ worker[w].own IN
  /\ worker[w].at = "fetch"
  /\ age' = IF hold THEN [age EXCEPT ![k] = 0] ELSE age
  /\ flag' = IF hold THEN [flag EXCEPT ![k] = FALSE] ELSE flag
  /\ worker' = [worker EXCEPT ![w] = Idle]
  /\ UNCHANGED <<queueVars, cached, tasks, remove>>

-----------------------------------------------------------------------------
(* The operator *)

SetPolicy(v) ==
  /\ remove # v
  /\ remove' = v
  /\ UNCHANGED <<queueVars, age, flag, cached, tasks, worker>>

\* invalidate collects the keys that match while it walks the shards, then looks
\* each up again: whatever entry is there by then is removed, or marked by
\* untouch_refreshed_at, after which its age is the rule's TTL, zero without one.
InvalidateRemove(k) == Evict(k)

InvalidateMark(k) ==
  /\ k \in cached
  /\ age' = [age EXCEPT ![k] = RuleTtl[k]]
  /\ UNCHANGED <<queueVars, flag, cached, tasks, worker, remove>>

-----------------------------------------------------------------------------
Worker(w) ==
  Receive(w) \/ OnTtlRemove(w) \/ OnTtlFetch(w) \/ \E ok \in BOOLEAN : Refreshed(w, ok)
Invalidate(k) == InvalidateRemove(k) \/ InvalidateMark(k)

Next ==
  \/ Tick
  \/ \E k \in Keys : Hit(k) \/ Set(k) \/ Evict(k) \/ Invalidate(k)
  \/ \E scan \in Keys \cup {NoKey} : Provide(scan)
  \/ \E w \in Workers : Worker(w)
  \/ \E v \in BOOLEAN : SetPolicy(v)

\* Each shard in whose turn the scans come is looked at to its end if there are
\* no more entries than a scan looks at, and no more that may hit than it stops
\* at: beyond that, entries late in the order of their shard may never be seen.
Scannable == {k \in cached : MayBePicked(k)}
ScanFits == Cardinality(cached) <= MaxSeen /\ Cardinality(Scannable) <= Sample
Stalest(k) == \A j \in Scannable : age[j] <= age[k]

\* The request for the entry of k comes to its end.
Ends(k, ok) == \E w \in Workers : worker[w].key = k /\ worker[w].own /\ Refreshed(w, ok)

\* Time passes, the provider ticks and workers run; nothing is assumed of how
\* long a request takes, whose body is read without a timeout.  The draw of an
\* entry succeeds again and again, and it is found whenever no other that the
\* scan looks at is staler, at some time when the channel has room.  Of the
\* requests for an entry that end not all fail.
Fairness ==
  /\ WF_vars(Tick)
  /\ WF_vars(\E scan \in Keys \cup {NoKey} : Provide(scan))
  /\ \A w \in Workers : WF_vars(Receive(w) \/ OnTtlRemove(w) \/ OnTtlFetch(w))
  /\ \A k \in RuleOn :
       /\ SF_vars(HasRoom /\ ScanFits /\ Stalest(k) /\ Provide(k))
       /\ []<><<\E ok \in BOOLEAN : Ends(k, ok)>>_vars => []<><<Ends(k, TRUE)>>_vars

Spec == Init /\ [][Next]_vars /\ Fairness

-----------------------------------------------------------------------------
(* Properties *)

\* An expired entry whose rule lets it be refreshed does not stay so: it is
\* refreshed, replaced or removed, although a full task channel drops entries
\* and a failed refresh leaves them marked as queued while they are in no queue,
\* so that no hit queues them again ("will be picked up later").  It is the
\* scan that saves them.  Hence the premise: again and again no queued key goes
\* before the scan, what is cached fits it and the channel has room, which it
\* has not if all workers hang in requests that never end.
ExpiredHandled ==
  []<>(HasRoom /\ ~Due /\ ScanFits) =>
    \A k \in RuleOn : (k \in cached /\ Expired(k)) ~> (k \notin cached \/ ~Expired(k))
=============================================================================
