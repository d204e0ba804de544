------------------------------- MODULE Storage -------------------------------
(***************************************************************************)
(* The storage of src/db/storage/storage.rs on top of the sharded map:     *)
(* get, set, update, remove, clear, the two evictions, and the refresh of  *)
(* expired entries with the per-shard refresh queues of refresh.rs.        *)
(*                                                                         *)
(* A storage call is a sequence of calls of the map and of atomic accesses *)
(* to the fields of an entry.  op[t] says where thread t is in its storage *)
(* call; while the map works for it (pc[t] # "idle") the storage waits.    *)
(* An entry a call has looked up is an Arc: the map may drop or replace it *)
(* before the call goes on.                                                *)
(*                                                                         *)
(* Left out: the frequency sketch (whether a newcomer is admitted is a     *)
(* free choice), time (an entry becomes stale at any moment), touched_at,  *)
(* and the payload a swap leaves in the entry the caller then drops.       *)
(***************************************************************************)
EXTENDS ShardedMap

CONSTANTS
  Prints,      \* request fingerprints
  PrintOf,     \* the immutable fingerprint of an entry
  AnswerTo,    \* the fingerprint of the request a payload answers
  AdmissionOn, \* admission.enabled
  AdmLimit, SoftLimit, HardLimit,  \* the three memory limits
  TtlPolicies, \* the on_ttl policies the control plane may switch to
  QueueCap,    \* keys a refresh queue holds
  MaxCalls     \* bound: storage calls of a behaviour

ASSUME StorageConstants ==
  /\ PrintOf \in [Entries -> Prints]
  /\ AnswerTo \in [Payloads -> Prints]
  /\ \A e \in Entries : AnswerTo[InitPayload[e]] = PrintOf[e]
  /\ AdmissionOn \in BOOLEAN
  /\ TtlPolicies \subseteq {"remove", "refresh"}
  /\ {AdmLimit, SoftLimit, HardLimit} \subseteq Nat
  /\ {SoftLimit, HardLimit} \subseteq Limits
  /\ Mutable = Entries
  /\ \A p, q \in Payloads : Weight[p] - Weight[q] \in Deltas
  /\ QueueCap \in Nat \ {0}
  /\ MaxCalls \in Nat

VARIABLES
  op,      \* the storage call of each thread
  stale,   \* entry -> its TTL has elapsed (is_expired)
  queued,  \* entry -> refresh_queued
  rq,      \* shard -> its refresh queue
  used,    \* entries that were passed to set
  calls    \* storage calls begun

entryVars   == <<stale, queued, rq>>
storageVars == <<mapVars, op, entryVars, used, calls>>

Stages == {"none", "compare", "weigh", "swap", "add_mem", "fresh", "unqueue",
           "use", "expired", "mark", "push", "unmark", "admit", "evict", "put",
           "pop", "lookup", "check", "on_ttl", "upstream", "refreshed",
           "settle", "reweigh"}

NoOp == [stage |-> "none", cur |-> NoEntry, new |-> NoEntry, bytes |-> 0,
         key |-> AnyKey, todo |-> {}]

StorageInit ==
  /\ Init
  /\ op = [t \in Threads |-> NoOp]
  /\ stale = [e \in Entries |-> FALSE]
  /\ queued = [e \in Entries |-> FALSE]
  /\ rq = [s \in Shards |-> <<>>]
  /\ used = {}
  /\ calls = 0

-----------------------------------------------------------------------------
(* Control *)

\* A new call may start.
Call(t) ==
  /\ op[t].stage = "none" /\ pc[t] = "idle"
  /\ calls < MaxCalls
  /\ calls' = calls + 1

\* The storage call of t is at a stage of its own: a call of the map it made,
\* if any, has returned.
At(t, stage) == op[t].stage = stage /\ pc[t] = "idle" /\ UNCHANGED calls

\* It goes on at another stage, or returns (after a last call of the map).
Then(t, stage) == op' = [op EXCEPT ![t].stage = stage]
Return(t) == op' = [op EXCEPT ![t] = NoOp]

Cur(t) == op[t].cur
New(t) == op[t].new
CurKey(t) == KeyOf[Cur(t)]

\* A step of the map on behalf of t.
MapWorks(t) ==
  /\ Continue(t)
  /\ UNCHANGED <<op, entryVars, used, calls>>

-----------------------------------------------------------------------------
(* Storage::get and Storage::touch *)

\* A hit has the fingerprint of the request; anything else changes nothing.
Get(t, k, f) ==
  /\ Call(t)
  /\ Free(ShardOf[k])
  /\ items[k] # NoEntry
  /\ PrintOf[items[k]] = f
  /\ op' = [op EXCEPT ![t] = [NoOp EXCEPT !.stage = "use", !.cur = items[k]]]
  /\ UNCHANGED <<mapVars, entryVars, used>>

\* Map::touch; the try_write may fail.
TouchUse(t) ==
  /\ At(t, "use")
  /\ TouchLru(CurKey(t)) \/ UNCHANGED mapVars
  /\ Then(t, "expired")
  /\ UNCHANGED <<entryVars, used>>

TouchExpired(t) ==
  /\ At(t, "expired")
  /\ IF stale[Cur(t)] THEN Then(t, "mark") ELSE Return(t)
  /\ UNCHANGED <<mapVars, entryVars, used>>

\* try_mark_refresh_queued: only one caller wins the flag.
TouchMark(t) ==
  /\ At(t, "mark")
  /\ IF queued[Cur(t)]
     THEN Return(t) /\ UNCHANGED queued
     ELSE Then(t, "push") /\ queued' = [queued EXCEPT ![Cur(t)] = TRUE]
  /\ UNCHANGED <<mapVars, stale, rq, used>>

HasRoom(s) == Len(rq[s]) < QueueCap

TouchPush(t) ==
  LET s == ShardOf[CurKey(t)] IN
  /\ At(t, "push")
  /\ IF HasRoom(s)
     THEN Return(t) /\ rq' = [rq EXCEPT ![s] = Append(@, CurKey(t))]
     ELSE Then(t, "unmark") /\ UNCHANGED rq
  /\ UNCHANGED <<mapVars, stale, queued, used>>

TouchUnmark(t) ==
  /\ At(t, "unmark")
  /\ Return(t)
  /\ queued' = [queued EXCEPT ![Cur(t)] = FALSE]
  /\ UNCHANGED <<mapVars, stale, rq, used>>

-----------------------------------------------------------------------------
(* Storage::set and Storage::update *)

SamePrint_Any(e, f) == e # NoEntry
SamePrint(e, f) == e # NoEntry /\ PrintOf[e] = PrintOf[f]

\* Look the key up; an entry of another request is not updated but replaced.
Set(t, e) ==
  LET old == items[KeyOf[e]] IN
  /\ Call(t)
  /\ e \notin used
  /\ Free(ShardOf[KeyOf[e]])
  /\ used' = used \cup {e}
  /\ op' = [op EXCEPT ![t] =
       IF SamePrint(old, e) THEN [NoOp EXCEPT !.stage = "compare", !.cur = old, !.new = e]
                            ELSE [NoOp EXCEPT !.stage = "admit", !.new = e]]
  /\ UNCHANGED <<mapVars, entryVars>>

SetCompare(t) ==
  /\ At(t, "compare")
  /\ Then(t, IF payload[Cur(t)] = payload[New(t)] THEN "use" ELSE "weigh")
  /\ UNCHANGED <<mapVars, entryVars, used>>

\* swap_payloads: the weights are loaded first ...
UpdateWeigh(t) ==
  /\ At(t, "weigh")
  /\ op' = [op EXCEPT ![t].stage = "swap", ![t].bytes = WeightOf(New(t)) - WeightOf(Cur(t))]
  /\ UNCHANGED <<mapVars, entryVars, used>>

\* ... and the new payload is stored afterwards.
UpdateSwap(t) ==
  /\ At(t, "swap")
  /\ StorePayload(Cur(t), payload[New(t)])
  /\ Then(t, "add_mem")
  /\ UNCHANGED <<entryVars, used>>

\* Both byte counters get the difference.
Settle_GlobalOnly(t, k, d) ==
  /\ mem' = mem + d
  /\ UNCHANGED <<shardVars, len, closed, mode, payload, localVars>>
Settle(t, k, d) == AddMem(t, k, d)

UpdateMem(t) ==
  /\ At(t, "add_mem")
  /\ Settle(t, CurKey(t), op[t].bytes)
  /\ Then(t, "fresh")
  /\ UNCHANGED <<entryVars, used>>

\* touch_refreshed_at, clear_refresh_queued and the touch of the LRU list.
UpdateFresh(t) ==
  /\ At(t, "fresh")
  /\ stale' = [stale EXCEPT ![Cur(t)] = FALSE]
  /\ Then(t, "unqueue")
  /\ UNCHANGED <<mapVars, queued, rq, used>>

UpdateUnqueue(t) ==
  /\ At(t, "unqueue")
  /\ queued' = [queued EXCEPT ![Cur(t)] = FALSE]
  /\ TouchLru(CurKey(t)) \/ UNCHANGED mapVars
  /\ Return(t)
  /\ UNCHANGED <<stale, rq, used>>

\* A newcomer that loses against a victim is not stored.
SetAdmit(t) ==
  /\ At(t, "admit")
  /\ \/ Then(t, "evict")
     \/ /\ AdmissionOn /\ len > 0 /\ mem > AdmLimit
        /\ Return(t)
  /\ UNCHANGED <<mapVars, entryVars, used>>

SetEvict(t) ==
  /\ At(t, "evict")
  /\ Then(t, "put")
  /\ IF len > 0 /\ mem > HardLimit
     THEN EvictBegin(t, HardLimit)
     ELSE UNCHANGED mapVars
  /\ UNCHANGED <<entryVars, used>>

\* touch_refreshed_at of the still private entry, then Map::set.
SetPut(t) ==
  /\ At(t, "put")
  /\ SetShard(t, New(t))
  /\ stale' = [stale EXCEPT ![New(t)] = FALSE]
  /\ Return(t)
  /\ UNCHANGED <<queued, rq, used>>

-----------------------------------------------------------------------------
(* Storage::remove, clear and the soft eviction; close *)

StorageRemove(t, k) ==
  /\ Call(t)
  /\ RemoveShard(t, k)
  /\ Return(t)
  /\ UNCHANGED <<entryVars, used>>

Clear(t) ==
  /\ Call(t)
  /\ ClearBegin(t)
  /\ Return(t)
  /\ UNCHANGED <<entryVars, used>>

SoftEvict(t) ==
  /\ Call(t)
  /\ EvictBegin(t, SoftLimit)
  /\ Return(t)
  /\ UNCHANGED <<entryVars, used>>

CloseStorage ==
  /\ Close
  /\ UNCHANGED <<op, entryVars, used, calls>>

-----------------------------------------------------------------------------
(* Map::peek_expired_ttl and Storage::on_ttl *)

\* The queues are tried first, one key of each.  The code goes round the
\* shards from where a shared counter points; here they come in any order.
Peek(t) ==
  /\ Call(t)
  /\ op' = [op EXCEPT ![t] = [NoOp EXCEPT !.stage = "pop", !.todo = Shards]]
  /\ UNCHANGED <<mapVars, entryVars, used>>

\* Go on with the queues that were not yet tried.
NextQueue(t, todo) == op' = [op EXCEPT ![t] = [NoOp EXCEPT !.stage = "pop", !.todo = todo]]

PeekPop(t, s) ==
  LET todo == op[t].todo \ {s} IN
  /\ At(t, "pop")
  /\ s \in op[t].todo
  /\ IF rq[s] = <<>>
     THEN NextQueue(t, todo) /\ UNCHANGED rq
     ELSE /\ rq' = [rq EXCEPT ![s] = Tail(@)]
          /\ op' = [op EXCEPT ![t] = [NoOp EXCEPT !.stage = "lookup", !.key = Head(rq[s]),
                                                  !.todo = todo]]
  /\ UNCHANGED <<mapVars, stale, queued, used>>

PeekLookup(t) ==
  LET k == op[t].key IN
  /\ At(t, "lookup")
  /\ Free(ShardOf[k])
  /\ IF items[k] = NoEntry
     THEN NextQueue(t, op[t].todo)
     ELSE op' = [op EXCEPT ![t].stage = "check", ![t].cur = items[k]]
  /\ UNCHANGED <<mapVars, entryVars, used>>

\* Whatever entry the key maps to by now is taken if it is expired.
PeekCheck(t) ==
  /\ At(t, "check")
  /\ IF stale[Cur(t)]
     THEN Then(t, "on_ttl") /\ UNCHANGED queued
     ELSE NextQueue(t, op[t].todo) /\ queued' = [queued EXCEPT ![Cur(t)] = FALSE]
  /\ UNCHANGED <<mapVars, stale, rq, used>>

\* The sampling scan: some entry of the map, or none (is_probably_expired is
\* a random choice that starts at a fraction of the TTL).
PeekSample(t) ==
  /\ At(t, "pop")
  /\ op[t].todo = {}
  /\ \/ Return(t)
     \/ \E k \in Present :
          /\ Free(ShardOf[k])
          /\ op' = [op EXCEPT ![t].stage = "on_ttl", ![t].cur = items[k]]
  /\ UNCHANGED <<mapVars, entryVars, used>>

\* on_ttl in remove mode: by key, whoever holds the key now.
TtlRemove(t) ==
  /\ "remove" \in TtlPolicies
  /\ At(t, "on_ttl")
  /\ \/ RemoveShard(t, CurKey(t)) /\ Return(t)
     \/ items[CurKey(t)] = NoEntry /\ Free(ShardOf[CurKey(t)]) /\ Return(t) /\ UNCHANGED mapVars
  /\ UNCHANGED <<entryVars, used>>

\* on_ttl in refresh mode: the weight before the await ...
TtlWeigh(t) ==
  /\ "refresh" \in TtlPolicies
  /\ At(t, "on_ttl")
  /\ op' = [op EXCEPT ![t].stage = "upstream", ![t].bytes = WeightOf(Cur(t))]
  /\ UNCHANGED <<mapVars, entryVars, used>>

\* ... an upstream that fails, which leaves the entry as it is ...
RefreshFails(t) ==
  /\ At(t, "upstream")
  /\ Return(t)
  /\ UNCHANGED <<mapVars, entryVars, used>>

\* ... or answers the entry's request, whose answer is stored ...
RefreshStores(t) ==
  /\ At(t, "upstream")
  /\ \E p \in Payloads : AnswerTo[p] = PrintOf[Cur(t)] /\ StorePayload(Cur(t), p)
  /\ Then(t, "refreshed")
  /\ UNCHANGED <<entryVars, used>>

\* ... the entry is fresh and may be queued again ...
RefreshFresh(t) ==
  /\ At(t, "refreshed")
  /\ stale' = [stale EXCEPT ![Cur(t)] = FALSE]
  /\ Then(t, "settle")
  /\ UNCHANGED <<mapVars, queued, rq, used>>

RefreshUnqueue(t) ==
  /\ At(t, "settle")
  /\ queued' = [queued EXCEPT ![Cur(t)] = FALSE]
  /\ Then(t, "reweigh")
  /\ UNCHANGED <<mapVars, stale, rq, used>>

\* ... and the difference in weight goes to the counters.
Grown_Full(t) == WeightOf(Cur(t))
Grown(t) == WeightOf(Cur(t)) - op[t].bytes

TtlSettle(t) ==
  /\ At(t, "reweigh")
  /\ IF Grown(t) = 0
     THEN Return(t) /\ UNCHANGED mapVars
     ELSE Settle(t, CurKey(t), Grown(t)) /\ Return(t)
  /\ UNCHANGED <<entryVars, used>>

\* Time passes: the TTL of an entry elapses (or invalidation outdates it).
Expire(e) ==
  /\ ~stale[e]
  /\ e \in used
  /\ stale' = [stale EXCEPT ![e] = TRUE]
  /\ UNCHANGED <<mapVars, op, queued, rq, used, calls>>

-----------------------------------------------------------------------------

Quiet == \A t \in Threads : op[t].stage = "none" /\ pc[t] = "idle"

\* Nobody calls any more.
Rest ==
  /\ Quiet
  /\ calls = MaxCalls
  /\ UNCHANGED storageVars

StorageCall(t) ==
  \/ \E k \in Keys, f \in Prints : Get(t, k, f)
  \/ \E e \in Entries : Set(t, e)
  \/ \E k \in Keys : StorageRemove(t, k)
  \/ Clear(t) \/ SoftEvict(t) \/ Peek(t)

StorageStep(t) ==
  \/ MapWorks(t)
  \/ TouchUse(t) \/ TouchExpired(t) \/ TouchMark(t) \/ TouchPush(t) \/ TouchUnmark(t)
  \/ SetCompare(t) \/ SetAdmit(t) \/ SetEvict(t) \/ SetPut(t)
  \/ UpdateWeigh(t) \/ UpdateSwap(t) \/ UpdateMem(t) \/ UpdateFresh(t) \/ UpdateUnqueue(t)
  \/ \E s \in Shards : PeekPop(t, s)
  \/ PeekLookup(t) \/ PeekCheck(t) \/ PeekSample(t)
  \/ TtlRemove(t) \/ TtlWeigh(t) \/ RefreshFails(t) \/ RefreshStores(t)
  \/ RefreshFresh(t) \/ RefreshUnqueue(t) \/ TtlSettle(t)

StorageNext ==
  \/ \E t \in Threads : StorageCall(t) \/ StorageStep(t)
  \/ \E e \in Entries : Expire(e)
  \/ CloseStorage
  \/ Rest

StorageSpec == StorageInit /\ [][StorageNext]_storageVars

-----------------------------------------------------------------------------
(* Properties *)

\* An entry is looked up, or new, or on its way to the upstream.
Holding == {"compare", "weigh", "swap", "add_mem", "fresh", "unqueue", "use", "expired",
            "mark", "push", "unmark", "check", "on_ttl", "upstream", "refreshed",
            "settle", "reweigh"}
Bringing == {"compare", "weigh", "swap", "admit", "evict", "put"}
Weights == {Weight[p] : p \in Payloads}

\* What a storage call keeps in its locals.
OpRecords == [stage : Stages, cur : Entries \cup {NoEntry}, new : Entries \cup {NoEntry},
              bytes : Int, key : Keys, todo : SUBSET Shards]

OpOK(t) ==
  /\ op[t] \in OpRecords
  /\ op[t].stage \in Holding => op[t].cur \in Entries
  /\ op[t].stage \in Bringing => op[t].new \in Entries
  /\ op[t].stage \in {"swap", "add_mem"} => op[t].bytes \in Deltas
  /\ op[t].stage \in {"upstream", "refreshed", "settle", "reweigh"} => op[t].bytes \in Weights

\* Types; which locals a storage call has by its stage; a refresh queue never
\* holds more than its capacity.
StorageTypeOK ==
  /\ DOMAIN op = Threads
  /\ \A t \in Threads : OpOK(t)
  /\ stale \in [Entries -> BOOLEAN]
  /\ queued \in [Entries -> BOOLEAN]
  /\ rq \in [Shards -> Seq(Keys)]
  /\ \A s \in Shards : Len(rq[s]) <= QueueCap
  /\ used \subseteq Entries
  /\ calls \in 0..MaxCalls

\* Every entry carries an answer to its own request, also when two requests
\* share a key and their entries are set, updated, refreshed and replaced
\* concurrently: a hit never serves the response to another request.
AnswersMatch == \A e \in Entries : AnswerTo[payload[e]] = PrintOf[e]

\* The storage uses the map only as the map allows: every behaviour of the
\* storage, seen through the map's variables, is a behaviour of the map.
ImplementsMap == Spec

\* With no call in flight both byte counters say what the entries weigh
\* (map.rs: "precise global counters").
MemSettled ==
  Quiet => /\ mem = BytesOf(Present)
           /\ \A s \in Shards : smem[s] = BytesOf(PresentIn(s))

-----------------------------------------------------------------------------
(* Calls that take turns *)

\* History: two calls have been in flight at once.
VARIABLE overlapped

Busy == {t \in Threads : op[t].stage # "none" \/ pc[t] # "idle"}

TurnsInit == StorageInit /\ overlapped = FALSE
TurnsNext == StorageNext /\ overlapped' = (overlapped \/ Cardinality(Busy') > 1)
TurnsSpec == TurnsInit /\ [][TurnsNext]_<<storageVars, overlapped>>

\* Calls that take turns leave both byte counters exact, whatever they do:
\* updates in place, refreshes, evictions and removals included.
SequentialMemSettled == ~overlapped => MemSettled
=============================================================================
