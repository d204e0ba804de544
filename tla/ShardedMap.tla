----------------------------- MODULE ShardedMap -----------------------------
(***************************************************************************)
(* The sharded map of src/db/storage (map.rs, shard.rs, eviction.rs): an   *)
(* array of shards, each a hash map and an LRU list behind a write lock,   *)
(* with an entry counter and a byte counter per shard and a second pair of *)
(* counters for the whole map.  The counters are atomics.  A call changes  *)
(* the shard under its lock and the global counters afterwards, one atomic *)
(* at a time, so between the two the counters of the map lag the shards.   *)
(*                                                                         *)
(* Grain: everything done inside one critical section of a shard lock is   *)
(* one step, except Shard::clear, whose load of the shard's byte counter   *)
(* and whose store of zero are two steps because add_mem takes no lock.    *)
(* Each atomic operation on a global counter is a step of its own.         *)
(*                                                                         *)
(* An entry is an Arc: it keeps its identity and its (replaceable) payload *)
(* whether or not the map still holds it.                                  *)
(***************************************************************************)
EXTENDS Integers, FiniteSets, Sequences, SequencesExt, LruOrder

CONSTANTS
  Threads,      \* callers: request handlers, refresh workers, evictors
  NoThread,     \* "the lock is free"
  Keys,         \* 64-bit keys
  Entries,      \* Arc<EntryInner> objects
  NoEntry,      \* "the key is not in the map"
  NumShards,    \* NUM_OF_SHARDS
  ShardOf,      \* key & SHARD_MASK
  KeyOf,        \* the immutable key of an entry
  Payloads,     \* response payloads
  Weight,       \* Entry::weight of an entry that carries the payload
  InitPayload,  \* the payload an entry is built with
  Mutable,      \* entries whose payload is replaced in place
  Deltas,       \* the deltas a caller passes to add_mem
  Modes,        \* the modes the map may be configured with
  Limits,       \* the memory limits evict_until_within_limit is called with
  Backoff,      \* its number of attempts
  MinLimit      \* MIN_LIMIT, the 8 MiB of the listing loop

Shards == 0..(NumShards - 1)

ASSUME MapConstants ==
  /\ IsFiniteSet(Threads) /\ NoThread \notin Threads
  /\ IsFiniteSet(Keys) /\ Keys # {} /\ NoEntry \notin Entries
  /\ NumShards \in Nat \ {0}
  /\ ShardOf \in [Keys -> Shards]
  /\ KeyOf \in [Entries -> Keys]
  /\ Weight \in [Payloads -> Nat]
  /\ InitPayload \in [Entries -> Payloads]
  /\ Mutable \subseteq Entries
  /\ Deltas \subseteq Int
  /\ Modes \subseteq {"listing", "sampling"}
  /\ Limits \subseteq Int
  /\ Backoff \in Nat
  /\ MinLimit \in Nat

VARIABLES
  items,    \* the hash maps of all shards: key -> entry
  lru,      \* shard -> keys of its LRU list, most recently used first
  slen,     \* Shard.len
  smem,     \* Shard.mem
  lock,     \* shard -> the thread inside Shard::clear, if any
  len,      \* Map.len
  mem,      \* Map.mem
  closed,   \* the storage's shutdown token is cancelled
  mode,     \* the LRUMode, which never changes
  payload,  \* entry -> its payload
  pc,       \* where each thread is inside a call of the map
  at,       \* the shard (clear, evict, add_mem) a thread works on
  victim,   \* the key a sampling evictor has picked
  dmem,     \* bytes the thread has still to add to a byte counter
  dlen,     \* entries the thread has still to add to Map.len
  loop      \* locals of the eviction loop

shardVars  == <<items, lru, slen, smem, lock>>
globalVars == <<len, mem>>
localVars  == <<pc, at, victim, dmem, dlen, loop>>
mapVars    == <<shardVars, globalVars, closed, mode, payload, localVars>>

Locations == {"idle", "set_mem", "set_len", "rm_len", "rm_mem", "add_shard",
              "ev_check", "ev_pop", "ev_lock", "ev_mem", "ev_len",
              "clr_next", "clr_zero", "clr_mem", "clr_len"}

AnyKey == CHOOSE k \in Keys : TRUE
NoLoop == [limit |-> 0, left |-> 0, freed |-> 0]

Init ==
  /\ items = [k \in Keys |-> NoEntry]
  /\ lru = [s \in Shards |-> <<>>]
  /\ slen = [s \in Shards |-> 0]
  /\ smem = [s \in Shards |-> 0]
  /\ lock = [s \in Shards |-> NoThread]
  /\ len = 0
  /\ mem = 0
  /\ closed = FALSE
  /\ mode \in Modes
  /\ payload = InitPayload
  /\ pc = [t \in Threads |-> "idle"]
  /\ at = [t \in Threads |-> 0]
  /\ victim = [t \in Threads |-> AnyKey]
  /\ dmem = [t \in Threads |-> 0]
  /\ dlen = [t \in Threads |-> 0]
  /\ loop = [t \in Threads |-> NoLoop]

-----------------------------------------------------------------------------
(* Helpers *)

\* Keys the map holds, and those of one shard.
Present == {k \in Keys : items[k] # NoEntry}
PresentIn(s) == {k \in Present : ShardOf[k] = s}

\* Entry::weight: the size of the structure and of the current payload.
WeightOf(e) == Weight[payload[e]]

Listing == mode = "listing"

\* A listing-mode list after a key of the shard was used.
Used(k) == IF Listing THEN [lru EXCEPT ![ShardOf[k]] = MoveToFront(@, k)] ELSE lru

\* A listing-mode list after a key of the shard was dropped.
Dropped(k) == IF Listing THEN [lru EXCEPT ![ShardOf[k]] = Unlink(@, k)] ELSE lru

\* Nobody is inside the write lock of shard s.
Free_Ignored(s) == s \in Shards
Free(s) == lock[s] = NoThread

Goto(t, from, to) == pc[t] = from /\ pc' = [pc EXCEPT ![t] = to]

\* fetch_add of the pending delta to a global counter.
AddGlobalMem_Sign(t) ==
  /\ mem' = mem - dmem[t]
  /\ dmem' = [dmem EXCEPT ![t] = 0]
AddGlobalMem(t) ==
  /\ mem' = mem + dmem[t]
  /\ dmem' = [dmem EXCEPT ![t] = 0]
AddGlobalLen(t) ==
  /\ len' = len + dlen[t]
  /\ dlen' = [dlen EXCEPT ![t] = 0]

\* Shard::remove_unlocked of a present key: the shard forgets the entry at
\* once and the caller owes the global counters what the shard has lost.
RemoveUnlocked(t, k) ==
  LET s == ShardOf[k]  w == WeightOf(items[k]) IN
  /\ items' = [items EXCEPT ![k] = NoEntry]
  /\ lru' = Dropped(k)
  /\ smem' = [smem EXCEPT ![s] = @ - w]
  /\ slen' = [slen EXCEPT ![s] = @ - 1]
  /\ dmem' = [dmem EXCEPT ![t] = -w]
  /\ dlen' = [dlen EXCEPT ![t] = -1]

-----------------------------------------------------------------------------
(* Map::set *)

\* What a set changes: a replaced entry leaves as the new one comes.
CountDelta(k) == IF items[k] # NoEntry THEN 0 ELSE 1
BytesDelta_NewOnly(e) == WeightOf(e)
BytesDelta(e) ==
  WeightOf(e) - (IF items[KeyOf[e]] # NoEntry THEN WeightOf(items[KeyOf[e]]) ELSE 0)

\* Shard::set under the write lock.  The entry is new to the map.
SetShard(t, e) ==
  LET k == KeyOf[e]  s == ShardOf[k]
      bytes == BytesDelta(e)  count == CountDelta(k)
  IN
  /\ Goto(t, "idle", "set_mem")
  /\ Free(s)
  /\ items[k] # e
  /\ items' = [items EXCEPT ![k] = e]
  /\ lru' = Used(k)
  /\ slen' = [slen EXCEPT ![s] = @ + count]
  /\ smem' = [smem EXCEPT ![s] = @ + bytes]
  /\ dmem' = [dmem EXCEPT ![t] = bytes]
  /\ dlen' = [dlen EXCEPT ![t] = count]
  /\ UNCHANGED <<lock, globalVars, closed, mode, payload, at, victim, loop>>

SetMem(t) ==
  /\ Goto(t, "set_mem", "set_len")
  /\ AddGlobalMem(t)
  /\ UNCHANGED <<shardVars, len, closed, mode, payload, at, victim, dlen, loop>>

SetLen(t) ==
  /\ Goto(t, "set_len", "idle")
  /\ AddGlobalLen(t)
  /\ UNCHANGED <<shardVars, mem, closed, mode, payload, at, victim, dmem, loop>>

-----------------------------------------------------------------------------
(* Map::remove; a miss changes nothing and is no step *)

RemoveShard(t, k) ==
  /\ Goto(t, "idle", "rm_len")
  /\ Free(ShardOf[k])
  /\ items[k] # NoEntry
  /\ RemoveUnlocked(t, k)
  /\ UNCHANGED <<lock, globalVars, closed, mode, payload, at, victim, loop>>

RemoveLen(t) ==
  /\ Goto(t, "rm_len", "rm_mem")
  /\ AddGlobalLen(t)
  /\ UNCHANGED <<shardVars, mem, closed, mode, payload, at, victim, dmem, loop>>

RemoveMem(t) ==
  /\ Goto(t, "rm_mem", "idle")
  /\ AddGlobalMem(t)
  /\ UNCHANGED <<shardVars, len, closed, mode, payload, at, victim, dlen, loop>>

-----------------------------------------------------------------------------
(* Map::touch and Map::add_mem *)

\* Shard::touch_lru.  try_write may fail, which changes nothing.  The key is
\* moved to the front whether or not the shard still holds it.
TouchLru(k) ==
  /\ Listing
  /\ Free(ShardOf[k])
  /\ lru' = Used(k)
  /\ UNCHANGED <<items, slen, smem, lock, globalVars, closed, mode, payload, localVars>>

\* The global byte counter first, the shard's afterwards, without any lock.
AddMem(t, k, d) ==
  /\ Goto(t, "idle", "add_shard")
  /\ mem' = mem + d
  /\ at' = [at EXCEPT ![t] = ShardOf[k]]
  /\ dmem' = [dmem EXCEPT ![t] = d]
  /\ UNCHANGED <<shardVars, len, closed, mode, payload, victim, dlen, loop>>

AddShardMem(t) ==
  /\ Goto(t, "add_shard", "idle")
  /\ smem' = [smem EXCEPT ![at[t]] = @ + dmem[t]]
  /\ at' = [at EXCEPT ![t] = 0]
  /\ dmem' = [dmem EXCEPT ![t] = 0]
  /\ UNCHANGED <<items, lru, slen, lock, globalVars, closed, mode, payload, victim, dlen, loop>>

\* The holder of an entry stores a new payload into it (ArcSwapOption::store).
StorePayload(e, p) ==
  /\ payload' = [payload EXCEPT ![e] = p]
  /\ UNCHANGED <<shardVars, globalVars, closed, mode, localVars>>

-----------------------------------------------------------------------------
(* Map::evict_until_within_limit.  The round-robin counter that picks the   *)
(* next shard is shared with every other scan of the map, so the shard is   *)
(* any shard.                                                               *)

EvictBegin(t, limit) ==
  /\ Listing \/ (mem > limit /\ len > 0)
  /\ Goto(t, "idle", "ev_check")
  /\ loop' = [loop EXCEPT ![t] = [limit |-> limit, left |-> Backoff, freed |-> 0]]
  /\ UNCHANGED <<shardVars, globalVars, closed, mode, payload, at, victim, dmem, dlen>>

\* One attempt is used up without removing anything.
Attempted_Free(t) == UNCHANGED loop
Attempted(t) == loop' = [loop EXCEPT ![t].left = @ - 1]

\* The loop conditions of the two modes.
MayStop(t) ==
  \/ loop[t].left = 0
  \/ IF Listing
     THEN (mem <= loop[t].limit /\ loop[t].freed <= MinLimit) \/ len = 0
     ELSE mem <= loop[t].limit

EvictStop(t) ==
  /\ MayStop(t)
  /\ Goto(t, "ev_check", "idle")
  /\ loop' = [loop EXCEPT ![t] = NoLoop]
  /\ UNCHANGED <<shardVars, globalVars, closed, mode, payload, at, victim, dmem, dlen>>

\* Listing: take the next shard; an empty one costs an attempt.
EvictNextShard(t, s) ==
  /\ Listing
  /\ ~MayStop(t)
  /\ IF slen[s] = 0
     THEN /\ pc[t] = "ev_check"
          /\ Attempted(t)
          /\ UNCHANGED <<pc, at>>
     ELSE /\ Goto(t, "ev_check", "ev_pop")
          /\ at' = [at EXCEPT ![t] = s]
          /\ UNCHANGED loop
  /\ UNCHANGED <<shardVars, globalVars, closed, mode, payload, victim, dmem, dlen>>

\* Shard::evict_one_lru_tail: pop the tail; a key the shard no longer holds
\* is popped too but frees nothing.
EvictPop(t) ==
  LET s == at[t] IN
  /\ pc[t] = "ev_pop"
  /\ Free(s)
  /\ at' = [at EXCEPT ![t] = 0]
  /\ IF lru[s] # <<>> /\ items[Last(lru[s])] # NoEntry
     THEN /\ Goto(t, "ev_pop", "ev_mem")
          /\ RemoveUnlocked(t, Last(lru[s]))
          /\ UNCHANGED loop
     ELSE /\ Goto(t, "ev_pop", "ev_check")
          /\ lru' = IF lru[s] = <<>> THEN lru ELSE [lru EXCEPT ![s] = Front(@)]
          /\ Attempted(t)
          /\ UNCHANGED <<items, slen, smem, dmem, dlen>>
  /\ UNCHANGED <<lock, globalVars, closed, mode, payload, victim>>

\* Sampling: the pick yields some key of some shard, or nothing.
EvictPick(t, k) ==
  /\ ~Listing
  /\ ~MayStop(t)
  /\ Free(ShardOf[k])
  /\ items[k] # NoEntry
  /\ Goto(t, "ev_check", "ev_lock")
  /\ victim' = [victim EXCEPT ![t] = k]
  /\ UNCHANGED <<shardVars, globalVars, closed, mode, payload, at, dmem, dlen, loop>>

EvictPickNone(t) ==
  /\ ~Listing
  /\ ~MayStop(t)
  /\ pc[t] = "ev_check"
  /\ Attempted(t)
  /\ UNCHANGED <<shardVars, globalVars, closed, mode, payload, pc, at, victim, dmem, dlen>>

\* try_lock succeeded: whatever entry the victim's key maps to by now goes.
EvictRemove(t) ==
  LET k == victim[t] IN
  /\ Free(ShardOf[k])
  /\ items[k] # NoEntry
  /\ Goto(t, "ev_lock", "ev_mem")
  /\ RemoveUnlocked(t, k)
  /\ victim' = [victim EXCEPT ![t] = AnyKey]
  /\ UNCHANGED <<lock, globalVars, closed, mode, payload, at, loop>>

\* try_lock gave up, or the key is gone.
EvictMissed(t) ==
  /\ Goto(t, "ev_lock", "ev_check")
  /\ Attempted(t)
  /\ victim' = [victim EXCEPT ![t] = AnyKey]
  /\ UNCHANGED <<shardVars, globalVars, closed, mode, payload, at, dmem, dlen>>

EvictMem(t) ==
  /\ Goto(t, "ev_mem", "ev_len")
  /\ AddGlobalMem(t)
  /\ loop' = [loop EXCEPT ![t].freed = @ - dmem[t]]
  /\ UNCHANGED <<shardVars, len, closed, mode, payload, at, victim, dlen>>

EvictLen(t) ==
  /\ Goto(t, "ev_len", "ev_check")
  /\ AddGlobalLen(t)
  /\ Attempted(t)
  /\ UNCHANGED <<shardVars, mem, closed, mode, payload, at, victim, dmem>>

-----------------------------------------------------------------------------
(* Map::clear: the shards in order, until the shutdown token is cancelled *)

ClearBegin(t) ==
  /\ Goto(t, "idle", "clr_next")
  /\ UNCHANGED <<shardVars, globalVars, closed, mode, payload, at, victim, dmem, dlen, loop>>

ClearDone(t) ==
  /\ closed \/ at[t] = NumShards
  /\ Goto(t, "clr_next", "idle")
  /\ at' = [at EXCEPT ![t] = 0]
  /\ UNCHANGED <<shardVars, globalVars, closed, mode, payload, victim, dmem, dlen, loop>>

\* Shard::clear takes the write lock and loads the two counters ...
ClearLock(t) ==
  LET s == at[t] IN
  /\ ~closed
  /\ s \in Shards
  /\ Free(s)
  /\ Goto(t, "clr_next", "clr_zero")
  /\ lock' = [lock EXCEPT ![s] = t]
  /\ dmem' = [dmem EXCEPT ![t] = -smem[s]]
  /\ dlen' = [dlen EXCEPT ![t] = -slen[s]]
  /\ UNCHANGED <<items, lru, slen, smem, globalVars, closed, mode, payload, at, victim, loop>>

\* ... and empties the shard and stores zeros before it releases the lock.
ClearZero(t) ==
  LET s == at[t] IN
  /\ Goto(t, "clr_zero", "clr_mem")
  /\ items' = [k \in Keys |-> IF ShardOf[k] = s THEN NoEntry ELSE items[k]]
  /\ lru' = [lru EXCEPT ![s] = <<>>]
  /\ slen' = [slen EXCEPT ![s] = 0]
  /\ smem' = [smem EXCEPT ![s] = 0]
  /\ lock' = [lock EXCEPT ![s] = NoThread]
  /\ UNCHANGED <<globalVars, closed, mode, payload, at, victim, dmem, dlen, loop>>

ClearMem(t) ==
  /\ Goto(t, "clr_mem", "clr_len")
  /\ AddGlobalMem(t)
  /\ UNCHANGED <<shardVars, len, closed, mode, payload, at, victim, dlen, loop>>

ClearLen(t) ==
  /\ Goto(t, "clr_len", "clr_next")
  /\ AddGlobalLen(t)
  /\ at' = [at EXCEPT ![t] = @ + 1]
  /\ UNCHANGED <<shardVars, mem, closed, mode, payload, victim, dmem, loop>>

\* Storage::close cancels the token.
Close ==
  /\ ~closed
  /\ closed' = TRUE
  /\ UNCHANGED <<shardVars, globalVars, mode, payload, localVars>>

-----------------------------------------------------------------------------
(* The map under any callers *)

Begin(t) ==
  \/ \E e \in Entries : SetShard(t, e)
  \/ \E k \in Keys : RemoveShard(t, k)
  \/ \E k \in Keys, d \in Deltas : AddMem(t, k, d)
  \/ \E limit \in Limits : EvictBegin(t, limit)
  \/ ClearBegin(t)

Continue(t) ==
  \/ SetMem(t) \/ SetLen(t)
  \/ RemoveLen(t) \/ RemoveMem(t)
  \/ AddShardMem(t)
  \/ EvictStop(t)
  \/ \E s \in Shards : EvictNextShard(t, s)
  \/ EvictPop(t)
  \/ \E k \in Keys : EvictPick(t, k)
  \/ EvictPickNone(t) \/ EvictRemove(t) \/ EvictMissed(t)
  \/ EvictMem(t) \/ EvictLen(t)
  \/ ClearDone(t) \/ ClearLock(t) \/ ClearZero(t) \/ ClearMem(t) \/ ClearLen(t)

Next ==
  \/ \E t \in Threads : Begin(t) \/ Continue(t)
  \/ \E k \in Keys : TouchLru(k)
  \/ \E e \in Mutable, p \in Payloads : StorePayload(e, p)
  \/ Close

Spec == Init /\ [][Next]_mapVars

\* A thread inside a call goes on; a lock it waits for is granted in the end
\* (parking_lot's RwLock hands the lock over eventually).
FairSpec == Spec /\ \A t \in Threads : SF_mapVars(Continue(t))

-----------------------------------------------------------------------------
(* Properties *)

\* Types of all variables; the entry under a key has that key.  The attempts
\* left of an eviction stay within the backoff: the loop never runs its
\* counter below zero.  The other counters are integers, not naturals: Map.len
\* and Map.mem are negative while a set has yet to add what a remove of the
\* same key has already subtracted.
TypeOK ==
  /\ items \in [Keys -> Entries \cup {NoEntry}]
  /\ \A k \in Present : KeyOf[items[k]] = k
  /\ lru \in [Shards -> Seq(Keys)]
  /\ slen \in [Shards -> Int]
  /\ smem \in [Shards -> Int]
  /\ lock \in [Shards -> Threads \cup {NoThread}]
  /\ len \in Int
  /\ mem \in Int
  /\ closed \in BOOLEAN
  /\ mode \in Modes
  /\ payload \in [Entries -> Payloads]
  /\ pc \in [Threads -> Locations]
  /\ at \in [Threads -> 0..NumShards]
  /\ victim \in [Threads -> Keys]
  /\ dmem \in [Threads -> Int]
  /\ dlen \in [Threads -> Int]
  /\ loop \in [Threads -> [limit : Int, left : 0..Backoff, freed : Int]]

\* Entries a thread has taken out of (negative) or put into (positive) a shard
\* and not yet told Map.len about.  Between the loads and the stores of
\* Shard::clear the entries are still there.
Pending(t) == IF pc[t] = "clr_zero" THEN 0 ELSE dlen[t]
Slots == Threads \X (1..Cardinality(Keys))
Due  == {c \in Slots : c[2] <= Pending(c[1])}
Owed == {c \in Slots : c[2] <= -Pending(c[1])}

\* Shard.len counts the entries of the shard in every state: the emptiness
\* tests of the eviction and refresh scans (sh.len() == 0) never skip a shard
\* that holds something.
ShardLenExact == \A s \in Shards : slen[s] = Cardinality(PresentIn(s))

\* Map.len is the number of entries in the map up to the calls in flight:
\* no interleaving of set, remove, clear and eviction loses or repeats a
\* count ("precise global counters", map.rs).
LenExact == len = Cardinality(Present) + Cardinality(Owed) - Cardinality(Due)

\* In listing mode every entry of a shard is in its LRU list, once, and the
\* list holds keys of that shard only: the tail-popping evictor can reach
\* every entry.  (The converse is false: a touch may race a removal.)
LruCoversItems ==
  Listing => \A s \in Shards :
    /\ PresentIn(s) \subseteq ToSet(lru[s])
    /\ \A k \in ToSet(lru[s]) : ShardOf[k] = s
    /\ IsInjective(lru[s])

BytesOf(S) == SumFunctionOnSet([k \in S |-> WeightOf(items[k])], S)
PendingBytes(t) == IF pc[t] = "clr_zero" THEN 0 ELSE dmem[t]

\* As long as replacing a payload does not change what the entry weighs, both
\* byte counters are exact up to the calls in flight.
WeightsFixed ==
  /\ \A e \in Mutable, p \in Payloads : Weight[p] = Weight[InitPayload[e]]
  /\ Deltas \subseteq {0}
MemExact ==
  WeightsFixed =>
    /\ \A s \in Shards : smem[s] = BytesOf(PresentIn(s))
    /\ mem + SumFunctionOnSet([t \in Threads |-> PendingBytes(t)], Threads) = BytesOf(Present)

\* Every call of the map returns: the eviction loop is bounded by its backoff
\* and nobody waits for a shard lock for ever.
CallsReturn == \A t \in Threads : pc[t] # "idle" ~> pc[t] = "idle"

-----------------------------------------------------------------------------
(* What the proofs add to make the invariants inductive *)

\* The lock of a shard is held exactly by the thread between the two halves
\* of Shard::clear.
LockHeldInClear ==
  \A s \in Shards, t \in Threads :
    lock[s] = t <=> (pc[t] = "clr_zero" /\ at[t] = s)

\* What a thread still owes Map.len, by where it is; in particular the count
\* that clear has loaded is still the count of the shard it holds.
LocalOK(t) ==
  /\ pc[t] \in {"ev_pop", "add_shard", "clr_zero", "clr_mem", "clr_len"}
       => at[t] \in Shards
  /\ pc[t] = "ev_pop" => Listing
  /\ pc[t] \in {"ev_pop", "ev_lock", "ev_mem", "ev_len"} => loop[t].left # 0
  /\ pc[t] \in {"set_mem", "set_len"} => dlen[t] \in {0, 1}
  /\ pc[t] \in {"rm_len", "ev_mem", "ev_len"} => dlen[t] = -1
  /\ pc[t] = "clr_zero" => dlen[t] = -slen[at[t]]
  /\ pc[t] \in {"clr_mem", "clr_len"} => -dlen[t] \in 0..Cardinality(Keys)
  /\ pc[t] \in {"idle", "rm_mem", "add_shard", "ev_check", "ev_pop",
                 "ev_lock", "clr_next"} => dlen[t] = 0
LocalsOK == \A t \in Threads : LocalOK(t)

IndInv ==
  /\ TypeOK
  /\ LockHeldInClear
  /\ LocalsOK
  /\ ShardLenExact
  /\ LenExact
  /\ LruCoversItems

\* What a thread still owes a byte counter, by where it is; the bytes that
\* clear has loaded are still the bytes of the shard it holds.
BytesOK(t) ==
  /\ pc[t] = "clr_zero" => dmem[t] = -smem[at[t]]
  /\ pc[t] \notin {"set_mem", "rm_len", "rm_mem", "ev_mem", "clr_zero", "clr_mem"}
       => dmem[t] = 0

\* No entry weighs anything but what it weighed when it was built.
WeightsStay == \A e \in Entries : WeightOf(e) = Weight[InitPayload[e]]

MemInv ==
  /\ MemExact
  /\ WeightsFixed => WeightsStay /\ \A t \in Threads : BytesOK(t)
=============================================================================
