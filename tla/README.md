# A TLA+ verification of adv-cache

adv-cache is an in-memory HTTP cache in front of one upstream. This directory
holds TLA+ modules that model it, TLC configurations that check them on
small instances, and TLAPS proofs of the most important results for every
instance. Paths like `db/storage/map.rs` are relative to the crate's `src/`.

Contents: [inventory](#inventory) · [modules](#modules) · [runs](#runs) ·
[proofs](#proofs) · [disagreements](#disagreements-with-the-documentation) ·
[limits](#limits) · [plan](#plan)

## Inventory

| Part | State it keeps | Operations | What makes it correct |
|---|---|---|---|
| Sharded map (`db/storage/map.rs`, `shard.rs`, `eviction.rs`) | 1024 shards: a hash map and an LRU list behind a lock, an entry and a byte counter each; global counters; round-robin index | set, get, remove, touch, add_mem, evict until within a limit (listing or sampling), clear | counters neither lose nor repeat an entry; every entry can be reached by the evictor; calls return |
| LRU list (`lru.rs`) | boxed nodes linked by raw pointers, head, tail, key index | move_to_front, push_front, remove, pop_tail, clear | well linked, nothing dangles or leaks, an order of keys |
| Refresh queue (`queue.rs`) | circular buffer | try_push, try_pop | bounded FIFO |
| Storage (`storage.rs`, `refresh.rs`, `model/*`) | the map, the entries (payload, freshness, refresh flag), limits | get, set (update, admission, hard eviction), remove, clear, soft evict, peek an expired entry, on_ttl (remove or refresh) | an entry only ever carries an answer to its own request; bytes are accounted for; only eligible entries are removed |
| Sketch (`db/admission/count_min_sketch.rs`) | packed 4-bit counters, window counter, aging flag | increment, estimate, aging | lanes stay apart, a window ages once, no undercounting, increments end |
| TinyLFU (`tiny_lfu.rs`, `door_keeper.rs`) | sharded doorkeepers and sketches | record, allow | one-hit wonders stay out, newcomers win in the end, hot victims stay |
| Upstream client (`upstream/*`) | health flag, semaphore, rate limiters, policy | request, proxy_request, refresh, health observer, change of policy | permits come back, requests end, at most `concurrency` at once, the flag follows the upstream |
| Governor (`governor/*`) | a registry of services behind one mutex; per service one channel of one slot for each signal | start, on, off, scale, reload, stop, cfg | a signal is delivered or refused, never mixed up |
| Evictor (`workers/evictor/*`) | stored configuration, worker token, count of workers, providers | the signal loop, reload, worker, provider | workers as configured after a reload, reloads end, pressure is relieved, all ends at shutdown |
| Lifetime manager (`workers/lifetimer/*`) | the same, one join set, a lock around the token, the task channel | the same; the provider takes from the refresh queues or scans | one provider at a time, no deadlock on the lock, expired entries are handled |
| Lifetimes (`model/refresh.rs`, `model/timestamps.rs`, `controller/invalidator.rs`) | time of the last update, refresh flag of an entry | expiry tests, touch, invalidate | an expired entry does not stay expired |
| Shutdown (`main.rs`, `shutdown/mod.rs`, `app/*`, `db/db.rs`) | token, counter of tasks, timeout | await_shutdown, serve, run, close | close returns; a dump is written |
| Dumper (`db/persistance/dumper.rs`) | version directories, shard files | dump, rotate, load | a crash leaves a loadable version; load restores what dump wrote |
| Cache proxy (`controller/cache.rs`, `bypass.rs`) | the counters of a window, the metrics, a clone of the configuration | serve from cache or proxy, retry through the proxy, report | requests end and are counted right; the answer belongs to the request |
| Clear (`controller/clear.rs`) | token and its expiry behind a lock | ask for a token, confirm it | a token clears once |
| Other control plane (`controller/*`, `config/*`) | flags of the configuration | switches, getters, metrics | a switch reaches what it switches |

How the parts interact. A request handler asks the storage for an entry, on a
miss the upstream for an answer, and gives the answer to the storage, which asks
the admission filter and may evict before it stores. A hit on an expired entry
puts its key into the refresh queue of its shard. The lifetime manager peeks
expired entries (queues first, then a bounded scan) and hands them to workers that
remove or refresh them; the evictor's workers evict above the soft limit. All of
them run as tasks on a multi-threaded runtime and meet only in the shard locks
and in atomics.

What is hard, and hardly tested: counters changed outside the lock that guards
what they count; entries used after the map has dropped or replaced them (across
an `await` of the upstream, or a channel); keys that collide; bounded
compare-and-swap loops; permits and timeouts; reloads that race the tasks they
replace. `PROJECT.json` lists these hazards one by one with the properties that
cover them.

## Modules

| Module | Models | Notes |
|---|---|---|
| `ShardedMap` | `map.rs`, `shard.rs`, `eviction.rs` | one step per critical section and per access to a global counter; a thread between two steps owes the counters `dmem` and `dlen` |
| `LruOrder` | what an LRU list promises | shared by `ShardedMap` and `LruSpec` |
| `ShardKeys` | the keys of a shard | shared by `LruList` and `RefreshQueue` |
| `LruList`, `LruSpec` | `lru.rs` and its abstraction | pointers, addresses that are reused; `ImplementsOrder` is the refinement |
| `RefreshQueue`, `FifoSpec` | `queue.rs` and its abstraction | `ImplementsFifo` is the refinement; checked with the users of the queue in `RefreshCycle` |
| `Storage` | `storage.rs`, `refresh.rs`, the atomics of an entry | extends `ShardedMap`; `op[t]` is where a storage call is, `pc[t]` where the call of the map it makes is; `ImplementsMap` is the refinement |
| `SketchLayout` | counters packed into words: places, lanes, what a mask does to the lanes | shared by `Sketch` and `TinyLfu`; widths are constants |
| `Sketch` | `count_min_sketch.rs` | words are packed integers, as in the code; one step per atomic access |
| `TinyLfu` | `tiny_lfu.rs`, `door_keeper.rs` | a call is a step; hash mixing is a constant |
| `Upstream` | `backend.rs`, `backend_hyper_impl.rs`, `upstream.rs` | environment: the upstream's health, a body that may stall |
| `Governor` | `governor/*` and the calls that reach it, for one service | extended by `Evictor` and `LifetimeManager` |
| `Evictor` | `workers/evictor/evictor.rs`, `controller/evictor.rs` | extends `Governor` |
| `LifetimeManager` | `workers/lifetimer/lifetimer.rs`, `controller/lifetimer.rs` | extends `Governor`; the tasks only as a number |
| `RefreshCycle` | what the lifetime manager works on: hit, queue, scan, task channel, worker, `on_ttl`, invalidation, policy switch, with a clock | extends `RefreshQueue`; calls of the storage are single steps |
| `Persistence` | `dumper.rs`, `DB::run`, `DB::close`, `main.rs`, `App::serve`, the server's bind and shutdown | several lives of the process, a file system, I/O errors, kills |
| `CacheProxy` | `controller/cache.rs`, `bypass.rs`, `clear.rs` | storage and upstream reduced to what a handler sees |
| `MC*` | instances for TLC | constants as functions of model values, symmetry sets |
| `*Proofs` | theorems | see [proofs](#proofs) |

Names ending in `_Something` next to a definition (`Free_Ignored`) are plausible
bugs of that definition; `PROJECT.json` pairs each property with one that breaks it.

### Correspondence

*Sharded map.* `items` joins the hash maps of all shards; `lru`, `slen`, `smem`
and `lock` are per shard; `len` and `mem` are the map's atomics. Only
`Shard::clear` holds the lock over two steps, because `add_mem` writes the byte
counter without it; every other critical section is one step, so `lock` is free
between steps unless a clear is under way. An entry is an `Arc`: `payload` maps
every entry to its payload whether or not the map holds it. The next shard of a
scan is any shard, as the round-robin index is shared by all scans. `closed` is
the storage's shutdown token, which makes `clear` stop between two shards; `mode`
is chosen when the map is made.

*Storage.* `set`, `update`, `touch`, `on_ttl` are sequences of steps, one for
each access to the map or to an atomic of an entry. Time is abstract: an entry
that was stored becomes stale at any moment, and the sampling scan may return any
entry (its test is a random choice that starts at a fraction of the TTL). What
the filter answers is a free choice. Refresh is modelled with its await: between
the weight before it and the weight after it anything may happen.

*Sketch, TinyLFU.* `seen` and `freq` are history variables that the code does not
have. *Upstream.* `recent` is one too. A handler that is dropped half-way gives
its permit back through the same destructor and is not modelled there.

*Governor.* `chan` has one slot per signal, as in `transport.rs`; `try_send` is
repeated without a pause, so that a full channel refuses the signal. `call` is
where an HTTP call stands: it sends, then answers with `cfg`. That reads the
configuration with `blocking_read`, which panics on a thread that drives async
tasks, while the mutex is held: `poisoned`. `closing` is the shutdown token, then
`stop_all`. `reload` is a signal of the code that nothing can send: the only
endpoint that would (`rate`) reads the configuration first and panics.

*Evictor, LifetimeManager.* `loop` is the task of the service: it takes any ready
signal (the guards of `Taken` are `select!`'s branches) and goes through a reload
in as many steps as another task can come between. `ctx` numbers the worker
tokens; those with smaller numbers are cancelled. `providers` keeps every provider
ever spawned, since the evictor's outlive a reload: a provider reads the token
anew in every turn (`tok = 0` before the first). The bounds on these two,
`MaxSpawns`, follow from the calls. In `LifetimeManager` a provider `at = "wait"`
holds the read guard. A worker `at = "refresh"` waits for the rate limiter and for
the headers of the answer, which come or time out; `at = "body"` it reads the body,
and watches neither its token nor a clock.

*RefreshCycle.* `age` counts ticks since `updated_at`. The hit tests the global
TTL, the scan the rule's TTL times the coefficient: two constants, so that they
may disagree as in the code, in either direction. A scan looks at `MaxSeen` entries
(512), stops after `Sample` hits (32) and returns the stalest of them; it takes the
shards in turn, each from its start, but the index of the turn is shared with the
queue's and the evictor's, so that `Provide` lets it come up with any entry that its
test may pass. What it does come up with in the end is a matter of fairness:
`ScanFits` and `Stalest` say when it cannot miss an entry for good. A task carries the entry, not the key; `own` says
whether the shard still holds that entry. `flag` is `refresh_queued`, which a
failed refresh and a full task channel leave set.

*Persistence.* A directory is its number and a set of files, in the order of
modification times, which is the order `load` and rotation use. A file is `tmp`
until it is renamed. `Crash` may come at any step and leaves `dirs` as they are.
`torn` records a `remove_dir_all` that was interrupted: the directory left behind
has the newest modification time.

*CacheProxy.* A request `in` has been counted and not yet dispatched; `fetch` and
`proxy` are the awaits at which `TimeoutLayer` may drop it. `Report` takes one
counter a step. A call of the clear endpoint reads the time before it waits for the
lock: `stale` is the token that had expired by then. `on` is the `enabled` flag of two clones of the configuration.

## Runs

Every run is listed in `PROJECT.json`; the bounds and why they suffice:

| Run | Bounds | Why these |
|---|---|---|
| `map` | both modes, 2 threads, 3 keys in 2 shards, 4 entries of 2 weights, 1 failed attempt of the evictor | two entries share a key (replacement), two keys share a shard (LRU order), a shard of its own (clear between shards); each hazard needs two calls; an evictor meets an empty shard, a key that is gone and its last attempt; in sampling mode its pick and its removal are two steps another thread comes between |
| `storage`, `storage_drift` | 2 threads, 2 keys, 4 entries, 3 requests of which two collide, 4 calls (3), the map in sampling (listing) mode | a set, a colliding set, a peek and a remove fit into one behaviour |
| `lru_list` | 3 keys, 4 addresses | first, middle and last node; one spare address for reuse |
| `sketch` | 2 threads, 2-bit lanes, 2 per word, 2 words, 2 tries, window of 3 | two lanes show every carry; two tries show the retry and the giving up; a window of 3 saturates a lane |
| `tiny_lfu` | 3 hashes that overlap in door and sketch, each with a bit of its own | shared bits and shared counters happen |
| `upstream` | 2 requests, 1 permit | more requests than permits |
| `evictor`, `lifetimer` | start-up (start, on) and 1 call, at most 2 workers, 1 slot for tasks | up to three reloads overlap with three generations of workers and providers; scaling down to 0, up and to the same number |
| `refresh_cycle` | 2 keys that may be refreshed: the scan may pick one before it has expired, the other only 2 ticks after; ring of 2 slots, clock to 3, TTL 1, scan of 2 entries and 1 hit, 1 worker, 1 slot for tasks | the queue fills and goes around its end (how longer rings keep their order is proved), the channel is full, two stale entries do not fit the scan and one does, entries are replaced while a task holds them, a request hangs |
| `persistence` | 2 shards, 1 version kept, 3 lives of which the first has left a finished dump, 1 I/O error | a finished dump, one that dies at any step or rotates, and a life that loads; two files make a partial directory |
| `cache_proxy` | 2 requests, 2 keys of which one has a rule, 2 operators, 2 tokens, 1 report of all counters | hit, miss, retry and proxy come between the halves of a report; a token is asked for or confirmed at a time that is out of date when the lock is granted, while a second token is made; the cache is cleared under a request |

Counters that grow without end are capped: `MaxCalls` (storage calls of a
behaviour), `MaxAdds` (the window counter of a sketch), `Top` for the histories,
`MaxAge` (ages beyond it are alike to every test), `MaxRuns` and `MaxFaults`,
`MaxTokens` and `MaxReports`.

The `TurnsSpec` of `Storage` and of `Sketch` adds a history variable `overlapped`, true
once two calls have been in flight at the same time: `SequentialMemSettled` and
`SequentialNeverUndercounts` are what the code promises of calls that take turns,
and in the same run everything else is checked of calls that do not.
`storage_drift` shows that the first of them needs its premise.

Fairness. `map` assumes strong fairness of each thread inside a call: a
thread keeps running and parking_lot's eventual fairness grants a lock that is
free again and again. `upstream` assumes that tokio's semaphore is fair (it is FIFO), that
the limiters have tokens again, that the timeout fires, and that bodies end,
which the code does not enforce. `tiny_lfu` assumes that requests keep coming.
`evictor` and `lifetimer`: tokio runs every task that is ready (weak fairness); a
`select!` draws its branch at random, so that a token that stays cancelled is seen
in the end (strong fairness of the quits); not every eviction fails. A refresh gets
as far as its body in the end, by the timeout; nothing is assumed of the body, and
`ReloadsEnd` and `ShutdownJoins` of `LifetimeManager` state the premise they need:
`BodiesEnd`, no worker reads one body forever. Nothing is
assumed of the operator, who may stop calling, nor of the memory pressure.
`refresh_cycle`: the clock ticks, the tasks run, and of the requests for an entry
that end not all fail; that they end is not assumed. The scan's test is a draw that
succeeds again and again for each entry past its rule's threshold; where what is
cached fits the scan, the entry is then found if no other is staler. `ExpiredHandled` has
the premise that again and again the queue has nothing due (queued keys go before
the scan), the channel has room (which it has not once all workers hang) and the
cached entries fit the scan (`ScanFits`): without the last TLC refutes it. `persistence`: the
app's task is scheduled; blocking I/O may hang, writers and load may never be
scheduled. The other runs check safety only.

## Proofs

`StorageProofs`, part 1, the map (from `MapConstants`; any threads, keys, shards,
entries):

* `MapInvariant`: `Spec => []IndInv`. `LenExact` alone is not inductive: what a
  thread owes `Map.len` depends on where it is, and `clear` owes a count it has
  loaded before it empties the shard. `IndInv` adds `LocalsOK` (what `dlen` may be
  at each location, in particular that a clear's count is still the shard's) and
  `LockHeldInClear` (the lock is held exactly between the two halves of a clear,
  which is why that count stays right), besides `TypeOK`, `ShardLenExact`,
  `LenExact` and `LruCoversItems`. The debts are counted as the cardinality of a
  set of slots (`Due`, `Owed`), so that one step changes it by the slots of one
  thread; the lemmas about them and about `Unlink`, `MoveToFront` come first.
* `MapTypes`, `ShardLenAlwaysExact`, `LenAlwaysExact`, `LruAlwaysCovers`: its parts.
  The first two, like the types of `Storage` and `Upstream`, are proved and in no run.
* `MemAlwaysExact`: `Spec => []MemExact`, on top of `IndInv`, with `MemInv`:
  `WeightsStay` (no entry weighs anything but what it weighed when it was built,
  which is what `WeightsFixed` buys) and `BytesOK` (where a thread owes bytes, and
  that the bytes a clear has loaded are still those of the shard it holds). Every step
  moves the byte counters in one of four ways (`BytesMove`), and for each of them
  the sums move by as much. What sums over finite sets of any size do (`SumTake`,
  `SumSplit`, `SumPoint`) is proved first, from the library's fold: induction over the size
  of a set is done with the least number a claim is false of (`SetInduction`, from
  `WFMin` and `NatLessThanWellFounded`), which needs no operator as a parameter.

`StorageProofs`, part 2, the storage (adding `StorageConstants`):

* `StorageTypes`: `StorageSpec => []StorageTypeOK`.
* `StorageImplementsMap`: `StorageSpec => Spec`: every storage step is a step of
  the map or leaves it alone. `StorageLenExact` then carries the counter over.
* `AnswersAlwaysMatch`: the invariant needed besides the property is that an update
  only ever pairs entries of the same fingerprint (`SameRequest`).

`StorageProofs`, part 3, calls that take turns:

* `TurnsSettleMem`: `TurnsSpec => []SequentialMemSettled`. Here weights change, in place
  and by a refresh, so the counters are no longer sums that each step keeps: a call
  moves a weight first and settles the counters some steps later. As long as nobody
  overlaps, one call is in flight at most (`AtMostOne`), and `Balanced` says that both
  counters are exact up to what that call owes: `Unsettled` by the stage of the storage
  call, `MapOwes` and `ShardOwes` by the place in the map's. That this debt stays right needs `Working` and `InPlace`: the entry the call
  works on is still in the map, and the weights it has read are still true, which is
  just what a second call would spoil (`storage_drift`). The bytes of a shard and of
  the map are sums of `Load` over fixed sets of keys, so that a change of one key moves
  both by as much (`Reload`, `Moves`), and a clear moves a whole shard (`Emptied`).

`ContainerProofs`, part 1, the list (from `ListConstants`; any keys, any addresses, at least as many):

* `AlwaysWellLinked`: `ListSpec => []WellLinked`, from `ListInv`: the links go through the
  addresses of one sequence without repetition (`Linked`), those are the boxes
  allocated, and the hash map has each under its key (`Indexed`). The pointer helpers
  turn a list linked along `q` into one linked along `<<n>> \o q` (`PushLinked`) and
  `RemoveAt(q, i)` (`RemoveLinked`), at either end as in the middle; a walk along the
  links yields the sequence, forth and back (`WayIs`, `Ways`), by induction on the
  steps with `SetInduction`.
* `ListImplementsOrder`: `ListSpec => ImplementsOrder`. The abstract list is the keys of
  that sequence; it has no key twice because `Indexed` makes keys and boxes one to
  one, so unlinking a node is unlinking its key (`UnlinkPlace`, `KeysRemove`).

`ContainerProofs`, part 2, the queue, for every `Size >= 2`: `RingImplementsFifo` (`QueueSpec =>
ImplementsFifo`): the slots between tail and head, taken around the end, are the
content of the queue. `RefreshCycleTypes` and `CycleKeepsFifo` say the same, and the
types, of the queue among its users (`RefreshCycle`): every other step leaves the
ring alone.

`UpstreamProofs` (from `UpstreamConstants`; any requests and permits):

* `UpstreamInvariant`: `Spec => []IndInv`. `TypeOK` and `PermitsConserved` follow
  from the moves of one request at a time (`Moves`); the health flag needs
  `ResultsCounted`: as many of the last results are failures (successes) as the
  observer has counted, only one of its counters is in use at a time, and the flag
  is the negation of `down`. `Window` says what the history `recent` holds.
* `UpstreamPermits` and, as an action property, `UpstreamTurnsSlowly`.

`CacheProxyProofs` (any requests, operators, tokens): `ProxyTypes`,
`CountsAlwaysAddUp`, `TokensClearOnce`, from `IndInv`. The counters need to know that
`total` counts who has arrived, and that nobody is retried or failed before the place
where that happens (`RequestsOK`): a step then moves one request and its counters
together. The tokens need `TokensOK`: they are numbered as they are made, and one
that has cleared is below the one in force.

`EvictorProofs`, `LifetimeManagerProofs` (any bounds, workers and calls): the types,
`WorkersSettle`, `LastProviderAlwaysServes`, `ReloadsSettle`. The properties speak of
the loop waiting for signals; `WorkersOK` says what holds of workers, token and
configuration at every other place of a reload, in particular that the token is
replaced only when no worker is left. `LastWatches` and `ProvidersOK` say which token
a provider can be waiting for.

`PersistenceProofs` (any shards, versions kept, lives and faults):
`PersistenceTypes`, `LoadsSeeWholeFiles`, `DumpsStayApart`, `DumpsSurvive`,
`RestartsRestore`. The inductive invariant says which tasks may run at once
(`StagesOK`: writers and a removal never), that the directory of the dump under way
is its alone (`DumpsOK`), that unless a removal was given up the directories stand in
the order of their numbers and those about to be removed are not among the last
`MaxVersions` (`OrderOK`), what an ended writer has left (`WrittenOK`), and that a load
reads the last dump (`LoadOK`). Rotation takes directories by modification time and
dumps are numbered by the greatest number on disk: `OrderOK` ties the two together.
The greatest number of a finite set exists by `WFMin` again (`MaxProps`).

`AdmissionProofs` (from `LayoutConstants`, `SketchConstants`, `LfuConstants`; any
threads, lane widths, lanes per word, words, tries, windows and hashes):

* Part 1 is about packed counters: the lanes of a word are its digits to the base of
  a lane, so that adding one at a place changes that lane and no other while it has
  room, and halving all lanes is shifting the word and masking what came down. Powers
  of two are a function by recursion on the exponent; what is needed of them is proved
  with `SetInduction` once more.
* `SketchSafe`: `Spec => []SketchInv`: the types, `Roomy` (a thread that is about
  to swap in a word has seen room in the lane) and `AgingInv` (`aging_active`
  works as a lock, and who halves has seen a full window under it). From it `AgesOncePerWindow` (`AgingEarned`) and, as an
  action property, `LanesStaySeparate` (`LaneSteps`).
* `TurnsNeverUndercount`: `TurnsSpec => []SequentialNeverUndercounts`. Between the first
  word halved and the last, the counters and the history disagree: the invariant keeps
  a floor under each lane, halved once the aging has passed its word. `MaxAdds`, the
  cap on the window counter, is assumed to be at least the window.
* `DoorKeepsOneHitWondersOut` (`OneHitWondersStayOut`): a bit that is set in the door
  was set by a hash that was recorded (`DoorOK`), and where the door separates the
  hashes, a counter above zero counts a hash that was recorded twice (`CountOK`).

Every safety property and every refinement of the passing runs is thus a theorem. Only
model-checked: liveness (`CallsReturn`, `NewcomersWin`, `RequestsReturn`,
`HealthFollows`, `ReloadsEnd`, `PressureRelieved`, `ShutdownEnds`, `ShutdownJoins`,
`ExpiredHandled`, `CloseReturns`), which is out of TLAPS's reach.

## Disagreements with the documentation

One is a run that TLC must refute; `PROJECT.json` quotes the lines.

* `storage_drift`: an update or a refresh of an entry that is removed meanwhile
  leaves the byte counters wrong ("precise global counters").

Met while modelling, visible in the modules, and without a run of their own.

Storage, admission, upstream:

* `TtlRemove` (`Storage`): in remove mode `on_ttl` removes by key whatever entry
  holds the key by now, also a fresh one that took the place of the expired entry.
* `Aged` (`TinyLfu`): aging halves the counters only; `tiny_lfu.rs` says of the
  doorkeeper "reset with sketch aging". After long enough traffic the door lets
  everything pass; `OneHitWondersStayOut` is about the time before
  (`DoorSeparates`).
* `TinyLfu`: `allow` looks the victim up in the candidate's shard, so that a victim
  of another shard counts as never seen there (`tiny_lfu_test.rs` expects a hot
  victim to stay, with one shard).
* `Upstream`: the permit goes back before the request is sent, so that
  `concurrency` does not bound the requests in flight; the timeout covers the
  headers and not the body; only 200 is healthy (`ProbeBody`), while the
  repository's README says "2xx = healthy".
* `lru.rs` says that nodes are only deallocated in `Drop`; `remove`, `pop_tail` and
  `clear` free them too, and rightly so (`WellLinked`).

Workers and lifetimes:

* `Governor`: every status call of a worker's controller panics under the mutex and
  poisons it; from then on no signal can be sent. `ShutdownEnds` and
  `ShutdownJoins` hold all the same, by the shutdown token. The endpoint of the
  rate panics before it sends its reload, so that the rate cannot be changed.
* `Evictor`: providers outlive the reload that replaces them and keep the
  configuration they were started with; `LastProviderServes` is about the last one
  only, and nothing promises that there are no others.
* `RefreshCycle`: an entry that a full channel drops, or whose refresh fails, stays
  marked as queued and is never queued again by a hit ("will be picked up later");
  only the scan saves it. Invalidating an entry whose rule has no TTL makes it
  younger, not older; and the scan of an invalidation misses what is stored behind it.
* `peek_expired` (`db/storage/refresh.rs:60`) goes through each shard's hash map from
  its start, in an order that stays while the map does, and ends the call after 512
  entries or 32 hits. An entry past the 512th of its shard is never looked at. Where
  every shard holds more than that, a call moves the shared index by two (once for
  the queues, once for the one shard it scans), so that half of the shards are never
  scanned unless the evictor moves the index as well. Line 59 says "ensuring entries
  are refreshed before full TTL expiration". With at most 512 entries cached a call
  goes through 512 of the 1024 shards and moves the index by 513, and every shard's
  turn comes: hence the premise `ScanFits`.
* `LifetimeManager`: a body that stalls holds its worker, and with it the `join_next`
  of a reload (`lifetimer.rs:264`) and of the close (line 464): `BodiesEnd` is a
  premise, not something the code sees to.

Persistence and shutdown:

* There is no periodic dump, although the repository's README says "Enable
  periodic dump": the only dump is that of `DB::close`.
* `load` takes the directory with the newest modification time and falls back to no
  other: an incomplete dump hides a complete one, and so does a directory whose
  removal was interrupted (the premise `torn # "left"`).
* A bind that fails leads to a dump of an almost empty memory, which may rotate a
  good one away. A shutdown during the load dumps what has been loaded so far. The
  load may overwrite entries that requests have stored meanwhile.
* `done()` gives its permit back, so that the wait for tasks returns at once: the
  process may end before close and dump do. SIGTERM is not handled.

Handlers:

* The bypass switch sets the flag of its own clone of the configuration, which the
  proxy never reads (`Bypass` changes `on["bypass"]`, `ToProxy` reads
  `on["proxy"]`); the repository's README says "all requests go to upstream".
* A wrong clear token voids the right one that is pending.

## Limits

*Not modelled.* The byte layout of payloads and keys, HTTP parsing, headers and
rendering, parsing and defaults of the configuration, middleware (compression,
panic recovery), the Kubernetes probe, mock data, metrics beyond the counters of
the proxy, traces and logs: they keep no state that others depend on. The switches
of admission, compression and traces set one flag each. Code that nothing reaches:
the channels that stop a single worker (`down_one`), the `reload` signal, loading a
given version. Of the dump: gzip, admission control on load, and what a loss of
power leaves on disk (the code syncs nothing).

`RestartRestores` is about what the load brings back: evictor, TTL and clear, which
may remove it again, are not part of `Persistence`. That the clear endpoint refuses
an expired token is in the guard of `Clear` and not a property of its own.

Memory ordering is sequentially consistent in the models; the code uses relaxed
atomics for counters, which are independent of each other and read only as hints.
Overflow of the 64-bit counters is out of reach of any run.

## Plan

Done: the map, its list and queue, the storage, admission, upstream, the governor
and its two services, lifetimes, persistence and shutdown, the handlers.

All safety properties are proved. Left are larger instances for the liveness
properties, where time allows: two calls in `evictor` and `lifetimer`.
