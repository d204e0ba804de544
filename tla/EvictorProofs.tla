---------------------------- MODULE EvictorProofs ---------------------------
(***************************************************************************)
(* Proofs about the eviction workers, for any number of calls and any      *)
(* number of replicas.                                                     *)
(***************************************************************************)
EXTENDS Evictor, FiniteSetTheorems, SequenceTheorems, TLAPS

-----------------------------------------------------------------------------
(* The governor *)

LEMMA ChannelTypes ==
  ASSUME GovernorTypeOK, NEW s \in Signals, NEW v \in Replicas
  PROVE  /\ Sent(s, v) \in [Signals -> {<<>>} \cup {<<n>> : n \in Replicas}]
         /\ Received(s) \in [Signals -> {<<>>} \cup {<<n>> : n \in Replicas}]
BY DEF GovernorTypeOK, Sent, Received, Room

\* Whoever sends: the types hold on, and a shutdown is for good.
LEMMA GovernorStep ==
  ASSUME GovernorTypeOK,
         \/ BootStart \/ BootOn(cfg.enabled) \/ CancelShutdown \/ StopAll
         \/ \E c \in Calls : \/ \E s \in Signals, v \in Replicas : SendSignal(c, s, v)
                             \/ \E from \in {"idle", "answer"} : ReadConfig(c, from)
  PROVE  GovernorTypeOK' /\ (Shutdown => Shutdown')
<1>0. 0 \in Replicas /\ {"start", "on", "stop"} \subseteq Signals
  BY GovernorConstants DEF Replicas, Signals
<1>1. CASE BootStart
  BY <1>0, <1>1, ChannelTypes DEF BootStart, GovernorTypeOK, Shutdown
<1>2. CASE BootOn(cfg.enabled)
  BY <1>0, <1>2, ChannelTypes DEF BootOn, GovernorTypeOK, Shutdown
<1>3. CASE CancelShutdown
  BY <1>3 DEF CancelShutdown, GovernorTypeOK, Shutdown
<1>4. CASE StopAll
  BY <1>0, <1>4, ChannelTypes DEF StopAll, GovernorTypeOK, Shutdown
<1>5. ASSUME NEW c \in Calls, NEW s \in Signals, NEW v \in Replicas, SendSignal(c, s, v)
      PROVE  GovernorTypeOK' /\ (Shutdown => Shutdown')
  BY <1>5, ChannelTypes DEF SendSignal, GovernorTypeOK, Shutdown
<1>6. ASSUME NEW c \in Calls, NEW from \in {"idle", "answer"}, ReadConfig(c, from)
      PROVE  GovernorTypeOK' /\ (Shutdown => Shutdown')
  BY <1>6 DEF ReadConfig, GovernorTypeOK, Shutdown
<1> QED
  BY <1>1, <1>2, <1>3, <1>4, <1>5, <1>6

-----------------------------------------------------------------------------
(* Counting workers *)

Up == {w \in Workers : Alive(w)}

LEMMA UpFinite ==
  /\ IsFiniteSet(Up) /\ Cardinality(Up) \in 0..MaxReplicas
  /\ Cardinality(Up) = 0 => Up = {}
  /\ \A w \in Up : Cardinality(Up \ {w}) = Cardinality(Up) - 1
<1>1. IsFiniteSet(Workers) /\ Cardinality(Workers) = MaxReplicas
  BY GovernorConstants, FS_Interval DEF Workers
<1>2. IsFiniteSet(Up) /\ Cardinality(Up) <= MaxReplicas
  BY <1>1, FS_Subset DEF Up
<1>3. Cardinality(Up) \in Nat
  BY <1>2, FS_CardinalityType
<1>4. Cardinality(Up) = 0 => Up = {}
  BY <1>2, FS_EmptySet
<1>5. \A w \in Up : Cardinality(Up \ {w}) = Cardinality(Up) - 1
  BY <1>2, FS_RemoveElement
<1> QED
  BY <1>2, <1>3, <1>4, <1>5, GovernorConstants

\* A reload starts as many workers as it is to, and numbers them from 1.
LEMMA StartedWorkers ==
  ASSUME NEW n \in Replicas
  PROVE  /\ {w \in Workers : Started(n)[w].at # "gone"} = 1..n
         /\ Cardinality(1..n) = n
         /\ \A w \in Workers : Started(n)[w].at # "gone" => Started(n)[w].tok = ctx
<1>1. Cardinality(1..n) = n
  BY FS_Interval DEF Replicas
<1>2. 1..n \subseteq Workers
  BY GovernorConstants DEF Workers, Replicas
<1>3. \A w \in Workers : Started(n)[w] = IF w <= n THEN [at |-> "up", tok |-> ctx, tasks |-> 0] ELSE Gone
  BY DEF Started
<1>4. \A w \in Workers : Started(n)[w].at # "gone" <=> w <= n
  BY <1>3 DEF Gone
<1>5. {w \in Workers : Started(n)[w].at # "gone"} = 1..n
  BY <1>2, <1>4 DEF Workers, Replicas
<1> QED
  BY <1>1, <1>3, <1>4, <1>5
-----------------------------------------------------------------------------
(* The steps *)

Rest == <<cfg, ctx, dead, worker, active, providers>>
WorkerSet == [Workers -> [at : {"up", "gone"}, tok : 0..ctx, tasks : {0, 1}]]
ProviderSeq == Seq([at : {"new", "wait", "gone"}, tok : 0..ctx, enabled : BOOLEAN])

LEMMA GovernorKeeps ==
  ASSUME IndInv, UNCHANGED evictorVars, GovernorTypeOK', Shutdown => Shutdown'
  PROVE  IndInv'
BY DEF IndInv, evictorVars, TypeOK, WorkersOK, LastProviderServes, LastWatches, Idle, Alive, Running

LEMMA TakeKeeps ==
  ASSUME IndInv, NEW s \in Signals, NEW change \in BOOLEAN, NEW new \in Config,
         Take(s, change, new)
  PROVE  IndInv'
<1>0. 0 \in Replicas
  BY GovernorConstants DEF Replicas
<1>1. GovernorTypeOK'
  BY <1>0, ChannelTypes DEF Take, IndInv, TypeOK, GovernorTypeOK
<1>2. /\ loop.at = "select" /\ loop' \in {loop, [at |-> "cancel", new |-> new]}
      /\ UNCHANGED <<Rest, over>> /\ Shutdown' = Shutdown
  BY DEF Take, Rest, Shutdown
<1>3. TypeOK'
  BY <1>1, <1>2 DEF IndInv, TypeOK, Rest
<1>4. WorkersOK'
  BY <1>2 DEF IndInv, WorkersOK, Rest, Alive
<1>5. LastProviderServes' /\ LastWatches'
  BY <1>2 DEF IndInv, LastProviderServes, LastWatches, Idle, Rest, Running
<1> QED
  BY <1>3, <1>4, <1>5 DEF IndInv

\* A signal brings a configuration.
LEMMA TakenKeeps == ASSUME IndInv, Taken PROVE IndInv'
<1>0. cfg \in Config /\ GovernorTypeOK /\ Signals = {"start", "on", "off", "scale", "stop"}
  BY DEF IndInv, TypeOK, Signals
<1>1. CASE TakeStart
  BY <1>0, <1>1, TakeKeeps DEF TakeStart
<1>2. CASE TakeOn
  <2>1. SetEnabled(cfg, TRUE) \in Config /\ (~cfg.enabled) \in BOOLEAN
    BY <1>0 DEF SetEnabled, Config
  <2> QED
    BY <1>0, <1>2, <2>1, TakeKeeps DEF TakeOn
<1>3. CASE TakeOff
  <2>1. SetEnabled(cfg, FALSE) \in Config /\ cfg.enabled \in BOOLEAN
    BY <1>0 DEF SetEnabled, Config
  <2> QED
    BY <1>0, <1>3, <2>1, TakeKeeps DEF TakeOff
<1>4. CASE TakeScale
  <2> DEFINE n == Head(chan["scale"])
  <2>1. PICK m \in Replicas : chan["scale"] = <<m>>
    BY <1>0, <1>4 DEF TakeScale, GovernorTypeOK
  <2>2. n \in Replicas
    BY <2>1
  <2>3. SetReplicas(cfg, n) \in Config /\ (cfg.replicas # n) \in BOOLEAN
    BY <1>0, <2>2 DEF SetReplicas, Config
  <2>4. Take("scale", cfg.replicas # n, SetReplicas(cfg, n))
    BY <1>4 DEF TakeScale
  <2> HIDE DEF n
  <2> QED
    BY <1>0, <2>3, <2>4, TakeKeeps
<1> QED
  BY <1>1, <1>2, <1>3, <1>4 DEF Taken

\* EndLoop, CancelWorkers and Drain only move on.
LEMMA LoopKeeps == ASSUME IndInv, EndLoop \/ CancelWorkers \/ Drain PROVE IndInv'
<1>1. /\ UNCHANGED <<governorVars, cfg, ctx, worker, active, providers, over>>
      /\ loop' = [loop EXCEPT !.at = loop'.at] /\ loop'.at \in {"ended", "drain", "replace"}
      /\ dead' \in BOOLEAN /\ (dead' <=> loop'.at \in {"drain", "replace"})
      /\ loop'.at = "replace" => active = 0
  <2>0. loop \in [at : {"select", "cancel", "drain", "replace", "restart", "provide", "ended"}, new : Config]
        /\ dead \in BOOLEAN /\ (dead <=> loop.at \in {"drain", "replace"})
    BY DEF IndInv, TypeOK, WorkersOK
  <2>1. CASE EndLoop
    <3>1. dead = FALSE /\ dead' = FALSE
      BY <2>0, <2>1, Zenon DEF EndLoop
    <3> QED
      BY <2>0, <2>1, <3>1 DEF EndLoop, Go
  <2>2. CASE CancelWorkers
    BY <2>0, <2>2 DEF CancelWorkers, Go
  <2>3. CASE Drain
    BY <2>0, <2>3 DEF Drain, Drained, Go, IndInv, WorkersOK
  <2> QED
    BY <2>1, <2>2, <2>3
<1>2. TypeOK'
  BY <1>1 DEF IndInv, TypeOK, governorVars, GovernorTypeOK
<1>3. WorkersOK'
  BY <1>1 DEF IndInv, WorkersOK, Alive
<1>4. LastProviderServes' /\ LastWatches'
  BY <1>1 DEF LastProviderServes, LastWatches, Idle
<1> QED
  BY <1>2, <1>3, <1>4 DEF IndInv

\* The new token is watched by no worker: none is left.
LEMMA ReplaceTokenKeeps == ASSUME IndInv, ReplaceToken PROVE IndInv'
<1>1. /\ UNCHANGED <<governorVars, cfg, worker, active, providers, over>>
      /\ loop' = [loop EXCEPT !.at = "restart"] /\ loop'.at = "restart"
      /\ ctx' = ctx + 1 /\ ctx \in Nat /\ dead' = FALSE /\ active = 0
  BY DEF IndInv, TypeOK, WorkersOK, ReplaceToken, Go
<1>2. Up = {}
  BY <1>1, UpFinite DEF IndInv, WorkersOK, Up
<1>3. worker' \in WorkerSet'
  BY <1>1 DEF IndInv, TypeOK, WorkerSet
<1>4. providers' \in ProviderSeq'
  <2> DEFINE S(t) == [at : {"new", "wait", "gone"}, tok : 0..t, enabled : BOOLEAN]
  <2>1. 0..ctx \subseteq 0..ctx'
    BY <1>1
  <2>2. S(ctx) \subseteq S(ctx')
    BY <2>1
  <2>3. providers \in Seq(S(ctx)) /\ providers' = providers
    BY <1>1 DEF IndInv, TypeOK
  <2> HIDE DEF S
  <2>4. providers' \in Seq(S(ctx'))
    BY <2>2, <2>3, SeqMonotonic
  <2> QED
    BY <2>4 DEF ProviderSeq, S
<1>5. TypeOK'
  <2>1. GovernorTypeOK' /\ cfg' \in Config /\ over' \in BOOLEAN /\ dead' \in BOOLEAN
    BY <1>1 DEF IndInv, TypeOK, governorVars, GovernorTypeOK
  <2>2. /\ loop' \in [at : {"select", "cancel", "drain", "replace", "restart", "provide", "ended"}, new : Config]
        /\ ctx' \in Nat /\ active' \in 0..MaxReplicas
    BY <1>1, GovernorConstants, SMTT(30) DEF IndInv, TypeOK
  <2> QED
    BY <1>3, <1>4, <2>1, <2>2 DEF TypeOK, WorkerSet, ProviderSeq
<1>6. WorkersOK'
  BY <1>1, <1>2 DEF IndInv, WorkersOK, Alive, Up
<1>7. LastProviderServes' /\ LastWatches'
  BY <1>1 DEF LastProviderServes, LastWatches, Idle
<1> QED
  BY <1>5, <1>6, <1>7 DEF IndInv

LEMMA RestartKeeps == ASSUME IndInv, Restart PROVE IndInv'
<1> DEFINE n == loop.new.replicas
<1>1. /\ UNCHANGED <<governorVars, ctx, dead, providers, over>>
      /\ loop' = [loop EXCEPT !.at = "provide"] /\ loop'.at = "provide" /\ loop.at = "restart"
      /\ cfg' = loop.new /\ cfg' \in Config /\ n \in Replicas
      /\ worker' = Started(n) /\ active' = active + n /\ active = 0 /\ ctx \in Nat
  BY DEF IndInv, TypeOK, WorkersOK, Restart, Go, Config
<1> HIDE DEF n
<1>2. active' = n /\ active' \in 0..MaxReplicas
  BY <1>1 DEF Replicas
<1>3. worker' \in WorkerSet'
  BY <1>1 DEF Started, WorkerSet, Gone
<1>4. TypeOK'
  BY <1>1, <1>2, <1>3 DEF IndInv, TypeOK, governorVars, GovernorTypeOK, WorkerSet
<1>5. Up' = 1..n /\ Cardinality(1..n) = n /\ \A w \in Workers : Alive(w)' => worker'[w].tok = ctx'
  BY <1>1, StartedWorkers DEF Up, Alive
<1>6. WorkersOK'
  <2>1. cfg'.replicas = n
    BY <1>1 DEF n
  <2> QED
    BY <1>1, <1>2, <1>5, <2>1 DEF IndInv, WorkersOK, Up
<1>7. LastProviderServes' /\ LastWatches'
  BY <1>1 DEF LastProviderServes, LastWatches, Idle
<1> QED
  BY <1>4, <1>6, <1>7 DEF IndInv

LEMMA SpawnProviderKeeps == ASSUME IndInv, SpawnProvider PROVE IndInv'
<1> DEFINE p == [at |-> "new", tok |-> 0, enabled |-> cfg.enabled]
<1>1. /\ UNCHANGED <<governorVars, cfg, ctx, dead, worker, active, over>>
      /\ loop' = [loop EXCEPT !.at = "select"] /\ loop'.at = "select" /\ loop.at = "provide"
      /\ providers' = Append(providers, p) /\ cfg \in Config /\ ctx \in Nat
      /\ providers \in ProviderSeq
  BY DEF IndInv, TypeOK, SpawnProvider, Spawned, Go, ProviderSeq
<1>2. p \in [at : {"new", "wait", "gone"}, tok : 0..ctx, enabled : BOOLEAN]
      /\ p.at = "new" /\ p.tok = 0 /\ p.enabled = cfg.enabled
  BY <1>1 DEF Config
<1> HIDE DEF p
<1>3. providers' \in ProviderSeq' /\ providers' # <<>> /\ providers'[Len(providers')] = p
  BY <1>1, <1>2, AppendProperties DEF ProviderSeq
<1>4. TypeOK'
  BY <1>1, <1>3 DEF IndInv, TypeOK, governorVars, GovernorTypeOK, ProviderSeq
<1>5. WorkersOK'
  BY <1>1 DEF IndInv, WorkersOK, Alive
<1>6. LastProviderServes' /\ LastWatches'
  BY <1>1, <1>2, <1>3 DEF LastProviderServes, LastWatches, Idle, Running
<1> QED
  BY <1>4, <1>5, <1>6 DEF IndInv
\* A worker can only quit while a reload waits for it.
LEMMA WorkerQuitsKeeps ==
  ASSUME IndInv, NEW w \in Workers, WorkerQuits(w)
  PROVE  IndInv'
<1>1. /\ UNCHANGED <<governorVars, cfg, loop, ctx, dead, providers, over>>
      /\ worker' = [worker EXCEPT ![w] = Gone] /\ active' = active - 1
      /\ worker \in WorkerSet /\ ctx \in Nat /\ active = Cardinality(Up)
  BY DEF IndInv, TypeOK, WorkersOK, WorkerQuits, SetWorker, Uncount, WorkerSet, Up
<1>2. w \in Up /\ dead
  <2>1. w \in Up
    BY DEF WorkerQuits, Up, Alive
  <2>2. worker[w].tok = ctx
    BY <2>1 DEF IndInv, WorkersOK, Up
  <2> QED
    BY <1>1, <2>1, <2>2 DEF WorkerQuits, Cancelled
<1>3. loop.at = "drain"
  <2>1. active # 0
    BY <1>1, <1>2, UpFinite
  <2> QED
    BY <1>2, <2>1 DEF IndInv, WorkersOK
<1>4. \A v \in Workers : worker'[v] = IF v = w THEN Gone ELSE worker[v]
  BY <1>1 DEF WorkerSet
<1>5. Up' = Up \ {w} /\ \A v \in Workers : Alive(v)' => worker'[v].tok = ctx'
  BY <1>1, <1>4 DEF IndInv, WorkersOK, Up, Alive, Gone
<1>6. Cardinality(Up') = active' /\ active' \in 0..MaxReplicas
  <2>1. Cardinality(Up) \in 0..MaxReplicas /\ Cardinality(Up \ {w}) = Cardinality(Up) - 1
    BY <1>2, UpFinite
  <2>2. Up \ {w} \in SUBSET Workers /\ IsFiniteSet(Up \ {w})
    BY UpFinite, FS_Subset DEF Up
  <2>3. Cardinality(Up \ {w}) \in Nat
    BY <2>2, FS_CardinalityType
  <2> QED
    BY <1>1, <1>5, <2>1, <2>3, GovernorConstants
<1>7. worker' \in WorkerSet'
  BY <1>1 DEF WorkerSet, Gone
<1>8. TypeOK'
  BY <1>1, <1>6, <1>7 DEF IndInv, TypeOK, governorVars, GovernorTypeOK, WorkerSet
<1>9. WorkersOK'
  BY <1>1, <1>3, <1>5, <1>6 DEF IndInv, WorkersOK, Up
<1>10. LastProviderServes' /\ LastWatches'
  BY <1>1, <1>3 DEF LastProviderServes, LastWatches, Idle
<1> QED
  BY <1>8, <1>9, <1>10 DEF IndInv

\* Nobody starts or quits, no provider changes.
LEMMA TasksKeep ==
  ASSUME IndInv, UNCHANGED <<governorVars, cfg, loop, ctx, dead, active, providers>>,
         over' \in BOOLEAN, worker' \in WorkerSet,
         \A v \in Workers : worker'[v].at = worker[v].at /\ worker'[v].tok = worker[v].tok
  PROVE  IndInv'
<1>1. TypeOK'
  BY DEF IndInv, TypeOK, governorVars, GovernorTypeOK, WorkerSet
<1>2. Up' = Up /\ \A v \in Workers : Alive(v)' => worker'[v].tok = ctx'
  BY DEF Up, Alive, IndInv, WorkersOK
<1>3. WorkersOK'
  BY <1>2 DEF IndInv, WorkersOK, Up
<1>4. LastProviderServes' /\ LastWatches'
  BY DEF IndInv, LastProviderServes, LastWatches, Idle, Running, Shutdown, governorVars
<1> QED
  BY <1>1, <1>3, <1>4 DEF IndInv

LEMMA WorkerEvictsKeeps ==
  ASSUME IndInv, NEW w \in Workers, NEW reached \in BOOLEAN, WorkerEvicts(w, reached)
  PROVE  IndInv'
<1>1. worker \in WorkerSet /\ over \in BOOLEAN
  BY DEF IndInv, TypeOK, WorkerSet
<1>2. worker' = [worker EXCEPT ![w] = [worker[w] EXCEPT !.tasks = 0]]
  BY DEF WorkerEvicts, SetWorker
<1>3. /\ worker' \in WorkerSet
      /\ \A v \in Workers : worker'[v].at = worker[v].at /\ worker'[v].tok = worker[v].tok
  BY <1>1, <1>2 DEF WorkerSet
<1>4. UNCHANGED <<governorVars, cfg, loop, ctx, dead, active, providers>> /\ over' \in BOOLEAN
  BY <1>1 DEF WorkerEvicts
<1> QED
  BY <1>3, <1>4, TasksKeep

LEMMA GrowKeeps == ASSUME IndInv, Grow PROVE IndInv'
<1>1. worker \in WorkerSet /\ worker' = worker
      /\ UNCHANGED <<governorVars, cfg, loop, ctx, dead, active, providers>> /\ over' \in BOOLEAN
  BY DEF IndInv, TypeOK, WorkerSet, Grow
<1> QED
  BY <1>1, TasksKeep

\* Provider p becomes r.  The last one must go on serving.
LEMMA ProviderKeeps ==
  ASSUME IndInv, NEW p \in DOMAIN providers,
         NEW r \in [at : {"new", "wait", "gone"}, tok : 0..ctx, enabled : BOOLEAN],
         providers' = [providers EXCEPT ![p] = r],
         UNCHANGED <<governorVars, cfg, loop, ctx, dead, active, over>>, worker' \in WorkerSet,
         \A v \in Workers : worker'[v].at = worker[v].at /\ worker'[v].tok = worker[v].tok,
         p = Len(providers) /\ Idle /\ ~Shutdown =>
           /\ r.at # "gone" /\ r.enabled = providers[p].enabled /\ r.tok \in {0, ctx}
           /\ r.at = "wait" => r.tok = ctx
  PROVE  IndInv'
<1>1. /\ providers' \in ProviderSeq /\ Len(providers') = Len(providers)
      /\ p \in 1..Len(providers)
      /\ \A q \in 1..Len(providers) : providers'[q] = IF q = p THEN r ELSE providers[q]
      /\ providers # <<>> /\ providers' # <<>> /\ Len(providers) \in 1..Len(providers)
  <2>1. providers \in ProviderSeq
    BY DEF IndInv, TypeOK, ProviderSeq
  <2>2. /\ DOMAIN providers = 1..Len(providers) /\ Len(providers) \in Nat
    BY <2>1, LenProperties DEF ProviderSeq
  <2>3. providers' \in ProviderSeq /\ Len(providers') = Len(providers)
        /\ \A q \in 1..Len(providers) : providers'[q] = IF q = p THEN r ELSE providers[q]
    BY <2>1, <2>2, ExceptSeq DEF ProviderSeq
  <2>4. Len(providers) > 0
    BY <2>2
  <2> QED
    BY <2>2, <2>3, <2>4
<1>2. TypeOK'
  BY <1>1 DEF IndInv, TypeOK, governorVars, GovernorTypeOK, ProviderSeq, WorkerSet
<1>3. WorkersOK'
  <2>1. Up' = Up /\ \A v \in Workers : Alive(v)' => worker'[v].tok = ctx'
    BY DEF Up, Alive, IndInv, WorkersOK
  <2> QED
    BY <1>1, <2>1 DEF IndInv, WorkersOK, Up
<1>4. LastProviderServes' /\ LastWatches'
  <2> DEFINE l == Len(providers)
  <2> SUFFICES ASSUME Idle, ~Shutdown
               PROVE  /\ providers'[l].at # "gone" /\ providers'[l].enabled = cfg.enabled
                      /\ providers'[l].tok \in {0, ctx}
                      /\ providers'[l].at = "wait" => providers'[l].tok = ctx
    BY <1>1 DEF LastProviderServes, LastWatches, Idle, Running, Shutdown, governorVars
  <2>1. /\ providers[l].at # "gone" /\ providers[l].enabled = cfg.enabled
        /\ providers[l].tok \in {0, ctx}
        /\ providers[l].at = "wait" => providers[l].tok = ctx
    BY DEF IndInv, LastProviderServes, LastWatches, Running
  <2> QED
    BY <1>1, <2>1
<1> QED
  BY <1>2, <1>3, <1>4 DEF IndInv

\* What the last provider is, when it matters, and that it cannot quit then.
LEMMA LastStays ==
  ASSUME IndInv, NEW p \in DOMAIN providers
  PROVE  /\ providers[p] \in [at : {"new", "wait", "gone"}, tok : 0..ctx, enabled : BOOLEAN]
         /\ ctx \in Nat
         /\ p = Len(providers) /\ Idle /\ ~Shutdown => ~ProviderQuits(p)
<1>1. providers[p] \in [at : {"new", "wait", "gone"}, tok : 0..ctx, enabled : BOOLEAN] /\ ctx \in Nat
  <2> DEFINE S == [at : {"new", "wait", "gone"}, tok : 0..ctx, enabled : BOOLEAN]
  <2>1. providers \in Seq(S) /\ ctx \in Nat
    BY DEF IndInv, TypeOK
  <2> HIDE DEF S
  <2>2. p \in 1..Len(providers)
    BY <2>1, LenProperties
  <2>3. providers[p] \in S
    BY <2>1, <2>2, ElementOfSeq
  <2> QED
    BY <2>1, <2>3 DEF S
<1>2. ASSUME p = Len(providers), Idle, ~Shutdown, ProviderQuits(p) PROVE FALSE
  <2>1. providers[p].at = "wait" /\ Cancelled(providers[p].tok)
    BY <1>2 DEF ProviderQuits
  <2>2. providers[p].tok = ctx
    BY <1>2, <2>1 DEF IndInv, LastWatches
  <2>3. ~dead
    BY <1>2 DEF IndInv, WorkersOK, Idle
  <2> QED
    BY <1>1, <2>1, <2>2, <2>3 DEF Cancelled
<1> QED
  BY <1>1, <1>2

LEMMA BroadcastKeeps ==
  ASSUME IndInv, worker' \in {worker, Broadcast}
  PROVE  /\ worker' \in WorkerSet
         /\ \A v \in Workers : worker'[v].at = worker[v].at /\ worker'[v].tok = worker[v].tok
<1>1. worker \in WorkerSet
  BY DEF IndInv, TypeOK, WorkerSet
<1>2. \A v \in Workers : Broadcast[v] \in {worker[v], [worker[v] EXCEPT !.tasks = 1]}
  BY DEF Broadcast
<1>3. \A v \in Workers : Broadcast[v] \in [at : {"up", "gone"}, tok : 0..ctx, tasks : {0, 1}]
      /\ Broadcast[v].at = worker[v].at /\ Broadcast[v].tok = worker[v].tok
  BY <1>1, <1>2 DEF WorkerSet
<1>4. Broadcast \in WorkerSet
  BY <1>3 DEF Broadcast, WorkerSet
<1> QED
  BY <1>1, <1>3, <1>4

LEMMA ProviderStep ==
  ASSUME IndInv, NEW p \in DOMAIN providers, Provider(p)
  PROVE  IndInv'
<1>0. /\ providers[p] \in [at : {"new", "wait", "gone"}, tok : 0..ctx, enabled : BOOLEAN]
      /\ ctx \in Nat
      /\ p = Len(providers) /\ Idle /\ ~Shutdown => ~ProviderQuits(p)
  BY LastStays
<1>1. CASE ProviderBegins(p) \/ ProviderTicks(p)
  <2> DEFINE r == [providers[p] EXCEPT !.at = "wait", !.tok = ctx]
  <2>1. /\ r \in [at : {"new", "wait", "gone"}, tok : 0..ctx, enabled : BOOLEAN]
        /\ r.at = "wait" /\ r.tok = ctx /\ r.enabled = providers[p].enabled
    <3>1. /\ providers[p] \in [at : {"new", "wait", "gone"}, tok : 0..ctx, enabled : BOOLEAN]
          /\ ctx \in 0..ctx
      BY <1>0
    <3> QED
      BY <3>1
  <2>2. /\ providers' = [providers EXCEPT ![p] = r]
        /\ UNCHANGED <<governorVars, cfg, loop, ctx, dead, active, over>>
    <3>1. providers[p].at = "wait" => [providers[p] EXCEPT !.tok = ctx] = r
      BY <1>0
    <3> QED
      BY <1>1, <3>1 DEF ProviderBegins, ProviderTicks, SetProvider
  <2>3. worker' \in {worker, Broadcast}
    BY <1>1 DEF ProviderBegins, ProviderTicks
  <2> HIDE DEF r
  <2> QED
    BY <2>1, <2>2, <2>3, BroadcastKeeps, ProviderKeeps
<1>2. CASE ProviderQuits(p)
  <2> DEFINE r == [at |-> "gone", tok |-> 0, enabled |-> FALSE]
  <2>1. r \in [at : {"new", "wait", "gone"}, tok : 0..ctx, enabled : BOOLEAN]
    BY <1>0
  <2>2. /\ providers' = [providers EXCEPT ![p] = r]
        /\ UNCHANGED <<governorVars, cfg, loop, ctx, dead, active, over>>
    BY <1>2 DEF ProviderQuits, EndProvider, SetProvider
  <2>3. worker' \in {worker, Broadcast}
    BY <1>2 DEF ProviderQuits
  <2>4. ~(p = Len(providers) /\ Idle /\ ~Shutdown)
    BY <1>0, <1>2
  <2> HIDE DEF r
  <2> QED
    BY <2>1, <2>2, <2>3, <2>4, BroadcastKeeps, ProviderKeeps
<1> QED
  BY <1>1, <1>2 DEF Provider

-----------------------------------------------------------------------------
(* The invariant *)

LEMMA IndInvInit == Init => IndInv
<1> SUFFICES ASSUME Init PROVE IndInv
  OBVIOUS
<1>1. GovernorTypeOK
  <2>1. chan \in [Signals -> {<<>>} \cup {<<n>> : n \in Replicas}]
    BY DEF Init, GovernorInit
  <2> QED
    BY <2>1 DEF Init, GovernorInit, GovernorTypeOK
<1>2. /\ loop = [at |-> "select", new |-> cfg] /\ cfg \in Config /\ ctx = 1 /\ dead = FALSE
      /\ worker = [w \in Workers |-> Gone] /\ active = 0 /\ providers = <<>> /\ over = FALSE
  BY DEF Init
<1>3. worker \in WorkerSet /\ providers \in ProviderSeq
  BY <1>2 DEF WorkerSet, ProviderSeq, Gone
<1>4. loop \in [at : {"select", "cancel", "drain", "replace", "restart", "provide", "ended"}, new : Config]
      /\ active \in 0..MaxReplicas
  BY <1>2, GovernorConstants
<1>5. TypeOK
  BY <1>1, <1>2, <1>3, <1>4 DEF TypeOK, WorkerSet, ProviderSeq
<1>6. Up = {} /\ Cardinality({}) = 0
  BY <1>2, FS_EmptySet DEF Up, Alive, Gone
<1>7. WorkersOK
  BY <1>2, <1>6 DEF WorkersOK, Up
<1>8. LastProviderServes /\ LastWatches
  BY <1>2 DEF LastProviderServes, LastWatches, Idle
<1> QED
  BY <1>5, <1>7, <1>8 DEF IndInv

LEMMA IndInvStep == IndInv /\ [Next]_vars => IndInv'
<1> SUFFICES ASSUME IndInv, [Next]_vars PROVE IndInv'
  OBVIOUS
<1>1. GovernorTypeOK
  BY DEF IndInv, TypeOK
<1>2. CASE New \/ Close
  BY <1>1, <1>2, GovernorStep, GovernorKeeps DEF New, Close
<1>3. CASE Controller
  <2>1. 0 \in Replicas /\ {"on", "off", "scale"} \subseteq Signals
    BY GovernorConstants DEF Replicas, Signals
  <2>2. UNCHANGED evictorVars
    BY <1>3 DEF Controller, On, Off, Get, Scale
  <2>3. \E c \in Calls : \/ \E s \in Signals, v \in Replicas : SendSignal(c, s, v)
                         \/ \E from \in {"idle", "answer"} : ReadConfig(c, from)
    BY <1>3, <2>1 DEF Controller, On, Off, Get, Scale
  <2> QED
    BY <1>1, <2>2, <2>3, GovernorStep, GovernorKeeps
<1>4. CASE Taken
  BY <1>4, TakenKeeps
<1>5. CASE EndLoop
  BY <1>5, LoopKeeps
<1>6. CASE Loop
  BY <1>6, LoopKeeps, ReplaceTokenKeeps, RestartKeeps, SpawnProviderKeeps DEF Loop
<1>7. CASE Grow
  BY <1>7, GrowKeeps
<1>8. ASSUME NEW w \in Workers, Worker(w) PROVE IndInv'
  BY <1>8, WorkerQuitsKeeps, WorkerEvictsKeeps DEF Worker
<1>9. ASSUME NEW p \in DOMAIN providers, Provider(p) PROVE IndInv'
  BY <1>9, ProviderStep
<1>10. CASE UNCHANGED vars
  <2>1. UNCHANGED governorVars /\ UNCHANGED evictorVars
    BY <1>10 DEF vars
  <2>2. GovernorTypeOK' /\ (Shutdown => Shutdown')
    BY <1>1, <2>1 DEF governorVars, GovernorTypeOK, Shutdown
  <2> QED
    BY <2>1, <2>2, GovernorKeeps
<1> QED
  BY <1>2, <1>3, <1>4, <1>5, <1>6, <1>7, <1>8, <1>9, <1>10 DEF Next

\* The inductive invariant holds in every reachable state.
THEOREM Inductive == Spec => []IndInv
BY IndInvInit, IndInvStep, PTL DEF Spec

\* Every variable keeps its type: workers_active never leaves 0..MaxReplicas.
THEOREM EvictorTypes == Spec => []TypeOK
<1>1. IndInv => TypeOK
  BY DEF IndInv
<1> QED
  BY <1>1, Inductive, PTL

\* No worker of an earlier configuration outlives a reload of the evictor:
\* between reloads the workers alive are those the configuration asks for.
THEOREM WorkersSettle == Spec => []SettledWorkers
<1>1. IndInv => SettledWorkers
  BY DEF IndInv, WorkersOK, SettledWorkers, Idle
<1> QED
  BY <1>1, Inductive, PTL

\* The provider of the last reload outlives everything but a shutdown, although
\* a reload waits for no provider and may overtake its first poll.
THEOREM LastProviderAlwaysServes == Spec => []LastProviderServes
<1>1. IndInv => LastProviderServes
  BY DEF IndInv
<1> QED
  BY <1>1, Inductive, PTL
=============================================================================
