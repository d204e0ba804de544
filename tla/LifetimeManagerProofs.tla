------------------------ MODULE LifetimeManagerProofs -----------------------
(***************************************************************************)
(* Proofs about the refresh workers, for any number of calls, replicas and *)
(* tasks.                                                                  *)
(***************************************************************************)
EXTENDS LifetimeManager, FiniteSetTheorems, SequenceTheorems, TLAPS

-----------------------------------------------------------------------------
(* The governor *)

LEMMA ChannelTypes ==
  ASSUME GovernorTypeOK, NEW s \in Signals, NEW v \in Replicas
  PROVE  /\ Sent(s, v) \in [Signals -> {<<>>} \cup {<<n>> : n \in Replicas}]
         /\ Received(s) \in [Signals -> {<<>>} \cup {<<n>> : n \in Replicas}]
BY DEF GovernorTypeOK, Sent, Received, Room

\* Whoever sends: the types hold on, and a shutdown is for good.
LEMMA GovernorStep ==
  ASSUME GovernorTypeOK,
         \/ BootStart \/ BootOn(cfg.enabled) \/ CancelShutdown \/ StopAll
         \/ \E c \in Calls : \/ \E s \in Signals, v \in Replicas : SendSignal(c, s, v)
                             \/ \E from \in {"idle", "answer"} : ReadConfig(c, from)
  PROVE  GovernorTypeOK' /\ (Shutdown => Shutdown')
<1>0. 0 \in Replicas /\ {"start", "on", "stop"} \subseteq Signals
  BY GovernorConstants DEF Replicas, Signals
<1>1. CASE BootStart
  BY <1>0, <1>1, ChannelTypes DEF BootStart, GovernorTypeOK, Shutdown
<1>2. CASE BootOn(cfg.enabled)
  BY <1>0, <1>2, ChannelTypes DEF BootOn, GovernorTypeOK, Shutdown
<1>3. CASE CancelShutdown
  BY <1>3 DEF CancelShutdown, GovernorTypeOK, Shutdown
<1>4. CASE StopAll
  BY <1>0, <1>4, ChannelTypes DEF StopAll, GovernorTypeOK, Shutdown
<1>5. ASSUME NEW c \in Calls, NEW s \in Signals, NEW v \in Replicas, SendSignal(c, s, v)
      PROVE  GovernorTypeOK' /\ (Shutdown => Shutdown')
  BY <1>5, ChannelTypes DEF SendSignal, GovernorTypeOK, Shutdown
<1>6. ASSUME NEW c \in Calls, NEW from \in {"idle", "answer"}, ReadConfig(c, from)
      PROVE  GovernorTypeOK' /\ (Shutdown => Shutdown')
  BY <1>6 DEF ReadConfig, GovernorTypeOK, Shutdown
<1> QED
  BY <1>1, <1>2, <1>3, <1>4, <1>5, <1>6

-----------------------------------------------------------------------------
(* Counting workers *)

Up == {w \in Workers : Alive(w)}

LEMMA UpFinite ==
  /\ IsFiniteSet(Up) /\ Cardinality(Up) \in 0..MaxReplicas
  /\ Cardinality(Up) = 0 => Up = {}
  /\ \A w \in Up : Cardinality(Up \ {w}) = Cardinality(Up) - 1
<1>1. IsFiniteSet(Workers) /\ Cardinality(Workers) = MaxReplicas
  BY GovernorConstants, FS_Interval DEF Workers
<1>2. IsFiniteSet(Up) /\ Cardinality(Up) <= MaxReplicas
  BY <1>1, FS_Subset DEF Up
<1>3. Cardinality(Up) \in Nat
  BY <1>2, FS_CardinalityType
<1>4. Cardinality(Up) = 0 => Up = {}
  BY <1>2, FS_EmptySet
<1>5. \A w \in Up : Cardinality(Up \ {w}) = Cardinality(Up) - 1
  BY <1>2, FS_RemoveElement
<1> QED
  BY <1>2, <1>3, <1>4, <1>5, GovernorConstants

\* Workers are started with the numbers 1..n.
LEMMA StartedWorkers ==
  ASSUME NEW n \in Replicas
  PROVE  /\ {w \in Workers : Started(n)[w].at # "gone"} = 1..n
         /\ Cardinality(1..n) = n
         /\ \A w \in Workers : Started(n)[w].at # "gone" => Started(n)[w].tok = ctx
<1>1. Cardinality(1..n) = n
  BY FS_Interval DEF Replicas
<1>2. 1..n \subseteq Workers
  BY GovernorConstants DEF Workers, Replicas
<1>3. \A w \in Workers : Started(n)[w] = IF w <= n THEN [at |-> "idle", tok |-> ctx] ELSE Gone
  BY DEF Started
<1>4. \A w \in Workers : Started(n)[w].at # "gone" <=> w <= n
  BY <1>3 DEF Gone
<1>5. {w \in Workers : Started(n)[w].at # "gone"} = 1..n
  BY <1>2, <1>4 DEF Workers, Replicas
<1> QED
  BY <1>1, <1>3, <1>4, <1>5
-----------------------------------------------------------------------------
(* The steps *)

LoopSet == [at : {"select", "cancel", "join", "replace", "store", "up", "queued",
                  "close", "joinall", "ended"}, new : Config]
WorkerSet == [Workers -> [at : {"idle", "refresh", "body", "gone"}, tok : 0..ctx]]
ProviderSet == [at : {"look", "wait", "gone"}, tok : 0..ctx]

LEMMA GovernorKeeps ==
  ASSUME IndInv, UNCHANGED managerVars, GovernorTypeOK', Shutdown => Shutdown'
  PROVE  IndInv'
BY DEF IndInv, managerVars, TypeOK, WorkersOK, ProvidersOK, AllJoined, Idle, Alive, Running

LEMMA TakeKeeps ==
  ASSUME IndInv, NEW s \in Signals, NEW change \in BOOLEAN, NEW new \in Config,
         Take(s, change, new)
  PROVE  IndInv'
<1>0. 0 \in Replicas
  BY GovernorConstants DEF Replicas
<1>1. GovernorTypeOK'
  BY <1>0, ChannelTypes DEF Take, IndInv, TypeOK, GovernorTypeOK
<1>2. /\ loop.at = "select" /\ loop' \in {loop, [at |-> "cancel", new |-> new]}
      /\ UNCHANGED <<cfg, ctx, dead, worker, active, providers, tasks>> /\ Shutdown' = Shutdown
  BY DEF Take, Shutdown
<1>3. TypeOK'
  BY <1>1, <1>2 DEF IndInv, TypeOK
<1>4. WorkersOK'
  BY <1>2 DEF IndInv, WorkersOK, Alive, AllJoined, Idle
<1>5. ProvidersOK'
  BY <1>2 DEF IndInv, ProvidersOK, Running
<1> QED
  BY <1>3, <1>4, <1>5 DEF IndInv

\* A signal brings a configuration.
LEMMA TakenKeeps == ASSUME IndInv, Taken PROVE IndInv'
<1>0. cfg \in Config /\ GovernorTypeOK /\ Signals = {"start", "on", "off", "scale", "stop"}
  BY DEF IndInv, TypeOK, Signals
<1>1. CASE TakeStart
  BY <1>0, <1>1, TakeKeeps DEF TakeStart
<1>2. CASE TakeOn
  <2>1. SetEnabled(cfg, TRUE) \in Config /\ (~cfg.enabled) \in BOOLEAN
    BY <1>0 DEF SetEnabled, Config
  <2> QED
    BY <1>0, <1>2, <2>1, TakeKeeps DEF TakeOn
<1>3. CASE TakeOff
  <2>1. SetEnabled(cfg, FALSE) \in Config /\ cfg.enabled \in BOOLEAN
    BY <1>0 DEF SetEnabled, Config
  <2> QED
    BY <1>0, <1>3, <2>1, TakeKeeps DEF TakeOff
<1>4. CASE TakeScale
  <2> DEFINE n == Head(chan["scale"])
  <2>1. PICK m \in Replicas : chan["scale"] = <<m>>
    BY <1>0, <1>4 DEF TakeScale, GovernorTypeOK
  <2>2. n \in Replicas
    BY <2>1
  <2>3. SetReplicas(cfg, n) \in Config /\ (cfg.replicas # n) \in BOOLEAN
    BY <1>0, <2>2 DEF SetReplicas, Config
  <2>4. Take("scale", cfg.replicas # n, SetReplicas(cfg, n))
    BY <1>4 DEF TakeScale
  <2> HIDE DEF n
  <2> QED
    BY <1>0, <2>3, <2>4, TakeKeeps
<1> QED
  BY <1>1, <1>2, <1>3, <1>4 DEF Taken


\* LeaveLoop, CancelWorkers, JoinAll and QueueForWrite only move on.
LEMMA LoopKeeps ==
  ASSUME IndInv,
         \/ LeaveLoop \/ QueueForWrite
         \/ CancelWorkers("cancel", "join") \/ CancelWorkers("close", "joinall")
         \/ JoinAll("join", "replace") \/ JoinAll("joinall", "ended")
  PROVE  IndInv'
<1>1. /\ UNCHANGED <<governorVars, cfg, ctx, worker, active, providers, tasks>>
      /\ loop' = [loop EXCEPT !.at = loop'.at]
      /\ loop'.at \in {"close", "queued", "join", "joinall", "replace", "ended"}
      /\ dead' \in BOOLEAN /\ (dead' <=> loop'.at \in {"join", "replace", "joinall", "ended"})
      /\ loop'.at = "replace" => AllJoined
      /\ loop'.at = "queued" => loop.at = "up"
  <2>0. loop \in LoopSet /\ dead \in BOOLEAN
        /\ (dead <=> loop.at \in {"join", "replace", "joinall", "ended"})
    BY DEF IndInv, TypeOK, WorkersOK, LoopSet
  <2>1. CASE LeaveLoop
    <3>1. dead = FALSE /\ dead' = FALSE
      BY <2>0, <2>1, Zenon DEF LeaveLoop
    <3> QED
      BY <2>0, <2>1, <3>1 DEF LeaveLoop, Go, LoopSet
  <2>2. CASE QueueForWrite
    <3>1. dead = FALSE /\ dead' = FALSE
      BY <2>0, <2>2, Zenon DEF QueueForWrite
    <3> QED
      BY <2>0, <2>2, <3>1 DEF QueueForWrite, Go, LoopSet
  <2>3. CASE CancelWorkers("cancel", "join") \/ CancelWorkers("close", "joinall")
    BY <2>0, <2>3 DEF CancelWorkers, Go, LoopSet
  <2>4. CASE JoinAll("join", "replace") \/ JoinAll("joinall", "ended")
    <3>1. dead = TRUE /\ dead' = TRUE
      BY <2>0, <2>4, Zenon DEF JoinAll
    <3> QED
      BY <2>0, <2>4, <3>1 DEF JoinAll, Go, LoopSet
  <2> QED
    BY <2>1, <2>2, <2>3, <2>4
<1>2. TypeOK'
  BY <1>1 DEF IndInv, TypeOK, governorVars, GovernorTypeOK
<1>3. WorkersOK'
  BY <1>1 DEF IndInv, WorkersOK, Alive, Running, AllJoined, Idle
<1>4. ProvidersOK'
  BY <1>1 DEF IndInv, ProvidersOK, Running, Shutdown, governorVars
<1> QED
  BY <1>2, <1>3, <1>4 DEF IndInv

\* The new token is watched by nobody: no task is left.
LEMMA ReplaceTokenKeeps == ASSUME IndInv, ReplaceToken PROVE IndInv'
<1>1. /\ UNCHANGED <<governorVars, cfg, worker, active, providers, tasks>>
      /\ loop' = [loop EXCEPT !.at = "store"] /\ loop'.at = "store" /\ loop \in LoopSet
      /\ ctx' = ctx + 1 /\ ctx \in Nat /\ dead' = FALSE /\ AllJoined
  BY DEF IndInv, TypeOK, WorkersOK, ReplaceToken, Go, LoopSet
<1>2. worker' \in WorkerSet'
  BY <1>1 DEF IndInv, TypeOK, WorkerSet
<1>3. providers' \in Seq(ProviderSet')
  <2>1. ProviderSet \subseteq ProviderSet'
    BY <1>1 DEF ProviderSet
  <2>2. providers \in Seq(ProviderSet) /\ providers' = providers
    BY <1>1 DEF IndInv, TypeOK, ProviderSet
  <2> QED
    BY <2>1, <2>2, SeqMonotonic
<1>4. TypeOK'
  <2>1. /\ GovernorTypeOK' /\ cfg' \in Config /\ dead' \in BOOLEAN /\ loop' \in LoopSet
        /\ ctx' \in Nat /\ active' \in 0..MaxReplicas /\ tasks' \in 0..TaskCap
    <3>1. GovernorTypeOK' /\ cfg' \in Config /\ dead' \in BOOLEAN
      BY <1>1 DEF IndInv, TypeOK, governorVars, GovernorTypeOK
    <3>2. loop' \in LoopSet /\ ctx' \in Nat
      BY <1>1 DEF LoopSet
    <3>3. active' \in 0..MaxReplicas /\ tasks' \in 0..TaskCap
      BY <1>1 DEF IndInv, TypeOK
    <3> QED
      BY <3>1, <3>2, <3>3
  <2> QED
    BY <1>2, <1>3, <2>1 DEF TypeOK, WorkerSet, ProviderSet, LoopSet
<1>5. WorkersOK'
  BY <1>1 DEF IndInv, WorkersOK, AllJoined, Alive, Running, Idle
<1>6. ProvidersOK'
  BY <1>1 DEF ProvidersOK, AllJoined, Running
<1> QED
  BY <1>4, <1>5, <1>6 DEF IndInv

\* Nobody is left when the new provider starts.
LEMMA StoreConfigKeeps == ASSUME IndInv, StoreConfig PROVE IndInv'
<1> DEFINE r == [at |-> "look", tok |-> 0]
           l == Len(providers)
<1>1. /\ UNCHANGED <<governorVars, ctx, dead, worker, active, tasks>>
      /\ loop \in LoopSet /\ loop.at = "store" /\ cfg' = loop.new /\ cfg' \in Config
      /\ loop' = [loop EXCEPT !.at = IF cfg'.replicas > 0 THEN "up" ELSE "select"]
      /\ providers' = Append(providers, r) /\ providers \in Seq(ProviderSet) /\ ctx \in Nat
      /\ AllJoined
  BY DEF IndInv, TypeOK, WorkersOK, StoreConfig, Go, LoopSet, ProviderSet
<1>2. loop' \in LoopSet /\ loop'.at = IF cfg'.replicas > 0 THEN "up" ELSE "select"
  BY <1>1 DEF LoopSet
<1>3. r \in ProviderSet /\ r.at = "look"
  BY <1>1 DEF ProviderSet
<1> HIDE DEF r
<1>4. /\ providers' \in Seq(ProviderSet) /\ Len(providers') = l + 1 /\ l \in Nat
      /\ DOMAIN providers' = 1..(l + 1) /\ DOMAIN providers = 1..l
      /\ providers'[l + 1] = r /\ \A p \in 1..l : providers'[p] = providers[p]
  BY <1>1, <1>3, AppendProperties, LenProperties
<1>5. active = 0 /\ Up = {}
  <2>1. Up = {}
    BY <1>1 DEF AllJoined, Up
  <2> QED
    BY <2>1, FS_EmptySet DEF IndInv, WorkersOK, Up
<1>6. TypeOK'
  BY <1>1, <1>2, <1>4 DEF IndInv, TypeOK, governorVars, GovernorTypeOK, LoopSet, ProviderSet
<1>7. WorkersOK'
  <2>1. cfg'.replicas \in Nat
    BY <1>1 DEF Config, Replicas
  <2>2. ~dead' /\ ~(loop'.at \in {"join", "replace", "joinall", "ended"})
    BY <1>1, <1>2 DEF IndInv, WorkersOK
  <2>3. Idle' => active' = cfg'.replicas
    BY <1>1, <1>2, <1>5, <2>1 DEF Idle
  <2>4. active' = Cardinality(Up') /\ \A w \in Workers : Alive(w)' => worker'[w].tok = ctx'
    BY <1>1 DEF IndInv, WorkersOK, Up, Alive
  <2> QED
    BY <1>1, <1>2, <1>5, <2>2, <2>3, <2>4 DEF WorkersOK, Up
<1>8. ProvidersOK'
  <2>1. \A p \in 1..l : ~Running(p)
    BY <1>1, <1>4 DEF AllJoined
  <2> QED
    BY <1>3, <1>4, <2>1 DEF ProvidersOK, Running
<1> QED
  BY <1>6, <1>7, <1>8 DEF IndInv

LEMMA UpWorkersKeeps == ASSUME IndInv, UpWorkers PROVE IndInv'
<1> DEFINE n == cfg.replicas
<1>1. /\ UNCHANGED <<governorVars, cfg, ctx, dead, providers, tasks>>
      /\ loop' = [loop EXCEPT !.at = "select"] /\ loop \in LoopSet /\ loop'.at = "select"
      /\ loop.at \in {"up", "queued"} /\ cfg \in Config /\ n \in Replicas
      /\ worker' = Started(n) /\ active' = active + n /\ active = 0 /\ ctx \in Nat
  BY DEF IndInv, TypeOK, WorkersOK, UpWorkers, Go, Config, LoopSet
<1> HIDE DEF n
<1>2. active' = n /\ active' \in 0..MaxReplicas
  BY <1>1 DEF Replicas
<1>3. worker' \in WorkerSet'
  BY <1>1 DEF Started, WorkerSet, Gone
<1>4. TypeOK'
  BY <1>1, <1>2, <1>3 DEF IndInv, TypeOK, governorVars, GovernorTypeOK, WorkerSet, LoopSet
<1>5. Up' = 1..n /\ Cardinality(1..n) = n /\ \A w \in Workers : Alive(w)' => worker'[w].tok = ctx'
  BY <1>1, StartedWorkers DEF Up, Alive
<1>6. WorkersOK'
  <2>1. cfg'.replicas = n
    BY <1>1 DEF n
  <2> QED
    BY <1>1, <1>2, <1>5, <2>1 DEF IndInv, WorkersOK, Up, Idle
<1>7. ProvidersOK'
  BY <1>1 DEF IndInv, ProvidersOK, Running, Shutdown, governorVars
<1> QED
  BY <1>4, <1>6, <1>7 DEF IndInv

\* A worker can only quit while the loop joins it.
LEMMA WorkerQuitsKeeps ==
  ASSUME IndInv, NEW w \in Workers, WorkerQuits(w)
  PROVE  IndInv'
<1>1. /\ UNCHANGED <<governorVars, cfg, loop, ctx, dead, providers, tasks>>
      /\ worker' = [worker EXCEPT ![w] = Gone] /\ active' = active - 1
      /\ worker \in WorkerSet /\ ctx \in Nat /\ active = Cardinality(Up)
  BY DEF IndInv, TypeOK, WorkersOK, WorkerQuits, SetWorker, WorkerSet, Up
<1>2. w \in Up /\ dead
  <2>1. w \in Up
    BY DEF WorkerQuits, Up, Alive
  <2>2. worker[w].tok = ctx
    BY <2>1 DEF IndInv, WorkersOK, Up
  <2> QED
    BY <1>1, <2>1, <2>2 DEF WorkerQuits, Cancelled
<1>3. loop.at \in {"join", "joinall", "ended"}
  <2>1. ~AllJoined
    BY <1>2 DEF AllJoined, Up
  <2> QED
    BY <1>2, <2>1 DEF IndInv, WorkersOK
<1>4. \A v \in Workers : worker'[v] = IF v = w THEN Gone ELSE worker[v]
  BY <1>1 DEF WorkerSet
<1>5. Up' = Up \ {w} /\ \A v \in Workers : Alive(v)' => worker'[v].tok = ctx'
  BY <1>1, <1>4 DEF IndInv, WorkersOK, Up, Alive, Gone
<1>6. Cardinality(Up') = active' /\ active' \in 0..MaxReplicas
  <2>1. Cardinality(Up) \in 0..MaxReplicas /\ Cardinality(Up \ {w}) = Cardinality(Up) - 1
    BY <1>2, UpFinite
  <2>2. Up \ {w} \in SUBSET Workers /\ IsFiniteSet(Up \ {w})
    BY UpFinite, FS_Subset DEF Up
  <2>3. Cardinality(Up \ {w}) \in Nat
    BY <2>2, FS_CardinalityType
  <2> QED
    BY <1>1, <1>5, <2>1, <2>3, GovernorConstants
<1>7. worker' \in WorkerSet'
  BY <1>1 DEF WorkerSet, Gone
<1>8. TypeOK'
  BY <1>1, <1>6, <1>7 DEF IndInv, TypeOK, governorVars, GovernorTypeOK, WorkerSet
<1>9. WorkersOK'
  BY <1>1, <1>3, <1>5, <1>6 DEF IndInv, WorkersOK, Up, Idle
<1>10. ProvidersOK'
  BY <1>1 DEF IndInv, ProvidersOK, Running, Shutdown, governorVars
<1> QED
  BY <1>8, <1>9, <1>10 DEF IndInv

\* WorkerReceives, WorkerRefreshes and BodyEnds: the worker stays alive.
LEMMA WorkerWorks ==
  ASSUME IndInv, NEW w \in Workers,
         \/ WorkerReceives(w)
         \/ \E at \in {"idle", "body"} : WorkerRefreshes(w, at)
         \/ BodyEnds(w)
  PROVE  IndInv'
<1>1. /\ UNCHANGED <<governorVars, cfg, loop, ctx, dead, active, providers>>
      /\ worker \in WorkerSet /\ tasks \in 0..TaskCap
      /\ worker[w].at \in {"idle", "refresh", "body"}
  BY DEF IndInv, TypeOK, WorkerReceives, WorkerRefreshes, BodyEnds, WorkerSet
<1>2. tasks' \in 0..TaskCap
  BY <1>1, LifetimeManagerConstants DEF WorkerReceives, WorkerRefreshes, BodyEnds
<1>3. PICK at \in {"idle", "refresh", "body"} : worker' = [worker EXCEPT ![w] = [worker[w] EXCEPT !.at = at]]
  BY DEF WorkerReceives, WorkerRefreshes, BodyEnds, SetWorker
<1>4. /\ worker' \in WorkerSet
      /\ \A v \in Workers : worker'[v].tok = worker[v].tok /\ (Alive(v)' <=> Alive(v))
  BY <1>1, <1>3 DEF WorkerSet, Alive
<1>5. TypeOK'
  BY <1>1, <1>2, <1>4 DEF IndInv, TypeOK, governorVars, GovernorTypeOK, WorkerSet
<1>6. Up' = Up /\ \A v \in Workers : Alive(v)' => worker'[v].tok = ctx'
  BY <1>1, <1>4 DEF Up, IndInv, WorkersOK
<1>7. AllJoined => AllJoined'
  BY <1>1, <1>4 DEF AllJoined, Running
<1>8. WorkersOK'
  BY <1>1, <1>6, <1>7 DEF IndInv, WorkersOK, Up, Idle
<1>9. ProvidersOK'
  BY <1>1 DEF IndInv, ProvidersOK, Running, Shutdown, governorVars
<1> QED
  BY <1>5, <1>8, <1>9 DEF IndInv

\* A running provider, which is the last, becomes r.
LEMMA ProviderKeeps ==
  ASSUME IndInv, NEW p \in DOMAIN providers, Running(p), NEW r \in ProviderSet,
         providers' = [providers EXCEPT ![p] = r],
         UNCHANGED <<governorVars, cfg, loop, ctx, dead, worker, active>>,
         tasks' \in 0..TaskCap,
         r.at = "wait" => r.tok = ctx,
         loop.at \in {"select", "up", "queued"} /\ ~Shutdown => r.at # "gone"
  PROVE  IndInv'
<1>0. providers \in Seq(ProviderSet)
  BY DEF IndInv, TypeOK, ProviderSet
<1>1. /\ DOMAIN providers = 1..Len(providers) /\ Len(providers) \in Nat /\ p = Len(providers)
  BY <1>0, LenProperties DEF IndInv, ProvidersOK
<1>2. /\ providers' \in Seq(ProviderSet) /\ Len(providers') = Len(providers)
      /\ DOMAIN providers' = DOMAIN providers
      /\ \A q \in DOMAIN providers : providers'[q] = IF q = p THEN r ELSE providers[q]
  BY <1>0, <1>1, ExceptSeq
<1>3. TypeOK'
  BY <1>2 DEF IndInv, TypeOK, governorVars, GovernorTypeOK, ProviderSet
<1>4. WorkersOK'
  <2>1. loop.at \notin {"replace", "store"} /\ providers # <<>> /\ providers' # <<>>
    <3>1. ~AllJoined
      BY DEF AllJoined
    <3> QED
      BY <1>1, <1>2, <3>1 DEF IndInv, WorkersOK
  <2> QED
    BY <2>1 DEF IndInv, WorkersOK, Alive, Idle
<1>5. ProvidersOK'
  BY <1>1, <1>2 DEF IndInv, ProvidersOK, Running, Shutdown, governorVars
<1> QED
  BY <1>3, <1>4, <1>5 DEF IndInv

LEMMA ProviderStep ==
  ASSUME IndInv, NEW p \in DOMAIN providers, Provider(p)
  PROVE  IndInv'
<1>0. ctx \in Nat /\ tasks \in 0..TaskCap
  BY DEF IndInv, TypeOK
<1>1. CASE ProviderLooks(p)
  <2> DEFINE r == [at |-> "wait", tok |-> ctx]
  <2>1. r \in ProviderSet /\ r.at = "wait" /\ r.tok = ctx
    BY <1>0 DEF ProviderSet
  <2>2. /\ providers' = [providers EXCEPT ![p] = r] /\ Running(p)
        /\ UNCHANGED <<governorVars, cfg, loop, ctx, dead, worker, active>> /\ tasks' = tasks
    BY <1>1 DEF ProviderLooks, SetProvider, Running
  <2> HIDE DEF r
  <2> QED
    BY <1>0, <2>1, <2>2, ProviderKeeps
<1>2. CASE ProviderQuits(p)
  <2>1. Gone \in ProviderSet /\ Gone.at = "gone"
    BY <1>0 DEF ProviderSet, Gone
  <2>2. /\ providers' = [providers EXCEPT ![p] = Gone] /\ Running(p)
        /\ UNCHANGED <<governorVars, cfg, loop, ctx, dead, worker, active>> /\ tasks' = tasks
    BY <1>2 DEF ProviderQuits, SetProvider
  <2>3. ASSUME loop.at \in {"select", "up", "queued"}, ~Shutdown PROVE FALSE
    <3>1. providers[p].at = "wait" /\ Cancelled(providers[p].tok)
      BY <1>2, <2>3 DEF ProviderQuits
    <3>2. providers[p].tok = ctx
      BY <2>2, <3>1 DEF IndInv, ProvidersOK
    <3>3. ~dead
      BY <2>3 DEF IndInv, WorkersOK
    <3> QED
      BY <1>0, <3>1, <3>2, <3>3 DEF Cancelled
  <2> QED
    BY <1>0, <2>1, <2>2, <2>3, ProviderKeeps
<1>3. ASSUME NEW f \in BOOLEAN, ProviderTicks(p, f) PROVE IndInv'
  <2> DEFINE r == [at |-> "look", tok |-> 0]
  <2>1. r \in ProviderSet /\ r.at = "look"
    BY <1>0 DEF ProviderSet
  <2>2. /\ providers' = [providers EXCEPT ![p] = r] /\ Running(p)
        /\ UNCHANGED <<governorVars, cfg, loop, ctx, dead, worker, active>>
    BY <1>3 DEF ProviderTicks, SetProvider, AfterTick
  <2>3. tasks' \in 0..TaskCap
    BY <1>0, <1>3, LifetimeManagerConstants DEF ProviderTicks, Offered
  <2> HIDE DEF r
  <2> QED
    BY <2>1, <2>2, <2>3, ProviderKeeps
<1> QED
  BY <1>1, <1>2, <1>3 DEF Provider

-----------------------------------------------------------------------------
(* The invariant *)

LEMMA IndInvInit == Init => IndInv
<1> SUFFICES ASSUME Init PROVE IndInv
  OBVIOUS
<1>1. GovernorTypeOK
  <2>1. chan \in [Signals -> {<<>>} \cup {<<n>> : n \in Replicas}]
    BY DEF Init, GovernorInit
  <2> QED
    BY <2>1 DEF Init, GovernorInit, GovernorTypeOK
<1>2. /\ loop = [at |-> "select", new |-> cfg] /\ cfg \in Config /\ ctx = 1 /\ dead = FALSE
      /\ worker = [w \in Workers |-> Gone] /\ active = 0 /\ providers = <<>> /\ tasks = 0
  BY DEF Init
<1>3. worker \in WorkerSet /\ providers \in Seq(ProviderSet) /\ DOMAIN providers = {}
  BY <1>2 DEF WorkerSet, ProviderSet, Gone
<1>4. loop \in LoopSet /\ active \in 0..MaxReplicas /\ tasks \in 0..TaskCap
  BY <1>2, GovernorConstants, LifetimeManagerConstants DEF LoopSet
<1>5. TypeOK
  BY <1>1, <1>2, <1>3, <1>4 DEF TypeOK, WorkerSet, ProviderSet, LoopSet
<1>6. Up = {} /\ Cardinality({}) = 0
  BY <1>2, FS_EmptySet DEF Up, Alive, Gone
<1>7. WorkersOK
  BY <1>2, <1>6 DEF WorkersOK, Up, Idle
<1>8. ProvidersOK
  BY <1>2, <1>3 DEF ProvidersOK
<1> QED
  BY <1>5, <1>7, <1>8 DEF IndInv

LEMMA IndInvStep == IndInv /\ [Next]_vars => IndInv'
<1> SUFFICES ASSUME IndInv, [Next]_vars PROVE IndInv'
  OBVIOUS
<1>1. GovernorTypeOK
  BY DEF IndInv, TypeOK
<1>2. CASE New \/ Close
  BY <1>1, <1>2, GovernorStep, GovernorKeeps DEF New, Close
<1>3. CASE Controller
  <2>1. 0 \in Replicas /\ {"on", "off", "scale"} \subseteq Signals
    BY GovernorConstants DEF Replicas, Signals
  <2>2. UNCHANGED managerVars
    BY <1>3 DEF Controller, On, Off, Get, Rate, Scale
  <2>3. \E c \in Calls : \/ \E s \in Signals, v \in Replicas : SendSignal(c, s, v)
                         \/ \E from \in {"idle", "answer"} : ReadConfig(c, from)
    BY <1>3, <2>1 DEF Controller, On, Off, Get, Rate, Scale
  <2> QED
    BY <1>1, <2>2, <2>3, GovernorStep, GovernorKeeps
<1>4. CASE Taken
  BY <1>4, TakenKeeps
<1>5. CASE LeaveLoop \/ CloseGroup
  BY <1>5, LoopKeeps DEF CloseGroup
<1>6. CASE Reload
  BY <1>6, LoopKeeps, ReplaceTokenKeeps, StoreConfigKeeps, UpWorkersKeeps DEF Reload
<1>7. ASSUME NEW w \in Workers, Worker(w) \/ BodyEnds(w) PROVE IndInv'
  BY <1>7, WorkerQuitsKeeps, WorkerWorks DEF Worker
<1>8. ASSUME NEW p \in DOMAIN providers, Provider(p) PROVE IndInv'
  BY <1>8, ProviderStep
<1>9. CASE UNCHANGED vars
  <2>1. UNCHANGED governorVars /\ UNCHANGED managerVars
    BY <1>9 DEF vars
  <2>2. GovernorTypeOK' /\ (Shutdown => Shutdown')
    BY <1>1, <2>1 DEF governorVars, GovernorTypeOK, Shutdown
  <2> QED
    BY <2>1, <2>2, GovernorKeeps
<1> QED
  BY <1>2, <1>3, <1>4, <1>5, <1>6, <1>7, <1>8, <1>9 DEF Next

\* The inductive invariant holds in every reachable state.
THEOREM Inductive == Spec => []IndInv
BY IndInvInit, IndInvStep, PTL DEF Spec

\* Every variable keeps its type: the task channel never holds more than its
\* capacity, w_num_active never leaves 0..MaxReplicas.
THEOREM LifetimeManagerTypes == Spec => []TypeOK
<1>1. IndInv => TypeOK
  BY DEF IndInv
<1> QED
  BY <1>1, Inductive, PTL

\* Between reloads there is one provider, and as many workers as the stored
\* configuration asks for: no task of an earlier one outlives a reload.
THEOREM ReloadsSettle == Spec => []Settled
<1>1. IndInv => Settled
  <2> SUFFICES ASSUME IndInv, Idle
               PROVE  /\ active = cfg.replicas /\ Cardinality(Up) = active /\ ~dead
                      /\ \A w \in Workers : Alive(w) => worker[w].tok = ctx
                      /\ Shutdown \/ {p \in DOMAIN providers : Running(p)} = {Len(providers)}
    BY DEF Settled, Up
  <2>1. /\ active = cfg.replicas /\ Cardinality(Up) = active /\ ~dead
        /\ \A w \in Workers : Alive(w) => worker[w].tok = ctx
    BY DEF IndInv, WorkersOK, Up, Idle
  <2>2. ASSUME ~Shutdown PROVE {p \in DOMAIN providers : Running(p)} = {Len(providers)}
    <3>1. providers \in Seq(ProviderSet) /\ providers # <<>>
      BY DEF IndInv, TypeOK, ProviderSet, Idle
    <3>2. Len(providers) \in DOMAIN providers
      BY <3>1, LenProperties
    <3>3. Running(Len(providers))
      BY <2>2 DEF IndInv, ProvidersOK, Idle
    <3> QED
      BY <3>2, <3>3 DEF IndInv, ProvidersOK
  <2> QED
    BY <2>1, <2>2
<1> QED
  BY <1>1, Inductive, PTL
=============================================================================
