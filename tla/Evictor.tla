------------------------------- MODULE Evictor ------------------------------
(***************************************************************************)
(* The eviction workers of src/workers/evictor/evictor.rs with their       *)
(* controller.  One task takes signals from select!, any ready one first,  *)
(* and applies each before it takes another.  Every applied change is a    *)
(* reload: cancel the workers' token, wait until no worker is counted,     *)
(* replace the token, store the configuration, start workers, start a      *)
(* provider.  Providers are not counted: a reload does not wait for them.  *)
(***************************************************************************)
EXTENDS Governor

Workers == 1..MaxReplicas

VARIABLES
  cfg,        \* the stored configuration
  loop,       \* [at, new]: the loop's place and the configuration a reload brings
  ctx,        \* number of the current worker token; smaller ones are cancelled
  dead,       \* the current token is cancelled
  worker,     \* worker -> [at, tok, tasks]
  active,     \* workers_active
  providers,  \* the providers spawned so far: [at, tok, enabled]
  over        \* the storage is above its soft memory limit

evictorVars == <<cfg, loop, ctx, dead, worker, active, providers, over>>
vars == <<governorVars, evictorVars>>

Gone == [at |-> "gone", tok |-> 0, tasks |-> 0]
Alive(w) == worker[w].at # "gone"
Running(p) == providers[p].at # "gone"
Cancelled(t) == t < ctx \/ dead

TypeOK ==
  /\ GovernorTypeOK
  /\ cfg \in Config
  /\ loop \in [at : {"select", "cancel", "drain", "replace", "restart", "provide", "ended"}, new : Config]
  /\ ctx \in Nat
  /\ dead \in BOOLEAN
  /\ worker \in [Workers -> [at : {"up", "gone"}, tok : 0..ctx, tasks : {0, 1}]]
  /\ active \in 0..MaxReplicas
  /\ providers \in Seq([at : {"new", "wait", "gone"}, tok : 0..ctx, enabled : BOOLEAN])
  /\ over \in BOOLEAN

Init ==
  /\ GovernorInit
  /\ cfg \in Config
  /\ loop = [at |-> "select", new |-> cfg]
  /\ ctx = 1
  /\ dead = FALSE
  /\ worker = [w \in Workers |-> Gone]
  /\ active = 0
  /\ providers = <<>>
  /\ over = FALSE

-----------------------------------------------------------------------------
(* The controller: each call sends its signal and answers with get. *)

On(c) == SendSignal(c, "on", 0) /\ UNCHANGED evictorVars
Off(c) == SendSignal(c, "off", 0) /\ UNCHANGED evictorVars
Scale(c, n) == SendSignal(c, "scale", n) /\ UNCHANGED evictorVars
Get(c) == (\E from \in {"idle", "answer"} : ReadConfig(c, from)) /\ UNCHANGED evictorVars

\* DB::new and DB::close.
New == (BootStart \/ BootOn(cfg.enabled)) /\ UNCHANGED evictorVars
Close == (CancelShutdown \/ StopAll) /\ UNCHANGED evictorVars

-----------------------------------------------------------------------------
(* The loop *)

Go(at) == loop' = [loop EXCEPT !.at = at]

\* Take signal s: reload with the configuration new, or nothing to change.
Take(s, change, new) ==
  /\ loop.at = "select"
  /\ chan[s] # <<>>
  /\ chan' = Received(s)
  /\ loop' = IF change THEN [at |-> "cancel", new |-> new] ELSE loop
  /\ UNCHANGED <<poisoned, boot, call, closing, cfg, ctx, dead, worker, active, providers, over>>

TakeStart == Take("start", TRUE, cfg)
TakeOn == Take("on", ~cfg.enabled, SetEnabled(cfg, TRUE))
TakeOff == Take("off", cfg.enabled, SetEnabled(cfg, FALSE))
TakeScale ==
  /\ chan["scale"] # <<>>
  /\ LET n == Head(chan["scale"]) IN Take("scale", cfg.replicas # n, SetReplicas(cfg, n))

\* A stop or the shutdown token ends the loop, and with it no worker.
EndLoop ==
  /\ loop.at = "select"
  /\ Shutdown \/ chan["stop"] # <<>>
  /\ Go("ended")
  /\ UNCHANGED <<governorVars, cfg, ctx, dead, worker, active, providers, over>>

\* scale_to(0): cancel the token, then wait until workers_active is zero.
CancelWorkers ==
  /\ loop.at = "cancel"
  /\ dead' = TRUE
  /\ Go("drain")
  /\ UNCHANGED <<governorVars, cfg, ctx, worker, active, providers, over>>

Drained_Early == TRUE
Drained == active = 0

Drain ==
  /\ loop.at = "drain"
  /\ Drained
  /\ Go("replace")
  /\ UNCHANGED <<governorVars, cfg, ctx, dead, worker, active, providers, over>>

ReplaceToken ==
  /\ loop.at = "replace"
  /\ ctx' = ctx + 1
  /\ dead' = FALSE
  /\ Go("restart")
  /\ UNCHANGED <<governorVars, cfg, worker, active, providers, over>>

\* Store the configuration and start the workers it asks for (up_one).
Started_OneMore(n) == [w \in Workers |-> IF w <= n + 1 THEN [at |-> "up", tok |-> ctx, tasks |-> 0] ELSE Gone]
Started(n) == [w \in Workers |-> IF w <= n THEN [at |-> "up", tok |-> ctx, tasks |-> 0] ELSE Gone]

Restart ==
  /\ loop.at = "restart"
  /\ cfg' = loop.new
  /\ worker' = Started(cfg'.replicas)
  /\ active' = active + cfg'.replicas
  /\ Go("provide")
  /\ UNCHANGED <<governorVars, ctx, dead, providers, over>>

\* Spawn a provider with the configuration as it is now; the task itself has
\* not run yet.
Spawned_Once(ps, p) == IF ps = <<>> THEN <<p>> ELSE ps
Spawned(ps, p) == Append(ps, p)

SpawnProvider ==
  /\ loop.at = "provide"
  /\ providers' = Spawned(providers, [at |-> "new", tok |-> 0, enabled |-> cfg.enabled])
  /\ Go("select")
  /\ UNCHANGED <<governorVars, cfg, ctx, dead, worker, active, over>>

-----------------------------------------------------------------------------
(* Workers: select! over the token and the broadcast of tasks *)

SetWorker(w, r) == worker' = [worker EXCEPT ![w] = r]

\* The guard takes the worker out of workers_active.
Uncount_Not == active
Uncount == active - 1
WorkerQuits(w) ==
  /\ worker[w].at = "up"
  /\ Cancelled(worker[w].tok)
  /\ SetWorker(w, Gone)
  /\ active' = Uncount
  /\ UNCHANGED <<governorVars, cfg, loop, ctx, dead, providers, over>>

\* A task runs soft_evict_until_within_limit, which does not yield: it reaches
\* the limit or gives up by its backoff.
WorkerEvicts(w, reached) ==
  /\ worker[w].at = "up"
  /\ worker[w].tasks > 0
  /\ over' = (over /\ ~reached)
  /\ SetWorker(w, [worker[w] EXCEPT !.tasks = 0])
  /\ UNCHANGED <<governorVars, cfg, loop, ctx, dead, active, providers>>

-----------------------------------------------------------------------------
(* Providers: select! over shutdown, the token and the interval *)

SetProvider(p, r) == providers' = [providers EXCEPT ![p] = r]
EndProvider(p) == SetProvider(p, [at |-> "gone", tok |-> 0, enabled |-> FALSE])

\* The task runs for the first time, whenever that is, and reads the token.
ProviderBegins(p) ==
  /\ providers[p].at = "new"
  /\ SetProvider(p, [providers[p] EXCEPT !.at = "wait", !.tok = ctx])
  /\ UNCHANGED <<governorVars, cfg, loop, ctx, dead, worker, active, over>>

ProviderQuits_TokenOnly(p) ==
  /\ providers[p].at = "wait"
  /\ Cancelled(providers[p].tok)
  /\ EndProvider(p)
  /\ UNCHANGED <<governorVars, cfg, loop, ctx, dead, worker, active, over>>
ProviderQuits(p) ==
  /\ Running(p)
  /\ Shutdown \/ (providers[p].at = "wait" /\ Cancelled(providers[p].tok))
  /\ EndProvider(p)
  /\ UNCHANGED <<governorVars, cfg, loop, ctx, dead, worker, active, over>>

\* The broadcast reaches every worker that is subscribed; a worker that lags
\* still finds the latest task.
Broadcast_Unheard == worker
Broadcast == [w \in Workers |-> IF Alive(w) THEN [worker[w] EXCEPT !.tasks = 1] ELSE worker[w]]

\* The next turn of the loop reads the current token anew, in the same poll.
ProviderTicks(p) ==
  /\ providers[p].at = "wait"
  /\ worker' = IF providers[p].enabled /\ over THEN Broadcast ELSE worker
  /\ SetProvider(p, [providers[p] EXCEPT !.tok = ctx])
  /\ UNCHANGED <<governorVars, cfg, loop, ctx, dead, active, over>>

\* Traffic fills the storage.
Grow ==
  /\ ~over
  /\ over' = TRUE
  /\ UNCHANGED <<governorVars, cfg, loop, ctx, dead, worker, active, providers>>

Loop == CancelWorkers \/ Drain \/ ReplaceToken \/ Restart \/ SpawnProvider
Taken == TakeStart \/ TakeOn \/ TakeOff \/ TakeScale
Controller ==
  \E c \in Calls : On(c) \/ Off(c) \/ Get(c) \/ \E n \in Replicas : Scale(c, n)
Worker(w) == WorkerQuits(w) \/ (\E r \in BOOLEAN : WorkerEvicts(w, r))
Provider(p) == ProviderBegins(p) \/ ProviderQuits(p) \/ ProviderTicks(p)

Next ==
  \/ New \/ Close \/ Controller \/ Taken \/ EndLoop \/ Loop \/ Grow
  \/ \E w \in Workers : Worker(w)
  \/ \E p \in DOMAIN providers : Provider(p)

MaxSpawns == 2 + Cardinality(Calls)  \* the start, the on of DB::new, the calls

\* Tokio runs every ready task.  select! draws among ready branches at random:
\* a task whose token stays cancelled does not draw other branches for ever.
\* Not every eviction fails.
Fairness ==
  /\ WF_vars(New) /\ WF_vars(Taken \/ EndLoop) /\ WF_vars(Loop)
  /\ \A w \in Workers : WF_vars(Worker(w))
  /\ SF_vars(\E w \in Workers : WorkerQuits(w))
  /\ SF_vars(\E w \in Workers : WorkerEvicts(w, TRUE))
  /\ \A p \in 1..MaxSpawns :
       /\ WF_vars(p \in DOMAIN providers /\ Provider(p))
       /\ WF_vars(p \in DOMAIN providers /\ ProviderQuits(p))

Spec == Init /\ [][Next]_vars /\ Fairness

-----------------------------------------------------------------------------
(* Properties *)

Idle == loop.at = "select" /\ providers # <<>>

\* Whenever the loop waits for signals after a reload, workers_active counts
\* the workers alive, there are as many as the stored configuration asks for,
\* and each of them watches the current token: no worker of an earlier
\* configuration outlives the wait of scale_to(0).
SettledWorkers ==
  Idle =>
    /\ active = cfg.replicas
    /\ Cardinality({w \in Workers : Alive(w)}) = active
    /\ ~dead
    /\ \A w \in Workers : Alive(w) => worker[w].tok = ctx

\* However tokens are cancelled and replaced around it, the provider of the
\* last reload survives, with the stored configuration: no later step of the
\* loop can end it, although it may be polled for the first time at any moment.
LastProviderServes ==
  Idle /\ ~Shutdown =>
    LET p == Len(providers) IN
    /\ Running(p)
    /\ providers[p].enabled = cfg.enabled
    /\ providers[p].tok \in {0, ctx}

\* A reload comes to its end, and the loop back to its signals: it never waits
\* for a worker that does not stop, although providers that outlived earlier
\* reloads keep sending tasks to the workers it has cancelled.
ReloadsEnd == loop.at \notin {"select", "ended"} ~> loop.at = "select"

\* Memory above the soft limit is brought below it as long as the evictor is
\* enabled with workers, whatever commands are applied meanwhile: tasks that a
\* reload loses are sent again.
PressureRelieved == over ~> (~over \/ ~cfg.enabled \/ cfg.replicas = 0 \/ Shutdown)

\* After DB::close the loop and all providers end, also those that outlived
\* a reload and also when a poisoned mutex kept the stop from being sent.
ShutdownEnds == Shutdown ~> [](loop.at = "ended" /\ \A p \in DOMAIN providers : ~Running(p))

-----------------------------------------------------------------------------
(* What the proofs add to make the invariants inductive *)

\* At every place of the loop the workers alive are counted and watch the
\* current token, which is cancelled from the cancel of a reload until it is
\* replaced.  It is replaced when no worker is left.
WorkersOK ==
  /\ active = Cardinality({w \in Workers : Alive(w)})
  /\ \A w \in Workers : Alive(w) => worker[w].tok = ctx
  /\ dead <=> loop.at \in {"drain", "replace"}
  /\ loop.at \in {"replace", "restart"} => active = 0
  /\ loop.at = "provide" \/ (loop.at \in {"select", "cancel"} /\ providers # <<>>)
       => active = cfg.replicas

\* The last provider has not been polled yet, or waits for the current token.
LastWatches ==
  Idle /\ ~Shutdown =>
    LET p == providers[Len(providers)] IN p.at = "wait" => p.tok = ctx

IndInv == TypeOK /\ WorkersOK /\ LastProviderServes /\ LastWatches
=============================================================================
