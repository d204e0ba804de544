--------------------------- MODULE LifetimeManager --------------------------
(***************************************************************************)
(* The refresh workers of src/workers/lifetimer/lifetimer.rs with their    *)
(* controller: the same protocol as Evictor.tla, with three differences    *)
(* that matter.  Workers and the provider belong to one JoinSet, and a     *)
(* reload joins them all; the provider holds the read guard of the token's *)
(* lock while it waits, and starting workers takes the write guard; a      *)
(* worker refreshes an entry, over the network, without watching its       *)
(* token.  What is refreshed is the subject of RefreshCycle.tla.           *)
(***************************************************************************)
EXTENDS Governor

CONSTANT TaskCap  \* capacity of the task channel: the configured rate

ASSUME LifetimeManagerConstants == TaskCap \in Nat \ {0}

Workers == 1..MaxReplicas

VARIABLES
  cfg,        \* the stored configuration
  loop,       \* [at, new]: the loop's place and the configuration a reload brings
  ctx,        \* number of the current worker token; smaller ones are cancelled
  dead,       \* the current token is cancelled
  worker,     \* worker -> [at, tok]
  active,     \* w_num_active
  providers,  \* the providers spawned so far: [at, tok]
  tasks       \* how many entries the task channel holds

managerVars == <<cfg, loop, ctx, dead, worker, active, providers, tasks>>
vars == <<governorVars, managerVars>>

Gone == [at |-> "gone", tok |-> 0]
Alive(w) == worker[w].at # "gone"
Running(p) == providers[p].at # "gone"
Cancelled(t) == t < ctx \/ dead

TypeOK ==
  /\ GovernorTypeOK
  /\ cfg \in Config
  /\ loop \in [at : {"select", "cancel", "join", "replace", "store", "up", "queued",
                    "close", "joinall", "ended"}, new : Config]
  /\ ctx \in Nat
  /\ dead \in BOOLEAN
  /\ worker \in [Workers -> [at : {"idle", "refresh", "body", "gone"}, tok : 0..ctx]]
  /\ active \in 0..MaxReplicas
  /\ providers \in Seq([at : {"look", "wait", "gone"}, tok : 0..ctx])
  /\ tasks \in 0..TaskCap

Init ==
  /\ GovernorInit
  /\ cfg \in Config
  /\ loop = [at |-> "select", new |-> cfg]
  /\ ctx = 1
  /\ dead = FALSE
  /\ worker = [w \in Workers |-> Gone]
  /\ active = 0
  /\ providers = <<>>
  /\ tasks = 0

-----------------------------------------------------------------------------
(* The controller.  rate reads the configuration before it sends a reload,  *)
(* so it panics like get and no reload is ever sent.                        *)

On(c) == SendSignal(c, "on", 0) /\ UNCHANGED managerVars
Off(c) == SendSignal(c, "off", 0) /\ UNCHANGED managerVars
Scale(c, n) == SendSignal(c, "scale", n) /\ UNCHANGED managerVars
Get(c) == ReadConfig(c, "answer") /\ UNCHANGED managerVars
Rate(c) == ReadConfig(c, "idle") /\ UNCHANGED managerVars

New == (BootStart \/ BootOn(cfg.enabled)) /\ UNCHANGED managerVars
Close == (CancelShutdown \/ StopAll) /\ UNCHANGED managerVars

-----------------------------------------------------------------------------
(* The loop *)

Go(at) == loop' = [loop EXCEPT !.at = at]

Take(s, change, new) ==
  /\ loop.at = "select"
  /\ chan[s] # <<>>
  /\ chan' = Received(s)
  /\ loop' = IF change THEN [at |-> "cancel", new |-> new] ELSE loop
  /\ UNCHANGED <<poisoned, boot, call, closing, cfg, ctx, dead, worker, active, providers, tasks>>

TakeStart == Take("start", TRUE, cfg)
TakeOn == Take("on", ~cfg.enabled, SetEnabled(cfg, TRUE))
TakeOff == Take("off", cfg.enabled, SetEnabled(cfg, FALSE))
TakeScale ==
  /\ chan["scale"] # <<>>
  /\ LET n == Head(chan["scale"]) IN Take("scale", cfg.replicas # n, SetReplicas(cfg, n))

LeaveLoop ==
  /\ loop.at = "select"
  /\ Shutdown \/ chan["stop"] # <<>>
  /\ Go("close")
  /\ UNCHANGED <<governorVars, cfg, ctx, dead, worker, active, providers, tasks>>

\* scale_to(0): cancel the token and join every task of the JoinSet.
CancelWorkers_ReloadOnly(from, to) ==
  /\ loop.at = from
  /\ dead' = (dead \/ from = "cancel")
  /\ Go(to)
  /\ UNCHANGED <<governorVars, cfg, ctx, worker, active, providers, tasks>>
CancelWorkers(from, to) ==
  /\ loop.at = from
  /\ dead' = TRUE
  /\ Go(to)
  /\ UNCHANGED <<governorVars, cfg, ctx, worker, active, providers, tasks>>

AllJoined_WorkersOnly == active = 0
AllJoined == (\A w \in Workers : ~Alive(w)) /\ (\A p \in DOMAIN providers : ~Running(p))

JoinAll(from, to) ==
  /\ loop.at = from
  /\ AllJoined
  /\ Go(to)
  /\ UNCHANGED <<governorVars, cfg, ctx, dead, worker, active, providers, tasks>>

\* The lock of the token: a waiting provider holds a read guard.
NoReaders == \A p \in DOMAIN providers : providers[p].at # "wait"

ReplaceToken ==
  /\ loop.at = "replace"
  /\ NoReaders
  /\ ctx' = ctx + 1
  /\ dead' = FALSE
  /\ Go("store")
  /\ UNCHANGED <<governorVars, cfg, worker, active, providers, tasks>>

\* Store the configuration (and its rate limiter) and spawn the provider; with
\* no replicas to start the reload ends here.
StoreConfig ==
  /\ loop.at = "store"
  /\ cfg' = loop.new
  /\ providers' = Append(providers, [at |-> "look", tok |-> 0])
  /\ Go(IF cfg'.replicas > 0 THEN "up" ELSE "select")
  /\ UNCHANGED <<governorVars, ctx, dead, worker, active, tasks>>

Started(n) == [w \in Workers |-> IF w <= n THEN [at |-> "idle", tok |-> ctx] ELSE Gone]

\* scale_to(n) asks for the write guard, waits in line if a provider reads,
\* and starts the workers.
UpWorkers ==
  /\ loop.at \in {"up", "queued"}
  /\ NoReaders
  /\ worker' = Started(cfg.replicas)
  /\ active' = active + cfg.replicas
  /\ Go("select")
  /\ UNCHANGED <<governorVars, cfg, ctx, dead, providers, tasks>>

QueueForWrite ==
  /\ loop.at = "up"
  /\ ~NoReaders
  /\ Go("queued")
  /\ UNCHANGED <<governorVars, cfg, ctx, dead, worker, active, providers, tasks>>

-----------------------------------------------------------------------------
(* Workers *)

SetWorker(w, r) == worker' = [worker EXCEPT ![w] = r]

WorkerQuits(w) ==
  /\ worker[w].at = "idle"
  /\ Cancelled(worker[w].tok)
  /\ SetWorker(w, Gone)
  /\ active' = active - 1
  /\ UNCHANGED <<governorVars, cfg, loop, ctx, dead, providers, tasks>>

WorkerReceives(w) ==
  /\ worker[w].at = "idle"
  /\ tasks > 0
  /\ tasks' = tasks - 1
  /\ SetWorker(w, [worker[w] EXCEPT !.at = "refresh"])
  /\ UNCHANGED <<governorVars, cfg, loop, ctx, dead, active, providers>>

\* The wait for the rate limiter, then on_ttl: the entry is removed, or asked
\* for, and the request fails, runs into its timeout or has its headers.
WorkerRefreshes(w, at) ==
  /\ worker[w].at = "refresh"
  /\ SetWorker(w, [worker[w] EXCEPT !.at = at])
  /\ UNCHANGED <<governorVars, cfg, loop, ctx, dead, active, providers, tasks>>

\* The body is read outside the timeout: it may never end.
BodyEnds(w) ==
  /\ worker[w].at = "body"
  /\ SetWorker(w, [worker[w] EXCEPT !.at = "idle"])
  /\ UNCHANGED <<governorVars, cfg, loop, ctx, dead, active, providers, tasks>>

-----------------------------------------------------------------------------
(* The provider *)

SetProvider(p, r) == providers' = [providers EXCEPT ![p] = r]

\* Acquire the read guard and look at the token, behind a writer in line.
ProviderLooks(p) ==
  /\ providers[p].at = "look"
  /\ loop.at # "queued"
  /\ SetProvider(p, [at |-> "wait", tok |-> ctx])
  /\ UNCHANGED <<governorVars, cfg, loop, ctx, dead, worker, active, tasks>>

ProviderQuits(p) ==
  /\ Running(p)
  /\ Shutdown \/ (providers[p].at = "wait" /\ Cancelled(providers[p].tok))
  /\ SetProvider(p, Gone)
  /\ UNCHANGED <<governorVars, cfg, loop, ctx, dead, worker, active, tasks>>

\* A token of the limiter: the guard is dropped with the branch that held it.
\* If the stored configuration is enabled and an expired entry is found it is
\* sent; a full channel drops it.
AfterTick_KeepGuard(p) == providers[p]
AfterTick(p) == [at |-> "look", tok |-> 0]

Offered_Unbounded(found) == IF cfg.enabled /\ found THEN tasks + 1 ELSE tasks
Offered(found) == IF cfg.enabled /\ found /\ tasks < TaskCap THEN tasks + 1 ELSE tasks

ProviderTicks(p, found) ==
  /\ Running(p)
  /\ tasks' = Offered(found)
  /\ SetProvider(p, AfterTick(p))
  /\ UNCHANGED <<governorVars, cfg, loop, ctx, dead, worker, active>>

-----------------------------------------------------------------------------
CloseGroup ==
  \/ CancelWorkers("close", "joinall")
  \/ JoinAll("joinall", "ended")
Reload ==
  \/ CancelWorkers("cancel", "join")
  \/ JoinAll("join", "replace")
  \/ ReplaceToken \/ StoreConfig \/ UpWorkers \/ QueueForWrite
Taken == TakeStart \/ TakeOn \/ TakeOff \/ TakeScale
Controller ==
  \E c \in Calls : On(c) \/ Off(c) \/ Get(c) \/ Rate(c) \/ \E n \in Replicas : Scale(c, n)
Worker(w) == WorkerQuits(w) \/ WorkerReceives(w) \/ \E at \in {"idle", "body"} : WorkerRefreshes(w, at)
Provider(p) == ProviderLooks(p) \/ ProviderQuits(p) \/ \E f \in BOOLEAN : ProviderTicks(p, f)

Next ==
  \/ New \/ Close \/ Controller \/ Taken \/ LeaveLoop \/ Reload \/ CloseGroup
  \/ \E w \in Workers : Worker(w) \/ BodyEnds(w)
  \/ \E p \in DOMAIN providers : Provider(p)

MaxSpawns == 2 + Cardinality(Calls)  \* the start, the on of DB::new, the calls

\* Tokio runs every ready task, a request has its headers or ends by its timeout,
\* and the random draw of select! does not ignore a cancelled token for ever.
\* Nothing is assumed of BodyEnds.
Fairness ==
  /\ WF_vars(New) /\ WF_vars(Taken \/ LeaveLoop) /\ WF_vars(Reload) /\ WF_vars(CloseGroup)
  /\ \A w \in Workers : WF_vars(Worker(w)) /\ SF_vars(WorkerQuits(w))
  /\ \A p \in 1..MaxSpawns :
       /\ WF_vars(p \in DOMAIN providers /\ Provider(p))
       /\ WF_vars(p \in DOMAIN providers /\ \E f \in BOOLEAN : ProviderTicks(p, f))
       /\ SF_vars(p \in DOMAIN providers /\ ProviderQuits(p))

Spec == Init /\ [][Next]_vars /\ Fairness

-----------------------------------------------------------------------------
(* Properties *)

Idle == loop.at = "select" /\ providers # <<>>

\* Whenever the loop waits for signals after a reload there is one provider,
\* and as many workers as the stored configuration asks for, counted right and
\* all watching the current token: unlike the evictor's, no task of an earlier
\* configuration outlives a reload.
Settled ==
  Idle =>
    /\ active = cfg.replicas
    /\ Cardinality({w \in Workers : Alive(w)}) = active
    /\ \A w \in Workers : Alive(w) => worker[w].tok = ctx
    /\ ~dead
    /\ Shutdown \/ {p \in DOMAIN providers : Running(p)} = {Len(providers)}

\* The premise of both: no upstream stalls for ever in the middle of a body.  A
\* worker that hangs there watches neither token nor clock, and join_next waits
\* for it.
BodiesEnd == \A w \in Workers : []<>(worker[w].at # "body")

\* A reload comes to its end if bodies do: it joins workers that are refreshing
\* and the provider, and then gets the write guard although the new provider may
\* be holding the read guard while it waits.
ReloadsEnd ==
  BodiesEnd => (loop.at \notin {"select", "close", "joinall", "ended"} ~> loop.at = "select")

\* After DB::close every task of the group is joined, if bodies end, and none is
\* started again, whatever reload was under way and whether or not stop could be
\* sent.
ShutdownJoins == BodiesEnd => (Shutdown ~> [](loop.at = "ended" /\ AllJoined))

-----------------------------------------------------------------------------
(* What the proofs add to make the invariants inductive *)

\* At every place of the loop the workers alive are counted and watch the
\* current token, which is cancelled from the cancel of a reload, or of the
\* end, until it is replaced.  It is replaced when no task is left.
WorkersOK ==
  /\ active = Cardinality({w \in Workers : Alive(w)})
  /\ \A w \in Workers : Alive(w) => worker[w].tok = ctx
  /\ dead <=> loop.at \in {"join", "replace", "joinall", "ended"}
  /\ loop.at \in {"replace", "store"} => AllJoined
  /\ loop.at \in {"up", "queued"} => active = 0
  /\ Idle => active = cfg.replicas

\* No provider but the last runs, and it holds the guard of the current token
\* if it holds any; it runs as soon as the configuration is stored.
ProvidersOK ==
  /\ \A p \in DOMAIN providers :
       Running(p) => p = Len(providers) /\ (providers[p].at = "wait" => providers[p].tok = ctx)
  /\ loop.at \in {"select", "up", "queued"} /\ providers # <<>> /\ ~Shutdown
       => Running(Len(providers))

IndInv == TypeOK /\ WorkersOK /\ ProvidersOK
=============================================================================
