------------------------------ MODULE Governor ------------------------------
(***************************************************************************)
(* The orchestrator of src/governor and the calls that reach it, for one   *)
(* of the services it drives (Evictor.tla, LifetimeManager.tla).  Each     *)
(* signal has a channel of one slot of its own.  All commands go through   *)
(* one mutex; reading a service's configuration calls blocking_read, which *)
(* panics on a thread that drives async tasks, with that mutex held.       *)
(***************************************************************************)
EXTENDS Integers, Sequences, FiniteSets

CONSTANTS
  Calls,       \* calls of the service's HTTP controller
  MaxReplicas  \* the largest number of workers a call asks for

ASSUME GovernorConstants == IsFiniteSet(Calls) /\ MaxReplicas \in Nat

Signals == {"start", "on", "off", "scale", "stop"}
Replicas == 0..MaxReplicas

\* The part of a WorkerConfig that the handlers read.
Config == [enabled : BOOLEAN, replicas : Replicas]
SetEnabled(cfg, v) == [cfg EXCEPT !.enabled = v]
SetReplicas(cfg, n) == [cfg EXCEPT !.replicas = n]

VARIABLES
  chan,      \* signal -> what its channel holds, at most one value
  poisoned,  \* a panic has happened while the mutex was held
  boot,      \* what DB::new has yet to send
  call,      \* HTTP call -> where it stands
  closing    \* how far DB::close has come

governorVars == <<chan, poisoned, boot, call, closing>>

GovernorTypeOK ==
  /\ chan \in [Signals -> {<<>>} \cup {<<n>> : n \in Replicas}]
  /\ poisoned \in BOOLEAN
  /\ boot \in {"start", "on", "done"}
  /\ call \in [Calls -> {"idle", "answer", "done"}]
  /\ closing \in {"no", "cancelled", "stopped"}

GovernorInit ==
  /\ chan = [s \in Signals |-> <<>>]
  /\ poisoned = FALSE
  /\ boot = "start"
  /\ call = [c \in Calls |-> "idle"]
  /\ closing = "no"

\* The shutdown token, which DB and its services share.
Shutdown == closing # "no"

\* try_send, repeated at once up to five times: a full channel refuses.
Room(s) == chan[s] = <<>>
Sent(s, v) == IF Room(s) THEN [chan EXCEPT ![s] = <<v>>] ELSE chan
Received(s) == [chan EXCEPT ![s] = <<>>]

\* DB::new starts the registered service and turns it on if it is configured
\* so; the service's loop is running by then.
BootStart ==
  /\ boot = "start"
  /\ chan' = Sent("start", 0)
  /\ boot' = "on"
  /\ UNCHANGED <<poisoned, call, closing>>

BootOn(enabled) ==
  /\ boot = "on"
  /\ chan' = IF enabled THEN Sent("on", 0) ELSE chan
  /\ boot' = "done"
  /\ UNCHANGED <<poisoned, call, closing>>

\* send_signal: a poisoned mutex makes the call panic before it sends.
SendSignal(c, s, v) ==
  /\ boot = "done"
  /\ call[c] = "idle"
  /\ chan' = IF poisoned THEN chan ELSE Sent(s, v)
  /\ call' = [call EXCEPT ![c] = IF ~poisoned /\ Room(s) THEN "answer" ELSE "done"]
  /\ UNCHANGED <<poisoned, boot, closing>>

\* cfg under the mutex: blocking_read panics, and the guard is dropped by the
\* panic.  A call on an already poisoned mutex panics at the lock.
ReadConfig(c, from) ==
  /\ boot = "done"
  /\ call[c] = from
  /\ poisoned' = TRUE
  /\ call' = [call EXCEPT ![c] = "done"]
  /\ UNCHANGED <<chan, boot, closing>>

\* DB::close cancels the token (through Storage::close), then stops every
\* service, which panics on a poisoned mutex.
CancelShutdown ==
  /\ boot = "done"
  /\ closing = "no"
  /\ closing' = "cancelled"
  /\ UNCHANGED <<chan, poisoned, boot, call>>

StopAll ==
  /\ closing = "cancelled"
  /\ closing' = "stopped"
  /\ chan' = IF poisoned THEN chan ELSE Sent("stop", 0)
  /\ UNCHANGED <<poisoned, boot, call>>
=============================================================================
