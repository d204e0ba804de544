------------------------------ MODULE Upstream ------------------------------
(***************************************************************************)
(* The upstream client of src/upstream/backend.rs: the throttle in front   *)
(* of every request (health flag, connection semaphore, rate limiter under *)
(* the await or deny policy), the request with its timeout, and the health *)
(* observer.                                                               *)
(*                                                                         *)
(* Left out: what is requested and answered, and the arithmetic of the     *)
(* rate limiters (whether one has a token is a free choice).               *)
(***************************************************************************)
EXTENDS Integers, Sequences, FiniteSets

CONSTANTS
  Requests,      \* tasks that make requests: handlers and refreshers
  Concurrency,   \* permits of the connection semaphore
  Statuses,      \* statuses a health check may be answered with
  BodyMayStall   \* the upstream may send headers and never end the body

OkClose  == 3  \* OK_CLOSE
FailOpen == 3  \* FAIL_OPEN

ASSUME UpstreamConstants ==
  /\ IsFiniteSet(Requests)
  /\ Concurrency \in Nat \ {0}
  /\ Statuses \subseteq Nat
  /\ BodyMayStall \in BOOLEAN

VARIABLES
  alive,     \* BackendImpl.alive
  permits,   \* permits left in connection_semaphore
  policy,    \* IS_AWAIT_POLICY
  pc,        \* where each request is
  probe,     \* where the observer is
  status,    \* the status its health check was answered with
  down, fails, oks,  \* its locals
  recent,    \* history: the last FailOpen results it saw
  cancelled, \* the shutdown token
  healthy    \* environment: the upstream answers a health check with 200

obsVars  == <<probe, status, down, fails, oks, recent>>
reqVars  == <<permits, pc>>
upVars   == <<alive, policy, reqVars, obsVars, cancelled, healthy>>

Init ==
  /\ alive = TRUE
  /\ permits = Concurrency
  /\ policy \in {"await", "deny"}
  /\ pc = [r \in Requests |-> "idle"]
  /\ probe = "tick"
  /\ status = 0
  /\ down = FALSE /\ fails = 0 /\ oks = 0
  /\ recent = <<>>
  /\ cancelled = FALSE
  /\ healthy \in BOOLEAN

-----------------------------------------------------------------------------
(* throttle *)

Goto(r, from, to) == pc[r] = from /\ pc' = [pc EXCEPT ![r] = to]

\* A backend that is down rejects the request at once, which is no step.
Begin(r) ==
  /\ alive
  /\ Goto(r, "idle", "acquire")
  /\ UNCHANGED <<alive, policy, permits, obsVars, cancelled, healthy>>

Acquire(r) ==
  /\ permits > 0
  /\ Goto(r, "acquire", "policy")
  /\ permits' = permits - 1
  /\ UNCHANGED <<alive, policy, obsVars, cancelled, healthy>>

ReadPolicy(r) ==
  /\ Goto(r, "policy", IF policy = "await" THEN "wait" ELSE "check")
  /\ UNCHANGED <<alive, policy, permits, obsVars, cancelled, healthy>>

\* The permit is a local of throttle and goes back when throttle returns.
DropPermit_OnErr(r) == permits' = IF pc'[r] = "send" THEN permits + 1 ELSE permits
DropPermit(r) == permits' = permits + 1

\* The limiter is ready, or has a token.
Pass(r) ==
  /\ Goto(r, "wait", "send") \/ Goto(r, "check", "send")
  /\ DropPermit(r)
  /\ UNCHANGED <<alive, policy, obsVars, cancelled, healthy>>

\* BackendIsTooBusy
Busy(r) ==
  /\ Goto(r, "check", "idle")
  /\ DropPermit(r)
  /\ UNCHANGED <<alive, policy, obsVars, cancelled, healthy>>

-----------------------------------------------------------------------------
(* make_get_request and make_method_request *)

\* The headers come in time ...
Headers(r) ==
  /\ Goto(r, "send", "body")
  /\ UNCHANGED <<alive, policy, permits, obsVars, cancelled, healthy>>

\* ... or the URL is no URL, the client fails, or the timeout elapses.
SendFails(r) ==
  /\ Goto(r, "send", "idle")
  /\ UNCHANGED <<alive, policy, permits, obsVars, cancelled, healthy>>

\* The body is read to its end (or breaks), outside the timeout.
BodyEnds(r) ==
  /\ Goto(r, "body", "idle")
  /\ UNCHANGED <<alive, policy, permits, obsVars, cancelled, healthy>>

-----------------------------------------------------------------------------
(* observer *)

\* An interval ticked: the health check is sent.
ProbeSend ==
  /\ ~cancelled
  /\ probe = "tick"
  /\ probe' = "sent"
  /\ UNCHANGED <<alive, policy, reqVars, status, down, fails, oks, recent, cancelled, healthy>>

ProbeHeaders(s) ==
  /\ probe = "sent"
  /\ healthy <=> (s = 200)
  /\ status' = s
  /\ probe' = "body"
  /\ UNCHANGED <<alive, policy, reqVars, down, fails, oks, recent, cancelled, healthy>>

Results == {"ok", "fail"}
Remember(res) ==
  recent' = IF Len(recent) < FailOpen THEN Append(recent, res) ELSE Append(Tail(recent), res)

\* The Err branch: three failures in a row take the backend down.
ProbeFailed_Sticky ==
  /\ oks' = oks
  /\ IF ~down /\ fails + 1 >= FailOpen
     THEN down' = TRUE /\ alive' = FALSE /\ fails' = 0
     ELSE fails' = (IF down THEN fails ELSE fails + 1) /\ UNCHANGED <<down, alive>>
ProbeFailed ==
  /\ oks' = 0
  /\ IF ~down /\ fails + 1 >= FailOpen
     THEN down' = TRUE /\ alive' = FALSE /\ fails' = 0
     ELSE fails' = (IF down THEN fails ELSE fails + 1) /\ UNCHANGED <<down, alive>>

\* The Ok branch: three successes in a row bring it back.
ProbeSucceeded_Never ==
  /\ fails' = 0
  /\ oks' = (oks + 1) % OkClose
  /\ UNCHANGED <<down, alive>>
ProbeSucceeded ==
  /\ fails' = 0
  /\ IF down /\ oks + 1 >= OkClose
     THEN down' = FALSE /\ alive' = TRUE /\ oks' = 0
     ELSE oks' = (IF down THEN oks + 1 ELSE 0) /\ UNCHANGED <<down, alive>>

\* is_healthy: only status 200 is healthy.
ProbeBody ==
  /\ probe = "body"
  /\ probe' = "tick"
  /\ status' = 0
  /\ Remember(IF status = 200 THEN "ok" ELSE "fail")
  /\ IF status = 200 THEN ProbeSucceeded ELSE ProbeFailed
  /\ UNCHANGED <<policy, reqVars, cancelled, healthy>>

\* The body breaks off: an error, whatever the status.
ProbeBroken ==
  /\ probe = "body"
  /\ ~healthy
  /\ probe' = "tick"
  /\ status' = 0
  /\ Remember("fail")
  /\ ProbeFailed
  /\ UNCHANGED <<policy, reqVars, cancelled, healthy>>

\* No headers, or none in time.
ProbeLost ==
  /\ probe = "sent"
  /\ ~healthy
  /\ probe' = "tick"
  /\ Remember("fail")
  /\ ProbeFailed
  /\ UNCHANGED <<policy, reqVars, status, cancelled, healthy>>

\* The observer sees the token only while it waits for a tick.
ObserverEnds ==
  /\ cancelled
  /\ probe = "tick"
  /\ probe' = "ended"
  /\ UNCHANGED <<alive, policy, reqVars, status, down, fails, oks, recent, cancelled, healthy>>

-----------------------------------------------------------------------------
(* The control plane, the shutdown and the upstream itself *)

ChangePolicy(p) ==
  /\ policy # p
  /\ policy' = p
  /\ UNCHANGED <<alive, reqVars, obsVars, cancelled, healthy>>

Cancel ==
  /\ ~cancelled
  /\ cancelled' = TRUE
  /\ UNCHANGED <<alive, policy, reqVars, obsVars, healthy>>

Change ==
  /\ healthy' = ~healthy
  /\ UNCHANGED <<alive, policy, reqVars, obsVars, cancelled>>

Throttled(r) == Acquire(r) \/ ReadPolicy(r) \/ Pass(r) \/ Busy(r)
Sent(r) == Headers(r) \/ SendFails(r)
ProbeAnswered == (\E s \in Statuses : ProbeHeaders(s)) \/ ProbeLost
ProbeRead == ProbeBody \/ ProbeBroken

Next ==
  \/ \E r \in Requests : Begin(r) \/ Throttled(r) \/ Sent(r) \/ BodyEnds(r)
  \/ ProbeSend \/ ProbeAnswered \/ ProbeRead \/ ObserverEnds
  \/ \E p \in {"await", "deny"} : ChangePolicy(p)
  \/ Cancel \/ Change

Spec == Init /\ [][Next]_upVars

\* The semaphore is fair and the limiters have tokens again; the timeout ends
\* the wait for headers; a body ends if the upstream does not stall it.
FairSpec ==
  /\ Spec
  /\ \A r \in Requests : SF_upVars(Throttled(r)) /\ WF_upVars(Sent(r))
  /\ \A r \in Requests : WF_upVars(~BodyMayStall /\ BodyEnds(r))
  /\ WF_upVars(ProbeSend) /\ WF_upVars(ProbeAnswered) /\ WF_upVars(~BodyMayStall /\ ProbeRead)

-----------------------------------------------------------------------------
(* Properties *)

\* Types of all variables.
TypeOK ==
  /\ alive \in BOOLEAN /\ cancelled \in BOOLEAN /\ healthy \in BOOLEAN
  /\ permits \in 0..Concurrency
  /\ policy \in {"await", "deny"}
  /\ pc \in [Requests -> {"idle", "acquire", "policy", "wait", "check", "send", "body"}]
  /\ probe \in {"tick", "sent", "body", "ended"}
  /\ status \in Statuses \cup {0}
  /\ down \in BOOLEAN
  /\ fails \in 0..(FailOpen - 1)
  /\ oks \in 0..(OkClose - 1)
  /\ recent \in Seq(Results) /\ Len(recent) <= FailOpen

\* Every permit is in the semaphore or with a request inside the throttle:
\* no way out of the throttle, the error included, keeps one.
Throttling == {r \in Requests : pc[r] \in {"policy", "wait", "check"}}
PermitsConserved == permits + Cardinality(Throttling) = Concurrency

\* The health flag turns only after three equal results in a row: a backend
\* that answers on and off is neither taken down nor brought back.
HealthTurnsSlowly ==
  [][alive' # alive => Len(recent') = FailOpen /\ \A i \in 1..FailOpen : recent'[i] = (IF alive' THEN "ok" ELSE "fail")]_upVars

\* Unless it is shut down, the flag follows the upstream's health in the end.
HealthFollows ==
  [](~cancelled) => /\ <>[]healthy => <>[]alive
                    /\ <>[]~healthy => <>[]~alive

\* Every request returns, in either policy, though the policy may change at
\* any time: nobody waits for a permit for ever.
RequestsReturn == \A r \in Requests : pc[r] # "idle" ~> pc[r] = "idle"

-----------------------------------------------------------------------------
(* What the proofs add to make these inductive *)

\* The observer's counters count the results it saw last.
ResultsCounted ==
  /\ alive = ~down
  /\ IF down THEN fails = 0 ELSE oks = 0
  /\ fails <= Len(recent) /\ oks <= Len(recent)
  /\ \A i \in 0..(fails - 1) : recent[Len(recent) - i] = "fail"
  /\ \A i \in 0..(oks - 1) : recent[Len(recent) - i] = "ok"

IndInv == TypeOK /\ PermitsConserved /\ ResultsCounted
=============================================================================
