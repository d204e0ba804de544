----------------------------- MODULE CacheProxy -----------------------------
(***************************************************************************)
(* The HTTP handlers around the storage: the cache/proxy route             *)
(* (src/controller/cache.rs) with its counters and the task that drains    *)
(* them, the bypass switch (bypass.rs), the two-step clear (clear.rs).     *)
(* Handlers run concurrently; the server drops one that takes longer than  *)
(* 30 s at whatever await it has reached.  The storage and the upstream    *)
(* are reduced to what a handler sees of them.                             *)
(***************************************************************************)
EXTENDS Integers, Sequences, FiniteSets

CONSTANTS
  Requests,   \* requests to the route, each made once
  Keys,       \* what they ask for
  Ruled,      \* keys whose path matches a cache rule
  Operators,  \* clients of the clear endpoint
  MaxTokens,  \* bound: clear tokens made
  MaxReports  \* bound: reports of the counters

ASSUME ProxyConstants ==
  /\ Ruled \subseteq Keys
  /\ IsFiniteSet(Requests)
  /\ MaxTokens \in Nat
  /\ MaxReports \in Nat

\* The counters, in the order in which a report takes them.
Order == <<"total", "hits", "misses", "proxied", "errored">>
Counters == {Order[i] : i \in DOMAIN Order}
Clones == {"bypass", "proxy"}

VARIABLES
  on,       \* clone of the configuration -> its enabled flag
  cached,   \* the keys the storage holds
  req,      \* request -> [at, key, retried, failed]
  window,   \* counter -> its value since the last report
  metric,   \* counter -> its value for /metrics
  drained,  \* counter -> what the reports have taken so far
  taken,    \* how many counters the reports have taken
  token,    \* the clear token, 0 if none
  expired,  \* its five minutes are over
  made,     \* clear tokens made so far
  oper,     \* operator -> [at, token, stale]: the token it knows or sends, and
            \* the one that had expired when its call read the time
  clears    \* history: the tokens that have cleared the storage, in order

countVars == <<window, metric, drained, taken>>
clearVars == <<token, expired, made, oper, clears>>
vars == <<on, cached, req, countVars, clearVars>>

None == "none"
NoCall == [at |-> "idle", token |-> 0, stale |-> 0]
Zero == [c \in Counters |-> 0]

TypeOK ==
  /\ on \in [Clones -> BOOLEAN]
  /\ cached \subseteq Ruled
  /\ req \in [Requests -> [at : {"new", "in", "render", "fetch", "proxy", "done", "dropped"},
                           key : Keys \cup {None}, retried : BOOLEAN, failed : BOOLEAN]]
  /\ {window, metric, drained} \subseteq [Counters -> 0..(2 * Cardinality(Requests))]
  /\ taken \in 0..(MaxReports * Len(Order))
  /\ token \in 0..MaxTokens
  /\ expired \in BOOLEAN
  /\ made \in 0..MaxTokens
  /\ oper \in [Operators -> [at : {"idle", "ask", "confirm"}, token : 0..MaxTokens, stale : 0..MaxTokens]]
  /\ clears \in Seq(1..MaxTokens)

Init ==
  /\ on \in {[c \in Clones |-> v] : v \in BOOLEAN}
  /\ cached = {}
  /\ req = [r \in Requests |-> [at |-> "new", key |-> None, retried |-> FALSE, failed |-> FALSE]]
  /\ window = Zero /\ metric = Zero /\ drained = Zero /\ taken = 0
  /\ token = 0 /\ expired = FALSE /\ made = 0
  /\ oper = [o \in Operators |-> NoCall]
  /\ clears = <<>>

-----------------------------------------------------------------------------
(* Counters: one for the periodic report, one for /metrics.  Nothing reads   *)
(* both, so that adding to the two is one step.                             *)

Counted(f, C) == [c \in Counters |-> IF c \in C THEN f[c] + 1 ELSE f[c]]
Count(C) ==
  /\ window' = Counted(window, C)
  /\ metric' = Counted(metric, C)
  /\ UNCHANGED <<drained, taken>>

\* run_logger_metrics_writer swaps one counter after the other for zero.
Swapped(c) == [window EXCEPT ![c] = 0]
Report ==
  LET c == Order[(taken % Len(Order)) + 1]
  IN  /\ taken < MaxReports * Len(Order)
      /\ drained' = [drained EXCEPT ![c] = @ + window[c]]
      /\ window' = Swapped(c)
      /\ taken' = taken + 1
      /\ UNCHANGED <<metric, on, cached, req, clearVars>>

-----------------------------------------------------------------------------
(* The route *)

Goes(r, at) == req' = [req EXCEPT ![r].at = at]
\* The same, when the key does not matter any more.
Leaves(r, at) == req' = [req EXCEPT ![r].at = at, ![r].key = None]

\* index counts the request before it looks at anything.
Arrive(r, k) ==
  /\ req[r].at = "new"
  /\ req' = [req EXCEPT ![r].at = "in", ![r].key = k]
  /\ Count({"total"})
  /\ UNCHANGED <<on, cached, clearVars>>

\* Its own clone of the configuration sends it to the proxy, or else to the
\* cache, which sends back what no rule matches.
Matched_Any(r) == TRUE
Matched(r) == req[r].key \in Ruled
ToProxy(r) ==
  /\ req[r].at = "in"
  /\ ~on["proxy"] \/ ~Matched(r)
  /\ Leaves(r, "proxy")
  /\ Count({"proxied"})
  /\ UNCHANGED <<on, cached, clearVars>>

Lookup(r) ==
  /\ req[r].at = "in"
  /\ on["proxy"] /\ Matched(r)
  /\ LET hit == req[r].key \in cached
     IN  /\ Goes(r, IF hit THEN "render" ELSE "fetch")
         /\ Count(IF hit THEN {"hits"} ELSE {"misses"})
  /\ UNCHANGED <<on, cached, clearVars>>

Rendered(r) ==
  /\ req[r].at = "render"
  /\ Leaves(r, "done")
  /\ UNCHANGED <<on, cached, countVars, clearVars>>

\* An entry that cannot be rendered is asked for again through the proxy: the
\* request is a hit and is proxied.
Retry_Uncounted(r) == {}
Retry(r) == {"proxied"}
RenderFails(r) ==
  /\ req[r].at = "render"
  /\ req' = [req EXCEPT ![r].at = "proxy", ![r].key = None, ![r].retried = TRUE]
  /\ Count(Retry(r))
  /\ UNCHANGED <<on, cached, clearVars>>

\* The upstream has answered; a 5xx, or no answer at all, is an error.  Only a
\* 200 is stored, and the storage may decline it.
Answered(r, failed) ==
  /\ req' = [req EXCEPT ![r].at = "done", ![r].key = None, ![r].failed = failed]
  /\ Count(IF failed THEN {"errored"} ELSE {})
  /\ UNCHANGED <<on, clearVars>>

Fetched(r, failed) ==
  /\ req[r].at = "fetch"
  /\ Answered(r, failed)
  /\ cached' \in IF failed THEN {cached} ELSE {cached, cached \cup {req[r].key}}

Proxied(r, failed) ==
  /\ req[r].at = "proxy"
  /\ Answered(r, failed)
  /\ UNCHANGED cached

\* TimeoutLayer, or a client that goes away: the handler is dropped where it
\* waits for the upstream.
Timeout(r) ==
  /\ req[r].at \in {"fetch", "proxy"}
  /\ Leaves(r, "dropped")
  /\ UNCHANGED <<on, cached, countVars, clearVars>>

\* The storage removes what it holds for reasons of its own.
Evict(k) ==
  /\ k \in cached
  /\ cached' = cached \ {k}
  /\ UNCHANGED <<on, req, countVars, clearVars>>

\* /bypass/on and /bypass/off set the flag of the switch's own clone, and the
\* status tells that one.
Bypass(v) ==
  /\ on["bypass"] = v
  /\ on' = [on EXCEPT !["bypass"] = ~v]
  /\ UNCHANGED <<cached, req, countVars, clearVars>>

-----------------------------------------------------------------------------
(* handle_clear *)

Expire ==
  /\ token # 0 /\ ~expired
  /\ expired' = TRUE
  /\ UNCHANGED <<on, cached, req, countVars, token, made, oper, clears>>

\* The time is read before the lock is waited for: what has expired by then.
Stale == IF expired THEN token ELSE 0

\* A call without a token: the one in force is given out again, or a new one
\* made.
Ask(o) ==
  /\ oper[o].at = "idle"
  /\ oper' = [oper EXCEPT ![o] = [at |-> "ask", token |-> 0, stale |-> Stale]]
  /\ UNCHANGED <<on, cached, req, countVars, token, expired, made, clears>>

AskToken(o) ==
  /\ oper[o].at = "ask"
  /\ \/ /\ token # 0 /\ token # oper[o].stale
        /\ oper' = [oper EXCEPT ![o] = [NoCall EXCEPT !.token = token]]
        /\ UNCHANGED <<token, expired, made>>
     \/ /\ token = 0 \/ token = oper[o].stale
        /\ made < MaxTokens
        /\ made' = made + 1
        /\ token' = made + 1
        /\ expired' = FALSE
        /\ oper' = [oper EXCEPT ![o] = [NoCall EXCEPT !.token = made + 1]]
  /\ UNCHANGED <<on, cached, req, countVars, clears>>

\* A call with one.  A wrong token (0) may be sent as well, and a spent one by
\* another operator who was given it.
Confirm(o, t) ==
  /\ oper[o].at = "idle"
  /\ oper' = [oper EXCEPT ![o] = [at |-> "confirm", token |-> t, stale |-> Stale]]
  /\ UNCHANGED <<on, cached, req, countVars, token, expired, made, clears>>

\* The token is void from here on, whether it was the right one or not.
Spent_IfWrong(valid) == IF valid THEN token ELSE 0
Spent(valid) == 0
Clear(o) ==
  /\ oper[o].at = "confirm"
  /\ LET valid == token # 0 /\ oper[o].token = token /\ token # oper[o].stale
     IN  /\ cached' = IF valid THEN {} ELSE cached
         /\ clears' = IF valid THEN Append(clears, token) ELSE clears
         /\ token' = Spent(valid)
  /\ expired' = (token' # 0 /\ expired)
  /\ oper' = [oper EXCEPT ![o] = NoCall]
  /\ UNCHANGED <<on, req, countVars, made>>

-----------------------------------------------------------------------------
Handler(r) == ToProxy(r) \/ Lookup(r) \/ Rendered(r) \/ RenderFails(r)
Upstream(r) == \E failed \in BOOLEAN : Fetched(r, failed) \/ Proxied(r, failed)
Operator(o) == Ask(o) \/ AskToken(o) \/ Clear(o) \/ \E t \in {0, oper[o].token} : Confirm(o, t)

Next ==
  \/ \E r \in Requests : (\E k \in Keys : Arrive(r, k)) \/ Handler(r) \/ Upstream(r) \/ Timeout(r)
  \/ \E k \in Ruled : Evict(k)
  \/ \E v \in BOOLEAN : Bypass(v)
  \/ \E o \in Operators : Operator(o)
  \/ Report
  \/ Expire

Spec == Init /\ [][Next]_vars

-----------------------------------------------------------------------------
(* Properties *)

In(at) == {r \in Requests : req[r].at = at}
Retried == {r \in Requests : req[r].retried}
Failed == {r \in Requests : req[r].failed}

\* However requests and the drain interleave, no count is lost or taken twice:
\* the reports and what is left for the next add up to /metrics, and every
\* request, once past its first step, is a hit, a miss or proxied, a hit that
\* could not be rendered being both; every failed one is an error once.
CountsAddUp ==
  /\ \A c \in Counters : metric[c] = drained[c] + window[c]
  /\ metric["total"] + Cardinality(Retried)
       = metric["hits"] + metric["misses"] + metric["proxied"] + Cardinality(In("in"))
  /\ metric["errored"] = Cardinality(Failed)

\* A token clears the storage at most once, and never after a later token has
\* done so, whatever operators ask for, confirm and mistype at the same time.
OneClearPerToken == \A i, j \in DOMAIN clears : i < j => clears[i] < clears[j]

-----------------------------------------------------------------------------
(* What the proofs add to make the invariants inductive *)

\* Who is retried, failed or about to be stored has come the right way; the
\* total counts the requests that have arrived.
RequestsOK ==
  /\ metric["total"] = Cardinality(Requests \ In("new"))
  /\ \A r \in Requests :
       /\ req[r].at \in {"new", "in", "render", "fetch"} => ~req[r].retried
       /\ req[r].at # "done" => ~req[r].failed
       /\ req[r].at \in {"render", "fetch"} => req[r].key \in Ruled

\* Tokens are numbered as they are made, and the one in force has not been used.
TokensOK ==
  /\ token <= made
  /\ \A i \in DOMAIN clears : clears[i] <= made /\ (token # 0 => clears[i] < token)

IndInv == TypeOK /\ CountsAddUp /\ OneClearPerToken /\ RequestsOK /\ TokensOK
=============================================================================
