-------------------------- MODULE TrafficController --------------------------
(***************************************************************************)
(* BybitTrafficController.request of core/bybit_traffic_controller.py:     *)
(* calls of concurrent tasks for the same key share one flight, and a      *)
(* flight passes the breaker, the token bucket and the semaphore before    *)
(* its executor runs, with retries.                                        *)
(* What a call returns is left out: no property depends on it, but for      *)
(* whether there was a result to cache.                                    *)
(*                                                                         *)
(* A call runs without interruption up to its first await: the event of    *)
(* the flight it joins, the sleep of the bucket, the semaphore, the        *)
(* executor or the sleep before a retry.  The locks of the bucket and the  *)
(* cache are never held across an await, so taking them never suspends.    *)
(* Tasks woken by an event resume before any other flight can end.         *)
(***************************************************************************)
EXTENDS TrafficBreaker, FiniteSets

CONSTANTS
  Tasks,            \* asyncio tasks that call request()
  Keys,             \* cache keys (endpoint and params)
  None,             \* no task, no call
  Burst,            \* capacity of the token bucket
  MaxConcurrent,    \* cfg.max_concurrent
  CriticalRetries,  \* max_retries of CRITICAL_POSITION_PROTECTION
  OtherRetries,     \* max_retries of the other groups
  MayCancel         \* tasks may be cancelled while they await

ASSUME ControllerAssumption ==
  /\ IsFiniteSet(Tasks) /\ None \notin Tasks
  /\ Burst \in Nat \ {0} /\ MaxConcurrent \in Nat \ {0}
  /\ CriticalRetries \in Nat /\ OtherRetries \in Nat
  /\ MayCancel \in BOOLEAN

VARIABLES
  pc,        \* where a task's call awaits: "idle" when it has none
  call,      \* its arguments: cache key, caching asked for, retries left
  inflight,  \* _inflight: key -> task that leads the flight
  cache,     \* keys with an entry in _cache that has not expired
  tokens,    \* _bucket
  permits,   \* free places of _semaphore
  paused     \* _non_critical_paused

vars == <<pc, call, inflight, cache, tokens, permits, paused, breakerVars>>

Groups  == {"critical", "other", "optional"}   \* optional ones can be paused
MaxRetries == IF CriticalRetries > OtherRetries THEN CriticalRetries ELSE OtherRetries
Calls == [key : Keys, cached : BOOLEAN, left : 0 .. MaxRetries]

Retries(g) == IF g = "critical" THEN CriticalRetries ELSE OtherRetries

Leading == {"bucket", "sem", "run", "retry"}   \* awaits of a flight's leader
Holding == {"run", "retry"}                    \* those inside the semaphore

Init ==
  /\ pc = [t \in Tasks |-> "idle"]
  /\ call = [t \in Tasks |-> None]
  /\ inflight = [k \in Keys |-> None]
  /\ cache = {}
  /\ tokens = Burst /\ permits = MaxConcurrent /\ paused = FALSE
  /\ BreakerInit

-----------------------------------------------------------------------------
(* request(), up to its first await. *)

\* The semaphore serves those who wait for it first.
Enter(t) ==
  \/ /\ permits > 0 /\ \A s \in Tasks : pc[s] # "sem"
     /\ permits' = permits - 1
     /\ pc' = [pc EXCEPT ![t] = "run"]
  \/ /\ permits = 0 \/ \E s \in Tasks : pc[s] = "sem"
     /\ pc' = [pc EXCEPT ![t] = "sem"]
     /\ UNCHANGED permits

\* Take a token or sleep until there may be one.
TakeToken(t) ==
  \/ /\ tokens > 0
     /\ tokens' = tokens - 1
     /\ Enter(t)
  \/ /\ tokens = 0
     /\ pc' = [pc EXCEPT ![t] = "bucket"]
     /\ UNCHANGED <<tokens, permits>>

\* Mutant: a flight in progress is not looked for.
LeadAlways(t, k) == inflight' = [inflight EXCEPT ![k] = t] /\ TakeToken(t)

\* Join the flight of the key, or lead a new one.
JoinOrLead(t, k) ==
  \/ /\ inflight[k] # None
     /\ pc' = [pc EXCEPT ![t] = "wait"]
     /\ UNCHANGED <<inflight, tokens, permits>>
  \/ /\ inflight[k] = None
     /\ inflight' = [inflight EXCEPT ![k] = t]
     /\ TakeToken(t)

\* A call that is neither paused, nor answered by the cache, nor blocked by the
\* breaker (those return at once and change nothing).
Start(t, k, g, c) ==
  /\ pc[t] = "idle"
  /\ ~(paused /\ g = "optional")
  /\ ~(c /\ k \in cache)
  /\ Admit
  /\ call' = [call EXCEPT ![t] = [key |-> k, cached |-> c, left |-> Retries(g)]]
  /\ JoinOrLead(t, k)
  /\ UNCHANGED <<cache, paused>>

-----------------------------------------------------------------------------
(* The leader of a flight. *)

\* _cleanup_inflight: the flight ends and its waiters return.
Waiters(k) == {w \in Tasks : pc[w] = "wait" /\ call[w].key = k}

Returning(ts) ==
  /\ pc'   = [x \in Tasks |-> IF x \in ts THEN "idle" ELSE pc[x]]
  /\ call' = [x \in Tasks |-> IF x \in ts THEN None ELSE call[x]]

\* Mutant: the event is popped and never set.
WakeNobody(t) ==
  /\ Returning({t})
  /\ inflight' = [inflight EXCEPT ![call[t].key] = None]

Wake(t) ==
  LET k == call[t].key IN
  /\ Returning({t} \cup Waiters(k))
  /\ inflight' = [inflight EXCEPT ![k] = None]

\* Mutant: the place is given back only when the call succeeded.
LeaveOnSuccess(got) == permits' = IF got THEN permits + 1 ELSE permits

Leave(got) == permits' = permits + 1

\* The executor loop returned, with a result if got; the event was set first, but
\* nothing awaits before the result is cached.
EndFlight(t, got) ==
  LET k == call[t].key IN
  /\ Leave(got)
  /\ cache' = IF got /\ call[t].cached THEN cache \cup {k} ELSE cache
  /\ Wake(t)

PollBucket(t) ==
  /\ pc[t] = "bucket" /\ tokens > 0
  /\ tokens' = tokens - 1
  /\ Enter(t)
  /\ UNCHANGED <<call, inflight, cache, paused, breakerVars>>

\* The bucket's timeout passed: return None and wake the waiters.
RateLimited(t) ==
  /\ pc[t] = "bucket"
  /\ UNCHANGED cache
  /\ Wake(t)
  /\ UNCHANGED <<tokens, permits, paused, breakerVars>>

GetPermit(t) ==
  /\ pc[t] = "sem" /\ permits > 0
  /\ permits' = permits - 1
  /\ pc' = [pc EXCEPT ![t] = "run"]
  /\ UNCHANGED <<call, inflight, cache, tokens, paused, breakerVars>>

Succeed(t, got) ==
  /\ pc[t] = "run"
  /\ OnSuccess
  /\ EndFlight(t, got)
  /\ UNCHANGED <<tokens, paused>>

\* Retry while attempts are left, the place in the semaphore kept meanwhile.
Fail(t, code) ==
  /\ pc[t] = "run"
  /\ RecordError(code)
  /\ \/ /\ call[t].left > 0
        /\ call' = [call EXCEPT ![t].left = @ - 1]
        /\ pc' = [pc EXCEPT ![t] = "retry"]
        /\ UNCHANGED <<inflight, cache, permits>>
     \/ call[t].left = 0 /\ EndFlight(t, FALSE)
  /\ UNCHANGED <<tokens, paused>>

Retry(t) ==
  /\ pc[t] = "retry"
  /\ pc' = [pc EXCEPT ![t] = "run"]
  /\ UNCHANGED <<call, inflight, cache, tokens, permits, paused, breakerVars>>

\* The calling task is cancelled: only a leader inside the semaphore cleans up.
Cancelled(t) ==
  /\ MayCancel
  /\ \/ /\ pc[t] \in {"wait", "bucket", "sem"}
        /\ Returning({t})
        /\ UNCHANGED <<inflight, cache, permits>>
     \/ /\ pc[t] \in Holding
        /\ permits' = permits + 1
        /\ UNCHANGED cache
        /\ Wake(t)
  /\ UNCHANGED <<tokens, paused, breakerVars>>

-----------------------------------------------------------------------------
(* Time and operators. *)

Environment ==
  \/ /\ Forget \/ Cool \/ ForceOpen
     /\ UNCHANGED <<tokens, cache, paused>>
  \/ /\ tokens < Burst /\ tokens' = tokens + 1
     /\ UNCHANGED <<breakerVars, cache, paused>>
  \/ \E k \in cache : /\ cache' = cache \ {k}      \* expiry or invalidate_cache
                      /\ UNCHANGED <<breakerVars, tokens, paused>>
  \/ /\ paused' = ~paused
     /\ UNCHANGED <<breakerVars, tokens, cache>>

Tick == Environment /\ UNCHANGED <<pc, call, inflight, permits>>

Answer(t) == (\E got \in BOOLEAN : Succeed(t, got)) \/ (\E c \in Codes : Fail(t, c))

Next ==
  \/ \E t \in Tasks, k \in Keys, g \in Groups, c \in BOOLEAN : Start(t, k, g, c)
  \/ \E t \in Tasks : \/ PollBucket(t) \/ RateLimited(t) \/ GetPermit(t)
                      \/ Answer(t) \/ Retry(t) \/ Cancelled(t)
  \/ Tick

Spec == Init /\ [][Next]_vars

\* The event loop runs what is ready, HTTP calls end (they have timeouts), sleeps
\* are finite and the semaphore is first come first served.
FairSpec ==
  /\ Spec
  /\ \A t \in Tasks : /\ WF_vars(PollBucket(t) \/ RateLimited(t))
                      /\ WF_vars(Answer(t)) /\ WF_vars(Retry(t))
                      /\ SF_vars(GetPermit(t))

-----------------------------------------------------------------------------
(* Properties. *)

\* Every variable keeps to the values the code can give it (type invariant).
TypeOK ==
  /\ pc \in [Tasks -> {"idle", "wait"} \cup Leading]
  /\ call \in [Tasks -> Calls \cup {None}]
  /\ \A t \in Tasks : IF pc[t] = "idle" THEN call[t] = None ELSE call[t] \in Calls
  /\ inflight \in [Keys -> Tasks \cup {None}]
  /\ cache \in SUBSET Keys
  /\ tokens \in 0 .. Burst /\ permits \in 0 .. MaxConcurrent
  /\ paused \in BOOLEAN
  /\ BreakerTypeOK

\* Singleflight: a key has one leader at most, the one _inflight names, however
\* calls start, end, are rejected or cancelled.
OneFlightPerKey == \A t \in Tasks : pc[t] \in Leading => inflight[call[t].key] = t

\* No place of the semaphore is lost or given back twice, whatever awaits fail
\* or are cancelled.
PermitsConserved ==
  permits + Cardinality({t \in Tasks : pc[t] \in Holding}) = MaxConcurrent

\* Whoever waits for a flight waits for one that is in progress, so its event
\* will be set.
WaiterHasLeader ==
  \A t \in Tasks : pc[t] = "wait" =>
    \E l \in Tasks : /\ inflight[call[t].key] = l
                      /\ pc[l] \in Leading /\ call[l].key = call[t].key

\* At most one call is let through each time the breaker opens, although calls
\* admitted earlier still report to it.
SingleProbe == admitted <= 1

\* Every call returns, as long as no task is cancelled.
CallsReturn == \A t \in Tasks : pc[t] # "idle" ~> pc[t] = "idle"
===============================================================================
