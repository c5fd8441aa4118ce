--------------------------- MODULE PairSupervision ---------------------------
(***************************************************************************)
(* Several pairs run by one manager and watched by one watchdog:           *)
(* execution/multi_pair_manager.py, core/monitoring_watchdog.py and what   *)
(* ties them together, halt_pair() of api/pairs.py and reduce_pair_size()  *)
(* of api/sizing.py (without a sizing engine: the manager is its second    *)
(* choice).                                                                *)
(*                                                                         *)
(* One task per started pair, the watchdog's task and the tasks of HTTP    *)
(* requests interleave at their awaits.  A cancelled task notices at its   *)
(* next resumption, not when it is cancelled.                              *)
(***************************************************************************)
EXTENDS Naturals, FiniteSets

CONSTANTS
  Pairs,     \* pair ids
  Callers,   \* tasks that call stop_pair() or halt_all(): the watchdog and requests
  Watchdog,  \* the caller that is the watchdog
  Slots,     \* tasks of one pair that may exist at a time
  Full,      \* alloc_usd a pair is registered with
  MaxPairs,  \* max_pairs
  None

VARIABLES
  state,    \* PairStatus.state, or None while the pair is not registered
  loop,     \* the tasks of _run_pair
  current,  \* ps.task
  halted,   \* _halted
  alloc,    \* config.alloc_usd
  original, \* _original_alloc, None where there is no entry
  exposure, \* current_notional of the pair in the risk engine
  call,     \* calls in progress: where they are and the pair they stop
  todo,     \* the pairs halt_all() has not come to
  watch,    \* the watchdog: where it is, its pair, the breaches it has not come to
  crossed,  \* history: pairs started while a task of theirs still ran
  resized   \* history: pairs resized while no task of theirs had begun

sizes == <<alloc, original, exposure>>
vars == <<state, loop, current, halted, sizes, call, todo, watch, crossed, resized>>

Actions  == {"ALERT_ONLY", "REDUCE_SIZE", "HALT"}
Breaches == {"own", "drawdown"}   \* sharpe and loss_streak; drawdown, which halts
Idle     == [at |-> "idle", pair |-> None, task |-> None]
In(l, p, s) == [at |-> l, pair |-> p, task |-> s]
Resting  == [at |-> "rest", pair |-> None, breaches |-> {}, act |-> None]

Live(p)    == {s \in Slots : loop[p][s] # "off"}
Running(p) == {s \in Slots : loop[p][s] \in {"new", "run"}}
Begun(p)   == \E s \in Slots : loop[p][s] \in {"run", "cancelled"}

Init ==
  /\ state = [p \in Pairs |-> None]
  /\ loop = [p \in Pairs |-> [s \in Slots |-> "off"]]
  /\ current = [p \in Pairs |-> None]
  /\ halted = FALSE
  /\ alloc = [p \in Pairs |-> 0]
  /\ original = [p \in Pairs |-> None]
  /\ exposure = [p \in Pairs |-> 0]
  /\ call = [c \in Callers |-> Idle]
  /\ todo = [c \in Callers |-> {}]
  /\ watch = Resting
  /\ crossed = {} /\ resized = {}

-----------------------------------------------------------------------------
(* Registration and start. *)

AddPair(p) ==
  /\ state[p] = None
  /\ Cardinality({q \in Pairs : state[q] # None}) < MaxPairs
  /\ state' = [state EXCEPT ![p] = "idle"]
  /\ alloc' = [alloc EXCEPT ![p] = Full]
  /\ UNCHANGED <<loop, current, halted, original, exposure, call, todo, watch, crossed, resized>>

\* Mutant: a halted manager starts pairs.
MayStartHalted(p) == state[p] \notin {None, "running"}

MayStart(p) == ~halted /\ state[p] \notin {None, "running"}

StartPair(p) ==
  /\ MayStart(p)
  /\ \E s \in Slots :
       /\ loop[p][s] = "off"
       /\ loop' = [loop EXCEPT ![p][s] = "new"]
       /\ current' = [current EXCEPT ![p] = s]
  /\ state' = [state EXCEPT ![p] = "running"]
  /\ crossed' = IF Live(p) = {} THEN crossed ELSE crossed \cup {p}
  /\ UNCHANGED <<halted, sizes, call, todo, watch, resized>>

Resume ==
  /\ halted /\ halted' = FALSE
  /\ UNCHANGED <<state, loop, current, sizes, call, todo, watch, crossed, resized>>

-----------------------------------------------------------------------------
(* _run_pair. *)

LoopBegins(p, s) ==
  /\ loop[p][s] = "new"
  /\ loop' = [loop EXCEPT ![p][s] = "run"]
  /\ exposure' = [exposure EXCEPT ![p] = alloc[p]]
  /\ UNCHANGED <<state, current, halted, alloc, original, call, todo, watch, crossed, resized>>

\* Whoever awaits the task goes on.
Released(p, s) ==
  [c \in Callers |->
     IF call[c] = In("join", p, s) THEN In("bus", p, None) ELSE call[c]]

\* Mutant: the exposure of a pair that stopped stays with the risk engine.
KeepsExposure(p) == exposure

Cleared(p) == [exposure EXCEPT ![p] = 0]

\* The end of a task, its `finally` included.
Finally(p, s, st) ==
  /\ loop' = [loop EXCEPT ![p][s] = "off"]
  /\ exposure' = Cleared(p)
  /\ state' = [state EXCEPT ![p] = IF st = "running" THEN "stopped" ELSE st]
  /\ call' = Released(p, s)
  /\ UNCHANGED <<current, halted, alloc, original, todo, watch, crossed, resized>>

\* The pair's own drawdown check, or an error of the risk engine.
LoopEnds(p, s) ==
  /\ loop[p][s] = "run"
  /\ Finally(p, s, state[p]) \/ Finally(p, s, "error")

LoopCancelled(p, s) ==
  /\ loop[p][s] = "cancelled"
  /\ Finally(p, s, state[p])

\* Cancelled before its first step: the coroutine never runs, nor does its `finally`.
NeverBegan(p, s) ==
  /\ loop[p][s] = "stillborn"
  /\ loop' = [loop EXCEPT ![p][s] = "off"]
  /\ call' = Released(p, s)
  /\ UNCHANGED <<state, current, halted, sizes, todo, watch, crossed, resized>>

-----------------------------------------------------------------------------
(* stop_pair and halt_all. *)

Cancel(p) ==
  [loop EXCEPT ![p][current[p]] =
     CASE @ = "run" -> "cancelled" [] @ = "new" -> "stillborn" [] OTHER -> @]

Stop(c, p) ==
  /\ state[p] = "running"
  /\ state' = [state EXCEPT ![p] = "stopped"]
  /\ loop' = Cancel(p)
  /\ call' = [call EXCEPT ![c] =
                IF loop[p][current[p]] = "off" THEN In("bus", p, None)
                ELSE In("join", p, current[p])]
  /\ UNCHANGED <<current, halted, sizes, crossed, resized>>

\* POST /pairs/stop and /pairs/halt.
StopPair(c, p) ==
  /\ c # Watchdog /\ call[c] = Idle
  /\ Stop(c, p)
  /\ UNCHANGED <<todo, watch>>

\* The notification of stop_pair() has been sent: return, or back to halt_all().
Notified(c) ==
  /\ call[c].at = "bus"
  /\ call' = [call EXCEPT ![c] = IF todo[c] = {} THEN Idle ELSE In("halting", None, None)]
  /\ UNCHANGED <<state, loop, current, halted, sizes, todo, watch, crossed, resized>>

HaltAll(c) ==
  /\ c # Watchdog /\ call[c] = Idle
  /\ halted' = TRUE
  /\ todo' = [todo EXCEPT ![c] = {p \in Pairs : state[p] # None}]
  /\ call' = [call EXCEPT ![c] = In("halting", None, None)]
  /\ UNCHANGED <<state, loop, current, sizes, watch, crossed, resized>>

HaltNext(c) ==
  /\ call[c].at = "halting"
  /\ \/ \E p \in todo[c] :
          /\ todo' = [todo EXCEPT ![c] = @ \ {p}]
          /\ IF state[p] = "running" THEN Stop(c, p)
             ELSE UNCHANGED <<state, loop, current, halted, sizes, call, crossed, resized>>
     \/ /\ todo[c] = {}
        /\ call' = [call EXCEPT ![c] = Idle]
        /\ UNCHANGED <<state, loop, current, halted, sizes, todo, crossed, resized>>
  /\ UNCHANGED watch

-----------------------------------------------------------------------------
(* set_alloc_factor and restore_alloc; a factor is given in halves. *)

Base(p) == IF original[p] = None THEN alloc[p] ELSE original[p]

SetAllocFactor(p, halves) ==
  /\ original' = [original EXCEPT ![p] = Base(p)]
  /\ alloc' = [alloc EXCEPT ![p] = (Base(p) * halves) \div 2]
  /\ exposure' = [exposure EXCEPT ![p] = (Base(p) * halves) \div 2]
  /\ resized' = IF Begun(p) THEN resized ELSE resized \cup {p}
  /\ UNCHANGED <<state, loop, current, halted, crossed>>

\* POST /sizing/reduce.
Reduce(p, halves) ==
  /\ state[p] # None
  /\ SetAllocFactor(p, halves)
  /\ UNCHANGED <<call, todo, watch>>

-----------------------------------------------------------------------------
(* The watchdog. *)

At(l, p, bs, a) == watch' = [at |-> l, pair |-> p, breaches |-> bs, act |-> a]

\* A round comes to a pair that is not silenced.  Rounds repeat and silences come and go
\* with requests, so any pair may be next.
Ask(p) ==
  /\ watch = Resting
  /\ At("asked", p, {}, None)
  /\ UNCHANGED <<state, loop, current, halted, sizes, call, todo, crossed, resized>>

\* The metrics come; an error of their provider is none.
Metrics ==
  /\ watch.at = "asked"
  /\ \E bs \in SUBSET Breaches :
       IF bs = {} THEN watch' = Resting ELSE At("judging", watch.pair, bs, None)
  /\ UNCHANGED <<state, loop, current, halted, sizes, call, todo, crossed, resized>>

\* Mutant: the threshold's action also decides on a drawdown.
OwnAction(b, a) == a

ActionFor(b, a) == IF b = "drawdown" THEN "HALT" ELSE a

\* The action is fixed, then the alert is awaited.  Requests change the threshold's own
\* action a at any time.
Judge(b, a) ==
  /\ watch.at = "judging" /\ b \in watch.breaches
  /\ At("alerting", watch.pair, watch.breaches \ {b}, ActionFor(b, a))
  /\ UNCHANGED <<state, loop, current, halted, sizes, call, todo, crossed, resized>>

Judged(bs) ==
  IF bs = {} THEN watch' = Resting ELSE At("judging", watch.pair, bs, None)

\* halt_pair(); for an unknown pair it only records that it failed.
ActHalt ==
  /\ watch.at = "alerting" /\ watch.act = "HALT"
  /\ IF state[watch.pair] = "running"
       THEN Stop(Watchdog, watch.pair) /\ At("halting", watch.pair, watch.breaches, "HALT")
       ELSE /\ Judged(watch.breaches)
            /\ UNCHANGED <<state, loop, current, halted, sizes, call, crossed, resized>>
  /\ UNCHANGED todo

HaltDone ==
  /\ watch.at = "halting" /\ call[Watchdog] = Idle
  /\ Judged(watch.breaches)
  /\ UNCHANGED <<state, loop, current, halted, sizes, call, todo, crossed, resized>>

ActReduce ==
  /\ watch.at = "alerting" /\ watch.act = "REDUCE_SIZE"
  /\ IF state[watch.pair] # None THEN SetAllocFactor(watch.pair, 1)
     ELSE UNCHANGED <<state, loop, current, halted, sizes, crossed, resized>>
  /\ Judged(watch.breaches)
  /\ UNCHANGED <<call, todo>>

ActAlert ==
  /\ watch.at = "alerting" /\ watch.act = "ALERT_ONLY"
  /\ Judged(watch.breaches)
  /\ UNCHANGED <<state, loop, current, halted, sizes, call, todo, crossed, resized>>

-----------------------------------------------------------------------------
LoopStep(p) ==
  \E s \in Slots : LoopBegins(p, s) \/ LoopCancelled(p, s) \/ NeverBegan(p, s)

CallStep(c) == Notified(c) \/ HaltNext(c)

WatchStep ==
  \/ Metrics \/ ActHalt \/ HaltDone \/ ActReduce \/ ActAlert
  \/ \E b \in Breaches, a \in Actions : Judge(b, a)

Next ==
  \/ \E p \in Pairs :
       \/ AddPair(p) \/ StartPair(p) \/ LoopStep(p) \/ Ask(p)
       \/ \E s \in Slots : LoopEnds(p, s)
       \/ \E c \in Callers : StopPair(c, p)
       \/ \E h \in 0 .. 2 : Reduce(p, h)
  \/ \E c \in Callers : HaltAll(c) \/ CallStep(c)
  \/ Resume \/ WatchStep

Spec == Init /\ [][Next]_vars

\* The event loop runs every task that is ready; alerts and metrics come back.
Fairness ==
  /\ \A p \in Pairs : WF_vars(LoopStep(p))
  /\ \A c \in Callers : WF_vars(CallStep(c))
  /\ WF_vars(WatchStep)

FairSpec == Spec /\ Fairness

TypeOK ==
  /\ state \in [Pairs -> {None, "idle", "running", "stopped", "error"}]
  /\ loop \in [Pairs -> [Slots -> {"off", "new", "run", "cancelled", "stillborn"}]]
  /\ current \in [Pairs -> Slots \cup {None}]
  /\ alloc \in [Pairs -> 0 .. Full] /\ exposure \in [Pairs -> 0 .. Full]
  /\ original \in [Pairs -> 0 .. Full \cup {None}]
  /\ call \in [Callers -> [at : {"idle", "join", "bus", "halting"}, pair : Pairs \cup {None},
                         task : Slots \cup {None}]]
  /\ watch.at \in {"rest", "asked", "judging", "alerting", "halting"}

\* halt_all ("stop all pairs immediately"): once it has returned, and until resume(), no
\* pair's task goes on, except of pairs started while an earlier task of theirs still ran.
HaltStopsAll ==
  halted /\ (\A c \in Callers : todo[c] = {} /\ call[c].at # "halting") =>
    \A p \in Pairs \ crossed : Running(p) = {}

\* The risk engine counts a pair's allocation while, and only while, a task of the pair
\* has begun, except where a pair was resized while it did not run.
ExposureIsReal ==
  \A p \in Pairs \ (crossed \cup resized) :
    exposure[p] = IF Begun(p) THEN alloc[p] ELSE 0

\* A drawdown the watchdog has seen stops the pair, whatever its threshold's action says
\* and whatever requests do meanwhile.
DrawdownHalts ==
  \A p \in Pairs :
    watch.at = "judging" /\ watch.pair = p /\ "drawdown" \in watch.breaches
      ~> state[p] # "running"
=============================================================================
