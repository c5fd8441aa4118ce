------------------------------- MODULE BarFeed -------------------------------
(***************************************************************************)
(* Bars for a pair: two BybitWsFeed (execution/bybit_ws_feed.py), one per  *)
(* leg, under a BybitWsBarsAdapter (execution/bybit_ws_bars.py) that the   *)
(* trading loop calls with get_bar().                                      *)
(*                                                                         *)
(* Each feed's reconnect loop, each leg's consumer task and the caller     *)
(* interleave at their awaits.  The exchange is external: a connection     *)
(* attempt fails or succeeds, and a connection falls silent without an     *)
(* error.  Time is the passing of the 60 s after which a silent feed is    *)
(* dead.                                                                   *)
(***************************************************************************)
EXTENDS Naturals, FiniteSets

CONSTANTS
  Legs,           \* the two symbols
  MaxReconnects,  \* ws_max_reconnects
  Threshold,      \* _DEAD_RECONNECT_THRESHOLD
  Room,           \* size of a feed's bar queue
  AdapterRoom     \* size of the adapter's queue

VARIABLES
  loop,     \* a feed's _run_loop: "off", "connect", "listen", "sleep", "over"
  link,     \* legs whose connection delivers messages
  old,      \* legs whose last message is more than 60 s ago
  deads,    \* _dead_count
  fails,    \* reconnect_count
  queue,    \* bars in a feed's queue
  holding,  \* legs whose consumer waits for room in the adapter's queue
  tokens,   \* entries of the adapter's queue
  priced,   \* keys of _prices
  caller    \* the caller of get_bar: "idle", "waiting", or what it got

feeds    == <<loop, link, old, deads, fails>>
adapter  == <<holding, tokens, priced, caller>>
vars     == <<feeds, queue, adapter>>

Nothing == "nothing"

Init ==
  /\ loop = [l \in Legs |-> "off"] /\ link = {} /\ old = {}
  /\ deads = [l \in Legs |-> 0] /\ fails = [l \in Legs |-> 0]
  /\ queue = [l \in Legs |-> 0]
  /\ holding = {} /\ tokens = 0 /\ priced = {} /\ caller = "idle"

-----------------------------------------------------------------------------
(* BybitWsFeed._run_loop and _connect_and_listen. *)

\* A message: _enqueue stamps the feed and resets _dead_count before it is queued.
Stamped(l) == /\ old' = old \ {l}
              /\ deads' = [deads EXCEPT ![l] = 0]

Connects(l) ==
  /\ loop[l] = "connect"
  /\ loop' = [loop EXCEPT ![l] = "listen"]
  /\ link' = link \cup {l}
  /\ Stamped(l)
  /\ UNCHANGED <<fails, queue, adapter>>

\* The constructor or the subscription raises.
ConnectFails(l) ==
  /\ loop[l] = "connect"
  /\ fails' = [fails EXCEPT ![l] = @ + 1]
  /\ loop' = [loop EXCEPT ![l] = IF fails[l] + 1 > MaxReconnects THEN "over" ELSE "sleep"]
  /\ UNCHANGED <<link, old, deads, queue, adapter>>

Retries(l) ==
  /\ loop[l] = "sleep"
  /\ loop' = [loop EXCEPT ![l] = "connect"]
  /\ UNCHANGED <<link, old, deads, fails, queue, adapter>>

\* Mutant: any check that does not reconnect resets the count.
CountFromZero(l) == 0

DeadCount(l) == deads[l] + 1

\* The dead feed check, once a second: the Threshold-th in a row leaves the loop,
\* _connect_and_listen returns normally and the feed connects anew.
DeadCheck(l) ==
  /\ loop[l] = "listen" /\ l \in old
  /\ IF DeadCount(l) >= Threshold
       THEN /\ loop' = [loop EXCEPT ![l] = "connect"]
            /\ link' = link \ {l}
            /\ deads' = [deads EXCEPT ![l] = 0]
            /\ fails' = [fails EXCEPT ![l] = 0]
       ELSE /\ deads' = [deads EXCEPT ![l] = DeadCount(l)]
            /\ UNCHANGED <<loop, link, fails>>
  /\ UNCHANGED <<old, queue, adapter>>

-----------------------------------------------------------------------------
(* The exchange and time. *)

\* A bar.  A full queue raises in the callback: the newest bar is dropped.
BarComes(l) ==
  /\ l \in link
  /\ queue' = [queue EXCEPT ![l] = IF @ < Room THEN @ + 1 ELSE @]
  /\ Stamped(l)
  /\ UNCHANGED <<loop, link, fails, adapter>>

FallsSilent(l) ==
  /\ l \in link
  /\ link' = link \ {l}
  /\ UNCHANGED <<loop, old, deads, fails, queue, adapter>>

\* 60 s without a message.
Ages(l) ==
  /\ loop[l] = "listen" /\ l \notin old
  /\ old' = old \cup {l}
  /\ UNCHANGED <<loop, link, deads, fails, queue, adapter>>

-----------------------------------------------------------------------------
(* BybitWsBarsAdapter. *)

\* _consume_symbol: the price is written, then the symbol queued, for which it may wait.
Consume(l) ==
  /\ queue[l] > 0 /\ l \notin holding
  /\ queue' = [queue EXCEPT ![l] = @ - 1]
  /\ priced' = priced \cup {l}
  /\ IF tokens < AdapterRoom
       THEN tokens' = tokens + 1 /\ UNCHANGED holding
       ELSE holding' = holding \cup {l} /\ UNCHANGED tokens
  /\ UNCHANGED <<feeds, caller>>

PutWaited(l) ==
  /\ l \in holding /\ tokens < AdapterRoom
  /\ holding' = holding \ {l}
  /\ tokens' = tokens + 1
  /\ UNCHANGED <<feeds, queue, priced, caller>>

\* The first call starts the consumers, and they their feeds.
GetBar ==
  /\ caller # "waiting"
  /\ caller' = "waiting"
  /\ loop' = [l \in Legs |-> IF loop[l] = "off" THEN "connect" ELSE loop[l]]
  /\ UNCHANGED <<link, old, deads, fails, queue, holding, tokens, priced>>

Answer ==
  /\ caller = "waiting" /\ tokens > 0
  /\ tokens' = tokens - 1
  /\ caller' = IF priced = Legs THEN "bar" ELSE Nothing
  /\ UNCHANGED <<feeds, queue, holding, priced>>

Timeout ==
  /\ caller = "waiting"
  /\ caller' = Nothing
  /\ UNCHANGED <<feeds, queue, holding, tokens, priced>>

-----------------------------------------------------------------------------
Task(l) == Retries(l) \/ DeadCheck(l)

Attempt(l) == Connects(l) \/ ConnectFails(l)

Next ==
  \/ \E l \in Legs :
       \/ Task(l) \/ Attempt(l) \/ Consume(l) \/ PutWaited(l)
       \/ BarComes(l) \/ FallsSilent(l) \/ Ages(l)
  \/ GetBar \/ Answer \/ Timeout

Spec == Init /\ [][Next]_vars

\* The event loop runs each feed's task, an attempt to connect ends, and time passes.
Fairness ==
  \A l \in Legs : WF_vars(Task(l)) /\ WF_vars(Attempt(l)) /\ WF_vars(Ages(l))

FairSpec == Spec /\ Fairness

TypeOK ==
  /\ loop \in [Legs -> {"off", "connect", "listen", "sleep", "over"}]
  /\ link \subseteq Legs /\ old \subseteq Legs
  /\ holding \subseteq Legs /\ priced \subseteq Legs
  /\ deads \in [Legs -> 0 .. Threshold - 1]
  /\ fails \in [Legs -> 0 .. MaxReconnects + 1]
  /\ queue \in [Legs -> 0 .. Room] /\ tokens \in 0 .. AdapterRoom
  /\ caller \in {"idle", "waiting", "bar", Nothing}

\* A connection that has fallen silent is replaced, unless the feed gives up: the dead
\* checks add up although each reconnection and each message starts them anew.
SilenceIsNoticed ==
  \A l \in Legs : loop[l] = "listen" /\ l \notin link ~> l \in link \/ loop[l] = "over"
=============================================================================
