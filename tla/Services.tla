------------------------------ MODULE Services ------------------------------
(***************************************************************************)
(* Parts that share nothing, side by side: the connection breaker          *)
(* (ConnectionBreaker, extended here), the processes and their lock        *)
(* (Application), a manager of pairs under its watchdog (PairSupervision), *)
(* a pair's bars (BarFeed) and the paper trader (PaperTrader).  A          *)
(* behaviour runs the one chosen in `focus` and leaves the others where    *)
(* they start, so that their states are added and not multiplied.          *)
(*                                                                         *)
(* PairSupervision is run twice, under different constants: "crossing"     *)
(* with allocations and several tasks of a pair, "halting" without         *)
(* allocations.                                                            *)
(***************************************************************************)
EXTENDS ConnectionBreaker, Integers

CONSTANTS
  None,
  \* Application
  Processes, Pids, Runners, Allocator,
  \* PairSupervision
  CrossingPairs, CrossingSlots, HaltingPairs, HaltingSlots, Callers, Watchdog, Full,
  MaxRegistered,
  \* BarFeed
  Legs, MaxReconnects, MaxDead, FeedRoom, AdapterRoom,
  \* PaperTrader
  Capital, PairPct, SoftPct, HardPct, Prices, Fee, DailyLimit, Room, DropThreshold, Warmup,
  MaxPairs, MaxTrades

\* None stands for no value.
ASSUME NoneAssumption ==
  /\ None \notin Pids \cup CrossingPairs \cup CrossingSlots \cup HaltingPairs \cup HaltingSlots
  /\ None \notin {"torn", "idle", "running", "stopped", "error", "signal", "PAIR_DD", "HARD_STOP"}
  /\ None \notin [side : {-1, 1}, entry : Prices]
  /\ "torn" \notin Pids

\* Allocations, sizes of queues and thresholds count; prices and fees are numbers.
ASSUME SettingsAssumption ==
  /\ Full \in Nat
  /\ MaxReconnects \in Nat /\ MaxDead \in Nat \ {0} /\ FeedRoom \in Nat /\ AdapterRoom \in Nat
  /\ Prices \subseteq Int /\ Fee \in Int
  /\ Room \in Nat /\ DropThreshold \in Nat /\ Warmup \in Nat \ {0} /\ MaxPairs \in Nat

VARIABLES
  focus,
  file, pc, pid, found, task, outcome, overlap, orphaned, early, refused,
  pairState, loop, current, halted, alloc, original, exposure, call, todo, watch,
  crossed, resized,
  feed, link, old, deads, fails, bars, holding, tokens, priced, caller,
  notifier, paperState, at, reason, queue, drops, warming, price, position, daily, realised,
  fees, dd, taken, nPairs, trades, gross, peak, blind

A == INSTANCE Application WITH Tasks <- Runners

C == INSTANCE PairSupervision WITH
       Pairs <- CrossingPairs, Slots <- CrossingSlots, MaxPairs <- MaxRegistered,
       state <- pairState

H == INSTANCE PairSupervision WITH
       Pairs <- HaltingPairs, Slots <- HaltingSlots, Full <- 0, MaxPairs <- MaxRegistered,
       state <- pairState

F == INSTANCE BarFeed WITH
       Threshold <- MaxDead, Room <- FeedRoom, loop <- feed, queue <- bars

P == INSTANCE PaperTrader WITH state <- paperState

breaker     == <<state, failures, halfCalls, elapsed, inside, probing>>
application == <<file, pc, pid, found, task, outcome, overlap, orphaned, early, refused>>
supervision == <<pairState, loop, current, halted, alloc, original, exposure, call, todo,
                 watch, crossed, resized>>
barFeed == <<feed, link, old, deads, fails, bars, holding, tokens, priced, caller>>
paper == <<notifier, paperState, at, reason, queue, drops, warming, price, position, daily,
           realised, fees, dd, taken, nPairs, trades, gross, peak, blind>>
allVars == <<focus, breaker, application, supervision, barFeed, paper>>

\* What a paper trader starts with matters to nothing else.
ServicesInit ==
  /\ focus \in {"breaker", "application", "crossing", "halting", "feed", "paper"}
  /\ Init /\ A!Init /\ F!Init /\ P!Init
  /\ focus # "paper" => price = 0 /\ ~notifier
  /\ IF focus = "crossing" THEN C!Init ELSE H!Init

ServicesNext ==
  \/ focus = "breaker" /\ Next /\ UNCHANGED <<focus, application, supervision, barFeed, paper>>
  \/ focus = "application" /\ A!Next /\ UNCHANGED <<focus, breaker, supervision, barFeed, paper>>
  \/ focus = "crossing" /\ C!Next /\ UNCHANGED <<focus, breaker, application, barFeed, paper>>
  \/ focus = "halting" /\ H!Next /\ UNCHANGED <<focus, breaker, application, barFeed, paper>>
  \/ focus = "feed" /\ F!Next /\ UNCHANGED <<focus, breaker, application, supervision, paper>>
  \/ focus = "paper" /\ P!Next /\ UNCHANGED <<focus, breaker, application, supervision, barFeed>>

ServicesSpec == ServicesInit /\ [][ServicesNext]_allVars

-----------------------------------------------------------------------------
(* The properties of the parts, stated where they are defined, with their  *)
(* type invariants; those of the breaker are extended.                     *)

Supervised(crossing, halting) ==
  /\ focus = "crossing" => crossing
  /\ focus = "halting" => halting

\* One trading process at a time, and no start refused without one.
LockIsKept     == A!TypeOK /\ A!OneTrader /\ A!RefusalIsEarned
\* A halt stops every pair, and exposures are those of the pairs that run.
HaltStopsAll   == Supervised(C!TypeOK /\ C!HaltStopsAll, H!TypeOK /\ H!HaltStopsAll)
ExposureIsReal == Supervised(C!ExposureIsReal, H!ExposureIsReal)
\* A paper trader that stopped trades no more, and its allocator counts what it holds.
StopsAreFinal  == F!TypeOK /\ P!StopsAreFinal
BooksAgree     == P!TypeOK /\ P!BooksAgree
=============================================================================
