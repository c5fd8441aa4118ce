-------------------------------- MODULE Books --------------------------------
(***************************************************************************)
(* The parts that keep books, on paper or in a table, side by side: a fold *)
(* of the backtest (FoldSimulation, extended here), profit taking          *)
(* (Treasury), withdrawals (WithdrawalGuard), the backtest jobs            *)
(* (BacktestJobs), re-optimisation (Reoptimizer), the simulated exchange   *)
(* (PaperEngine), the queue of alerts (AlertQueue) and the API's candles   *)
(* (CandleCache).  They share nothing, so a behaviour runs one of them,    *)
(* chosen in `focus`, and leaves the others where they start: the states   *)
(* are the sum of theirs, not the product.                                 *)
(***************************************************************************)
EXTENDS FoldSimulation, FiniteSets

CONSTANTS
  \* Treasury and WithdrawalGuard
  MaxEvents,
  Recorders, Strategies, TakePct, SharePct, SweepPct, Equity, Gains, MinTransfer, MinSweep,
  Proposals, Operators, Addresses, Chains, Amounts, DailyLimit,
  \* BacktestJobs
  Jobs, MaxJobs, Batch,
  \* Reoptimizer
  Manual, Scheduled, Pairs,
  \* PaperEngine
  Orders, Symbols, Quantities, MaxHeld,
  \* AlertQueue
  Alerts, Limited, Room,
  \* CandleCache
  Threads, End, MaxPage, LastBar, Torn, Part, Raised

\* None stands for no value, Torn, Part and Raised for what is not a frame of candles.
ASSUME NoneIsNothing ==
  /\ None \notin Proposals \cup Manual \cup Scheduled \cup Alerts
  /\ None \notin {"queued", "running", "done", "error", "good", "weak", "unfit", "failed"}
  /\ None \notin [Symbols -> -MaxHeld .. MaxHeld]
  /\ {None, Torn, Part, Raised} \cap
       [bars : SUBSET (0 .. End), open : SUBSET (0 .. End), began : 1 .. LastBar, old : BOOLEAN]
     = {}

\* Sizes, bounds and periods count; jobs are numbered; few confirmations at a time.
ASSUME BooksAssumption ==
  /\ MaxEvents \in Nat /\ IsFiniteSet(Operators)
  /\ Jobs \subseteq Nat /\ IsFiniteSet(Jobs) /\ MaxJobs \in Nat
  /\ Quantities \subseteq Nat /\ MaxHeld \in Nat
  /\ Room \in Nat
  /\ End \in Nat /\ MaxPage \in Nat \ {0} /\ LastBar \in Nat \ {0}

\* The reserve's shares of a profit (two of 10% in from_env) and the half of it that a
\* sweep may take are no more than the profit.
ASSUME SharesAssumption ==
  /\ IsFiniteSet(Recorders) /\ Gains \subseteq Int
  /\ SharePct \in Nat /\ Equity \in Nat /\ SweepPct \in Nat
  /\ IsFiniteSet(Strategies) /\ Cardinality(Strategies) * SharePct <= 50

\* There is something to withdraw.
ASSUME RequestsAssumption ==
  /\ IsFiniteSet(Proposals) /\ DailyLimit \in Nat
  /\ Amounts \subseteq Nat /\ Amounts # {} /\ Addresses # {} /\ Chains # {}

VARIABLES
  focus,
  day, clock, rec, gain, rowsOf, pc, seen, todo, cycleDay, amount, cooling,
  events, moved, peak, cycles, swallowed, burst, overlap,
  whitelist, row, ask, pending, total, conf, told, date, crashes, sent,
  dead, doubled, crowded,
  jobs, disk, worker, made, deleted, evicted, undead, stranded, swamped,
  flag, dry, phase, found, judged, config, before, beside,
  held, saved, at, copy, resetting, crossed,
  running, queue, unfinished, recent, sender, sending, stopping, offered, early,
  dispatched, slow,
  exchange, endOpens, now, files, meta, writers, mixed, twofold, req, frame, answer

T == INSTANCE Treasury

G == INSTANCE WithdrawalGuard WITH day <- date, restarts <- crashes

J == INSTANCE BacktestJobs

R == INSTANCE Reoptimizer

E == INSTANCE PaperEngine WITH positions <- held, row <- saved

A == INSTANCE AlertQueue WITH worker <- sender, sent <- dispatched

K == INSTANCE CandleCache WITH disk <- files, pc <- req

treasury == <<day, clock, rec, gain, rowsOf, pc, seen, todo, cycleDay, amount, cooling,
              events, moved, peak, cycles, swallowed, burst, overlap>>
guard    == <<whitelist, row, ask, pending, total, conf, told, date, crashes, sent,
              dead, doubled, crowded>>
jobStore == <<jobs, disk, worker, made, deleted, evicted, undead, stranded, swamped>>
reopt    == <<flag, dry, phase, found, judged, config, before, beside>>
paper    == <<held, saved, at, copy, resetting, crossed>>
alerts   == <<running, queue, unfinished, recent, sender, sending, stopping, offered,
              early, dispatched, slow>>
candles  == <<exchange, endOpens, now, files, meta, writers, mixed, twofold, req, frame, answer>>
allVars  == <<focus, vars, treasury, guard, jobStore, reopt, paper, alerts, candles>>

BooksInit ==
  /\ focus \in {"fold", "treasury", "guard", "jobs", "reoptimizer", "engine", "alerts",
               "candles"}
  /\ Init /\ T!Init /\ G!Init /\ J!Init /\ R!Init /\ E!Init /\ A!Init /\ K!Init
  /\ focus # "reoptimizer" => ~dry
  /\ focus # "treasury" => ~cooling
  /\ focus # "candles" => exchange = "bybit"

BooksNext ==
  /\ UNCHANGED focus
  /\ \/ focus = "fold" /\ Next
        /\ UNCHANGED <<treasury, guard, jobStore, reopt, paper, alerts, candles>>
     \/ focus = "treasury" /\ T!Next
        /\ UNCHANGED <<vars, guard, jobStore, reopt, paper, alerts, candles>>
     \/ focus = "guard" /\ G!Next
        /\ UNCHANGED <<vars, treasury, jobStore, reopt, paper, alerts, candles>>
     \/ focus = "jobs" /\ J!Next
        /\ UNCHANGED <<vars, treasury, guard, reopt, paper, alerts, candles>>
     \/ focus = "reoptimizer" /\ R!Next
        /\ UNCHANGED <<vars, treasury, guard, jobStore, paper, alerts, candles>>
     \/ focus = "engine" /\ E!Next
        /\ UNCHANGED <<vars, treasury, guard, jobStore, reopt, alerts, candles>>
     \/ focus = "alerts" /\ A!Next
        /\ UNCHANGED <<vars, treasury, guard, jobStore, reopt, paper, candles>>
     \/ focus = "candles" /\ K!Next
        /\ UNCHANGED <<vars, treasury, guard, jobStore, reopt, paper, alerts>>

BooksSpec == BooksInit /\ [][BooksNext]_allVars

-----------------------------------------------------------------------------
(* The properties of the parts, stated where they are defined, with their  *)
(* type invariants; those of the fold are extended.                        *)

\* The day's total is what was recorded, and what is moved stays within its profit;
NothingLost         == focus = "treasury" => T!NothingLost
MovedWithinProfit   == focus = "treasury" => T!TypeOK /\ T!MovedWithinProfit
\* one cycle a day, and a pause between transfers.
MovesAreSpaced      == focus = "treasury" => T!OneCyclePerDay /\ T!CooldownUnlessOverlap
\* A withdrawal is confirmed while it may be and once, within the day's limit.
ConfirmedOnce       == focus = "guard" => G!DeadStaysDead /\ G!TwiceNeedsOverlap
LimitUnlessCrowded  == focus = "guard" => G!TypeOK /\ G!LimitUnlessCrowded
\* Jobs that wait or run are kept and run;
JobsAreServed       == focus = "jobs" => J!TypeOK /\ J!JobsAreServed
\* and a restart finds the jobs and the positions that should be there.
TablesSurvive       ==
  /\ focus = "jobs" => J!RemovedStaysRemoved
  /\ focus = "engine" => E!TypeOK /\ E!RestartKeepsPositions
\* A report of a run can only be belied by a run beside it.
ReportIsTrue        == focus = "reoptimizer" => R!TypeOK /\ R!ReportIsTrue
\* A shutdown lets the accepted alerts go out.
NoAlertLost         == focus = "alerts" => A!TypeOK /\ A!NoAlertLost
\* Candles that are answered have no hole, and are younger than the TTL.
CandlesAreWhole     == focus = "candles" => K!TypeOK /\ K!CandlesAreWhole
CandlesAreFresh     == focus = "candles" => K!CandlesAreFresh
=============================================================================
