# QuantLuna in TLA+

QuantLuna is a statistical-arbitrage trader in Python: it watches pairs of
instruments on Bybit (and OKX, Binance), enters a pair when its spread leaves a
band and exits when it returns, and surrounds that with order tracking, traffic
control, startup recovery, guards, limits, profit taking, notifications, paper
trading, backtests, an HTTP API and a dashboard.  It is a set of asyncio tasks, and
of pool threads behind the API, in one process; almost every hazard in it comes
from what may happen at an `await` or between two calls of a thread.

This directory holds models of the parts that decide what is ordered, what is
believed to be held and what is reported, the TLC runs that check them, and TLAPS
proofs of their safety properties.  `PROJECT.json` ties every definition to source
lines, every property to a run and to a plausible bug that breaks it, and every
theorem to its property.

## Inventory

State, operations, interactions and hard behaviours of each part.  The parts in
bold are modelled, whole or in part; `PROJECT.json` says for each what is left out.

| part | state | operations and interactions | hard behaviour | what makes it correct |
|---|---|---|---|---|
| **Order manager** `execution/order_manager.py` | `_orders`, status, exchange id, callbacks, `current_position` | `submit`, `cancel`, background `_timeout_loop`; calls a router per venue; fires `on_fill`/`on_close` | no lock across an await: a late answer, a cancel, the monitor and a cancelled submit settle one record | each order settles once and is notified when it does; a cancel has a cause; nothing stays open |
| **Traffic controller** `core/bybit_traffic_controller.py` | in-flight table, cache, token bucket, semaphore, breaker | `request` of any task; breaker reports from any call | singleflight and cancellation; probes and late reports | one flight per key, permits conserved, one probe per opening, every call returns |
| **Connection breaker** `execution/circuit_breaker.py` | state, failures, half-open slots | `async with`, `record_*`, `reset` | a call enters in one state and leaves in another | blocks only after the threshold, never stuck half-open |
| **Trading loop** `execution/bybit_live_runner.py`, `decision_engine.py`, `action_executor.py`, with the **router** and the **profit guard**'s registration | stop event, action in progress, recorded position | bar, signal, guard, two leg orders, record; `stop`, `task.cancel` | an order fails between the legs; an answer is lost and the order retried | record and account agree, legs hedge, `stop` ends the loop |
| **Startup workflow** `execution/workflow_orchestrator.py` with **scanner**, **resume manager**, **adoption engine**, **checkpoint**, **emergency stop** (its call) | scan report, read positions, one SQLite row | health, scan, reconcile, adopt | restart at any await, account moving between reads, SQLite and HTTP errors | own positions are not orphans, every orphan is decided upon, beliefs were held |
| **Application and singleton lock** `main.py`, `core/singleton_lock.py` | lock file, runner task | `acquire`, `--force`, run, cancel, `release` | two processes at once, pids given out again, swallowed cancellations | one process trades; a refusal has a reason; a stop ends |
| **Bar feed** `execution/bybit_ws_feed.py`, `bybit_ws_bars.py` | connection, dead count, queues, prices | reconnect loop, dead check, `get_bar` | a connection silent without an error; full queues | silence is noticed |
| **Pair supervision** `execution/multi_pair_manager.py`, `core/monitoring_watchdog.py`, `api/pairs.py`, `api/sizing.py` | state, task, allocation and exposure per pair | add, start, stop, halt all, resize; the watchdog's rounds | a pair started before its old task has ended; judgement before an await, action after | a halt stops all, exposure is what runs, a drawdown stops its pair |
| **Treasury** `capital_allocator.py`, `capital_manager.py`, `internal_transfer_manager.py`, `daily_pnl_tracker.py` | PnL rows, cooldown, cycle dates | two daily loops, one transfer manager, `record` | check before an await, mark after; lost answers; restarts around 23:55; a wait that swallows its cancellation and runs a cycle | nothing recorded is lost, a cycle moves half of the profit at most, moves are spaced |
| **Withdrawal guard** `execution/withdrawal_guard.py` | whitelist, rows, `_pending` | propose, confirm, reject, timeout | two confirmations, verdict against outcome, midnight | dead proposals stay dead, sent once, within the limit |
| **Paper trader** `execution/paper_trader.py`, `risk/multi_pair_allocator.py`, `risk/drawdown_controller.py` | state, queue, position, daily PnL, levels | consume ticks, enter, exit, halt | a halt during an awaited fill; three limits over one PnL; a notifier whose methods do not exist | stops are final, allocator and trader agree |
| **Paper engine** `execution/paper_engine.py`, `api/paper.py`, `core/position_store.py` | positions, rows | order with latency, reset | reset in a thread between the statements of a fill | a restart finds the positions held |
| **Signals and folds** `strategy/signal.py`, `backtest/engine.py` | side, bars, cooldown; the simulation's trade | one row after another | order of the gates; missing rows | pauses and time stops are kept; the simulation follows the signals |
| **Backtest jobs** `api/backtest.py` | `_JOBS`, table, workers | submit, run, evict, delete, reload | delete or restart under a running worker | waiting jobs are kept and served; the removed do not return |
| **Reoptimizer** `backtest/auto_reoptimizer.py`, `param_grid_optimizer.py`, `api/optimizer.py` | running flag, `_dry_run`, config files | request, background task, weekly loop | check in the request, set in the task; a search that knows of no dry run | what a report says of a pair is so, a dry run writes nothing |
| **Alerts** `notifications/alert_dispatcher.py` | queue, rate limits, worker | emit, dispatch, stop | shutdown while alerts come | accepted alerts go out |
| **Candles** `data/bybit_fetcher.py`, `historical_fetcher.py`, `api/data.py` | data files and meta of a key | fetch, prefetch, delete, in pool threads | files rewritten under a reader, failed writes, pages at a boundary | candles have no hole and are young enough |
| Single hedge manager, market trade handler, profit optimizer, position reconciler, multi-market runner, auto rebalancer, live trader, ... | | nothing in `src/` constructs or starts them | | not modelled, see below |
| Stores, state bus, snapshots, journals | SQLite and JSON | load, save | input and output | not modelled |
| Estimators, filters, sizing, Kelly, machine learning, metrics | floats | numeric update | none that is discrete | their results are choices of the models |
| Dashboard, other routers, API readers | | readers and adapters | | not modelled |

How they interact: `main.py` takes the lock, builds the traffic controller and one
runner task per pair, the allocator's daily loop and the API server.  A runner takes
bars from the feed's queue, asks the signal code, the decision engine and the
profit guard, and awaits the executor, which awaits the router twice.  The order
manager is called by the runner for its position and by other code for tracked
orders, and calls back.  The startup workflow runs before the runners of
`scripts/run_live.py` and shares with the next process only the checkpoint row and
the account itself.  Requests of the API reach pairs, jobs, optimisation runs, the
paper engine, the candle files and the withdrawal guard beside the tasks that own
them.

## Modules

| module | models | checked by | proofs |
|---|---|---|---|
| `OrderLedger` | the promise: an order opens once, settles once, is notified in the settling step | refined by OrderManager | in `OrderManagerProofs` |
| `OrderManager` | submit, cancel, monitor; the venue and the clock | `om_safety`, `progress` | `OrderManagerProofs` |
| `TrafficBreaker` | the breaker inside the traffic controller; extended by the next | `tc_*` | `TrafficControllerProofs` |
| `TrafficController` | request(): cache, breaker, singleflight, bucket, semaphore, retries | `tc_*` | `TrafficControllerProofs` |
| `TradingLoop` | runner loop, decision, executor, router retries, guard registration | `tl_*` | `TradingLoopProofs` |
| `Startup` | workflow, scanner, resume, adoption, checkpoint, restart | `startup` | `StartupProofs` |
| `ConnectionBreaker` | the context-manager breaker | `services` | `ServicesProofs` |
| `Application` | processes, their lock file, runner tasks and shutdown | `services`, `progress` | `ServicesProofs` |
| `PairSupervision` | the manager of pairs, its callers and the watchdog | `services`, `progress` | `PairSupervisionProofs`, used in `ServicesProofs` |
| `BarFeed` | two feeds under their adapter | `services`, `progress` | `ServicesProofs` |
| `Drawdown` | the levels of the drawdown controller; extended by the next | `services`, `paper_profit` | `ServicesProofs` |
| `PaperTrader` | queue, warm-up, entries, exits, halts, allocator | `services`, `paper_profit` | `ServicesProofs` |
| `Treasury` | both daily loops, transfers, the PnL table | `books` | `BooksProofs` |
| `WithdrawalGuard` | whitelist, proposals, confirmations | `books` | `BooksProofs` |
| `BacktestJobs` | job store, workers, table | `books` | `StoresProofs` |
| `Reoptimizer` | requests, runs, grid search, configurations | `books`, `reopt_dry` | `BooksProofs` |
| `PaperEngine` | orders, positions, stored rows, reset | `books` | `StoresProofs` |
| `AlertQueue` | emit, worker, shutdown | `books` | `StoresProofs` |
| `CandleCache` | downloads page by page, files, meta, deletion | `books` | `StoresProofs` |
| `SignalGenerator` | the branches of `_compute_signal` and their state; extended by the next | `books` | `BooksProofs` |
| `FoldSimulation` | the trades a fold makes of the signals | `books` | `BooksProofs` |
| `Services` | breaker, processes, pairs (twice), feed and paper trader side by side | `services` | `ServicesProofs` |
| `Books` | fold, treasury, withdrawals, jobs, reoptimizer, paper engine, alerts and candles side by side | `books` | `BooksProofs`, `StoresProofs` |
| `MC...` | values of the constants and symmetry; `MCProgress` also a composition, for liveness (it holds an `OrderManager` too) | | |

`Books`, `Services` and `MCProgress` put components that share no state side by side:
a variable `focus`, chosen once, says which of them moves, and the others stay where
they start.  The states of a run are the sum of the components', not their product,
and each property is asked while its component is in focus.  The first two have the
sizes, limits and sets of all their components as constants, with their assumptions,
so that the same modules are checked and proved about.  They compose nothing that
interacts: what interacts is inside one module (`TradingLoop` holds loop, executor and
router; `Startup` its five parts; `PairSupervision` manager and watchdog; `Treasury`
the two loops and the transfer manager they share; `PaperTrader` trader, allocator and
drawdown controller).

A variable is named after the field it stands for; a history variable (marked
`history` where declared) is written and never read by a guard.  A step is what
the code does between two awaits; where the code calls synchronous HTTP inside a
coroutine (the router's orders), call and answer are one step; where it runs in a
pool thread (candles, jobs, SQLite through `to_thread`), a step is one call on the
shared state.

* `OrderManager`: `submit()` is split at its await into `Submit` and `PlaceReply` /
  `PlaceError`; `cancel()` into `UserCancel` (or `MonitorCheck`, when the monitor
  calls it) and `CancelReply` / `CancelError`; `_timeout_loop` into `MonitorWake`
  (the snapshot), one `MonitorCheck` per record and `MonitorRest`.  A task cancelled at
  the await of `submit()` leaves its record SUBMITTED without an exchange id
  (`except Exception` does not catch `CancelledError`): such orders are `abandoned`, and
  only their id still leads to them.  `mode`, chosen
  once, says whether the manager is in dry run, whether callers reuse client ids and
  whether the router swallows failed cancels (Bybit) or raises (OKX).
* `TrafficController`: `Start` is `request()` to its first await; `PollBucket`,
  `RateLimited`, `GetPermit`, `Succeed`, `Fail`, `Retry` are the leader's resumptions;
  the end of a flight and its waiters' resumption are one step because nothing
  awaits between the event and the last line of `request()`.  What a call returns
  is not kept, only whether there is something to cache.
* `ConnectionBreaker`: `Enter`, `ExitOk`, `ExitError` and the manual methods.
* `TradingLoop`: `Bar` is everything from a bar to the first order.  The indicator
  code is a choice of zone (where the z-score lies) and of signal; prices are a
  ratio.  `Accepted`, `Refused`, `AnswerLost` are the outcomes of one HTTP attempt;
  `PollDone` ends `_poll_fill`, whose receipt no caller reads.
* `Startup`: one action per phase and per fetch, with the decision of
  `reconcile_on_startup` split into its four outcomes. `Restart` may happen at any await.
  `ccxt`, chosen once, says whether positions have `contracts` (a ccxt exchange handed in)
  or none (the router `_build_shared_exchange` makes when nothing is handed in, through
  which a saved position is always read as gone). `OthersMove` is the account changing
  under the workflow.
* `Application`: `acquire()` is one action per file operation, `Force` and `Kill` are
  `--force`; the tasks that `gather()` holds end, fail, or go deaf to a cancellation
  (`get_bar` and `_wait_until_daily_cycle` swallow it).
* `PairSupervision`: a started pair is a task in a slot; `Stop` cancels the task
  `ps.task` names, which ends at its next resumption (`Finally`) or never begins.
  A watchdog round is `Ask`, `Metrics`, one `Judge` and one `Act...` per breach.
* `BarFeed`: `_run_loop`, the dead check and each leg's consumer; time is the passing
  of the 60 s that make a feed old.
* `PaperTrader`: ticks come as choices of a price; an entry and an exit are split at
  their simulated latency; amounts are small whole numbers with the ratios of the real
  thresholds (5, 8 and 10 percent of a capital of 100).  `notifier`, chosen once, says
  whether one is configured.  Each of its calls then raises on the spot, since
  `TelegramNotifier` has none of the methods the trader names: `Raised` ends the
  consumer and `run()` between whatever was booked before the call and what follows it.
  The first such call is the one behind the first entry (or behind a halt before it),
  so with a notifier no position is ever closed.  The file cannot be imported at this
  commit (see the observations); it is modelled as written.
* `Treasury`: a clock with the minute of 23:55 and dates; `record()` is `Look`, then
  `Insert` or `Update`; a transfer is `Send` and its outcome.  A cancellation of a daily
  task is swallowed by its wait, which returns into a cycle at any hour (`Woken`); at any
  other await it ends the loop (`Ended`), while a worker thread may still complete the
  transfer it was sending (`SendCancelled`).
* `WithdrawalGuard`: `propose_withdrawal` is split at the worker thread that sums the
  day, `confirm` at the exchange call and at the alert.
* `BacktestJobs`, `Reoptimizer`, `PaperEngine`, `AlertQueue`: one action per statement
  on the shared store that another thread or task can come between.  The grid search of
  a run writes a pair's file when its parameters pass, in dry runs as well; `beside` is
  the history of the runs that went on at the same time.
* `CandleCache`: one key, its two data files and its meta; a download is one action
  per page, a save one per file operation, a read one.
* `SignalGenerator`: a bar is a choice of z-score, threshold, half-life and gates;
  `FoldSimulation` advances generator and simulation over the same row.

## Runs

| run | question | instance and why it is enough |
|---|---|---|
| `om_safety` | Do records, notifications and causes stay consistent however two orders, a user and the monitor interleave, with a cancellation at any await, live, in dry run and with reused ids? Does the manager implement `OrderLedger`? | 2 orders, 2 ids, 1 user. Every race needs one order and two of {submit, user, monitor}; the second order is there for the snapshot walk (a record settling while another is awaited) and for two records under one id. Orders are symmetric. |
| `tc_safety` | Is there one flight per key, are permits conserved, one probe per opening, with cancellation anywhere? | 3 tasks, 2 keys, 1 token, 1 permit, thresholds 2: a leader, a waiter of the same key and a competitor for the permit of another key; the limits are all reached. Tasks and keys are symmetric. |
| `tc_live` | Does every call return when nothing is cancelled? | 3 tasks, 2 keys, thresholds 1, 1 retry; no symmetry |
| `tl_loop` | Does the recorded position agree with the account, do the legs hedge, does `stop()` end the loop? | base quantity 1, price ratios 1 and 2, 2 attempts per order; actions start while each leg's net is within `MaxNet` = 1, which admits an entry, a re-entry, their exit and a reversal. One cancellation of the task. |
| `startup` | Does the workflow keep to what it manages, decide upon every orphan and believe only what was held? | a ccxt exchange and the router the workflow builds; 3 symbols with quantities -1..1, a saved pair or no row, 2 startups, 1 change by others, SQLite failing anywhere: the two legs of a pair and an orphan, a crash anywhere, and rows left by an adoption |
| `services` | Connection breaker, lock, pairs, feed, paper trader: the safety of each | breaker: 4 tasks, threshold 3, 2 half-open slots (two probes, a late call, another caller). Lock: 3 processes over 2 pids, so that a pid is given out again while two others race, 2 runners. Pairs: one pair with 2 task slots (a start over a task that has to end) and two pairs with one slot each (a halt that walks a list while one starts); 2 callers. Feed: queues of 1, 1 reconnection, 2 dead checks. Paper trader: with a notifier and without; 2 trades, queue of 1, overflow at 2 drops, prices 0, 6, 12, which reach the daily, pair, soft and hard limits. |
| `books` | Treasury, withdrawals, jobs, reoptimizer, paper engine, alerts, candles and folds: the safety of each | 2 `record()`s and both daily tasks, 1 midnight, restart, end or cancellation of a loop (`MaxEvents`): one is enough for a second cycle on a day, and two transfers meet without one; 2 proposals, 2 operators, 1 midnight or restart, amounts 2 under a limit of 3, so that two do not fit; 3 jobs in a store of 2; 2 requested runs and 1 scheduled over one pair; 2 orders over 2 symbols, positions up to 2 (`MaxHeld`), so that orders open, enlarge, reduce and reverse; 4 alerts, 2 of them limited, in a queue of 2; 2 threads over one key of 3 bars, pages of 2: two pages of which the second is not full, a full last page, and the bar still open; z-scores beyond, on and inside each threshold, half-lives 1 and 3 and unknown, 9 bars (`MaxBars`), longer than the longest time stop |
| `progress` | Does a stopping process end, does a drawdown stop its pair, is a silent feed replaced, does every open order settle while the monitor runs, also one whose `submit()` was cancelled? | 2 processes, one runner and the allocator each; one pair with 2 task slots; two feeds; 2 orders, 2 ids, a user and the monitor, live. No symmetry |
| `tc_hang`, `tl_naked`, `reopt_dry`, `paper_profit` | each the smallest instance of a disagreement, see Findings | TLC stops at a violation |

Bounds named in the specifications: `MaxNet` (an action starts only within it),
`MaxStarts`, `MaxMoves`, `MaxQty`, `MaxEvents` (midnights,
restarts and ends or cancellations of a daily loop together), `MaxTrades`, `MaxHeld`, `MaxBars` (a bar beyond it has a
half-life, so trades end), `LastBar` (the clock of the candles); `MaxReconnects`, `Room`,
`MaxJobs`, `MaxPage` and the thresholds are the program's own limits with small values.
Counters that the code only compares with a threshold stop at it.

Deadlock is checked in the runs of the order manager, the traffic controller and the
trading loop. It is not in `startup` (after `done` or `halted`, with the restarts used up,
there is nothing left to do), nor in `services`, `books`, `progress`, `reopt_dry` and
`paper_profit`, whose parts may all come to rest: processes that have exited, feeds that
gave up, a trader that halted, a day with nothing left to do.

What the properties say, beyond types:

* orders: `OpenIsReachable` (an open order is found by its id, and lacks an exchange id
  only while it is placed or because its `submit()` was cancelled), `Reported`,
  `CancelHasCause`, `ContradictionNeedsARace` (the strategy hears "filled" and "closed" of
  one order only after a race), `LedgerSpec` (refinement, all modes), `OrdersSettle`;
* traffic: `OneFlightPerKey`, `PermitsConserved`, `SingleProbe`, `CallsReturn`;
* connection breaker: `HalfOpenHasProbe`, `BlocksAfterFailures`;
* loop: `RecordMatchesVenue`, `LegsHedge`, `StopEnds`.  The first two name what they
  exclude through `odd`, the set of things that happened: an order that failed, a
  fault of the venue, a re-entry, unequal legs.  They say that nothing *else* makes
  record and account differ, in particular no order of stops, bars and guard answers;
* startup: `NeverClosesItsOwn`, `OrphansAreTreated` (a position outside the saved row that
  stayed as it was throughout is decided upon, with either kind of exchange; it says
  nothing of the saved position itself, which the workflow's own router loses, see the
  observations), `BeliefWasHeld`.  `blind` marks a startup that had to read the
  checkpoint and could not; the first two are claimed for the others only;
* processes: `LockIsKept` (one process trades unless two `acquire()` calls overlapped
  or a runner's failure released the lock early; a start is refused without a trader
  only for a pid that died without a release), `StopEnds` of `progress`;
* pairs: `HaltStopsAll`, `ExposureIsReal`, `DrawdownHalts`; feed: `SilenceIsNoticed`;
* paper trading: `StopsAreFinal`, `BooksAgree` (slot, exposure and fees of trader and
  allocator, also where a call of the notifier ends the run between two of them),
  `TablesSurvive` (also for the jobs);
* money: `NothingLost` (racing `record()`s); `MovedWithinProfit` (each cycle of a day moves
  half of the day's highest profit at most: with one cycle of each task no more goes than
  was earned, with the additional cycle of a swallowed cancellation it may);
  `MovesAreSpaced` (the cooldown, and one cycle of each task a day besides those of
  swallowed cancellations); `ConfirmedOnce`, `LimitUnlessCrowded`;
* work in the background: `JobsAreServed`, `ReportIsTrue` (what a run reports as applied,
  kept or failed is what the file holds, unless a run beside it wrote it; what it writes in
  a dry run, or for a pair it reports unchanged, is the finding `reopt_dry`), `NoAlertLost`;
* candles: `CandlesAreWhole` (no hole, as far as the exchange had come, only the last
  bar unfinished), `CandlesAreFresh`;
* signals: `PauseAfterExit`, `TradesTimeOut`, `FoldFollowsSignals`.

Many of these name exceptions by history variables (`odd`, `overlap`, `crossed`,
`doubled`, `crowded`, `twofold`, `undead`, `astray`, `blind`, `Part`). An exception is a
thing the code does go wrong in, listed under the observations. Where the exception is the
very hazard the property is listed with, the property does not guard against that hazard:
it says that the code goes wrong in this way only. The `note` of each such hazard in
`PROJECT.json` says what is left out. The type invariants of modules in `services` and
`books` are conjuncts of one of their properties; those of the others are proved.

### Fairness

Weak fairness of the tasks' own steps: the event loop runs what is ready, sleeps
are finite, HTTP calls have timeouts, `get_bar` waits at most 30 s.  In
`OrderManager` nothing is assumed of users or the venue, only that the monitor's
own router call returns and that orders age.  In `TrafficController` the semaphore
has strong fairness because asyncio's serves first come first served.  `OrdersSettle`
is conditional on the monitor not being stopped for good, `CallsReturn` on no task
being cancelled: with cancellation it is false (`tc_hang`).  In `Application` each
process's own steps are fair, but signals, failures of runners and crashes are not,
and `StopEnds` excepts a task that swallowed its cancellation.  In
`PairSupervision` the tasks of pairs, calls in progress and the watchdog's round
are fair; that a new round begins is not assumed.  In `BarFeed` each feed's task is,
an attempt to connect ends in one way or the other, and time passes; messages are
not assumed.

## Proofs

Every safety property the passing runs check is proved: each invariant and each
property of steps, and the refinement of `OrderLedger`.  The theorems hold for every
value of the constants that the modules' named assumptions allow, which TLC evaluates in
each run:

* `None` stands for none of the values it replaces (`NoneIsNothing`, `NoneAssumption`);
* sizes, limits and periods count, and what is counted is finite (`BooksAssumption`,
  `SettingsAssumption`, `SignalAssumption`, `FoldAssumption`, `RequestsAssumption`);
* `SharesAssumption`: the strategies' shares make up half of a profit at most, the other
  half being what the sweep may take.  `from_env` makes two allocations of 10 percent and
  `sweep_fraction` is 0.5.  `MovedWithinProfit` needs it: with six allocations of 10
  percent one cycle of the allocator could move more than half of what was earned.

`PairSupervisionProofs` states what it needs of `None` and `Full` with its theorems, and
`ServicesProofs` shows that both its instances meet it.

* `OrderManagerProofs`: `Inv` strengthens the properties with where references point
  (`RefsInv`: what an id, a cancel in flight or the monitor refers to has been submitted)
  and with `WaitingInv` (an order being placed, or abandoned while it was, has no exchange
  id and no fill yet, which is why `on_fill` fires once). `UniqueInv` adds, for modes
  without reused ids, that the key an order is stored under still leads to it and that
  each cancel in flight has a cause. From these: `TypeCorrect`, `OpenOrdersReachable`,
  `NotificationsMatchRecords`, `CancelsHaveCauses`, `ContradictionsNeedARace`, and
  `ImplementsLedger`: every step is a step of `OrderLedger` or a stutter, whatever ids
  callers choose.
* `TrafficControllerProofs`: `FlightInv` (a flight is announced by its one leader),
  `PermitInv` (held places and free ones add up) and `BreakerInv` (who may be the
  probe) give `Singleflight`, `PlacesConserved` and `OneProbe`.  `LedInv` (a key in
  `_inflight` has a task that leads its flight, and a key that is waited for is there) is
  inductive where no task is cancelled, which is all that `tc_hang` violates
  (`WaitersAreLed`).  With the count of the permits it gives `CallsDoNotDeadlock`, the
  safety half of `CallsReturn`: while calls are open, one of them is not waiting for
  another.  No run repeats these two.
* `TradingLoopProofs`: the invariant follows an action leg by leg (what the legs
  done so far executed, what the position was before), so that at `Complete` record
  and account meet: `RecordIsExecuted`, `NoLegAlone`.  `BoundedDuplication`, carried
  as `filled <= attempts * quantity`, says that lost answers multiply an order by
  `MaxRetries` at most; it is proved only, no run repeats it.
* `StartupProofs`: `Untouched` (before adoption nothing was done, and the row is
  the one the startup began with) gives `HaltIsClean`, which no run repeats; `Inv2`
  keeps each reading and each orphan's quantity within what its symbol has held since
  the startup began and gives `BeliefIsGrounded`; `Inv3` gives `OwnIsSafe`; `Inv4`
  follows a position that stays as it was, and of which the row says nothing, from the
  scan to the end (it waits as an orphan or was decided upon) and gives
  `NoOrphanIsForgotten`, for both kinds of exchange.  `RouterNeverResumes`, which no run
  repeats, is the other side: through the router the workflow builds no saved position is
  ever resumed, whatever the account holds.
* `PairSupervisionProofs`: `OneTask` (a pair never started over its own task has one
  task, the one `ps.task` names) and `Listed` (what goes on after a halt is on the list
  of a halt in progress) give `HaltReachesAll` and `ExposureFollowsTasks`.
* `ServicesProofs` has an invariant per part, and a step of one leaves the others alone.
  * Breaker: the three properties are inductive together; the cardinality of the probes
    comes from the library's finite-set theorems.
  * Processes (`LockInv`): living processes have pids of their own (`Identified`), tasks
    live only while `main()` serves them (`Quiet`), the file names who holds the lock or
    who died with it (`Accounted`), without an overlap one process at a time is in
    `acquire()` (`Alone`), and while one may trade the file is its own and nobody is
    about to write it (`Locked`).  The last is what a check of the file that is old when
    it is acted on could break; together they give `OneProcessTrades`.
  * Pairs: `CrossingSame` and `HaltingSame` carry the theorems of `PairSupervisionProofs`
    to the two instances: `HaltsReachEveryPair`, `ExposuresAreReal`.
  * Feed (`FeedInv`): a feed that has not given up may fail once more.
  * Paper trader (`PaperInv`): `Placed` (state word and position at each point of an entry
    and an exit; with a notifier a position is held only when the run is over) and
    `Booked` (the slot, exposure and fees still to be settled at that point) give
    `StoppedTradersRest` and `PaperBooksAgree`.
* `BooksProofs` and `StoresProofs` treat the eight parts of `Books` in the same way
  (`PartsStep`).
  * Sums.  The library's `MapThenSumSet` is a choice of a function that satisfies a
    recursive equation.  `SumsExist` shows there is one for every finite set, `AnyFirst`
    that the order does not matter; each is an induction over the number of elements put
    as an argument about a least counterexample (`LeastOf`), since the provers cannot
    use an induction scheme.  `SumWith` (one element more), `SumOfSame` and `SumOfMore`
    (a subset's sum is no greater) are what the parts need of sums.
  * Folds (`FoldInv`): `Owing` (cooldown and idle bars make up what an exit owed),
    `Aging` (bars held and a partial exit are a trade's age) and `Sided` give
    `EntriesArePaced`, `TimeStopEndsTrades` and `SimulationFollows`.
  * Profit taking (`TreasuryInv`): `TableInv` says the rows of a day hold results
    recorded for it, add up to all of them (`NothingIsLost`) and to no more than the
    day's peak.  `CyclesInv` (a day not yet reached has no cycle, and today has none but
    those of swallowed cancellations while a task may still start its own) and `BurstInv`
    (unless transfers overlapped, one is on its way) give `TransfersAreSpaced`.  For
    `MovesStayWithinProfit`, `WorkInv` bounds what a task has seen by the day's peak, and
    `ShareInv` says that what a day moved is at most a share of the peak per transfer the
    allocator's cycles have behind them (`Made`: `Capacity`, what all its cycles of the
    day may make, without `Left`, what the one under way still may) and half of it per
    sweep the manager is through with (`Swept`); a profit that falls after it was seen, a
    restart, a cancellation and a lost answer all keep it.
  * Withdrawals: `DeadInv` (no confirmation holds what is dead and none can start) and
    `OnceInv` (without an overlap one confirmation sends, it is the first, and it closes
    the way) give `ConfirmedAtMostOnce`.  `WithinInv` gives `LimitHoldsUnlessCrowded`:
    all that a day may still cost (`Due`: sent, pending or at the exchange) is within the
    limit, and the sum a proposal was checked against covers all of it, unless the day
    is crowded.  The property alone is not inductive, since what is pending may be sent.
  * Reoptimizer (`ReportInv`): `CompanyInv` says that runs which go on at once are beside
    each other and, through `FileSays`, what a pair's file holds: what the run found, or
    what was there before, or what one beside it wrote.  It gives `ReportsAreTrue`.
  * Paper engine (`EngineInv`): one order saves at a time, and what it has serialised is
    what is held, unless a reset crossed it; with jobs below, `TablesSurviveRestarts`.
  * Alerts (`DispatchInv`): `unfinished` counts at least what is on its way, so that
    `join()` waits for it: `AcceptedAlertsGoOut`.
  * Candles (`CandleInv`): `PartWay` follows a download page by page and becomes `Whole`
    at its end, files keep `Whole` (`CandlesHaveNoHole`); `FreshInv` says that while the
    meta vouches for a file, or a request is about to, none is old (`CandlesAreYoung`).
  * Jobs (`JobInv`): `Served` (what waits or runs is shown as such), `Gone` (who was
    removed without a trace has no worker to write it back) and `Bounded` give
    `WaitingJobsAreServed` and the other half of `TablesSurviveRestarts`.

Only model-checked: all liveness (`OrdersSettle`, `CallsReturn`, both `StopEnds`,
`DrawdownHalts`, `SilenceIsNoticed`), since fairness and ENABLED are beyond the prover.
Of the four findings, `tc_hang` has `WaitersAreLed` as its converse, `tl_naked` has
`NoLegAlone`, `reopt_dry` has `ReportsAreTrue`, and `paper_profit` has none.

## Findings

Each is a run TLC ends with a counterexample; `PROJECT.json` quotes the line.

* `tc_hang`: cancelling a leader while it waits for a token or a permit leaves its
  key in `_inflight`; later calls for the key wait for ever.
* `tl_naked`: the first leg stays open, unrecorded, when the second is refused.
* `reopt_dry`: a dry run that is alone writes a pair's configuration.  The grid search it
  awaits writes what passed the walk-forward test and is not told of the dry run
  (`param_grid_optimizer.py` 396); the same happens to a pair reported "Nemodificat".
* `paper_profit`: a profit raises the high-water mark while it is open and leaves the
  equity when it is realised: the paper trader halts for a drawdown that never was.

Observations made while modelling that no run states (the models behave as described
where the part is modelled):

* Orders and traffic.  A settled record's status is overwritten by a late router answer
  or by the monitor (`order_manager.py` 462, 474, 579); `cancel()` reports success
  without sending anything while the exchange id is unknown (503), so an order whose
  `submit()` was cancelled at its await (473 catches no `CancelledError`) is in the end
  recorded CANCELLED here although it may be live at the venue; `_prune_history` has
  no caller, so the record table grows.  A joiner of a rate-limited flight gets the
  stored result of an earlier flight (`bybit_traffic_controller.py` 404); one 429 among
  other errors opens the breaker at the 429 threshold (229); `record_error` does nothing
  while half-open, so a failed or lost probe leaves the breaker refusing every call
  (228, 243).  In `execution/circuit_breaker.py` a call that entered before the circuit
  opened closes it by a late success (124), and a late failure makes room for more
  probes than `half_open_max_calls` (104).
* Trading loop.  `decide()` enters again on top of a position and the record keeps one
  entry; the exit closes `base_qty` of the X leg where the entry traded
  `base_qty * price_y / price_x` (`order_manager.py` 339); `record_failure()` is called
  on the class, so the loop's breaker never opens; a position the loop opens is not
  registered with the profit guard; a flat generator's 0 reads as an exit, so an adopted
  or resumed position is closed at the first warm bar.
* Startup. One failed fetch counts as quantity 0 and sides are not compared
  (`resume_manager.py` 103); the positions of the router the workflow builds when it is
  given no exchange (`workflow_orchestrator.py` 428-446) have "size" and no "contracts",
  so that reconciliation takes every saved position for closed and erases its row
  (`RouterNeverResumes`), contrary to `resume_manager.py` 11-13; the builder that does
  pass an exchange, `scripts/run_live.py` 71, also passes `alert_cfg=`, which the
  constructor refuses; an adopted single position is a discrepancy at the next startup; of
  several adopted orphans the last is saved; `EmergencyStop` is called with arguments it
  does not have, so a HALT leaves no sentinel and a supervisor restarts the process.
* Application.  `get_bar` and `_wait_until_daily_cycle` swallow cancellations, the
  latter running a cycle at once, so `await runner_task` may wait for ever; a runner's
  error during the shutdown makes `main()` raise without `release()`, one while trading
  makes it release the lock under the others; "no runner" returns without a release;
  `release()` removes whoever's file; `--force` may kill a stranger that was given the
  pid; in a container, where the process is pid 1, the lock of the one before names the
  new one.  `api/main.py` ends its shutdown before `dispatcher.stop()` when the runner
  task failed, which loses the queue.
* Pairs.  A pair started while it stops has two tasks, and the old one's `finally` marks
  the new run stopped, after which it cannot be stopped; the drawdown check takes
  `abs(net_pnl)`; `set_alloc_factor` counts exposure for a pair that is not running;
  a halt of an unknown pair always fails while the watchdog logs it as done.
* Feeds.  After the last reconnection attempt `_running` stays true and `get_bar` returns
  None for ever; a leg that ended freezes its price while bars go on from the other;
  `QueueFull` is raised inside the loop's callback, where the handler does not see it;
  `WsWatchdog` is never pinged and its `is_live` gates nothing.
* Money.  A daily task cancelled in its wait runs a cycle at once (`capital_allocator.py`
  277-280, `capital_manager.py` 294-297, then `run_loop` 140-151), so that a day can have
  two cycles of a task, which together can move more than the day's profit; SCALE_UP of
  the allocator cannot happen; refused transfers are still counted in
  `_swept_total` and `moved_to_reserve`; main.py's tracker records no PnL and its
  allocator has no transfer manager.  A proposal summed before midnight is dated after
  it; `reject()` overwrites completed rows and a timeout may, during the alert; rows
  pending at a restart stay "pending"; a lost answer is reported as money that stayed;
  whitelisting an address for another chain replaces it; two overlapping confirmations
  send twice, and several outstanding proposals exceed the limit together.
* Paper trading.  `paper_trader.py` cannot be imported at this commit: `risk` exports no
  `PortfolioAllocator` or `AllocatorConfig` (58) and `telegram_notifier` has no
  `NotifierConfig` (60).  Its calls of the notifier (239, 337, 406, 415, 496, 547, 607) name
  methods `TelegramNotifier` does not have, so with a notifier `run()` ends at the first
  entry, with the position open.  An overflow's HALT during an awaited fill is overwritten;
  an overflow in a position leaves it open; the daily limit takes `abs(daily_pnl)`, so a
  profit halts too; the controller falls from HARD_STOP to SOFT_LIMIT without the manual
  reset (`drawdown_controller.py` 184), and SOFT_LIMIT after a winning trade lasts;
  the trade database gets the exit's fees only.  The engine charges a closing commission
  twice, forgets the PnL of a partial reduction, ignores `reduce_only`, and fills an order
  in latency after a reset.
* Signals and folds.  With the default configuration a partial exit happens only when z
  jumps over the exit band; a hard stop renews the cooldown without a trade; folds of
  `WalkForwardEngine` concatenate frames with equal columns, so `float(row["close_y"])`
  raises.
* Jobs and optimisation.  `result.get("trades_df") or pd.DataFrame()` (`api/backtest.py`
  352) raises for every frame, so every job ends in "error"; a job deleted under its
  worker returns after a restart; a restart leaves queued jobs nothing runs;
  `workflow_orchestrator.py` 186 calls
  `AutoReoptimizer.from_env()` without its arguments, so the API's reoptimizer is None.
* Alerts.  `HALT_CASCADE` is dropped on a full queue although it is "always sent";
  `send_alert("error")` falls under a rate limit of one in 10 s.
  `POST /positions/{symbol}/close` answers that an order was submitted and submits none.
* Profit guard and optimizer.  Adopted positions are registered with one leg's entry price
  while updates pass a price ratio; the ladder's upper levels lie behind the take profit;
  `_estimate_profit` has the wrong sign for LONG_SPREAD; `scripts/run_live.py` calls a
  `run()` that `LiveTrader` does not have.
* Candles.  `requirements.txt` names no parquet engine, so every cache is CSV, and one
  that is rewritten under a fresh meta, or left half-written by a crash, is answered as
  a shorter range; a torn parquet file fails every read until its TTL; a page that ends
  full in the open bar keeps it unfinished (Binance); `end=None` puts the present
  millisecond into the key, so the cache is never hit; deleting "BTC" deletes BTCUSDT; a
  parquet failure leaves a stale file that is preferred to the fresh CSV.
* `HealthCheck.start_http_server` reuses one report, so one failure means "degraded" for
  ever (`health_check.py` 107); `core/store.py` writes with `default=str`, so live objects
  are stored as their text.

## Not modelled

Inside the modelled parts: `adopt_position` and its callbacks of the order manager (no
caller), statistics, logging and alert texts, rounding to instrument steps, the
runner's dry run, the funding gate (it has no monitor and stays open), the position
store, `remove_pair` and `restore_alloc`, `close_position` of the paper engine,
`manual_resume` and `record_trade` on the paper path (no callers).  Pair rows are written
by no caller in `src/` (`save_open` is legacy); `Startup` starts from one all the same
because `load()` and the reconciliation handle it.

Whole files, with the reason:

* *Nothing constructs or starts them*: `single_hedge_manager.py`, `market_trade_handler.py`
  with the private websocket (its adoption raises at the first call and looks for
  attributes that do not exist), `auto_rebalancer.py` (no pair is ever registered),
  `multi_market_*`, `strategy_coordinator.py`, `live_data_bridge.py`, `order_throttle.py`,
  `pnl_reconciler.py`, `position_reconciler.py`, `multi_strategy_backtester.py`,
  `dashboard/server.py`, the live pair scanner, `live_trader.py` with the profit optimizer
  behind it.  A model of code that never runs would have to invent the calls.
* *Computations without state that lasts*: Kalman filter, cointegration tests, regime and
  correlation filters, sizing and Kelly formulas, machine learning, metrics, walk-forward
  splits, reports.  Floating-point statistics are outside TLC's reach; where a modelled
  part uses a result, the result is a choice.
* *Input and output*: SQLite and JSON stores, state bus (publishes within one step),
  account snapshots (main.py's has no exchange), other exchanges' routers (of the Bybit
  router's shape), API schemas and readers, `market_data_cache.py` and `cache_store.py`
  (scripts only), the TypeScript dashboard, deployment files.

These are most of the repository's lines, so the map covers little more than a tenth of
them; the discrete logic that decides orders, money, pairs and what is reported is
nearly all in the modules above.

## Plan

1. Safety halves of the other liveness properties, as `CallsDoNotDeadlock` is that of
   `CallsReturn`: that in every state short of the goal something that moves by itself
   leads on, proved from the invariants above.
2. Runs of `Treasury` and `WithdrawalGuard` with two events (a midnight after a swallowed
   cancellation, a second midnight), once separated from `books` (the theorems hold for any number).
3. Models of the market trade handler and the single hedge manager if the program comes
   to construct them, the former composed with `OrderLedger`.
