------------------------------- MODULE Treasury -------------------------------
(***************************************************************************)
(* Profit taking at the end of the day: the two daily tasks                *)
(* (execution/capital_allocator.py, execution/capital_manager.py), the     *)
(* transfer manager they share (execution/internal_transfer_manager.py)    *)
(* and the daily PnL table they read (execution/daily_pnl_tracker.py).     *)
(*                                                                         *)
(* A loop sleeps in slices of at most a minute towards 23:55 and starts a  *)
(* cycle when it wakes within that minute, or when its task is cancelled   *)
(* in the sleep; a cycle awaits the summary and each transfer.  The        *)
(* tracker's statements run in worker threads, each atomic in SQLite.      *)
(* Amounts are whole units, Equity is what the tracker reports on a day    *)
(* with trades.                                                            *)
(***************************************************************************)
EXTENDS Integers, FiniteSets, FiniteSetsExt

CONSTANTS
  Strategies,   \* allocations other than "reserve"
  TakePct,      \* profit_take_pct of each, in percent
  SharePct,     \* reserve_pct, in percent
  SweepPct,     \* sweep_threshold_pct of the capital manager, in percent
  Equity,       \* total_equity_usdt
  Gains,        \* what a trade may realise
  Recorders,    \* record() calls
  MinTransfer,  \* _min_amount
  MinSweep,     \* min_sweep_usdt
  MaxEvents     \* bound on midnights, restarts and ends or cancellations of a loop together

VARIABLES
  day, clock,   \* the date; "before", "at" or "after" the minute of 23:55
  rec,          \* record() calls: "new", "insert", "update" or "done"
  gain,         \* their realised_pnl and date
  rowsOf,       \* daily_pnl rows of a day, each the set of the record()s it sums
  pc,           \* "wait", "armed", "read", "cycle", "moving", "sent", "rest", "ended"
  seen,         \* realised_pnl_usdt of the summary a cycle works with, or 0
  todo,         \* strategies the allocator has still to look at
  cycleDay,     \* the date a cycle started on
  amount,       \* the transfer a task awaits
  cooling,      \* less than cooldown_seconds since _last_transfer_ts
  events,       \* midnights, restarts and ends or cancellations of a loop so far
  moved,        \* history: what the exchange moved to spot in the cycles of a day
  peak,         \* history: the highest total of a day so far
  cycles,       \* history: cycles a task started on a day
  swallowed,    \* history: of them, those a swallowed cancellation started
  burst,        \* history: transfers completed since the cooldown last ran out
  overlap       \* history: a transfer was started while another was on its way

Allocator == "allocator"
Manager   == "manager"
Tasks     == {Allocator, Manager}
Days      == 0 .. MaxEvents

table   == <<rec, gain, rowsOf, peak>>
loops   == <<pc, seen, todo, cycleDay, amount, cycles, swallowed>>
account == <<cooling, moved, burst, overlap>>
vars == <<day, clock, table, loops, account, events>>

\* One of the events that are bounded.
Event == events < MaxEvents /\ events' = events + 1

\* Sum over the rows of a date: total_pnl of _get_daily_summary_sync.
Total(d) ==
  MapThenSumSet(LAMBDA row : MapThenSumSet(LAMBDA r : gain[r].pnl, row), rowsOf[d])

Init ==
  /\ day = 0 /\ clock = "before" /\ events = 0
  /\ rec = [r \in Recorders |-> "new"]
  /\ gain = [r \in Recorders |-> [pnl |-> 0, date |-> 0]]
  /\ rowsOf = [d \in Days |-> {}]
  /\ peak = [d \in Days |-> 0] /\ moved = [d \in Days |-> 0]
  /\ pc = [t \in Tasks |-> "wait"] /\ seen = [t \in Tasks |-> 0]
  /\ cycleDay = [t \in Tasks |-> 0] /\ amount = [t \in Tasks |-> 0]
  /\ todo = {}
  /\ cooling \in BOOLEAN       \* _last_transfer_ts = 0: the machine may be up 10 minutes
  /\ cycles = [t \in Tasks |-> [d \in Days |-> 0]] /\ swallowed = cycles
  /\ burst = 0 /\ overlap = FALSE

-----------------------------------------------------------------------------
(* DailyPnLTracker.record: a SELECT, then an UPDATE or an INSERT. *)

Highest(d) == peak' = [peak EXCEPT ![d] = IF Total(d)' > @ THEN Total(d)' ELSE @]

Look(r, g) ==
  /\ rec[r] = "new"
  /\ gain' = [gain EXCEPT ![r] = [pnl |-> g, date |-> day]]
  /\ rec' = [rec EXCEPT ![r] = IF rowsOf[day] = {} THEN "insert" ELSE "update"]
  /\ UNCHANGED <<day, clock, rowsOf, peak, loops, account, events>>

\* No UNIQUE constraint: two of them may insert a row for one date and strategy.
Insert(r) ==
  /\ rec[r] = "insert"
  /\ rec' = [rec EXCEPT ![r] = "done"]
  /\ rowsOf' = [rowsOf EXCEPT ![gain[r].date] = @ \cup {{r}}]
  /\ gain' = gain /\ Highest(gain[r].date)
  /\ UNCHANGED <<day, clock, loops, account, events>>

\* Mutant: the row takes the new result instead of adding it.
Overwritten(row, r) == {r}

Updated(row, r) == row \cup {r}

Update(r) ==
  /\ rec[r] = "update"
  /\ rec' = [rec EXCEPT ![r] = "done"]
  /\ \E row \in rowsOf[gain[r].date] :
       rowsOf' = [rowsOf EXCEPT ![gain[r].date] = (@ \ {row}) \cup {Updated(row, r)}]
  /\ gain' = gain /\ Highest(gain[r].date)
  /\ UNCHANGED <<day, clock, loops, account, events>>

-----------------------------------------------------------------------------
(* run_loop and _wait_until_daily_cycle. *)

At(t, from, to) == pc[t] = from /\ pc' = [pc EXCEPT ![t] = to]

\* Mutant: the time is compared with the minute before the first sleep too.
ArmAnyTime == clock # "after"

\* A target later today; after 23:55:00 the target is tomorrow's.
MayArm == clock = "before"

Arm(t) ==
  /\ At(t, "wait", "armed") /\ MayArm
  /\ UNCHANGED <<day, clock, table, seen, todo, cycleDay, amount, cycles, swallowed, account, events>>

Begins(t) ==
  /\ cycleDay' = [cycleDay EXCEPT ![t] = day]
  /\ cycles' = [cycles EXCEPT ![t][day] = @ + 1]
  /\ UNCHANGED <<day, clock, table, seen, todo, amount, account>>

\* It wakes within the minute: the summary is awaited.
Start(t) ==
  /\ At(t, "armed", "read") /\ clock = "at"
  /\ Begins(t) /\ UNCHANGED <<swallowed, events>>

\* The task is cancelled while it sleeps: the wait returns as if the time had come, and
\* the cycle starts at any hour.
Woken(t) ==
  /\ At(t, "wait", "read") \/ At(t, "armed", "read")
  /\ Event
  /\ swallowed' = [swallowed EXCEPT ![t][day] = @ + 1]
  /\ Begins(t)

\* It wakes too late: the loop goes on with tomorrow's target.
Miss(t) ==
  /\ At(t, "armed", "wait") /\ clock = "after"
  /\ UNCHANGED <<day, clock, table, seen, todo, cycleDay, amount, cycles, swallowed, account, events>>

\* The summary, or nothing when the query fails.
Summary(t) ==
  /\ At(t, "read", "cycle")
  /\ \E p \in {Total(cycleDay[t]), 0} : seen' = [seen EXCEPT ![t] = p]
  /\ todo' = IF t = Allocator THEN Strategies ELSE todo
  /\ UNCHANGED <<day, clock, table, cycleDay, amount, cycles, swallowed, account, events>>

\* sleep(70) is over, and with it the minute if the cycle started in it.
Rested(t) ==
  /\ At(t, "rest", "wait")
  /\ UNCHANGED <<day, clock, table, seen, todo, cycleDay, amount, cycles, swallowed, account, events>>

\* The loop ends: stop() was called, or the task is cancelled at an await of a cycle.
Ended(t) ==
  /\ \E from \in {"wait", "armed", "read", "cycle", "rest"} : At(t, from, "ended")
  /\ Event
  /\ seen' = [seen EXCEPT ![t] = 0]
  /\ todo' = IF t = Allocator THEN {} ELSE todo
  /\ UNCHANGED <<day, clock, table, cycleDay, amount, cycles, swallowed, account>>

-----------------------------------------------------------------------------
(* The decisions of a cycle. *)

\* Mutant: the whole profit is taken for each strategy.
WholeProfit(p) == p

Excess(p) == (p * SharePct) \div 100

Takes(s, p) == p > 0 /\ p * 100 >= Equity * TakePct[s]

SweepAmount(p) == (p * 100 - Equity * SweepPct) \div 200   \* sweep_fraction 0.5

Sweeps(p) == p > 0 /\ SweepAmount(p) > 0 /\ SweepAmount(p) >= MinSweep

TakeProfit(s) ==
  /\ At(Allocator, "cycle", "moving") /\ s \in todo
  /\ Takes(s, seen[Allocator])
  /\ todo' = todo \ {s}
  /\ amount' = [amount EXCEPT ![Allocator] = Excess(seen[Allocator])]
  /\ UNCHANGED <<day, clock, table, seen, cycleDay, cycles, swallowed, account, events>>

Hold(s) ==
  /\ pc[Allocator] = "cycle" /\ s \in todo
  /\ ~Takes(s, seen[Allocator])
  /\ todo' = todo \ {s}
  /\ UNCHANGED <<day, clock, table, pc, seen, cycleDay, amount, cycles, swallowed, account, events>>

AllocatorEnds ==
  /\ At(Allocator, "cycle", "rest") /\ todo = {}
  /\ seen' = [seen EXCEPT ![Allocator] = 0]
  /\ UNCHANGED <<day, clock, table, todo, cycleDay, amount, cycles, swallowed, account, events>>

Sweep ==
  /\ At(Manager, "cycle", "moving")
  /\ Sweeps(seen[Manager])
  /\ amount' = [amount EXCEPT ![Manager] = SweepAmount(seen[Manager])]
  /\ UNCHANGED <<day, clock, table, seen, todo, cycleDay, cycles, swallowed, account, events>>

NoSweep ==
  /\ At(Manager, "cycle", "rest") /\ ~Sweeps(seen[Manager])
  /\ seen' = [seen EXCEPT ![Manager] = 0]
  /\ UNCHANGED <<day, clock, table, todo, cycleDay, amount, cycles, swallowed, account, events>>

-----------------------------------------------------------------------------
(* InternalTransferManager._transfer. *)

\* The call returns: False and True are the same to both callers.
Return(t) ==
  /\ pc' = [pc EXCEPT ![t] = IF t = Allocator THEN "cycle" ELSE "rest"]
  /\ amount' = [amount EXCEPT ![t] = 0]
  /\ seen' = [seen EXCEPT ![t] = IF t = Allocator THEN @ ELSE 0]

\* Mutant: the cooldown is not looked at.
AlwaysAllowed(t) == amount[t] >= MinTransfer

Allowed(t) == amount[t] >= MinTransfer /\ ~cooling

Skip(t) ==
  /\ pc[t] = "moving" /\ ~Allowed(t)
  /\ Return(t)
  /\ UNCHANGED <<day, clock, table, todo, cycleDay, cycles, swallowed, account, events>>

\* The row is written and the worker thread calls the exchange.
Send(t) ==
  /\ At(t, "moving", "sent") /\ Allowed(t)
  /\ overlap' = (overlap \/ \E u \in Tasks \ {t} : pc[u] = "sent")
  /\ UNCHANGED <<day, clock, table, seen, todo, cycleDay, amount, cycles, swallowed, cooling, moved, burst, events>>

Completed(t) ==
  /\ pc[t] = "sent"
  /\ Return(t)
  /\ cooling' = TRUE
  /\ burst' = burst + 1
  /\ moved' = [moved EXCEPT ![cycleDay[t]] = @ + amount[t]]
  /\ UNCHANGED <<day, clock, table, todo, cycleDay, cycles, swallowed, overlap, events>>

\* It raises: nothing was moved, or the answer was lost.  No cooldown begins.
Failed(t, a) ==
  /\ pc[t] = "sent" /\ a \in {0, amount[t]}
  /\ Return(t)
  /\ moved' = [moved EXCEPT ![cycleDay[t]] = @ + a]
  /\ UNCHANGED <<day, clock, table, todo, cycleDay, cycles, swallowed, cooling, burst, overlap, events>>

\* The task is cancelled while the worker thread talks to the exchange, which may still
\* make the transfer: the row stays pending, no cooldown begins, and the loop ends.
SendCancelled(t, a) ==
  /\ At(t, "sent", "ended") /\ a \in {0, amount[t]}
  /\ Event
  /\ amount' = [amount EXCEPT ![t] = 0]
  /\ moved' = [moved EXCEPT ![cycleDay[t]] = @ + a]
  /\ seen' = [seen EXCEPT ![t] = 0]
  /\ todo' = IF t = Allocator THEN {} ELSE todo
  /\ UNCHANGED <<day, clock, table, cycleDay, cycles, swallowed, cooling, burst, overlap>>

-----------------------------------------------------------------------------
Cool ==
  /\ cooling
  /\ cooling' = FALSE /\ burst' = 0
  /\ overlap' = \E t \in Tasks : pc[t] = "sent"
  /\ UNCHANGED <<day, clock, table, loops, moved, events>>

Tick ==
  /\ \/ clock = "before" /\ clock' = "at" /\ UNCHANGED <<day, events>>
     \/ clock = "at" /\ clock' = "after" /\ UNCHANGED <<day, events>>
     \/ clock = "after" /\ clock' = "before" /\ day' = day + 1 /\ Event
  /\ UNCHANGED <<table, loops, account>>

\* The process dies; a transfer on its way may or may not be made.
Restart ==
  /\ Event
  /\ \E S \in SUBSET {t \in Tasks : pc[t] = "sent"} :
       moved' = [d \in Days |-> moved[d] +
                   MapThenSumSet(LAMBDA t : amount[t], {t \in S : cycleDay[t] = d})]
  /\ pc' = [t \in Tasks |-> "wait"] /\ amount' = [t \in Tasks |-> 0]
  /\ todo' = {} /\ cooling' \in BOOLEAN
  /\ burst' = 0 /\ overlap' = FALSE
  /\ seen' = [t \in Tasks |-> 0]
  /\ UNCHANGED <<day, clock, table, cycleDay, cycles, swallowed>>

Next ==
  \/ \E r \in Recorders : (\E g \in Gains : Look(r, g)) \/ Insert(r) \/ Update(r)
  \/ \E t \in Tasks :
       \/ Arm(t) \/ Start(t) \/ Woken(t) \/ Miss(t) \/ Summary(t) \/ Rested(t) \/ Ended(t)
       \/ Skip(t) \/ Send(t) \/ Completed(t)
       \/ \E a \in {0, amount[t]} : Failed(t, a) \/ SendCancelled(t, a)
  \/ \E s \in Strategies : TakeProfit(s) \/ Hold(s)
  \/ AllocatorEnds \/ Sweep \/ NoSweep
  \/ Cool \/ Tick \/ Restart

Spec == Init /\ [][Next]_vars

-----------------------------------------------------------------------------
(* Properties. *)

\* Every variable keeps to the values the code can give it (type invariant).
TypeOK ==
  /\ day \in Days /\ clock \in {"before", "at", "after"}
  /\ rec \in [Recorders -> {"new", "insert", "update", "done"}]
  /\ gain \in [Recorders -> [pnl : Int, date : Days]]
  /\ \A d \in Days : rowsOf[d] \subseteq SUBSET Recorders /\ moved[d] \in Nat
  /\ pc \in [Tasks -> {"wait", "armed", "read", "cycle", "moving", "sent", "rest", "ended"}]
  /\ seen \in [Tasks -> Int] /\ todo \subseteq Strategies
  /\ cycleDay \in [Tasks -> Days] /\ amount \in [Tasks -> Nat]
  /\ cooling \in BOOLEAN /\ burst \in Nat

\* However record() calls race, the day's total is the sum of the results recorded.
NothingLost ==
  \A d \in Days :
    Total(d) = MapThenSumSet(LAMBDA r : gain[r].pnl,
                             {r \in Recorders : rec[r] = "done" /\ gain[r].date = d})

\* However often a day's cycles run, each of them moves half of that day's highest profit
\* at most, across restarts, cancellations and lost answers: with one cycle of each task
\* no more than the profit goes to the spot wallet, with more of them it may.
MovedWithinProfit ==
  \A d \in Days : 2 * moved[d] <= (cycles[Allocator][d] + cycles[Manager][d]) * peak[d]

\* A day has one cycle of each task at most, even when the process restarts within the
\* minute, besides those that a cancellation swallowed by its wait starts.
OneCyclePerDay == \A t \in Tasks, d \in Days : cycles[t][d] <= 1 + swallowed[t][d]

\* Two transfers complete within one cooldown only if the second was let through
\* while the first was on its way.
CooldownUnlessOverlap == burst > 1 => overlap
=============================================================================
