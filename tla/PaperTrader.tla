---------------------------- MODULE PaperTrader ----------------------------
(***************************************************************************)
(* The paper trader of scripts/run_paper.py: execution/paper_trader.py     *)
(* over the allocator of risk/multi_pair_allocator.py.                     *)
(*                                                                         *)
(* The websocket task fills a queue and halts the trader when it overflows; *)
(* the consumer takes a tick at a time and awaits the simulated latency of *)
(* an order.  The notifier, where one is configured, is a TelegramNotifier, *)
(* which has none of the methods that are called here: each call raises    *)
(* before it awaits anything.  What the signal says, the other gates of    *)
(* the allocator and the moves of the price are choices; the price is that *)
(* of the spread and a position is of one unit.                            *)
(***************************************************************************)
EXTENDS Drawdown

CONSTANTS
  Prices,         \* prices of the spread
  Fee,            \* of a simulated fill of both legs
  DailyLimit,     \* capital_usdt * max_daily_drawdown
  Room,           \* queue_maxsize
  DropThreshold,  \* queue_drop_halt_threshold
  Warmup,         \* min_warmup_bars
  MaxPairs,       \* max_concurrent_pairs
  MaxTrades       \* bound: positions opened

VARIABLES
  notifier,  \* whether there is a _notifier
  state,     \* _state
  at,        \* where the consumer is
  reason,    \* of the close in progress
  queue,     \* ticks in _queue
  drops,     \* _queue_drops
  warming,   \* _warming_bars
  price,     \* the last tick
  position,  \* the entry fields: side and price, or None
  daily,     \* _daily_pnl
  realised,  \* _realized_pnl
  fees,      \* _total_fees
  dd,        \* the allocator's DrawdownController
  taken,     \* keys of _active_pairs and of the positions of PortfolioRisk
  nPairs,    \* _n_pairs
  trades,    \* history: positions opened
  gross,     \* history: what closed positions made before fees
  peak,      \* history: the most capital, realised and open PnL have been
  blind      \* history: an overflow or an error halted the trader

feed     == <<queue, drops>>
book     == <<dd, taken, nPairs>>
accounts == <<daily, realised, fees>>
history  == <<trades, gross, peak, blind>>
vars == <<notifier, state, at, reason, feed, warming, price, position, accounts, book, history>>

Trading == {"ACTIVE", "IN_POSITION"}

Init ==
  /\ notifier \in BOOLEAN
  /\ state = "IDLE" /\ at = "new" /\ reason = None
  /\ queue = 0 /\ drops = 0 /\ warming = 0
  /\ price \in Prices /\ position = None
  /\ daily = 0 /\ realised = 0 /\ fees = 0
  /\ dd = Fresh /\ taken = FALSE /\ nPairs = 0
  /\ trades = 0 /\ gross = 0 /\ peak = Capital /\ blind = FALSE

Run ==
  /\ at = "new"
  /\ at' = "get" /\ state' = "WARMING_UP"
  /\ UNCHANGED <<notifier, reason, feed, warming, price, position, accounts, book, history>>

-----------------------------------------------------------------------------
(* _enqueue. *)

Runs == at \notin {"new", "gone"}

Queued ==
  /\ Runs /\ queue < Room
  /\ queue' = queue + 1 /\ drops' = 0
  /\ UNCHANGED <<notifier, state, at, reason, warming, price, position, accounts, book, history>>

\* Drops are counted to the threshold, above which each of them halts again.  What the
\* notifier raises then, the websocket's loop catches and connects anew.
Dropped ==
  /\ Runs /\ queue = Room
  /\ drops' = IF drops < DropThreshold THEN drops + 1 ELSE drops
  /\ IF drops' >= DropThreshold
       THEN state' = "HALTED" /\ blind' = TRUE
       ELSE UNCHANGED <<state, blind>>
  /\ UNCHANGED <<notifier, queue, at, reason, warming, price, position, accounts, book, trades,
                 gross, peak>>

-----------------------------------------------------------------------------
(* _consumer and _on_tick. *)

\* The test of the consumer's loop, which follows every tick.
NextTick(s) == at' = IF s = "HALTED" THEN "over" ELSE "get"

\* An exception leaves the consumer: run() halts the trader and ends.
Raised == at' = "over" /\ state' = "HALTED" /\ blind' = TRUE

Take == at = "get" /\ queue > 0 /\ queue' = queue - 1

\* A tick before both legs have a price, in no state to trade, or without a signal.
Ignore ==
  /\ Take
  /\ NextTick(state)
  /\ UNCHANGED <<notifier, state, reason, drops, warming, price, position, accounts, book, history>>

WarmUp ==
  /\ Take /\ state = "WARMING_UP"
  /\ warming' = warming + 1
  /\ state' = IF warming' >= Warmup THEN "ACTIVE" ELSE state
  /\ UNCHANGED <<notifier, at, reason, drops, price, position, accounts, book, history>>

\* The signal generator or the allocator raises.
Fatal ==
  /\ Take /\ state \in Trading
  /\ Raised
  /\ UNCHANGED <<notifier, reason, drops, warming, price, position, accounts, book, trades,
                 gross, peak>>

Worth(p) == IF position = None THEN 0 ELSE position.side * (p - position.entry)

\* _compute_open_pnl, as _on_tick uses it.
OpenPnl(p) == IF state = "IN_POSITION" THEN Worth(p) ELSE 0

\* What a tick does before it decides, the day's reset, and what no decision changes.
Seen(p, newDay) ==
  /\ Take /\ state \in Trading
  /\ price' = p
  /\ daily' = IF newDay THEN 0 ELSE daily
  /\ peak' = Larger(peak, Capital + realised + Worth(p))
  /\ UNCHANGED <<notifier, drops, warming, position, realised, fees, gross>>

After(p) == Updated(dd, OpenPnl(p))

Stops(p)  == After(p).level = "HARD_STOP"
Forced(p) == state = "IN_POSITION" /\ ForcesClose(dd, OpenPnl(p))

\* Mutant: HALTED is set before the position is closed, which then returns at once.
HaltsFirst == FALSE

\* The test _close_position begins with.
Closable == state = "IN_POSITION"

\* _close_position as far as its latency.
Closes(why) == at' = "closing" /\ reason' = why /\ UNCHANGED <<state, blind>>

HardStop(p, newDay) ==
  /\ Seen(p, newDay) /\ Stops(p)
  /\ dd' = After(p)
  /\ IF notifier
       THEN Raised /\ UNCHANGED reason
       ELSE \/ Closable /\ Closes("HARD_STOP")
            \/ ~Closable /\ at' = "over" /\ state' = "HALTED" /\ UNCHANGED <<reason, blind>>
  /\ UNCHANGED <<taken, nPairs, trades>>

PairStop(p, newDay) ==
  /\ Seen(p, newDay) /\ ~Stops(p) /\ Forced(p)
  /\ dd' = After(p)
  /\ IF notifier THEN Raised /\ UNCHANGED reason ELSE Closes("PAIR_DD")
  /\ UNCHANGED <<taken, nPairs, trades>>

Undisturbed(p, newDay) == Seen(p, newDay) /\ ~Stops(p) /\ ~Forced(p)

Hold(p, newDay) ==
  /\ Undisturbed(p, newDay)
  /\ dd' = After(p)
  /\ UNCHANGED <<state, at, reason, taken, nPairs, trades, blind>>

ExitSignal(p, newDay) ==
  /\ Undisturbed(p, newDay) /\ state = "IN_POSITION"
  /\ dd' = After(p)
  /\ Closes("signal")
  /\ UNCHANGED <<taken, nPairs, trades>>

MayEnter == state = "ACTIVE"

\* The day's result is compared without its sign.
DayIsOver(d) == Size(d) >= DailyLimit

\* HALTED is set before the notifier is called.
DailyHalt(p, newDay) ==
  /\ Undisturbed(p, newDay) /\ MayEnter /\ DayIsOver(daily')
  /\ dd' = After(p)
  /\ state' = "HALTED" /\ at' = "over" /\ blind' = (blind \/ notifier)
  /\ UNCHANGED <<reason, taken, nPairs, trades>>

\* request_entry allows it: all structures are written at once.
EntrySignal(p, newDay) ==
  /\ Undisturbed(p, newDay) /\ MayEnter /\ ~DayIsOver(daily')
  /\ CanOpenNew(After(p)) /\ nPairs < MaxPairs
  /\ trades < MaxTrades
  /\ dd' = Opened(After(p))
  /\ taken' = TRUE /\ nPairs' = nPairs + 1
  /\ at' = "opening"
  /\ trades' = trades + 1
  /\ UNCHANGED <<state, reason, blind>>

-----------------------------------------------------------------------------
(* _open_position and _close_position after the latency: both legs fill at *)
(* the last tick's price.  A HALTED of an overflow meanwhile is overwritten. *)

Entered ==
  /\ at = "opening"
  /\ \E side \in {-1, 1} : position' = [side |-> side, entry |-> price]
  /\ fees' = fees + Fee
  /\ IF notifier THEN Raised ELSE state' = "IN_POSITION" /\ at' = "get" /\ UNCHANGED blind
  /\ UNCHANGED <<notifier, reason, feed, warming, price, daily, realised, book, trades, gross, peak>>

NetPnl == Worth(price) - 2 * Fee

\* Mutant: the exit leaves the count of pairs to the next entry.
KeepsCount == nPairs

OneLess == IF nPairs > 0 THEN nPairs - 1 ELSE 0

\* record_exit, then ACTIVE; the hard stop halts behind it.
Recorded ==
  /\ dd' = ClosedPair(dd)
  /\ taken' = FALSE
  /\ nPairs' = OneLess
  /\ position' = None
  /\ state' = IF reason = "HARD_STOP" THEN "HALTED" ELSE "ACTIVE"
  /\ reason' = None
  /\ NextTick(state')

\* The PnL is booked before the notifier is called, the exit recorded behind it.
Exited ==
  /\ at = "closing"
  /\ daily' = daily + NetPnl
  /\ realised' = realised + NetPnl
  /\ fees' = fees + Fee
  /\ gross' = gross + Worth(price)
  /\ IF notifier THEN Raised /\ UNCHANGED <<reason, position, book>> ELSE Recorded /\ UNCHANGED blind
  /\ UNCHANGED <<notifier, feed, warming, price, trades, peak>>

\* Shutdown: the tasks of run() are cancelled where they are.
Cancel ==
  /\ Runs
  /\ at' = "gone"
  /\ UNCHANGED <<notifier, state, reason, feed, warming, price, position, accounts, book, history>>

-----------------------------------------------------------------------------
Next ==
  \/ Run \/ Queued \/ Dropped \/ Ignore \/ WarmUp \/ Fatal
  \/ \E p \in Prices, newDay \in BOOLEAN :
       \/ HardStop(p, newDay) \/ PairStop(p, newDay) \/ Hold(p, newDay)
       \/ ExitSignal(p, newDay) \/ DailyHalt(p, newDay) \/ EntrySignal(p, newDay)
  \/ Entered \/ Exited \/ Cancel

Spec == Init /\ [][Next]_vars

TypeOK ==
  /\ state \in {"IDLE", "WARMING_UP", "HALTED"} \cup Trading
  /\ at \in {"new", "get", "opening", "closing", "over", "gone"}
  /\ notifier \in BOOLEAN
  /\ reason \in {None, "signal", "PAIR_DD", "HARD_STOP"}
  /\ queue \in 0 .. Room /\ drops \in 0 .. DropThreshold /\ warming \in 0 .. Warmup
  /\ price \in Prices
  /\ position = None \/ (position.side \in {-1, 1} /\ position.entry \in Prices)
  /\ nPairs \in 0 .. MaxPairs /\ taken \in BOOLEAN
  /\ dd.level \in {"NORMAL", "SOFT_LIMIT", "HARD_STOP"}

InFlight == at = "opening" \/ position # None

\* A stop is final: from a hard stop on nothing is entered, also when an order in flight
\* overwrites the HALTED of an overflow and ticks are handled again; and a trader that has
\* stopped by itself holds no position, unless an overflow or an error halted it too.
StopsAreFinal ==
  /\ dd.stopped => at # "opening" /\ ~CanOpenNew(dd)
  /\ at = "over" /\ ~blind => position = None

\* Trader and allocator agree through every halt, and where a call of the notifier ends
\* run() between the books: the pair's slot and exposure are taken exactly while a position
\* is open or being opened, and each fill's fee is in the fee total once and in the PnL of
\* its trade once.  (With a notifier run() ends behind the first entry, so that no exit
\* comes to the call that would part them.)
BooksAgree ==
  Runs =>
    /\ taken = InFlight
    /\ nPairs = IF InFlight THEN 1 ELSE 0
    /\ realised + fees = gross + IF position = None THEN 0 ELSE Fee

\* drawdown_controller.py: the drawdown is taken "against the high-water mark (HWM)" of
\* the equity; a hard stop comes only of a drawdown of what there is.
HardStopMeansDrawdown ==
  [][~dd.stopped /\ dd'.stopped =>
       100 * (peak' - (Capital + realised' + Worth(price'))) >= HardPct * peak']_vars
=============================================================================
