------------------------------ MODULE Drawdown ------------------------------
(***************************************************************************)
(* The drawdown controller of the portfolio allocator, for one pair:       *)
(* risk/drawdown_controller.py.  Percentages are compared without division. *)
(***************************************************************************)
EXTENDS Integers

CONSTANTS
  Capital,  \* capital_usd
  PairPct,  \* pair_soft_dd
  SoftPct,  \* portfolio_soft_dd
  HardPct,  \* portfolio_hard_dd
  None

Fresh ==
  [equity |-> Capital, hwm |-> Capital, level |-> "NORMAL", stopped |-> FALSE, pair |-> None]

Larger(a, b) == IF a > b THEN a ELSE b
Size(a)      == IF a < 0 THEN -a ELSE a

\* open_pair: the equity of the last update is the pair's reference.
Opened(d) == [d EXCEPT !.pair = [snapshot |-> d.equity, best |-> 0]]

ClosedPair(d) == [d EXCEPT !.pair = None]

\* update registers a pair it does not know and keeps the best open PnL.
Marked(d, pnl) ==
  LET known == IF d.pair = None THEN Opened(d) ELSE d
  IN  [known EXCEPT !.pair.best = Larger(@, pnl)]

\* Level 1, for a pair just marked.
PairBreach(d, pnl) ==
  IF d.pair.best > 0
    THEN 100 * (d.pair.best - pnl) >= PairPct * (d.pair.snapshot + d.pair.best)
    ELSE 100 * Size(pnl) >= PairPct * d.pair.snapshot

Lost(d, pct) == 100 * (d.hwm - d.equity) >= pct * d.hwm

\* The equity is the capital and the open PnL: what was realised is not in it.
Valued(d, pnl) ==
  [d EXCEPT !.equity = Capital + pnl, !.hwm = Larger(@, Capital + pnl)]

Levelled(d) ==
  CASE Lost(d, HardPct) -> [d EXCEPT !.level = "HARD_STOP", !.stopped = TRUE]
    [] Lost(d, SoftPct) /\ ~Lost(d, HardPct) -> [d EXCEPT !.level = "SOFT_LIMIT"]
    [] ~Lost(d, SoftPct) /\ d.stopped -> d
    [] OTHER -> [d EXCEPT !.level = "NORMAL"]

Updated(d, pnl) == Levelled(Valued(Marked(d, pnl), pnl))

\* pairs_force_close of the snapshot.
ForcesClose(d, pnl) ==
  PairBreach(Marked(d, pnl), pnl) \/ Lost(Valued(d, pnl), HardPct)

CanOpenNew(d) == d.level = "NORMAL"
=============================================================================
