--------------------------- MODULE SignalGenerator ---------------------------
(***************************************************************************)
(* SignalGenerator v4 of strategy/signal.py: the state machine that turns  *)
(* a bar's z-score and gates into an entry, a hold, a partial exit or an   *)
(* exit.  z-scores are integers (tenths, hundredths, ...).                 *)
(*                                                                         *)
(* What the buffers of past spreads and z-scores yield is a choice of the  *)
(* bar: the threshold raised by the volatility rank, and whether the       *)
(* momentum filter blocks an entry.  A half-life is None when unknown.     *)
(***************************************************************************)
EXTENDS Integers

CONSTANTS
  ZScores, Thresholds, HalfLives,  \* of bars; Thresholds are effective ones
  ZExit, ZStop, ZPartial,          \* zscore_exit, zscore_stop, |partial_exit_zscore|
  BaseCooldown,                    \* cooldown_bars
  CooldownMin, CooldownMax,
  TimeStopMin,                     \* 4
  None                             \* unknown half-life, z-score that is not a number

ASSUME SignalAssumption ==
  /\ ZScores \subseteq Int /\ Thresholds \subseteq Nat \ {0}
  /\ HalfLives \subseteq Nat /\ HalfLives # {}
  /\ ZExit \in Nat /\ ZStop \in Nat /\ ZPartial \in Nat
  /\ BaseCooldown \in Nat /\ CooldownMin \in Nat /\ CooldownMax \in Nat
  /\ CooldownMin <= CooldownMax
  /\ TimeStopMin \in Nat
  /\ None \notin Int

VARIABLES
  inTrade,   \* _in_trade
  side,      \* _entry_side; _current_signal says the same
  bars,      \* _bars_in_trade
  cooldown,  \* _cooldown_remaining
  partial,   \* _partial_exit_done
  signal,    \* the signal of the last bar: 1, -1, 0 (exit) or 2 (partial exit)
  owed,      \* history: the cooldown the last exit set
  idle,      \* history: bars the machine was shown since the last exit, until the entry
  age,       \* history: bars of the trade, its partial exit's too
  unknown    \* history: a bar of the trade was held without a half-life

signalVars == <<inTrade, side, bars, cooldown, partial, signal, owed, idle, age, unknown>>

Exit    == 0
Partial == 2

\* What stands against a trade: uncertainty above its maximum, a regime multiplier of 0,
\* a lost cointegration, funding above its threshold, the momentum filter.
Gates == {"open", "uncertain", "broken", "stale", "funding", "momentum"}

\* A bar the generator computes a signal for.  Of several gates only the first counts.
Bars ==
  [z : ZScores, halfLife : HalfLives \cup {None}, threshold : Thresholds, gate : Gates]

SignalInit ==
  /\ inTrade = FALSE /\ side = 0 /\ bars = 0 /\ cooldown = 0 /\ partial = FALSE
  /\ signal = Exit /\ owed = 0 /\ idle = 0 /\ age = 0 /\ unknown = FALSE

Abs(n) == IF n < 0 THEN -n ELSE n

-----------------------------------------------------------------------------
\* Mutant: a cooldown ends with its first bar.
CoolsDownAtOnce ==
  /\ cooldown' = 0 /\ signal' = Exit
  /\ idle' = IF idle < owed THEN idle + 1 ELSE idle
  /\ UNCHANGED <<inTrade, side, bars, partial, owed, age, unknown>>

\* _dynamic_cooldown: half the half-life, rounded up, within its limits.
DynamicCooldown(h) ==
  LET raw == (h + 1) \div 2 IN
  IF h = None THEN BaseCooldown
  ELSE IF raw < CooldownMin THEN CooldownMin
  ELSE IF raw > CooldownMax THEN CooldownMax ELSE raw

TimeStop(h) == IF 2 * h > TimeStopMin THEN 2 * h ELSE TimeStopMin

\* Mutant: after its partial exit a trade is not timed.
TimeDueBeforePartial(b) == ~partial /\ b.halfLife # None /\ bars > TimeStop(b.halfLife)

TimeDue(b) == b.halfLife # None /\ bars > TimeStop(b.halfLife)

-----------------------------------------------------------------------------
(* _enter, _exit, _exit_if_needed and what the other outcomes of a bar change. *)

Enters(s) ==
  /\ inTrade' = TRUE /\ side' = s /\ bars' = 1 /\ partial' = FALSE /\ signal' = s
  /\ age' = 1 /\ unknown' = FALSE
  /\ UNCHANGED <<cooldown, owed, idle>>

\* Also when there is no trade: a hard stop renews the cooldown.
Exits(b) ==
  /\ inTrade' = FALSE /\ side' = 0 /\ bars' = 0 /\ partial' = FALSE /\ signal' = Exit
  /\ cooldown' = DynamicCooldown(b.halfLife) /\ owed' = cooldown' /\ idle' = 0
  /\ age' = 0 /\ unknown' = FALSE

Waits ==
  /\ signal' = Exit
  /\ idle' = IF idle < owed THEN idle + 1 ELSE idle
  /\ UNCHANGED <<inTrade, side, bars, partial, owed, age, unknown>>

NoEntry == Waits /\ UNCHANGED cooldown

CoolsDown == Waits /\ cooldown' = cooldown - 1

ExitsIfNeeded(b) == IF inTrade THEN Exits(b) ELSE NoEntry

PartialExits ==
  /\ partial' = TRUE /\ signal' = Partial /\ age' = age + 1
  /\ UNCHANGED <<inTrade, side, bars, cooldown, owed, idle, unknown>>

Holds(b) ==
  /\ bars' = bars + 1 /\ signal' = side /\ age' = age + 1
  /\ unknown' = (unknown \/ b.halfLife = None)
  /\ UNCHANGED <<inTrade, side, cooldown, partial, owed, idle>>

-----------------------------------------------------------------------------
CrossedZero(z) == (side = 1 /\ z >= -ZPartial) \/ (side = -1 /\ z <= ZPartial)

EntrySide(b) ==
  IF b.z <= -b.threshold THEN 1 ELSE IF b.z >= b.threshold THEN -1 ELSE 0

MayEnter(b) == b.gate \notin {"funding", "momentum"} /\ EntrySide(b) # 0

\* _compute_signal, in the order of its early returns.
ComputeSignal(b) ==
  IF b.gate \in {"uncertain", "broken"} THEN ExitsIfNeeded(b)
  ELSE IF b.gate = "stale" /\ ~inTrade THEN NoEntry
  ELSE IF Abs(b.z) >= ZStop \/ (inTrade /\ TimeDue(b)) THEN Exits(b)
  ELSE IF inTrade /\ ~partial /\ CrossedZero(b.z) THEN PartialExits
  ELSE IF inTrade /\ Abs(b.z) <= ZExit THEN Exits(b)
  ELSE IF cooldown > 0 THEN CoolsDown
  ELSE IF inTrade THEN Holds(b)
  ELSE IF MayEnter(b) THEN Enters(EntrySide(b))
  ELSE NoEntry

\* _reset_trade_state.
ResetTradeState ==
  /\ inTrade' = FALSE /\ side' = 0 /\ bars' = 0 /\ cooldown' = 0 /\ partial' = FALSE
  /\ signal' = Exit /\ owed' = 0 /\ idle' = 0 /\ age' = 0 /\ unknown' = FALSE

\* A row before the estimator is warm, or without a z-score, keeps the exit it was
\* allocated with.
NotComputed ==
  /\ signal' = Exit
  /\ UNCHANGED <<inTrade, side, bars, cooldown, partial, owed, idle, age, unknown>>
=============================================================================
