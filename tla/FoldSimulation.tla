--------------------------- MODULE FoldSimulation ---------------------------
(***************************************************************************)
(* A fold of WalkForwardEngine (backtest/engine.py): _simulate_trades      *)
(* keeps its own trade from the signals the generator left in the rows.    *)
(* The rows are computed before the simulation reads them; as it reads     *)
(* only the row it has come to, the model goes through both at once.       *)
(*                                                                         *)
(* What a trade earns decides the size of later ones only: that a position *)
(* is too small to open is a choice.                                       *)
(***************************************************************************)
EXTENDS SignalGenerator

CONSTANT MaxBars   \* bound: a bar beyond it has a half-life

ASSUME FoldAssumption == MaxBars \in Nat

VARIABLES
  entry,    \* side of entry_data, 0 while not in_trade
  done,     \* partial_exit_done
  astray    \* history: the simulation missed an entry or left a trade the generator is in

foldVars == <<entry, done, astray>>
vars == <<signalVars, foldVars>>

Init == SignalInit /\ entry = 0 /\ done = FALSE /\ astray = FALSE

Sides == {-1, 1}

-----------------------------------------------------------------------------
\* Mutant: a partial exit closes the trade.
PartialCloses(s, small) ==
  IF s = Exit \/ s = Partial THEN entry' = 0 /\ done' = FALSE
  ELSE IF entry = 0 /\ ~small THEN entry' = s /\ done' = FALSE
  ELSE UNCHANGED <<entry, done>>

\* A row with signal s; small: the position would be below min_position_usd.
SimulateRow(s, small) ==
  IF entry = 0 /\ s \in Sides /\ ~small THEN entry' = s /\ done' = FALSE
  ELSE IF entry # 0 /\ s = Partial THEN done' = TRUE /\ UNCHANGED entry
  ELSE IF s = Exit THEN entry' = 0 /\ done' = FALSE
  ELSE UNCHANGED <<entry, done>>

Row(b, small) ==
  /\ bars < MaxBars \/ b.halfLife # None
  /\ ComputeSignal(b)
  /\ SimulateRow(signal', small)
  /\ astray' = (inTrade' /\ (astray \/ (entry = 0 /\ small)))

\* is_warm is false: the simulation goes past the row as well.
ColdRow == NotComputed /\ UNCHANGED foldVars

\* The z-score is not a number: the simulation takes the row's exit for one.
BlankRow ==
  /\ NotComputed
  /\ SimulateRow(signal', FALSE)
  /\ astray' = inTrade

\* A trade left over is closed as fold_end; the next fold has its own generator.
NextFold == ResetTradeState /\ entry' = 0 /\ done' = FALSE /\ astray' = FALSE

-----------------------------------------------------------------------------
Next ==
  \/ \E b \in Bars, small \in BOOLEAN : Row(b, small)
  \/ ColdRow \/ BlankRow \/ NextFold

Spec == Init /\ [][Next]_vars

TypeOK ==
  /\ inTrade \in BOOLEAN /\ side \in {-1, 0, 1} /\ bars \in Nat /\ cooldown \in Nat
  /\ partial \in BOOLEAN /\ signal \in {-1, Exit, 1, Partial}
  /\ owed \in Nat /\ idle \in Nat /\ age \in Nat /\ unknown \in BOOLEAN
  /\ entry \in {-1, 0, 1} /\ done \in BOOLEAN /\ astray \in BOOLEAN

\* Between an exit and the next entry the generator is shown at least as many bars as the
\* cooldown that exit set, whichever gates turned those bars down, and a trade has no
\* cooldown that would keep it from being held and timed.
PauseAfterExit == inTrade => cooldown = 0 /\ idle >= owed

\* A trade held with known half-lives ends with its time stop: it never has more bars than
\* the longest stop and one, or one more for the bar of its partial exit.
TradesTimeOut ==
  inTrade /\ ~unknown =>
    \E h \in HalfLives : age <= TimeStop(h) + 1 + (IF partial THEN 1 ELSE 0)

\* The simulation never holds what the generator does not; unless it missed the entry or
\* a row had no z-score, it holds what the generator does, partly closed when that is.
FoldFollowsSignals ==
  /\ entry # 0 => inTrade /\ entry = side
  /\ ~astray => entry = side /\ (done <=> partial)
=============================================================================
